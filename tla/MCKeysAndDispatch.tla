-------------------------- MODULE MCKeysAndDispatch --------------------------
(* IdempotencyKeys, OperationDispatch and AutoDeployLease for TLC.  They share *)
(* no state, so one run checks one of these parts, chosen when it begins.      *)
(* Requests of the protocols that use any have the same names: one set of      *)
(* permutations serves all parts.                                              *)
EXTENDS MCIdempotencyKeys, OperationDispatch, AutoDeployLease

CONSTANTS t1, t2, t3, x, y, h1, h2

VARIABLE part

ResourceOfTask == [t \in Task |-> IF t = t3 THEN y ELSE x]
RequestedByHolder == [h \in Holder |-> IF h = h1 THEN 0 ELSE 9]

\* What a part starts from where it has a choice; the others have none.
MCInit ==
    /\ Init /\ DispatchInit /\ LeaseInit
    /\ part \in {"keys", "dispatch", "lease"}
    /\ part # "keys" => durable
    /\ \A c \in LeaseCall : call[c].holder = h1

MCNext ==
    /\ UNCHANGED part
    /\ \/ part = "keys" /\ Next /\ UNCHANGED <<dispatchVars, leaseVars>>
       \/ part = "dispatch" /\ DispatchNext /\ UNCHANGED <<vars, leaseVars>>
       \/ part = "lease" /\ LeaseNext /\ UNCHANGED <<vars, dispatchVars>>

MCSpec == MCInit /\ [][MCNext]_<<part, vars, dispatchVars, leaseVars>>

\* Keys, operations, polls, leases and their requests keep their types.
PartsTypeOK == TypeOK /\ DispatchTypeOK /\ LeaseTypeOK
=============================================================================
