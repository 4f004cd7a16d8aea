--------------------------- MODULE AutoDeployLease ---------------------------
(***************************************************************************)
(* The lease that elects the worker which starts automatic deploys in an   *)
(* environment.  AcquireAutoDeployLease updates the lease if its caller    *)
(* holds it or it ran out, else inserts it, then reads it back; these are  *)
(* three database calls, all with the time at which the request started.   *)
(*                                                                         *)
(* Time is relative: left is the time until expiresAt, age the time since  *)
(* the request started, believes what is left of the last granted answer.  *)
(***************************************************************************)
EXTENDS Integers

CONSTANTS Holder,        \* workers that ask for the lease
          LeaseCall,     \* requests
          NoHolder,      \* the lease does not exist
          RequestedTTL,  \* the ttlSeconds each worker asks for
          MinLeaseTTL, DefaultLeaseTTL, MaxLeaseTTL,
          LeaseTimeout   \* DBTimeout

\* normalizeAutoDeployLeaseTTL
LeaseTTL(h) ==
    LET ttl == IF RequestedTTL[h] <= 0 THEN DefaultLeaseTTL ELSE RequestedTTL[h]
    IN IF ttl < MinLeaseTTL THEN MinLeaseTTL ELSE IF ttl > MaxLeaseTTL THEN MaxLeaseTTL ELSE ttl

ASSUME LeaseAssumption ==
    /\ RequestedTTL \in [Holder -> Int]
    /\ {MinLeaseTTL, DefaultLeaseTTL, MaxLeaseTTL, LeaseTimeout} \subseteq Nat
    /\ LeaseTimeout < MinLeaseTTL
    /\ MinLeaseTTL <= DefaultLeaseTTL /\ DefaultLeaseTTL <= MaxLeaseTTL
    /\ NoHolder \notin Holder

VARIABLES
    lease,      \* the lease document
    call,       \* the requests
    believes,   \* how long each worker believes to hold the lease
    overlapped  \* history: workers that had two requests under way at once

leaseVars == <<lease, call, believes, overlapped>>
-----------------------------------------------------------------------------
Lease == [holder : Holder \cup {NoHolder}, left : (- LeaseTimeout) .. MaxLeaseTTL]
Call  == [pc : {"idle", "update", "insert", "read"}, holder : Holder,
          age : 0 .. LeaseTimeout, granted : BOOLEAN]

LeaseTypeOK ==
    /\ lease \in Lease
    /\ call \in [LeaseCall -> Call]
    /\ believes \in [Holder -> 0 .. MaxLeaseTTL]
    /\ overlapped \subseteq Holder

LeaseInit ==
    /\ lease = [holder |-> NoHolder, left |-> 0]
    /\ call \in {[c \in LeaseCall |-> [pc |-> "idle", holder |-> h, age |-> 0, granted |-> FALSE]]
                   : h \in Holder}
    /\ believes = [h \in Holder |-> 0]
    /\ overlapped = {}

InFlight(h) == {c \in LeaseCall : call[c].pc # "idle" /\ call[c].holder = h}

EndCall(c) == call' = [call EXCEPT ![c].pc = "idle", ![c].age = 0, ![c].granted = FALSE]

BeginCall(c, h) ==
    /\ call[c].pc = "idle"
    /\ call' = [call EXCEPT ![c] = [pc |-> "update", holder |-> h, age |-> 0, granted |-> FALSE]]
    /\ overlapped' = IF InFlight(h) = {} THEN overlapped ELSE overlapped \cup {h}
    /\ UNCHANGED <<lease, believes>>

\* Mutated form: the holder's own lease is not the only one that matches.
MayTake_Anyone(c) == lease.holder # NoHolder

\* The filter of the update, with the time of the request.
MayTake(c) ==
    /\ lease.holder # NoHolder
    /\ lease.holder = call[c].holder \/ lease.left + call[c].age <= 0

Grant(c) ==
    /\ lease' = [holder |-> call[c].holder, left |-> LeaseTTL(call[c].holder) - call[c].age]
    /\ call' = [call EXCEPT ![c].pc = "read", ![c].granted = TRUE]

UpdateLease(c) ==
    /\ call[c].pc = "update"
    /\ \/ MayTake(c) /\ Grant(c)
       \/ ~ MayTake(c) /\ call' = [call EXCEPT ![c].pc = "insert"] /\ UNCHANGED lease
    /\ UNCHANGED <<believes, overlapped>>

\* A duplicate key is no error: the lease is read instead.
InsertLease(c) ==
    /\ call[c].pc = "insert"
    /\ \/ lease.holder = NoHolder /\ Grant(c)
       \/ lease.holder # NoHolder /\ call' = [call EXCEPT ![c].pc = "read"] /\ UNCHANGED lease
    /\ UNCHANGED <<believes, overlapped>>

\* granted || validForHolder
Granted(c) ==
    \/ call[c].granted
    \/ lease.holder = call[c].holder /\ lease.left + call[c].age > 0

\* The answer carries the lease that was read back; it may not arrive.
ReadLease(c) ==
    /\ call[c].pc = "read"
    /\ EndCall(c)
    /\ \/ believes' = [believes EXCEPT
                         ![call[c].holder] = IF Granted(c) /\ lease.left > 0 THEN lease.left ELSE 0]
       \/ UNCHANGED believes
    /\ UNCHANGED <<lease, overlapped>>

\* A database error or the timeout.
FailCall(c) ==
    /\ call[c].pc # "idle"
    /\ EndCall(c)
    /\ UNCHANGED <<lease, believes, overlapped>>

LeaseTick ==
    /\ \A c \in LeaseCall : call[c].pc # "idle" => call[c].age < LeaseTimeout
    /\ lease' = [lease EXCEPT !.left = IF @ > - LeaseTimeout THEN @ - 1 ELSE @]
    /\ call' = [c \in LeaseCall |-> IF call[c].pc = "idle" THEN call[c]
                                    ELSE [call[c] EXCEPT !.age = @ + 1]]
    /\ believes' = [h \in Holder |-> IF believes[h] > 0 THEN believes[h] - 1 ELSE 0]
    /\ UNCHANGED overlapped

LeaseNext ==
    \/ \E c \in LeaseCall : \/ \E h \in Holder : BeginCall(c, h)
                            \/ UpdateLease(c) \/ InsertLease(c) \/ ReadLease(c) \/ FailCall(c)
    \/ LeaseTick

LeaseSpec == LeaseInit /\ [][LeaseNext]_leaseVars
-----------------------------------------------------------------------------
(* Properties *)

\* Two workers never both believe to hold the lease, whatever was lost or slow,
\* unless one of them had two requests under way: the slower one then shortens
\* the lease its worker was told of.
OneAutoDeployer ==
    \A h, k \in Holder :
        believes[h] > 0 /\ believes[k] > 0 /\ h # k => h \in overlapped \/ k \in overlapped

(* The inductive invariant behind it *)

\* What a worker believes is covered by the lease.
BeliefIsCovered ==
    \A h \in Holder \ overlapped :
        believes[h] > 0 => lease.holder = h /\ believes[h] <= lease.left

\* A request that goes on renews what its worker believes.
RequestsRenew ==
    \A c \in LeaseCall :
        LET h == call[c].holder
        IN call[c].pc # "idle" /\ h \notin overlapped =>
             /\ believes[h] + call[c].age <= LeaseTTL(h)
             /\ \A d \in LeaseCall : call[d].pc # "idle" /\ call[d].holder = h => d = c

\* Nobody else takes a lease while the request that was granted it goes on.
GrantsLast ==
    \A c \in LeaseCall :
        LET h == call[c].holder
        IN call[c].pc = "read" /\ call[c].granted /\ h \notin overlapped =>
             lease.holder = h /\ lease.left + call[c].age = LeaseTTL(h)

GrantsAreRead == \A c \in LeaseCall : call[c].granted => call[c].pc = "read"

LeaseBounded == lease.holder # NoHolder => lease.left <= LeaseTTL(lease.holder)

LeaseInv ==
    LeaseTypeOK /\ BeliefIsCovered /\ RequestsRenew /\ GrantsLast /\ GrantsAreRead /\ LeaseBounded
=============================================================================
