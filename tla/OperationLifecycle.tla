------------------------- MODULE OperationLifecycle -------------------------
(***************************************************************************)
(* What the operations component promises the rest of the platform about a *)
(* queued operation, independently of leases, requests and time.           *)
(*                                                                         *)
(* An operation is created queued, is owned by one worker registration at  *)
(* a time, and ends exactly once.  Ownership can only be taken back by     *)
(* recovery, which either hands the operation to the queue again or, on    *)
(* its RecoveryLimit-th intervention, fails it.                            *)
(***************************************************************************)
EXTENDS Naturals

CONSTANTS Op,             \* operation identifiers
          Worker,         \* worker registrations
          NoWorker,       \* the empty workerRegistrationId
          RecoveryLimit   \* defaultStaleClaimRecoveryLimit

VARIABLES status, owner, recoveries

vars == <<status, owner, recoveries>>

Terminal == {"succeeded", "failed"}

Init ==
    /\ status = [o \in Op |-> "absent"]
    /\ owner = [o \in Op |-> NoWorker]
    /\ recoveries = [o \in Op |-> 0]

Create(o) ==
    /\ status[o] = "absent"
    /\ status' = [status EXCEPT ![o] = "queued"]
    /\ UNCHANGED <<owner, recoveries>>

Claim(o, w) ==
    /\ status[o] = "queued"
    /\ status' = [status EXCEPT ![o] = "in-progress"]
    /\ owner' = [owner EXCEPT ![o] = w]
    /\ UNCHANGED recoveries

Report(o, result) ==
    /\ status[o] = "in-progress"
    /\ status' = [status EXCEPT ![o] = result]
    /\ UNCHANGED <<owner, recoveries>>

Recover(o) ==
    /\ status[o] = "in-progress"
    /\ recoveries[o] < RecoveryLimit
    /\ recoveries' = [recoveries EXCEPT ![o] = @ + 1]
    /\ status' = [status EXCEPT
                    ![o] = IF recoveries[o] + 1 = RecoveryLimit
                             THEN "failed" ELSE "queued"]
    /\ owner' = [owner EXCEPT ![o] = NoWorker]

Next == \E o \in Op : \/ Create(o)
                      \/ \E w \in Worker : Claim(o, w)
                      \/ \E result \in Terminal : Report(o, result)
                      \/ Recover(o)

Spec == Init /\ [][Next]_vars
=============================================================================
