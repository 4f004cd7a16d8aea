----------------------------- MODULE ClaimsAsRuns -----------------------------
(***************************************************************************)
(* OperationClaims implements OperationRuns: the positions the components  *)
(* conjoin their effects to are what the claim protocol makes of its       *)
(* operations, as long as leases are long enough to fence the effects.     *)
(*                                                                         *)
(* Positions are a history: each step of Next determines them, and they    *)
(* prevent none.                                                           *)
(***************************************************************************)
EXTENDS OperationClaims

VARIABLE run   \* the position of each operation

\* Requests of one worker may overlap, about any operation.
Runs == INSTANCE OperationRuns WITH
    Task <- Op, RunLimit <- RecoveryLimit, Overlapping <- Op
-----------------------------------------------------------------------------
Created(o) == run' = [run EXCEPT ![o].stage = "queued"]

\* The claim, its effects, and the reservation of request r.
Claimed(r) == run' = [run EXCEPT ![upd[r].op].stage = "claimed", ![upd[r].op].starting = TRUE]
Started(r) == run' = [run EXCEPT ![upd[r].op].starting = FALSE]

Reserved(r) ==
    run' = [run EXCEPT ![upd[r].op].stage = "reserved", ![upd[r].op].result = upd[r].result,
                       ![upd[r].op].reported = @ \cup {upd[r].result}]

\* Its effects, and the publication of its result.
Applied(r) == run' = [run EXCEPT ![upd[r].op].applied = @ \cup {upd[r].result}]
Published(r) == run' = [run EXCEPT ![upd[r].op].stage = "ended"]

\* A recovery starts all over, or gives up; then the effects of the failure follow.
Recovered(stale) ==
    run' = [run EXCEPT ![stale.op] =
              Runs!RunAt(IF Disposition(stale) = "failed" THEN "exhausted" ELSE "queued",
                         stale.recoveries + 1)]
Settled(s) ==
    run' = IF rec[s].outcome = "failed" THEN [run EXCEPT ![rec[s].op].stage = "settled"] ELSE run

\* What a write leads to if it matches a document, told by the next call of its
\* request or by the document.
IfWritten(written, becomes) == IF written THEN becomes ELSE UNCHANGED run

RequestRuns(r) ==
    \/ (Begin(r) \/ RenewWrite(r) \/ Abort(r)) /\ UNCHANGED run
    \/ ClaimWrite(r) /\ IfWritten(upd'[r].pc = "start", Claimed(r))
    \/ StartEffect(r) /\ Started(r)
    \/ Reserve(r) /\ IfWritten(upd'[r].pc = "apply", Reserved(r))
    \/ Apply(r) /\ Applied(r)
    \/ Finish(r) /\ IfWritten(op' # op, Published(r))

SweepRuns(s) ==
    \/ (RecoverScan(s) \/ RecoverEnd(s)) /\ UNCHANGED run
    \/ \E stale \in rec[s].batch :
          RecoverWrite(s, stale) /\ IfWritten(rec'[s].pc = "settle", Recovered(stale))
    \/ RecoverSettle(s) /\ Settled(s)

RunsNext ==
    \/ \E o \in Op : Create(o) /\ Created(o)
    \/ \E r \in Req : RequestRuns(r)
    \/ \E s \in Sweep : SweepRuns(s)
    \/ Tick /\ UNCHANGED run

RunsInit == Init /\ run = [o \in Op |-> Runs!RunAt("absent", 0)]
RunsSpec == RunsInit /\ [][RunsNext]_<<vars, run>>
-----------------------------------------------------------------------------
\* The assumption of every component that conjoins its effects to OperationRuns:
\* effects run inside their claim or its report, recovery gives an operation
\* up, or hands it on, only when none of them is pending, and other handlers
\* read the status of the position.
ImplementsRuns == Runs!RunSpec /\ [](\A o \in Op : op[o].status = Runs!RunStatus(o))
=============================================================================
