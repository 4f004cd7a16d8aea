---------------------------- MODULE OperationRuns ----------------------------
(***************************************************************************)
(* Operations as the components that queue them see them: when their       *)
(* effects may run.  It abstracts OperationClaims, whose leases keep the   *)
(* effects of an operation inside its claim (EffectsFenced), so a run has  *)
(* a single position.  Requests of one worker about one operation may      *)
(* overlap all the same: the effects of its claim, or of a report it gave  *)
(* up, may come during or after those of a later report.                   *)
(*                                                                         *)
(* The modules of the components conjoin their effects to these actions.   *)
(***************************************************************************)
EXTENDS Naturals

CONSTANTS Task,         \* operation identifiers
          RunLimit,     \* defaultStaleClaimRecoveryLimit
          Overlapping   \* a bound: the operations about which one worker's requests overlap

ASSUME RunLimitAssumption == RunLimit \in Nat \ {0} /\ Overlapping \subseteq Task

VARIABLE run   \* the position of each operation
-----------------------------------------------------------------------------
(* absent; queued; claimed; reserved, by a terminal report; ended, a report *)
(* is published; exhausted, recovery published a failure whose effects are  *)
(* pending; settled, they are done.                                         *)
Stage == {"absent", "queued", "claimed", "reserved", "ended", "exhausted", "settled"}
Result == {"succeeded", "failed"}

\* starting: the effects of the claim are pending; result: that of the last
\* reservation; reported, applied: the results whose effects may run, have run.
RunRecord == [stage : Stage, starting : BOOLEAN, result : Result \cup {"none"},
              reported : SUBSET Result, applied : SUBSET Result, recoveries : 0 .. RunLimit]

InProgress == {"claimed", "reserved"}

\* The status other handlers read.
RunStatus(t) ==
    CASE run[t].stage \in {"absent", "queued"}       -> run[t].stage
      [] run[t].stage \in InProgress                 -> "in-progress"
      [] run[t].stage = "ended"                      -> run[t].result
      [] run[t].stage \in {"exhausted", "settled"}   -> "failed"

Unfinished(t) == RunStatus(t) \in {"queued", "in-progress"}

RunAt(stage, recoveries) ==
    [stage |-> stage, starting |-> FALSE, result |-> "none", reported |-> {}, applied |-> {},
     recoveries |-> recoveries]

RunInit == run = [t \in Task |-> RunAt("absent", 0)]

RunGoes(t, from, to) ==
    /\ run[t].stage = from
    /\ run' = [run EXCEPT ![t].stage = to]

\* The insert of a queued operation.
EnqueueRun(t) == RunGoes(t, "absent", "queued")

\* A worker claims the operation; its start effects follow, unless they are lost.
ClaimRun(t) ==
    /\ run[t].stage = "queued"
    /\ run' = [run EXCEPT ![t].stage = "claimed", ![t].starting = TRUE]

StartRun(t) ==
    /\ run[t].starting
    /\ run' = [run EXCEPT ![t].starting = FALSE]

\* What of earlier requests may still be under way.
Late(t, results) == IF t \in Overlapping THEN results ELSE {}

\* The worker reports its result, perhaps not for the first time.
ReserveRun(t, result) ==
    /\ run[t].stage \in InProgress
    /\ run' = [run EXCEPT ![t].stage = "reserved", ![t].result = result,
                          ![t].starting = @ /\ t \in Overlapping,
                          ![t].reported = Late(t, @) \cup {result}, ![t].applied = Late(t, @)]

\* The effects of a reported result; those of another report may have overtaken them.
ApplyRun(t, result) ==
    /\ result \in run[t].reported
    /\ run' = [run EXCEPT ![t].reported = Late(t, @), ![t].applied = @ \cup {result}]

\* The result of the last reservation is published, after effects for it.
PublishRun(t) ==
    /\ run[t].stage = "reserved" /\ run[t].result \in run[t].applied
    /\ run' = [run EXCEPT ![t].stage = "ended", ![t].applied = Late(t, @)]

\* The lease ran out: recovery requeues the operation, or gives it up.
LapseRun(t) ==
    /\ run[t].stage \in InProgress
    /\ run[t].recoveries < RunLimit
    /\ run' = [run EXCEPT
                 ![t] = RunAt(IF run[t].recoveries + 1 >= RunLimit THEN "exhausted" ELSE "queued",
                              run[t].recoveries + 1)]

\* The effects of the failure recovery published; they may never happen.
SettleRun(t) == RunGoes(t, "exhausted", "settled")

\* What happens to an operation without effects on anything else.
RunMoves(t) ==
    \/ ClaimRun(t) \/ PublishRun(t) \/ LapseRun(t)
    \/ \E result \in Result : ReserveRun(t, result)

RunStep(t) ==
    \/ EnqueueRun(t) \/ StartRun(t) \/ SettleRun(t) \/ RunMoves(t)
    \/ \E result \in Result : ApplyRun(t, result)

RunSpec == RunInit /\ [][\E t \in Task : RunStep(t)]_run
-----------------------------------------------------------------------------
\* Positions implement the plain life of operations: one owner (which one is not
\* told apart here), one terminal status, at most RunLimit recoveries.
Lifecycle == INSTANCE OperationLifecycle WITH
    Op            <- Task,
    Worker        <- {"worker"},
    NoWorker      <- "none",
    RecoveryLimit <- RunLimit,
    status        <- [t \in Task |-> RunStatus(t)],
    owner         <- [t \in Task |-> IF run[t].stage \in InProgress \cup {"ended"}
                                        THEN "worker" ELSE "none"],
    recoveries    <- [t \in Task |-> run[t].recoveries]
=============================================================================
