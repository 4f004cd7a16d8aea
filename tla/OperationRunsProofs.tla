------------------------- MODULE OperationRunsProofs -------------------------
(***************************************************************************)
(* Proofs about OperationRuns and the components that conjoin their        *)
(* effects to it: OperationDispatch, ServiceDeletion, RulePublishing.  For *)
(* any number of operations and requests, and whichever of the requests    *)
(* about an operation overlap.                                             *)
(***************************************************************************)
EXTENDS OperationDispatch, ServiceDeletion, RulePublishing,
        FiniteSetTheorems, SequenceTheorems, WellFoundedInduction, TLAPS

(* Operations *)

LEMMA InitialRuns == RunInit => run \in [Task -> RunRecord]
  BY RunLimitAssumption DEF RunInit, RunAt, RunRecord, Stage

\* A position of a run may be replaced, by one of another stage ...
LEMMA RunGoesTyped ==
    ASSUME run \in [Task -> RunRecord], NEW t \in Task, NEW stage \in Stage
    PROVE  [run EXCEPT ![t].stage = stage] \in [Task -> RunRecord]
<1>1. [run[t] EXCEPT !.stage = stage] \in RunRecord
  BY DEF RunRecord
<1> QED
  BY <1>1

\* ... or a new one: what an action does to one run is one replacement.
RunBecomes(t, r) == r \in RunRecord /\ run' = [run EXCEPT ![t] = r]

LEMMA LateTyped ==
    ASSUME NEW t \in Task, NEW results \in SUBSET Result
    PROVE  Late(t, results) \in SUBSET Result /\ Late(t, results) \subseteq results
  BY DEF Late

LEMMA RunReplaced ==
    ASSUME run \in [Task -> RunRecord], NEW t \in Task, RunStep(t)
    PROVE  \E r : RunBecomes(t, r)
<1>1. run[t] \in RunRecord
  OBVIOUS
<1>2. CASE EnqueueRun(t)
  <2>1. [run[t] EXCEPT !.stage = "queued"] \in RunRecord
    BY <1>1 DEF RunRecord, Stage
  <2> QED
    BY <1>2, <2>1 DEF EnqueueRun, RunGoes, RunBecomes
<1>3. CASE StartRun(t)
  <2>1. [run[t] EXCEPT !.starting = FALSE] \in RunRecord
    BY <1>1 DEF RunRecord
  <2> QED
    BY <1>3, <2>1 DEF StartRun, RunBecomes
<1>4. CASE SettleRun(t)
  <2>1. [run[t] EXCEPT !.stage = "settled"] \in RunRecord
    BY <1>1 DEF RunRecord, Stage
  <2> QED
    BY <1>4, <2>1 DEF SettleRun, RunGoes, RunBecomes
<1>5. CASE ClaimRun(t)
  <2>1. [[run[t] EXCEPT !.stage = "claimed"] EXCEPT !.starting = TRUE] \in RunRecord
    BY <1>1 DEF RunRecord, Stage
  <2> QED
    BY <1>5, <2>1 DEF ClaimRun, RunBecomes
<1>6. CASE PublishRun(t)
  <2>1. run[t].applied \in SUBSET Result
    BY <1>1 DEF RunRecord
  <2>2. [[run[t] EXCEPT !.stage = "ended"] EXCEPT !.applied = Late(t, run[t].applied)] \in RunRecord
    BY <1>1, <2>1, LateTyped DEF RunRecord, Stage
  <2> QED
    BY <1>6, <2>2 DEF PublishRun, RunBecomes
<1>7. CASE LapseRun(t)
  <2>1. run[t].recoveries \in 0 .. RunLimit
    BY <1>1 DEF RunRecord
  <2>2. run[t].recoveries + 1 \in 0 .. RunLimit
    BY <1>7, <2>1, RunLimitAssumption DEF LapseRun
  <2>3. \A stage \in Stage : RunAt(stage, run[t].recoveries + 1) \in RunRecord
    BY <2>2 DEF RunAt, RunRecord
  <2> QED
    BY <1>7, <2>3 DEF LapseRun, RunBecomes, Stage
<1>8. ASSUME NEW result \in Result, ReserveRun(t, result)
      PROVE  \E r : RunBecomes(t, r)
  <2>1. run[t].reported \in SUBSET Result /\ run[t].applied \in SUBSET Result
    BY <1>1 DEF RunRecord
  <2>2. Late(t, run[t].reported) \cup {result} \in SUBSET Result /\ Late(t, run[t].applied) \in SUBSET Result
    BY <2>1, LateTyped
  <2> DEFINE r1 == [[run[t] EXCEPT !.stage = "reserved"] EXCEPT !.result = result]
             r2 == [r1 EXCEPT !.starting = run[t].starting /\ t \in Overlapping]
             r3 == [[r2 EXCEPT !.reported = Late(t, run[t].reported) \cup {result}]
                               EXCEPT !.applied = Late(t, run[t].applied)]
  <2>3. r1 \in RunRecord
    BY <1>1 DEF RunRecord, Stage
  <2>4. r2 \in RunRecord
    BY <1>1, <2>3 DEF RunRecord
  <2>5. r3 \in RunRecord
    BY <2>2, <2>4 DEF RunRecord
  <2> QED
    BY <1>8, <2>5 DEF ReserveRun, RunBecomes
<1>9. ASSUME NEW result \in Result, ApplyRun(t, result)
      PROVE  \E r : RunBecomes(t, r)
  <2>1. run[t].reported \in SUBSET Result /\ run[t].applied \in SUBSET Result
    BY <1>1 DEF RunRecord
  <2>2. [[run[t] EXCEPT !.reported = Late(t, run[t].reported)]
                 EXCEPT !.applied = run[t].applied \cup {result}] \in RunRecord
    BY <1>1, <2>1, LateTyped DEF RunRecord
  <2> QED
    BY <1>9, <2>2 DEF ApplyRun, RunBecomes
<1> QED
  BY <1>2, <1>3, <1>4, <1>5, <1>6, <1>7, <1>8, <1>9 DEF RunStep, RunMoves

LEMMA RunStepTyped ==
    ASSUME run \in [Task -> RunRecord], NEW t \in Task, RunStep(t)
    PROVE  /\ run' \in [Task -> RunRecord]
           /\ \A u \in Task : u # t => run'[u] = run[u]
  BY RunReplaced DEF RunBecomes

LEMMA ReserveDoes ==
    ASSUME run \in [Task -> RunRecord], NEW t \in Task, NEW result \in Result, ReserveRun(t, result)
    PROVE  /\ run[t].stage \in InProgress /\ run'[t].stage = "reserved"
           /\ run'[t].result = result /\ run'[t].recoveries = run[t].recoveries
           /\ run'[t].applied \subseteq run[t].applied
<1>1. run[t] \in RunRecord
  OBVIOUS
<1>2. run'[t] = [run[t] EXCEPT !.stage = "reserved", !.result = result,
                               !.starting = @ /\ t \in Overlapping,
                               !.reported = Late(t, @) \cup {result}, !.applied = Late(t, @)]
  BY DEF ReserveRun
<1>3. Late(t, run[t].applied) \subseteq run[t].applied
  BY DEF Late
<1> QED
  BY <1>1, <1>2, <1>3 DEF RunRecord, ReserveRun

LEMMA ApplyDoes ==
    ASSUME run \in [Task -> RunRecord], NEW t \in Task, NEW result \in Result, ApplyRun(t, result)
    PROVE  /\ run'[t].stage = run[t].stage /\ run'[t].result = run[t].result
           /\ run'[t].recoveries = run[t].recoveries
           /\ run'[t].applied = run[t].applied \cup {result}
  BY DEF ApplyRun, RunRecord

\* What has ended keeps its result, and only effects that come late follow.
LEMMA EndedStays ==
    ASSUME run \in [Task -> RunRecord], NEW t \in Task, RunStep(t),
           NEW u \in Task, run[u].stage = "ended"
    PROVE  run'[u].stage = "ended" /\ run'[u].result = run[u].result
<1>1. CASE u # t
  BY <1>1, RunStepTyped
<1>2. CASE u = t
  <2>1. StartRun(t) \/ \E result \in Result : ApplyRun(t, result)
    BY <1>2 DEF RunStep, RunMoves, EnqueueRun, SettleRun, ClaimRun, PublishRun, LapseRun,
                ReserveRun, RunGoes, InProgress
  <2> QED
    BY <1>2, <2>1 DEF StartRun, ApplyRun, RunRecord
<1> QED
  BY <1>1, <1>2

LEMMA SucceededIsEnded ==
    ASSUME run \in [Task -> RunRecord], NEW t \in Task
    PROVE  RunStatus(t) = "succeeded" <=> run[t].stage = "ended" /\ run[t].result = "succeeded"
  BY DEF RunStatus, RunRecord, Stage, InProgress

LEMMA FailedIs ==
    ASSUME run \in [Task -> RunRecord], NEW t \in Task
    PROVE  RunStatus(t) = "failed" <=> \/ run[t].stage = "ended" /\ run[t].result = "failed"
                                      \/ run[t].stage \in {"exhausted", "settled"}
  BY DEF RunStatus, RunRecord, Stage, InProgress

\* A published success is final: whatever an operation does, it stays.
LEMMA SuccessStays ==
    ASSUME run \in [Task -> RunRecord], NEW t \in Task, RunStep(t),
           NEW u \in Task, RunStatus(u) = "succeeded"
    PROVE  RunStatus(u)' = "succeeded"
<1>1. run[u].stage = "ended" /\ run[u].result = "succeeded"
  BY SucceededIsEnded
<1>2. run'[u].stage = "ended" /\ run'[u].result = "succeeded"
  BY <1>1, EndedStays
<1> QED
  BY <1>2 DEF RunStatus, InProgress
-----------------------------------------------------------------------------
(* Refinement of OperationLifecycle *)

OwnerOf(t) == IF run[t].stage \in InProgress \cup {"ended"} THEN "worker" ELSE "none"

LEMMA RunsStutter ==
    ASSUME \A u \in Task : /\ RunStatus(u)' = RunStatus(u) /\ OwnerOf(u)' = OwnerOf(u)
                          /\ run'[u].recoveries = run[u].recoveries
    PROVE  UNCHANGED Lifecycle!vars
  BY DEF Lifecycle!vars, OwnerOf

\* An action on one operation leaves the others as they are.
LEMMA OthersStay ==
    ASSUME run \in [Task -> RunRecord], NEW t \in Task, RunStep(t)
    PROVE  \A u \in Task : u # t => /\ RunStatus(u)' = RunStatus(u) /\ OwnerOf(u)' = OwnerOf(u)
                                   /\ run'[u].recoveries = run[u].recoveries
  BY RunStepTyped DEF RunStatus, OwnerOf

LEMMA RunRefines ==
    ASSUME run \in [Task -> RunRecord], NEW t \in Task, RunStep(t)
    PROVE  [Lifecycle!Next]_(Lifecycle!vars)
<1>0. run[t] \in RunRecord
  OBVIOUS
<1>1. CASE EnqueueRun(t)
  <2>1. /\ run[t].stage = "absent" /\ run'[t].stage = "queued"
        /\ run'[t].recoveries = run[t].recoveries
    BY <1>0, <1>1 DEF EnqueueRun, RunGoes, RunRecord
  <2>2. /\ RunStatus(t) = "absent" /\ RunStatus(t)' = "queued"
        /\ OwnerOf(t) = "none" /\ OwnerOf(t)' = "none"
    BY <2>1 DEF RunStatus, OwnerOf, InProgress
  <2>3. Lifecycle!Create(t)
    BY <2>1, <2>2, <1>1, OthersStay DEF Lifecycle!Create, OwnerOf, RunStep
  <2> QED
    BY <2>3 DEF Lifecycle!Next
<1>2. CASE ClaimRun(t)
  <2>1. /\ run[t].stage = "queued" /\ run'[t].stage = "claimed"
        /\ run'[t].recoveries = run[t].recoveries
    BY <1>0, <1>2 DEF ClaimRun, RunRecord
  <2>2. /\ RunStatus(t) = "queued" /\ RunStatus(t)' = "in-progress" /\ OwnerOf(t)' = "worker"
    BY <2>1 DEF RunStatus, OwnerOf, InProgress
  <2>3. Lifecycle!Claim(t, "worker")
    BY <2>1, <2>2, <1>2, OthersStay DEF Lifecycle!Claim, OwnerOf, RunStep, RunMoves
  <2> QED
    BY <2>3 DEF Lifecycle!Next
<1>3. CASE PublishRun(t)
  <2>1. /\ run[t].stage = "reserved" /\ run'[t].stage = "ended"
        /\ run'[t].recoveries = run[t].recoveries /\ run'[t].result = run[t].result
        /\ run[t].result \in Result
    BY <1>0, <1>3 DEF PublishRun, RunRecord
  <2>2. /\ RunStatus(t) = "in-progress" /\ RunStatus(t)' = run[t].result
        /\ OwnerOf(t)' = "worker" /\ OwnerOf(t) = "worker"
    BY <2>1 DEF RunStatus, OwnerOf, InProgress
  <2>3. Lifecycle!Report(t, run[t].result)
    BY <2>1, <2>2, <1>3, OthersStay DEF Lifecycle!Report, OwnerOf, RunStep, RunMoves
  <2> QED
    BY <2>1, <2>3 DEF Lifecycle!Next, Lifecycle!Terminal, Result
<1>4. CASE LapseRun(t)
  <2>1. run[t].stage \in InProgress /\ run[t].recoveries \in 0 .. RunLimit
        /\ run[t].recoveries < RunLimit
    BY <1>0, <1>4 DEF LapseRun, RunRecord
  <2>2. /\ run'[t].recoveries = run[t].recoveries + 1
        /\ run'[t].stage = IF run[t].recoveries + 1 = RunLimit THEN "exhausted" ELSE "queued"
    BY <1>4, <2>1, RunLimitAssumption DEF LapseRun, RunAt
  <2>3. /\ RunStatus(t) = "in-progress" /\ OwnerOf(t)' = "none"
        /\ RunStatus(t)' = IF run[t].recoveries + 1 = RunLimit THEN "failed" ELSE "queued"
    BY <2>1, <2>2 DEF RunStatus, OwnerOf, InProgress
  <2>4. Lifecycle!Recover(t)
    BY <2>1, <2>2, <2>3, <1>4, OthersStay DEF Lifecycle!Recover, OwnerOf, RunStep, RunMoves
  <2> QED
    BY <2>4 DEF Lifecycle!Next
<1>5. CASE StartRun(t) \/ SettleRun(t) \/ (\E result \in Result : ReserveRun(t, result) \/ ApplyRun(t, result))
  <2>0. StartRun(t) \/ SettleRun(t) => run'[t].recoveries = run[t].recoveries
    BY <1>0 DEF StartRun, SettleRun, RunGoes, RunRecord
  <2>1. run'[t].recoveries = run[t].recoveries
    BY <1>5, <2>0, ReserveDoes, ApplyDoes DEF StartRun, SettleRun, RunGoes
  <2>2. \/ run'[t].stage = run[t].stage /\ run'[t].result = run[t].result
        \/ run[t].stage \in InProgress /\ run'[t].stage = "reserved"
        \/ run[t].stage = "exhausted" /\ run'[t].stage = "settled"
    BY <1>0, <1>5, ReserveDoes, ApplyDoes DEF StartRun, SettleRun, RunGoes, RunRecord
  <2>3. RunStatus(t)' = RunStatus(t) /\ OwnerOf(t)' = OwnerOf(t)
    BY <2>2 DEF RunStatus, OwnerOf, InProgress
  <2> QED
    BY <2>1, <2>3, OthersStay, RunsStutter
<1> QED
  BY <1>1, <1>2, <1>3, <1>4, <1>5 DEF RunStep, RunMoves

LEMMA RunsTyped == RunSpec => [](run \in [Task -> RunRecord])
<1>1. run \in [Task -> RunRecord] /\ [\E t \in Task : RunStep(t)]_run => (run \in [Task -> RunRecord])'
  BY RunStepTyped
<1> QED
  BY <1>1, InitialRuns, PTL DEF RunSpec

\* The positions the components see implement the plain life of operations: an
\* operation has one owner at a time, ends once, and every recovery counts.
THEOREM RunsImplementLifecycle == RunSpec => Lifecycle!Spec
<1>1. RunInit => Lifecycle!Init
  BY DEF RunInit, RunAt, Lifecycle!Init, RunStatus, InProgress
<1>2. /\ run \in [Task -> RunRecord] /\ [\E t \in Task : RunStep(t)]_run
      => [Lifecycle!Next]_(Lifecycle!vars)
  <2> SUFFICES ASSUME run \in [Task -> RunRecord], [\E t \in Task : RunStep(t)]_run
               PROVE  [Lifecycle!Next]_(Lifecycle!vars)
    OBVIOUS
  <2>1. CASE \E t \in Task : RunStep(t)
    BY <2>1, RunRefines
  <2>2. CASE UNCHANGED run
    BY <2>2, RunsStutter DEF RunStatus, OwnerOf
  <2> QED
    BY <2>1, <2>2
<1> QED
  BY <1>1, <1>2, RunsTyped, PTL DEF RunSpec, Lifecycle!Spec
-----------------------------------------------------------------------------
(* OperationDispatch *)

\* How far a request is tells what it has recorded and what the broker has said:
\* a message is sent once, after its attempt was recorded, so that no message
\* is sent, and no answer is outstanding, when the dispatch is recorded.
SenderKnows ==
    \A t \in Task :
        /\ sender[t] = "send" => dispatch[t] = "dispatching"
        /\ sender[t] = "mark" => broker[t] = "acked"

DispatchInv == DispatchTypeOK /\ SenderKnows /\ DispatchIsTruthful

LEMMA InitialDispatch == DispatchInit => DispatchInv
  BY InitialRuns DEF DispatchInit, DispatchInv, DispatchTypeOK, SenderKnows, DispatchIsTruthful

\* The actions of the request, the broker and the worker, on one operation.
DispatchStep(t) ==
    \/ BeginQueue(t) \/ InsertOperation(t) \/ MarkAttempt(t) \/ SendMessage(t)
    \/ BrokerAnswers(t) \/ ReceiveConfirmation(t) \/ MarkDispatched(t)
    \/ PublicationFails(t) \/ RecordFailure(t) \/ CutOff(t)
    \/ ClaimOperation(t)

\* What recording a failure does to a restart.
LEMMA RestartFails ==
    ASSUME run \in [Task -> RunRecord], NEW t \in Task
    PROVE  [run EXCEPT ![t].stage = "ended", ![t].result = "failed"] \in [Task -> RunRecord]
<1>1. [run[t] EXCEPT !.stage = "ended"] \in RunRecord
  BY DEF RunRecord, Stage
<1>2. [[run[t] EXCEPT !.stage = "ended"] EXCEPT !.result = "failed"] \in RunRecord
  BY <1>1 DEF RunRecord, Result
<1> QED
  BY <1>2

\* An operation that failed is not queued or claimed any more: it stays failed.
LEMMA RunGone ==
    ASSUME run \in [Task -> RunRecord], NEW t \in Task, EnqueueRun(t) \/ ClaimRun(t)
    PROVE  \A u \in Task : RunStatus(u) = "failed" => RunStatus(u)' = "failed"
<1>1. run[t].stage \in {"absent", "queued"}
  BY DEF EnqueueRun, ClaimRun, RunGoes
<1>2. RunStatus(t) # "failed"
  BY <1>1 DEF RunStatus
<1> QED
  BY <1>2, OthersStay DEF RunStep, RunMoves

LEMMA RunFailed ==
    ASSUME run \in [Task -> RunRecord], NEW t \in Task,
           run' = [run EXCEPT ![t].stage = "ended", ![t].result = "failed"]
    PROVE  /\ RunStatus(t)' = "failed"
           /\ \A u \in Task : u # t => RunStatus(u)' = RunStatus(u)
<1>1. run'[t].stage = "ended" /\ run'[t].result = "failed"
  BY DEF RunRecord
<1>2. \A u \in Task : u # t => run'[u] = run[u]
  OBVIOUS
<1>3. RunStatus(t)' = "failed"
  BY <1>1 DEF RunStatus, InProgress
<1> QED
  BY <1>2, <1>3 DEF RunStatus

\* The backlog after an insert, place by place.
LEMMA Inserted ==
    ASSUME backlog \in Seq(Task), NEW t \in Task, NEW place \in 1 .. Len(backlog) + 1,
           backlog' = InsertAt(backlog, place, t)
    PROVE  /\ backlog' \in Seq(Task) /\ Len(backlog') = Len(backlog) + 1
           /\ \A i \in 1 .. Len(backlog) + 1 :
                 backlog'[i] = IF i < place THEN backlog[i] ELSE IF i = place THEN t ELSE backlog[i - 1]
<1> DEFINE front == SubSeq(backlog, 1, place - 1)
           back  == SubSeq(backlog, place, Len(backlog))
           head  == front \o <<t>>
<1>1. /\ front \in Seq(Task) /\ Len(front) = place - 1
      /\ \A i \in 1 .. place - 1 : front[i] = backlog[i]
  BY SMT
<1>2. /\ back \in Seq(Task) /\ Len(back) = Len(backlog) - place + 1
      /\ \A i \in 1 .. Len(backlog) - place + 1 : back[i] = backlog[place + i - 1]
  BY SMT
<1> HIDE DEF front, back
<1>3. /\ head \in Seq(Task) /\ Len(head) = place
      /\ \A i \in 1 .. place : head[i] = IF i < place THEN backlog[i] ELSE t
  BY <1>1
<1> HIDE DEF head
<1>4. backlog' = head \o back
  BY DEF InsertAt, head, front, back
<1>5. /\ head \o back \in Seq(Task) /\ Len(head \o back) = Len(backlog) + 1
      /\ \A i \in 1 .. Len(backlog) + 1 : (head \o back)[i] = IF i <= place THEN head[i] ELSE back[i - place]
  <2>1. Len(head) + Len(back) = Len(backlog) + 1
    BY <1>2, <1>3
  <2>2. /\ head \o back \in Seq(Task) /\ Len(head \o back) = Len(head) + Len(back)
        /\ \A i \in 1 .. Len(head) + Len(back) :
              (head \o back)[i] = IF i <= Len(head) THEN head[i] ELSE back[i - Len(head)]
    BY <1>2, <1>3, ConcatProperties, Zenon
  <2>3. Len(head) = place
    BY <1>3
  <2> QED
    BY ONLY <2>1, <2>2, <2>3
<1>6. \A i \in 1 .. Len(backlog) + 1 : i > place =>
        i - place \in 1 .. Len(backlog) - place + 1 /\ place + (i - place) - 1 = i - 1
  OBVIOUS
<1>7. \A i \in 1 .. Len(backlog) + 1 : i > place => back[i - place] = backlog[i - 1]
  BY <1>2, <1>6
<1>8. \A i \in 1 .. Len(backlog) + 1 : i <= place => i \in 1 .. place
  OBVIOUS
<1>9. ASSUME NEW i \in 1 .. Len(backlog) + 1
      PROVE  (head \o back)[i] = IF i < place THEN backlog[i] ELSE IF i = place THEN t ELSE backlog[i - 1]
  <2>0. i \in Nat /\ place \in Nat
    OBVIOUS
  <2>1. CASE i <= place
    <3>1. i \in 1 .. place /\ (head \o back)[i] = head[i]
      BY ONLY <1>5, <1>8, <2>1, i \in 1 .. Len(backlog) + 1
    <3>2. head[i] = IF i < place THEN backlog[i] ELSE t
      BY ONLY <1>3, <3>1
    <3> QED
      BY ONLY <2>0, <2>1, <3>1, <3>2
  <2>2. CASE i > place
    <3>1. ~ (i <= place) /\ ~ (i < place) /\ i # place
      BY ONLY <2>0, <2>2
    <3>2. (head \o back)[i] = back[i - place]
      BY ONLY <1>5, <3>1, i \in 1 .. Len(backlog) + 1
    <3>3. back[i - place] = backlog[i - 1]
      BY ONLY <1>7, <2>2, i \in 1 .. Len(backlog) + 1
    <3> QED
      BY ONLY <3>1, <3>2, <3>3
  <2>3. i <= place \/ i > place
    BY ONLY <2>0
  <2> QED
    BY <2>1, <2>2, <2>3, Zenon
<1> QED
  BY ONLY <1>4, <1>5, <1>9

LEMMA DispatchTyped ==
    ASSUME DispatchTypeOK, NEW t \in Task, DispatchStep(t)
    PROVE  DispatchTypeOK'
<1> USE DEF DispatchTypeOK, Sender, SetDispatch
<1>1. CASE BeginQueue(t)
  BY <1>1 DEF BeginQueue
<1>2. CASE InsertOperation(t)
  <2>1. run' \in [Task -> RunRecord]
    BY <1>2, RunStepTyped DEF InsertOperation, RunStep
  <2>2. backlog' \in Seq(Task)
    BY <1>2, Inserted DEF InsertOperation
  <2> QED
    BY <1>2, <2>1, <2>2 DEF InsertOperation
<1>3. CASE MarkAttempt(t)
  BY <1>3 DEF MarkAttempt
<1>4. CASE SendMessage(t)
  BY <1>4 DEF SendMessage
<1>5. CASE BrokerAnswers(t)
  BY <1>5 DEF BrokerAnswers
<1>6. CASE ReceiveConfirmation(t)
  BY <1>6 DEF ReceiveConfirmation
<1>7. CASE MarkDispatched(t)
  BY <1>7 DEF MarkDispatched
<1>8. CASE PublicationFails(t)
  BY <1>8 DEF PublicationFails
<1>9. CASE RecordFailure(t)
  <2>1. [run EXCEPT ![t].stage = "ended", ![t].result = "failed"] \in [Task -> RunRecord]
    BY RestartFails
  <2>2. run' \in {run, [run EXCEPT ![t].stage = "ended", ![t].result = "failed"]}
    BY <1>9 DEF RecordFailure
  <2> QED
    BY <1>9, <2>1, <2>2 DEF RecordFailure
<1>10. CASE CutOff(t)
  BY <1>10 DEF CutOff
<1>11. CASE ClaimOperation(t)
  <2>1. run' \in [Task -> RunRecord]
    BY <1>11, RunStepTyped DEF ClaimOperation, RunStep, RunMoves
  <2> QED
    BY <1>11, <2>1 DEF ClaimOperation
<1> QED
  BY <1>1, <1>2, <1>3, <1>4, <1>5, <1>6, <1>7, <1>8, <1>9, <1>10, <1>11 DEF DispatchStep

LEMMA DispatchKept ==
    ASSUME DispatchInv, NEW t \in Task, DispatchStep(t)
    PROVE  DispatchInv'
<1>1. DispatchTypeOK'
  BY DispatchTyped DEF DispatchInv
<1>2. /\ sender \in [Task -> {"none", "check", "attempt", "send", "wait", "mark", "error", "done", "cut"}]
      /\ dispatch \in [Task -> {"none", "dispatching", "dispatched", "dispatch-failed"}]
      /\ broker \in [Task -> {"none", "accepted", "acked", "nacked"}]
      /\ run \in [Task -> RunRecord]
  BY DEF DispatchInv, DispatchTypeOK
<1>3. SenderKnows /\ DispatchIsTruthful
  BY DEF DispatchInv
<1>4. SenderKnows' /\ DispatchIsTruthful'
  <2> USE <1>2, <1>3 DEF Sender, SetDispatch, SenderKnows, DispatchIsTruthful
  <2>1. CASE BeginQueue(t)
    BY <2>1 DEF BeginQueue, RunStatus
  <2>2. CASE InsertOperation(t)
    BY <2>2, RunGone DEF InsertOperation
  <2>3. CASE MarkAttempt(t)
    BY <2>3 DEF MarkAttempt, RunStatus
  <2>4. CASE SendMessage(t)
    BY <2>4 DEF SendMessage, RunStatus
  \* An answer that was awaited no longer changes nothing that was recorded.
  <2>5. CASE BrokerAnswers(t)
    BY <2>5 DEF BrokerAnswers, RunStatus
  <2>6. CASE ReceiveConfirmation(t)
    BY <2>6 DEF ReceiveConfirmation, Confirmed, RunStatus
  <2>7. CASE MarkDispatched(t)
    BY <2>7 DEF MarkDispatched, RunStatus
  <2>8. CASE PublicationFails(t)
    BY <2>8 DEF PublicationFails, RunStatus
  <2>9. CASE RecordFailure(t)
    <3>1. CASE t \in RestartOp
      <4>1. run' = [run EXCEPT ![t].stage = "ended", ![t].result = "failed"]
        BY <2>9, <3>1 DEF RecordFailure
      <4>2. /\ RunStatus(t)' = "failed"
            /\ \A u \in Task : u # t => RunStatus(u)' = RunStatus(u)
        BY <4>1, RunFailed
      <4> QED
        BY <2>9, <3>1, <4>2 DEF RecordFailure
    <3>2. CASE t \notin RestartOp
      BY <2>9, <3>2 DEF RecordFailure, RunStatus
    <3> QED
      BY <3>1, <3>2
  <2>10. CASE CutOff(t)
    BY <2>10 DEF CutOff, RunStatus
  <2>11. CASE ClaimOperation(t)
    BY <2>11, RunGone DEF ClaimOperation
  <2> QED
    BY <2>1, <2>2, <2>3, <2>4, <2>5, <2>6, <2>7, <2>8, <2>9, <2>10, <2>11 DEF DispatchStep
<1> QED
  BY <1>1, <1>4 DEF DispatchInv

LEMMA DispatchInductive == DispatchInv /\ [DispatchNext]_dispatchVars => DispatchInv'
<1> SUFFICES ASSUME DispatchInv, [DispatchNext]_dispatchVars PROVE DispatchInv'
  OBVIOUS
<1>1. CASE DispatchNext
  <2>1. PICK t \in Task : DispatchStep(t)
    BY <1>1 DEF DispatchNext, DispatchStep
  <2> QED
    BY <2>1, DispatchKept
<1>2. CASE UNCHANGED dispatchVars
  BY <1>2 DEF dispatchVars, DispatchInv, DispatchTypeOK, SenderKnows, DispatchIsTruthful, RunStatus
<1> QED
  BY <1>1, <1>2

\* The positions of requests, the records of dispatches and what the broker
\* knows keep their types, and every operation keeps a legal position.
THEOREM DispatchTypeCorrect == DispatchSpec => []DispatchTypeOK
<1>1. DispatchInv => DispatchTypeOK
  BY DEF DispatchInv
<1> QED
  BY <1>1, InitialDispatch, DispatchInductive, PTL DEF DispatchSpec

\* For any number of operations, dispatch.status never claims a delivery the
\* broker did not confirm, and a publication that came to its end is on record,
\* whatever is lost, late, or cut off.
THEOREM DispatchTells == DispatchSpec => []DispatchIsTruthful
<1>1. DispatchInv => DispatchIsTruthful
  BY DEF DispatchInv
<1> QED
  BY <1>1, InitialDispatch, DispatchInductive, PTL DEF DispatchSpec
-----------------------------------------------------------------------------
(* OperationDispatch: polls *)

\* A set of positions has a first one.
LEMMA FirstInSet ==
    ASSUME NEW n \in Nat, NEW S, S \subseteq 1 .. n, S # {}
    PROVE  \E x \in S : \A y \in S : x <= y
<1> DEFINE UpTo(x) == {y \in S : y <= x}
           T == {UpTo(x) : x \in S}
<1>1. IsFiniteSet(S)
  <2>1. IsFiniteSet(1 .. n)
    BY FS_Interval
  <2> QED
    BY <2>1, FS_Subset
<1>2. IsWellFoundedOn(StrictSubsetOrdering(S), SUBSET S)
  BY <1>1, FS_StrictSubsetOrderingWellFounded, FS_FiniteSubsetsOfFinite
<1>3. T \subseteq SUBSET S /\ T # {}
  OBVIOUS
<1>4. PICK t \in T : \A u \in T : ~(<<u, t>> \in StrictSubsetOrdering(S))
  <2> HIDE DEF T
  <2> QED
    BY <1>2, <1>3, WFMin
<1>5. PICK x \in S : t = UpTo(x)
  BY <1>4
<1>6. \A y \in S : x <= y
  <2> SUFFICES ASSUME NEW y \in S, y < x PROVE FALSE
    OBVIOUS
  <2>1. x \in UpTo(x) /\ x \notin UpTo(y) /\ UpTo(y) \subseteq UpTo(x)
    <3>1. \A z \in S : z \in Int
      OBVIOUS
    <3>2. x \in Int /\ y \in Int /\ ~(x <= y) /\ x <= x
      BY <3>1
    <3>3. \A z \in S : z <= y => z <= x
      BY <3>1, <3>2
    <3> QED
      BY <3>2, <3>3
  <2>2. UpTo(y) \in T
    OBVIOUS
  <2>3. UpTo(x) \subseteq S /\ UpTo(y) \subseteq S
    OBVIOUS
  <2> HIDE DEF UpTo, T
  <2>4. <<UpTo(y), UpTo(x)>> \in StrictSubsetOrdering(S)
    BY <2>1, <2>3 DEF StrictSubsetOrdering
  <2> QED
    BY <1>4, <1>5, <2>2, <2>4
<1> QED
  BY <1>6

\* "earlier" puts the members of S into one order.
Orders(earlier, S) ==
    /\ \A i \in S : <<i, i>> \notin earlier
    /\ \A i, j, k \in S : <<i, j>> \in earlier /\ <<j, k>> \in earlier => <<i, k>> \in earlier
    /\ \A i, j \in S : i # j => <<i, j>> \in earlier \/ <<j, i>> \in earlier

\* A member that is put before another one has fewer members before it.
LEMMA FewerBefore ==
    ASSUME NEW S, IsFiniteSet(S), NEW earlier, Orders(earlier, S),
           NEW i \in S, NEW j \in S, <<i, j>> \in earlier
    PROVE  Cardinality({x \in S : <<x, i>> \in earlier}) < Cardinality({x \in S : <<x, j>> \in earlier})
<1> DEFINE A == {x \in S : <<x, i>> \in earlier}
           B == {x \in S : <<x, j>> \in earlier}
<1>1. A \subseteq B /\ i \in B /\ i \notin A
  BY DEF Orders
<1>2. IsFiniteSet(B) /\ IsFiniteSet(A)
  BY FS_Subset
<1> HIDE DEF A, B
<1>3. Cardinality(A) <= Cardinality(B) /\ Cardinality(A) # Cardinality(B)
  BY <1>1, <1>2, FS_Subset
<1>4. Cardinality(A) \in Nat /\ Cardinality(B) \in Nat
  BY <1>2, FS_CardinalityType
<1>5. Cardinality(A) < Cardinality(B)
  BY <1>3, <1>4
<1> QED
  BY <1>5 DEF A, B

\* What Sorted returns: every member once, in the given order.
LEMMA SortedMembers ==
    ASSUME NEW S, IsFiniteSet(S), NEW earlier, Orders(earlier, S)
    PROVE  /\ Cardinality(S) \in Nat
           /\ Sorted(S, earlier) \in [1 .. Cardinality(S) -> S]
           /\ \A i \in S : \E n \in 1 .. Cardinality(S) : Sorted(S, earlier)[n] = i
           /\ \A m, n \in 1 .. Cardinality(S) :
                m < n <=> <<Sorted(S, earlier)[m], Sorted(S, earlier)[n]>> \in earlier
<1> DEFINE N == Cardinality(S)
           h == [i \in S |-> Cardinality({x \in S : <<x, i>> \in earlier})]
           at == Sorted(S, earlier)
<1>1. N \in Nat
  BY FS_CardinalityType
<1>2. \A i \in S : h[i] \in 0 .. N - 1
  <2> SUFFICES ASSUME NEW i \in S PROVE h[i] \in 0 .. N - 1
    OBVIOUS
  <2> DEFINE A == {x \in S : <<x, i>> \in earlier}
  <2>1. A \subseteq S /\ i \notin A
    BY DEF Orders
  <2>2. IsFiniteSet(A)
    BY <2>1, FS_Subset
  <2> HIDE DEF A
  <2>3. Cardinality(A) \in Nat /\ Cardinality(A) <= N /\ Cardinality(A) # N
    BY <2>1, <2>2, FS_Subset, FS_CardinalityType
  <2>4. Cardinality(A) \in 0 .. N - 1
    BY <1>1, <2>3
  <2> QED
    BY <2>4 DEF A
<1>3. \A i, j \in S : <<i, j>> \in earlier => h[i] < h[j]
  BY FewerBefore
<1> HIDE DEF h
<1>4. \A i, j \in S : h[i] = h[j] => i = j
  <2> SUFFICES ASSUME NEW i \in S, NEW j \in S, h[i] = h[j], i # j PROVE FALSE
    OBVIOUS
  <2>1. h[i] < h[j] \/ h[j] < h[i]
    BY <1>3 DEF Orders
  <2>2. h[i] \in Int /\ h[j] \in Int
    BY <1>2
  <2> QED
    BY <2>1, <2>2
<1>5. h \in Surjection(S, 0 .. N - 1)
  <2>1. h \in Injection(S, 0 .. N - 1)
    <3>1. h \in [S -> 0 .. N - 1]
      BY <1>2 DEF h
    <3> QED
      BY <1>4, <3>1 DEF Injection, IsInjective
  <2>2. IsFiniteSet(0 .. N - 1) /\ Cardinality(0 .. N - 1) = N
    BY <1>1, FS_Interval
  <2> QED
    BY <2>1, <2>2, FS_Injection
<1>6. \A n \in 1 .. N : at[n] \in S /\ h[at[n]] = n - 1
  <2> SUFFICES ASSUME NEW n \in 1 .. N PROVE at[n] \in S /\ h[at[n]] = n - 1
    OBVIOUS
  <2>1. n - 1 \in 0 .. N - 1
    BY <1>1
  <2>2. \E i \in S : h[i] = n - 1
    BY <1>5, <2>1 DEF Surjection
  <2>3. at[n] = CHOOSE i \in S : Cardinality({j \in S : <<j, i>> \in earlier}) = n - 1
    BY DEF Sorted
  <2> QED
    BY <2>2, <2>3 DEF h
<1>7. at \in [1 .. N -> S]
  <2>1. at = [n \in 1 .. N |-> CHOOSE i \in S : Cardinality({j \in S : <<j, i>> \in earlier}) = n - 1]
    BY DEF Sorted
  <2> QED
    BY <1>6, <2>1
<1> HIDE DEF at
<1>8. \A i \in S : \E n \in 1 .. N : at[n] = i
  <2> SUFFICES ASSUME NEW i \in S PROVE \E n \in 1 .. N : at[n] = i
    OBVIOUS
  <2>1. h[i] + 1 \in 1 .. N /\ (h[i] + 1) - 1 = h[i]
    BY <1>1, <1>2
  <2>2. at[h[i] + 1] \in S /\ h[at[h[i] + 1]] = h[i]
    BY <1>6, <2>1
  <2>3. at[h[i] + 1] = i
    BY <1>4, <2>2
  <2> QED
    BY <2>1, <2>3
<1>9. \A m, n \in 1 .. N : m < n <=> <<at[m], at[n]>> \in earlier
  <2> SUFFICES ASSUME NEW m \in 1 .. N, NEW n \in 1 .. N
               PROVE  m < n <=> <<at[m], at[n]>> \in earlier
    OBVIOUS
  <2>1. h[at[m]] = m - 1 /\ h[at[n]] = n - 1 /\ at[m] \in S /\ at[n] \in S
    BY <1>6
  <2>2. ASSUME <<at[m], at[n]>> \in earlier PROVE m < n
    BY <1>3, <2>1, <2>2
  <2>3. ASSUME m < n PROVE <<at[m], at[n]>> \in earlier
    <3>1. at[m] # at[n]
      BY <2>1, <2>3
    <3>2. <<at[n], at[m]>> \notin earlier
      BY <1>3, <2>1, <2>3
    <3> QED
      BY <2>1, <3>1, <3>2 DEF Orders
  <2> QED
    BY <2>2, <2>3
<1> QED
  BY <1>1, <1>7, <1>8, <1>9 DEF at

\* Ranks are counted from one, and grow along the operations of a resource.
LEMMA RankGrows ==
    ASSUME NEW s \in Seq(Task), NEW i \in DOMAIN s
    PROVE  /\ Rank(s, i) \in Nat /\ Rank(s, i) >= 1
           /\ \A j \in DOMAIN s : i < j /\ ResourceOf[s[i]] = ResourceOf[s[j]] => Rank(s, i) < Rank(s, j)
<1> DEFINE R(x) == {j \in 1 .. x : ResourceOf[s[j]] = ResourceOf[s[x]]}
<1>1. DOMAIN s = 1 .. Len(s) /\ Len(s) \in Nat
  OBVIOUS
<1>2. \A x \in DOMAIN s : IsFiniteSet(R(x)) /\ Cardinality(R(x)) \in Nat
  <2> SUFFICES ASSUME NEW x \in DOMAIN s PROVE IsFiniteSet(R(x)) /\ Cardinality(R(x)) \in Nat
    OBVIOUS
  <2>1. IsFiniteSet(1 .. x)
    BY <1>1, FS_Interval
  <2>2. R(x) \subseteq 1 .. x
    OBVIOUS
  <2> HIDE DEF R
  <2> QED
    BY <2>1, <2>2, FS_Subset, FS_CardinalityType
<1>3. \A x \in DOMAIN s : x \in R(x)
  BY <1>1
<1>4. \A x \in DOMAIN s : Cardinality(R(x)) >= 1
  <2> SUFFICES ASSUME NEW x \in DOMAIN s PROVE Cardinality(R(x)) >= 1
    OBVIOUS
  <2> HIDE DEF R
  <2>1. Cardinality(R(x)) # 0
    BY <1>2, <1>3, FS_EmptySet
  <2> QED
    BY <1>2, <2>1
<1>5. ASSUME NEW j \in DOMAIN s, i < j, ResourceOf[s[i]] = ResourceOf[s[j]]
      PROVE  Cardinality(R(i)) < Cardinality(R(j))
  <2>1. R(i) \subseteq R(j) /\ j \in R(j) /\ j \notin R(i)
    BY <1>1, <1>5
  <2> HIDE DEF R
  <2>2. Cardinality(R(i)) <= Cardinality(R(j)) /\ Cardinality(R(i)) # Cardinality(R(j))
    BY <1>2, <2>1, FS_Subset
  <2> QED
    BY <1>2, <2>2
<1> QED
  BY <1>2, <1>4, <1>5 DEF Rank

LEMMA RankTellsApart ==
    ASSUME NEW s \in Seq(Task), NEW i \in DOMAIN s, NEW j \in DOMAIN s,
           Rank(s, i) = Rank(s, j), ResourceOf[s[i]] = ResourceOf[s[j]]
    PROVE  i = j
<1>1. i \in Int /\ j \in Int /\ Rank(s, i) \in Int /\ Rank(s, j) \in Int
  BY RankGrows
<1>2. ~(i < j) /\ ~(j < i)
  BY <1>1, RankGrows
<1> QED
  BY <1>1, <1>2

LEMMA FirstOfResource ==
    ASSUME NEW s \in Seq(Task), NEW i \in DOMAIN s
    PROVE  FirstOf(s, i) \in 1 .. i /\ ResourceOf[s[FirstOf(s, i)]] = ResourceOf[s[i]]
<1> DEFINE R == {j \in 1 .. i : ResourceOf[s[j]] = ResourceOf[s[i]]}
<1>1. i \in Nat /\ i \in R /\ R \subseteq 1 .. i
  OBVIOUS
<1>2. PICK x \in R : \A y \in R : x <= y
  <2> HIDE DEF R
  <2> QED
    BY <1>1, FirstInSet
<1>3. \A k \in 1 .. x - 1 : ResourceOf[s[k]] # ResourceOf[s[i]]
  <2> SUFFICES ASSUME NEW k \in 1 .. x - 1, ResourceOf[s[k]] = ResourceOf[s[i]] PROVE FALSE
    OBVIOUS
  <2>1. k \in R
    BY <1>1
  <2> QED
    BY <1>1, <1>2, <2>1
<1> QED
  BY <1>2, <1>3 DEF FirstOf

\* The rounds of a poll put the operations into one order.
LEMMA BeforeOrders ==
    ASSUME NEW s \in Seq(Task)
    PROVE  Orders({p \in (DOMAIN s) \X (DOMAIN s) : Before(s, p[1], p[2])}, DOMAIN s)
<1>1. \A i \in DOMAIN s : Rank(s, i) \in Int /\ FirstOf(s, i) \in Int
  BY RankGrows, FirstOfResource
<1>2. \A i, j \in DOMAIN s : <<i, j>> \in {p \in (DOMAIN s) \X (DOMAIN s) : Before(s, p[1], p[2])}
                               <=> Before(s, i, j)
  OBVIOUS
<1>3. \A i \in DOMAIN s : ~Before(s, i, i)
  BY <1>1 DEF Before
<1>4. \A i, j, k \in DOMAIN s : Before(s, i, j) /\ Before(s, j, k) => Before(s, i, k)
  BY <1>1 DEF Before
<1>5. ASSUME NEW i \in DOMAIN s, NEW j \in DOMAIN s, i # j PROVE Before(s, i, j) \/ Before(s, j, i)
  <2>1. CASE Rank(s, i) = Rank(s, j) /\ FirstOf(s, i) = FirstOf(s, j)
    <3>1. ResourceOf[s[i]] = ResourceOf[s[j]]
      BY <2>1, FirstOfResource
    <3> QED
      BY <1>5, <2>1, <3>1, RankTellsApart
  <2> QED
    BY <1>1, <2>1 DEF Before
<1> QED
  BY <1>2, <1>3, <1>4, <1>5 DEF Orders

\* No operation is listed twice.
Once(s) == s \in Seq(Task) /\ \A i, j \in DOMAIN s : s[i] = s[j] => i = j

\* The order of a poll, as positions of the list it is made from.
Arranges(at, s) ==
    /\ at \in [1 .. Len(s) -> 1 .. Len(s)]
    /\ Fair(s) = [n \in 1 .. Len(s) |-> s[at[n]]]
    /\ \A i \in 1 .. Len(s) : \E n \in 1 .. Len(s) : at[n] = i
    /\ \A m, n \in 1 .. Len(s) : m # n => at[m] # at[n]

\* The positions follow the rounds.
Follows(at, s) == \A m, n \in 1 .. Len(s) : m < n <=> Before(s, at[m], at[n])

LEMMA FairArranged ==
    ASSUME NEW s, Once(s), Len(s) >= 3
    PROVE  \E at : Arranges(at, s) /\ Follows(at, s)
<1> DEFINE N == Len(s)
           earlier == {p \in (DOMAIN s) \X (DOMAIN s) : Before(s, p[1], p[2])}
           at == Sorted(DOMAIN s, earlier)
<1>1. s \in Seq(Task) /\ N \in Nat /\ DOMAIN s = 1 .. N
  BY DEF Once
<1>2. Orders(earlier, DOMAIN s)
  BY <1>1, BeforeOrders
<1>3. IsFiniteSet(DOMAIN s) /\ Cardinality(DOMAIN s) = N
  BY <1>1, FS_Interval
<1>4. /\ at \in [1 .. N -> DOMAIN s]
      /\ \A i \in DOMAIN s : \E n \in 1 .. N : at[n] = i
      /\ \A m, n \in 1 .. N : m < n <=> <<at[m], at[n]>> \in earlier
  <2> HIDE DEF earlier
  <2> QED
    BY <1>2, <1>3, SortedMembers
<1>5. Fair(s) = [n \in 1 .. N |-> s[at[n]]]
  <2>1. Fair(s) = [n \in DOMAIN at |-> s[at[n]]]
    BY <1>1 DEF Fair
  <2>2. DOMAIN at = 1 .. N
    <3> HIDE DEF at
    <3> QED
      BY <1>4
  <2> QED
    BY <2>1, <2>2
<1> HIDE DEF at
<1>6. \A m, n \in 1 .. N : m < n <=> Before(s, at[m], at[n])
  BY <1>1, <1>4
<1>7. \A m, n \in 1 .. N : m # n => at[m] # at[n]
  <2> SUFFICES ASSUME NEW m \in 1 .. N, NEW n \in 1 .. N, m # n, at[m] = at[n] PROVE FALSE
    OBVIOUS
  <2>1. ~(m < n) /\ ~(n < m)
    <3>1. m < n <=> m < m
      BY <1>6
    <3>2. n < m <=> m < m
      BY <1>6
    <3> QED
      BY <3>1, <3>2
  <2> QED
    BY <2>1
<1> QED
  BY <1>1, <1>4, <1>5, <1>6, <1>7 DEF Arranges, Follows

LEMMA ShortUnchanged ==
    ASSUME NEW s, Once(s), Len(s) < 3
    PROVE  Fair(s) = s /\ Arranges([n \in 1 .. Len(s) |-> n], s)
<1>1. s \in Seq(Task) /\ Fair(s) = s
  BY DEF Fair, Once
<1>2. s = [n \in 1 .. Len(s) |-> s[n]]
  BY <1>1
<1> QED
  BY <1>1, <1>2 DEF Arranges

\* An arranged list has the operations of the list, each at one position.
LEMMA ArrangedMembers ==
    ASSUME NEW s, Once(s), NEW at, Arranges(at, s)
    PROVE  /\ Len(Fair(s)) = Len(s) /\ ToSet(Fair(s)) = ToSet(s) /\ Fair(s) \in Seq(Task)
           /\ \A n \in 1 .. Len(s) : (CHOOSE m \in 1 .. Len(Fair(s)) : Fair(s)[m] = s[at[n]]) = n
<1> DEFINE N == Len(s)
           f == Fair(s)
<1>1. s \in Seq(Task) /\ N \in Nat /\ DOMAIN s = 1 .. N
  BY DEF Once
<1>2. f = [n \in 1 .. N |-> s[at[n]]] /\ at \in [1 .. N -> 1 .. N]
  BY DEF Arranges
<1> HIDE DEF f
<1>3. f \in Seq(Task) /\ Len(f) = N /\ DOMAIN f = 1 .. N
  BY <1>1, <1>2
<1>4. ToSet(f) = ToSet(s)
  <2>1. ToSet(f) = {f[n] : n \in 1 .. N} /\ ToSet(s) = {s[n] : n \in 1 .. N}
    BY <1>1, <1>3 DEF ToSet
  <2>2. \A i \in 1 .. N : \E n \in 1 .. N : f[n] = s[i]
    BY <1>2 DEF Arranges
  <2>3. \A n \in 1 .. N : \E i \in 1 .. N : f[n] = s[i]
    BY <1>2
  <2> QED
    BY <2>1, <2>2, <2>3
<1>5. \A m, n \in 1 .. N : f[m] = s[at[n]] => m = n
  <2> SUFFICES ASSUME NEW m \in 1 .. N, NEW n \in 1 .. N, f[m] = s[at[n]] PROVE m = n
    OBVIOUS
  <2>1. s[at[m]] = s[at[n]] /\ at[m] \in 1 .. N /\ at[n] \in 1 .. N
    BY <1>2
  <2>2. at[m] = at[n]
    BY <1>1, <2>1 DEF Once
  <2> QED
    BY <2>2 DEF Arranges
<1>6. ASSUME NEW n \in 1 .. N PROVE (CHOOSE m \in 1 .. Len(f) : f[m] = s[at[n]]) = n
  <2>1. f[n] = s[at[n]]
    BY <1>2
  <2> QED
    BY <1>3, <1>5, <2>1
<1> QED
  BY <1>3, <1>4, <1>6 DEF f

\* The operations of a resource among the first n of a list.
AmongFirst(f, r, n) == {m \in 1 .. n : ResourceOf[f[m]] = r}

\* No resource has more operations among the first n than the one of the n-th.
LEMMA RoundsAreFair ==
    ASSUME NEW s, Once(s), NEW at, Arranges(at, s), Follows(at, s),
           NEW n \in 1 .. Len(s), NEW r
    PROVE  Cardinality(AmongFirst(Fair(s), r, n)) <= Cardinality(AmongFirst(Fair(s), ResourceOf[Fair(s)[n]], n))
<1> DEFINE N == Len(s)
           f == Fair(s)
           Of(q) == {m \in 1 .. n : ResourceOf[f[m]] = q}
           own == ResourceOf[f[n]]
           k == Rank(s, at[n])
           Mine == {j \in 1 .. at[n] : ResourceOf[s[j]] = ResourceOf[s[at[n]]]}
<1>1. s \in Seq(Task) /\ N \in Nat /\ DOMAIN s = 1 .. N
  BY DEF Once
<1>2. \A m \in 1 .. N : f[m] = s[at[m]] /\ at[m] \in DOMAIN s
  BY <1>1 DEF Arranges
<1> HIDE DEF f, N
<1>3. \A m \in 1 .. N : Rank(s, at[m]) \in Nat /\ Rank(s, at[m]) >= 1
  BY <1>1, <1>2, RankGrows
<1>4. k \in Nat /\ n \in 1 .. N /\ n \in Nat
  BY <1>1, <1>3 DEF N
<1>5. ASSUME NEW q PROVE Of(q) \subseteq 1 .. N /\ IsFiniteSet(Of(q)) /\ Cardinality(Of(q)) \in Nat
  <2>1. Of(q) \subseteq 1 .. n /\ 1 .. n \subseteq 1 .. N
    BY <1>1, <1>4
  <2>2. IsFiniteSet(1 .. n)
    BY <1>4, FS_Interval
  <2> HIDE DEF Of
  <2> QED
    BY <2>1, <2>2, FS_Subset, FS_CardinalityType
<1>6. Cardinality(Of(r)) <= k
  <2> DEFINE g == [m \in Of(r) |-> Rank(s, at[m])]
  <2>1. \A m \in Of(r) : Rank(s, at[m]) \in 1 .. k
    <3> SUFFICES ASSUME NEW m \in 1 .. n PROVE Rank(s, at[m]) \in 1 .. k
      OBVIOUS
    <3>1. m \in 1 .. N /\ (m < n \/ m = n)
      BY <1>1, <1>4
    <3>2. Rank(s, at[m]) <= k
      BY <1>3, <1>4, <3>1 DEF Before, Follows, N
    <3> QED
      BY <1>3, <1>4, <3>1, <3>2
  <2>2. \A l, m \in Of(r) : Rank(s, at[l]) = Rank(s, at[m]) => l = m
    <3> SUFFICES ASSUME NEW l \in Of(r), NEW m \in Of(r), Rank(s, at[l]) = Rank(s, at[m])
                 PROVE  l = m
      OBVIOUS
    <3>1. l \in 1 .. N /\ m \in 1 .. N
      BY <1>5
    <3>2. ResourceOf[s[at[l]]] = ResourceOf[s[at[m]]]
      BY <1>2, <3>1
    <3>3. at[l] = at[m]
      BY <1>1, <1>2, <3>1, <3>2, RankTellsApart
    <3> QED
      BY <3>1, <3>3 DEF Arranges, N
  <2>3. g \in Injection(Of(r), 1 .. k)
    <3> HIDE DEF Of
    <3>1. g \in [Of(r) -> 1 .. k]
      BY <2>1
    <3>2. \A l, m \in Of(r) : g[l] = g[m] => l = m
      BY <2>2
    <3> QED
      BY <3>1, <3>2 DEF Injection, IsInjective
  <2>4. IsFiniteSet(1 .. k) /\ Cardinality(1 .. k) = k
    BY <1>4, FS_Interval
  <2> HIDE DEF g, Of
  <2> QED
    BY <2>3, <2>4, FS_Injection
<1>7. k <= Cardinality(Of(own))
  <2> DEFINE At(j) == CHOOSE m \in 1 .. N : at[m] = j
             g == [j \in Mine |-> At(j)]
  <2>1. \A j \in 1 .. N : At(j) \in 1 .. N /\ at[At(j)] = j
    BY DEF Arranges, N
  <2>2. \A j \in Mine : j \in 1 .. N
    BY <1>1, <1>2, <1>4
  <2>3. \A j \in Mine : At(j) \in Of(own)
    <3> SUFFICES ASSUME NEW j \in Mine PROVE At(j) \in Of(own)
      OBVIOUS
    <3> HIDE DEF At
    <3>1. At(j) \in 1 .. N /\ at[At(j)] = j /\ ResourceOf[f[At(j)]] = own
      <4>1. ResourceOf[s[j]] = ResourceOf[s[at[n]]] /\ j \in 1 .. N
        BY <2>2
      <4> QED
        BY <1>2, <1>4, <2>1, <4>1
    <3>2. j = at[n] \/ j < at[n]
      BY <1>1, <1>2, <1>4
    <3>3. CASE j < at[n]
      <4>1. Rank(s, j) < Rank(s, at[n])
        BY <1>1, <1>2, <1>4, <2>2, <3>3, RankGrows
      <4>2. At(j) < n
        BY <1>4, <3>1, <4>1 DEF Before, Follows, N
      <4> QED
        BY <1>4, <3>1, <4>2
    <3>4. CASE j = at[n]
      <4>1. At(j) = n
        BY <1>4, <3>1, <3>4 DEF Arranges, N
      <4> QED
        BY <1>4, <3>1, <4>1
    <3> QED
      BY <3>2, <3>3, <3>4
  <2>4. g \in Injection(Mine, Of(own))
    <3> HIDE DEF At, Of, Mine
    <3>1. g \in [Mine -> Of(own)]
      BY <2>3
    <3>2. \A i, j \in Mine : g[i] = g[j] => i = j
      BY <2>1, <2>2
    <3> QED
      BY <3>1, <3>2 DEF Injection, IsInjective
  <2>5. IsFiniteSet(Of(own))
    BY <1>5
  <2>6. Cardinality(Mine) = k
    BY DEF Rank
  <2> HIDE DEF g, Of, Mine, k
  <2> QED
    BY <2>4, <2>5, <2>6, FS_Injection
<1>8. Cardinality(Of(r)) \in Nat /\ Cardinality(Of(own)) \in Nat
  BY <1>5
<1> HIDE DEF Of, own, k
<1>9. Cardinality(Of(r)) <= Cardinality(Of(own))
  BY <1>4, <1>6, <1>7, <1>8
<1> QED
  BY <1>9 DEF Of, own, f, AmongFirst

\* A poll that starts from a list without repetition is fair.
LEMMA PollOfQueued == Once(Queued) => PollIsFair
<1> SUFFICES ASSUME Once(Queued) PROVE PollIsFair
  OBVIOUS
<1> DEFINE s == Queued
           N == Len(s)
           f == Fair(s)
           At(t) == CHOOSE n \in 1 .. Len(f) : f[n] = t
<1> HIDE DEF s
<1>1. Once(s)
  BY DEF s
<1>2. s \in Seq(Task) /\ N \in Nat /\ DOMAIN s = 1 .. N
  BY <1>1 DEF Once
<1>3. PICK at : /\ Arranges(at, s)
                /\ N > 2 => Follows(at, s)
                /\ N < 3 => at = [n \in 1 .. N |-> n]
  <2>1. CASE N < 3
    <3> DEFINE at == [n \in 1 .. N |-> n]
    <3>1. Arranges(at, s) /\ ~(N > 2)
      BY <1>1, <1>2, <2>1, ShortUnchanged
    <3> HIDE DEF at
    <3>2. at = [n \in 1 .. N |-> n]
      BY DEF at
    <3> QED
      BY <3>1, <3>2
  <2>2. CASE N >= 3
    <3>1. PICK at : Arranges(at, s) /\ Follows(at, s)
      BY <1>1, <2>2, FairArranged
    <3> QED
      BY <1>2, <2>2, <3>1
  <2> QED
    BY <1>2, <2>1, <2>2
<1>4. Len(f) = N /\ ToSet(f) = ToSet(s) /\ \A n \in 1 .. N : At(s[at[n]]) = n
  BY <1>1, <1>3, ArrangedMembers
<1> HIDE DEF At
<1>5. ASSUME NEW i \in 1 .. N, NEW j \in 1 .. N, i < j, ResourceOf[s[i]] = ResourceOf[s[j]]
      PROVE  At(s[i]) < At(s[j])
  <2>1. PICK m \in 1 .. N, n \in 1 .. N : at[m] = i /\ at[n] = j
    BY <1>3 DEF Arranges
  <2>2. At(s[i]) = m /\ At(s[j]) = n
    BY <1>4, <2>1
  <2>3. CASE N > 2
    <3>1. Rank(s, i) < Rank(s, j)
      BY <1>2, <1>5, RankGrows
    <3> QED
      BY <1>3, <2>1, <2>2, <2>3, <3>1 DEF Before, Follows
  <2>4. CASE N < 3
    BY <1>3, <1>5, <2>1, <2>2, <2>4
  <2> QED
    BY <1>2, <2>3, <2>4
<1>6. ASSUME N > 2, NEW n \in 1 .. N, NEW r
      PROVE  Cardinality(AmongFirst(f, r, n)) <= Cardinality(AmongFirst(f, ResourceOf[f[n]], n))
  BY <1>1, <1>3, <1>6, RoundsAreFair
<1> QED
  BY <1>2, <1>4, <1>5, <1>6 DEF PollIsFair, s, At, AmongFirst

\* The operations that wait, of a backlog without repetition.
LEMMA QueuedOnce ==
    ASSUME Once(backlog)
    PROVE  Once(Queued)
<1> DEFINE waiting == {i \in DOMAIN backlog : run[backlog[i]].stage = "queued"}
           earlier == {p \in waiting \X waiting : p[1] < p[2]}
           at == Sorted(waiting, earlier)
           N == Cardinality(waiting)
<1>1. backlog \in Seq(Task) /\ DOMAIN backlog = 1 .. Len(backlog) /\ Len(backlog) \in Nat
  BY DEF Once
<1>2. waiting \subseteq DOMAIN backlog /\ IsFiniteSet(waiting)
  <2>1. waiting \subseteq DOMAIN backlog
    OBVIOUS
  <2>2. IsFiniteSet(DOMAIN backlog)
    BY <1>1, FS_Interval
  <2> HIDE DEF waiting
  <2> QED
    BY <2>1, <2>2, FS_Subset
<1> HIDE DEF waiting
<1>3. \A i, j \in waiting : <<i, j>> \in earlier <=> i < j
  OBVIOUS
<1>4. \A i \in waiting : i \in Int
  BY <1>1, <1>2
<1> HIDE DEF earlier
<1>5. Orders(earlier, waiting)
  BY <1>3, <1>4 DEF Orders
<1>6. /\ N \in Nat
      /\ at \in [1 .. N -> waiting]
      /\ \A m, n \in 1 .. N : m < n <=> <<at[m], at[n]>> \in earlier
  BY <1>2, <1>5, SortedMembers
<1>7. Queued = [n \in 1 .. N |-> backlog[at[n]]]
  <2>1. Queued = [n \in DOMAIN at |-> backlog[at[n]]]
    BY DEF Queued, waiting, earlier
  <2> HIDE DEF at
  <2>2. DOMAIN at = 1 .. N
    BY <1>6
  <2> QED
    BY <2>1, <2>2
<1> HIDE DEF at, N
<1>8. \A n \in 1 .. N : at[n] \in DOMAIN backlog /\ backlog[at[n]] \in Task
  BY <1>1, <1>2, <1>6
<1>9. Queued \in Seq(Task) /\ DOMAIN Queued = 1 .. N
  BY <1>6, <1>7, <1>8
<1>10. ASSUME NEW m \in 1 .. N, NEW n \in 1 .. N, Queued[m] = Queued[n] PROVE m = n
  <2>1. at[m] = at[n]
    BY <1>7, <1>8, <1>10 DEF Once
  <2>2. at[m] \in waiting /\ at[m] \in Int
    BY <1>4, <1>6
  <2>3. ~(<<at[m], at[n]>> \in earlier) /\ ~(<<at[n], at[m]>> \in earlier)
    <3>1. <<at[m], at[m]>> \in earlier <=> at[m] < at[m]
      BY <1>3, <2>2
    <3> QED
      BY <2>1, <2>2, <3>1
  <2>4. ~(m < n) /\ ~(n < m)
    BY <1>6, <2>3
  <2> QED
    BY <1>6, <2>4
<1> QED
  BY <1>9, <1>10 DEF Once

\* An operation is inserted once, by the request that publishes it.
BacklogInv ==
    /\ DispatchTypeOK
    /\ Once(backlog)
    /\ \A i \in DOMAIN backlog : sender[backlog[i]] \notin {"none", "check"}

LEMMA InitialBacklog == DispatchInit => BacklogInv
  BY InitialDispatch DEF DispatchInit, DispatchInv, BacklogInv, Once

LEMMA BacklogKept ==
    ASSUME BacklogInv, NEW t \in Task, DispatchStep(t)
    PROVE  BacklogInv'
<1>1. DispatchTypeOK'
  BY DispatchTyped DEF BacklogInv
<1>2. /\ DispatchTypeOK /\ Once(backlog) /\ backlog \in Seq(Task)
      /\ sender \in [Task -> {"none", "check", "attempt", "send", "wait", "mark", "error", "done", "cut"}]
      /\ \A i \in DOMAIN backlog : backlog[i] \in Task /\ sender[backlog[i]] \notin {"none", "check"}
  BY DEF BacklogInv, DispatchTypeOK
\* The request inserts its operation after it has checked, so that it was not listed.
<1>3. CASE InsertOperation(t)
  <2>0. PICK place \in 1 .. Len(backlog) + 1 : backlog' = InsertAt(backlog, place, t)
    BY <1>3 DEF InsertOperation
  <2>1. sender[t] = "check" /\ sender' = [sender EXCEPT ![t] = "attempt"]
    BY <1>3 DEF InsertOperation, Sender
  <2>2. DOMAIN backlog = 1 .. Len(backlog) /\ Len(backlog) \in Nat
    BY <1>2
  <2>3. /\ backlog' \in Seq(Task) /\ DOMAIN backlog' = 1 .. Len(backlog) + 1
        /\ \A i \in 1 .. Len(backlog) + 1 :
              backlog'[i] = IF i < place THEN backlog[i] ELSE IF i = place THEN t ELSE backlog[i - 1]
    <3>1. /\ backlog' \in Seq(Task) /\ Len(backlog') = Len(backlog) + 1
          /\ \A i \in 1 .. Len(backlog) + 1 :
                backlog'[i] = IF i < place THEN backlog[i] ELSE IF i = place THEN t ELSE backlog[i - 1]
      BY <1>2, <2>0, Inserted
    <3> QED
      BY <2>2, <3>1
  <2>4. \A i \in DOMAIN backlog : backlog[i] # t
    BY <1>2, <2>1
  <2>5. \A i \in DOMAIN backlog' : /\ i < place => i \in DOMAIN backlog
                                   /\ i > place => i - 1 \in DOMAIN backlog
    BY <2>2, <2>3
  <2>6. Once(backlog')
    BY <1>2, <2>2, <2>3, <2>4, <2>5 DEF Once
  <2>7. \A i \in DOMAIN backlog' : sender'[backlog'[i]] \notin {"none", "check"}
    <3> TAKE i \in DOMAIN backlog'
    <3>1. CASE i = place
      BY <1>2, <2>1, <2>3, <3>1
    <3>2. CASE i # place
      <4>1. PICK j \in DOMAIN backlog : backlog'[i] = backlog[j]
        BY <2>2, <2>3, <2>5, <3>2
      <4> QED
        BY <1>2, <2>1, <2>4, <4>1
    <3> QED
      BY <3>1, <3>2
  <2> QED
    BY <1>1, <2>6, <2>7 DEF BacklogInv, Once
<1>4. CASE ~InsertOperation(t)
  <2> USE DEF Sender
  <2>1. UNCHANGED backlog
    BY <1>4 DEF DispatchStep, BeginQueue, MarkAttempt, SendMessage, BrokerAnswers, ReceiveConfirmation,
                MarkDispatched, PublicationFails, RecordFailure, CutOff, ClaimOperation
  <2>2. \A u \in Task : sender[u] \notin {"none", "check"} => sender'[u] \notin {"none", "check"}
    BY <1>2, <1>4 DEF DispatchStep, BeginQueue, MarkAttempt, SendMessage, BrokerAnswers, ReceiveConfirmation,
                      MarkDispatched, PublicationFails, RecordFailure, CutOff, ClaimOperation
  <2> QED
    BY <1>1, <1>2, <2>1, <2>2 DEF BacklogInv, Once
<1> QED
  BY <1>3, <1>4

LEMMA BacklogInductive == BacklogInv /\ [DispatchNext]_dispatchVars => BacklogInv'
<1> SUFFICES ASSUME BacklogInv, [DispatchNext]_dispatchVars PROVE BacklogInv'
  OBVIOUS
<1>1. CASE DispatchNext
  <2>1. PICK t \in Task : DispatchStep(t)
    BY <1>1 DEF DispatchNext, DispatchStep
  <2> QED
    BY <2>1, BacklogKept
<1>2. CASE UNCHANGED dispatchVars
  BY <1>2 DEF dispatchVars, BacklogInv, DispatchTypeOK, Once
<1> QED
  BY <1>1, <1>2

\* For any backlog and any number of resources, a poll offers every operation
\* that waits, once, in the order of its resource, and no resource gets ahead of
\* another one that still has an operation to offer.
THEOREM PollsAreFair == DispatchSpec => []PollIsFair
<1>1. BacklogInv => PollIsFair
  BY QueuedOnce, PollOfQueued DEF BacklogInv
<1> QED
  BY <1>1, InitialBacklog, BacklogInductive, PTL DEF DispatchSpec
-----------------------------------------------------------------------------
(* ServiceDeletion *)

\* A success whose effects have run, in this claim or one that ended.
Succeeds(t) == "succeeded" \in run[t].applied \/ RunStatus(t) = "succeeded"

\* LoneCleanupRemoves holds from the effects on, wherever the request is: later
\* cleanups make the count larger, and the removal is final.
LoneSuccessRemoves ==
    \A t \in CleanupOp : Succeeds(t) /\ Cleanups(t[1]) \subseteq {t} => service = "gone"

\* What was counted has succeeded, and a published success is final.
CountedSucceeded ==
    \A t \in CleanupOp : counted[t] # NotCounted =>
        \A u \in counted[t] : u # t => RunStatus(u) = "succeeded"

DelInv == DelTypeOK /\ LoneSuccessRemoves /\ CountedSucceeded

LEMMA CleanupIsTask == \A t \in CleanupOp : t \in Task /\ t[1] \in DelReq
  BY CleanupAssumption DEF CleanupOp

LEMMA InitialDeletion == DelInit => DelInv
<1> SUFFICES ASSUME DelInit PROVE DelInv
  OBVIOUS
<1>1. DelTypeOK
  BY InitialRuns DEF DelInit, DelTypeOK, DelRequest
<1>2. \A t \in Task : run[t].applied = {} /\ run[t].stage = "absent"
  BY DEF DelInit, RunInit, RunAt
<1>3. \A t \in Task : ~ Succeeds(t)
  BY <1>2 DEF Succeeds, RunStatus
<1> QED
  BY <1>1, <1>3, CleanupIsTask DEF DelInv, LoneSuccessRemoves, CountedSucceeded, DelInit

\* Effects that run but those of a success bring no success about.
LEMMA NoNewSuccess ==
    ASSUME run \in [Task -> RunRecord], NEW t \in Task,
           EnqueueRun(t) \/ StartRun(t) \/ SettleRun(t) \/ RunMoves(t) \/ ApplyRun(t, "failed")
    PROVE  \A u \in Task : Succeeds(u)' => Succeeds(u)
<1>0. run[t] \in RunRecord /\ RunStep(t)
  BY DEF RunStep, Result
<1>1. \A u \in Task : u # t => (Succeeds(u)' => Succeeds(u))
  BY <1>0, RunStepTyped DEF Succeeds, RunStatus
<1>2. CASE EnqueueRun(t) \/ SettleRun(t) \/ StartRun(t)
  <2>1. run'[t].applied = run[t].applied /\ run'[t].result = run[t].result
    BY <1>0, <1>2 DEF EnqueueRun, SettleRun, StartRun, RunGoes, RunRecord
  <2>2. run'[t].stage = "ended" => run[t].stage = "ended"
    BY <1>0, <1>2 DEF EnqueueRun, SettleRun, StartRun, RunGoes, RunRecord
  <2>3. run'[t].stage \in Stage
    BY <1>0, RunStepTyped DEF RunRecord
  <2>4. RunStatus(t)' = "succeeded" => run'[t].stage = "ended" /\ run'[t].result = "succeeded"
    BY <2>3 DEF RunStatus, Stage, InProgress
  <2>5. RunStatus(t)' = "succeeded" => RunStatus(t) = "succeeded"
    BY <2>1, <2>2, <2>4, SucceededIsEnded
  <2> QED
    BY <1>1, <2>1, <2>5 DEF Succeeds
<1>3. CASE ClaimRun(t)
  <2>1. run'[t].applied = run[t].applied /\ run'[t].stage = "claimed"
    BY <1>0, <1>3 DEF ClaimRun, RunRecord
  <2> QED
    BY <1>1, <2>1 DEF Succeeds, RunStatus, InProgress
<1>4. CASE LapseRun(t)
  <2>1. run'[t].applied = {} /\ run'[t].stage \in {"queued", "exhausted"}
    BY <1>0, <1>4 DEF LapseRun, RunAt
  <2> QED
    BY <1>1, <2>1 DEF Succeeds, RunStatus, InProgress
<1>5. CASE PublishRun(t)
  <2>1. /\ run'[t].applied \subseteq run[t].applied /\ run[t].result \in run[t].applied
        /\ run'[t].result = run[t].result /\ run'[t].stage = "ended"
    BY <1>0, <1>5 DEF PublishRun, RunRecord, Late
  <2> QED
    BY <1>1, <2>1 DEF Succeeds, RunStatus, InProgress
<1>6. CASE \E result \in Result : ReserveRun(t, result)
  <2>1. run'[t].applied \subseteq run[t].applied /\ run'[t].stage = "reserved"
    BY <1>6, ReserveDoes
  <2> QED
    BY <1>1, <2>1 DEF Succeeds, RunStatus, InProgress
<1>7. CASE ApplyRun(t, "failed")
  <2>1. /\ run'[t].stage = run[t].stage /\ run'[t].result = run[t].result
        /\ run'[t].applied = run[t].applied \cup {"failed"}
    BY <1>7, ApplyDoes DEF Result
  <2> QED
    BY <1>1, <2>1 DEF Succeeds, RunStatus, InProgress
<1> QED
  BY <1>2, <1>3, <1>4, <1>5, <1>6, <1>7 DEF RunMoves

\* An operation that was queued has a position for good.
LEMMA CleanupsGrow ==
    ASSUME run \in [Task -> RunRecord], NEW t \in Task, RunStep(t)
    PROVE  \A d : Cleanups(d) \subseteq Cleanups(d)'
<1>1. run[t].stage # "absent" => run'[t].stage # "absent"
  <2>1. CASE \E result \in Result : ReserveRun(t, result) \/ ApplyRun(t, result)
    BY <2>1, ReserveDoes, ApplyDoes
  <2>2. CASE LapseRun(t)
    BY <2>2 DEF LapseRun, RunAt
  <2>3. CASE EnqueueRun(t) \/ StartRun(t) \/ SettleRun(t) \/ ClaimRun(t) \/ PublishRun(t)
    BY <2>3 DEF EnqueueRun, StartRun, SettleRun, ClaimRun, PublishRun, RunGoes, RunRecord
  <2> QED
    BY <2>1, <2>2, <2>3 DEF RunStep, RunMoves
<1> QED
  BY <1>1, RunStepTyped, CleanupIsTask DEF Cleanups

\* What a step of a deletion may do to operations, to the service and to the counts.
DelShape ==
    /\ UNCHANGED run \/ \E t \in CleanupOp : RunStep(t)
    /\ service = "gone" => service' = "gone"
    /\ \A t \in CleanupOp : Succeeds(t)' =>
          Succeeds(t) \/ service' = "gone" \/ ~ Cleanups(t[1]) \subseteq {t}
    /\ \A t \in CleanupOp : counted'[t] # NotCounted =>
          \/ counted'[t] = counted[t]
          \/ UNCHANGED run /\ counted'[t] = Cleanups(t[1]) /\ Pending(t) = {}

LEMMA QuietShape ==
    ASSUME DelInv, UNCHANGED <<run, counted>>, service = "gone" => service' = "gone"
    PROVE  DelShape
  BY DEF DelShape, Succeeds, RunStatus

LEMMA CleanupShape ==
    ASSUME DelInv, NEW t \in CleanupOp, UNCHANGED counted, service = "gone" => service' = "gone",
           EnqueueRun(t) \/ StartRun(t) \/ SettleRun(t) \/ ApplyRun(t, "failed")
    PROVE  DelShape
<1>1. run \in [Task -> RunRecord] /\ t \in Task
  BY CleanupIsTask DEF DelInv, DelTypeOK
<1>2. RunStep(t)
  BY DEF RunStep, Result
<1>3. \A u \in CleanupOp : Succeeds(u)' => Succeeds(u)
  BY <1>1, NoNewSuccess, CleanupIsTask
<1> QED
  BY <1>2, <1>3 DEF DelShape

LEMMA CountShape ==
    ASSUME DelInv, NEW t \in CleanupOp, CountPending(t)
    PROVE  DelShape
<1>1. run \in [Task -> RunRecord] /\ t \in Task /\ counted \in [CleanupOp -> (SUBSET CleanupOp) \cup {NotCounted}]
  BY CleanupIsTask DEF DelInv, DelTypeOK
<1>2. service' = service
  BY DEF CountPending
<1>3. CASE Pending(t) = {}
  <2>1. UNCHANGED run /\ counted' = [counted EXCEPT ![t] = Cleanups(t[1])]
    BY <1>3 DEF CountPending
  <2>2. \A u \in CleanupOp : u # t => counted'[u] = counted[u]
    BY <1>1, <2>1
  <2>3. counted'[t] = Cleanups(t[1])
    BY <1>1, <2>1
  <2>4. \A u \in CleanupOp : Succeeds(u)' => Succeeds(u)
    BY <2>1 DEF Succeeds, RunStatus
  <2> QED
    BY <1>2, <1>3, <2>1, <2>2, <2>3, <2>4 DEF DelShape
<1>4. CASE Pending(t) # {}
  <2>1. ApplyRun(t, "succeeded") /\ UNCHANGED counted
    BY <1>4 DEF CountPending
  <2>2. RunStep(t)
    BY <2>1 DEF RunStep, Result
  \* A cleanup that is counted is another one, and has been queued.
  <2>3. ~ Cleanups(t[1]) \subseteq {t}
    BY <1>4 DEF Pending
  <2>4. \A u \in CleanupOp : u # t => (Succeeds(u)' => Succeeds(u))
    BY <1>1, <2>2, RunStepTyped, CleanupIsTask DEF Succeeds, RunStatus
  <2> QED
    BY <1>2, <2>1, <2>2, <2>3, <2>4 DEF DelShape
<1> QED
  BY <1>3, <1>4

LEMMA RemoveShape ==
    ASSUME DelInv, NEW t \in CleanupOp, RemoveService(t)
    PROVE  DelShape
<1>1. counted \in [CleanupOp -> (SUBSET CleanupOp) \cup {NotCounted}]
  BY DEF DelInv, DelTypeOK
<1>2. service' = "gone" /\ RunStep(t)
  BY DEF RemoveService, FinalizeServiceDeletion, RunStep, Result
<1>3. \A u \in CleanupOp : counted'[u] \in {counted[u], NotCounted}
  BY <1>1 DEF RemoveService
<1> QED
  BY <1>2, <1>3 DEF DelShape

LEMMA MoveShape ==
    ASSUME DelInv, NEW t \in CleanupOp, CleanupMoves(t)
    PROVE  DelShape
<1>1. run \in [Task -> RunRecord] /\ t \in Task /\ counted \in [CleanupOp -> (SUBSET CleanupOp) \cup {NotCounted}]
  BY CleanupIsTask DEF DelInv, DelTypeOK
<1>2. service' = service /\ RunStep(t) /\ RunMoves(t)
  BY DEF CleanupMoves, RunStep
<1>3. \A u \in CleanupOp : counted'[u] \in {counted[u], NotCounted}
  BY <1>1 DEF CleanupMoves
<1>4. \A u \in CleanupOp : Succeeds(u)' => Succeeds(u)
  BY <1>1, <1>2, NoNewSuccess, CleanupIsTask
<1> QED
  BY <1>2, <1>3, <1>4 DEF DelShape

LEMMA DelStepShape ==
    ASSUME DelInv, DelNext
    PROVE  DelShape
<1>1. ASSUME NEW e \in DelEnv, BeginRollout(e) \/ StartRollout(e) \/ EndRollout(e) PROVE DelShape
  BY <1>1, QuietShape DEF BeginRollout, StartRollout, EndRollout, SetService
<1>2. ASSUME NEW d \in DelReq, BeginDelete(d) \/ MarkDeleting(d) \/ DeleteNow(d) \/ StopDelete(d)
      PROVE  DelShape
  BY <1>2, QuietShape DEF BeginDelete, MarkDeleting, DeleteNow, StopDelete, SetService,
                          FinalizeServiceDeletion
<1>3. ASSUME NEW d \in DelReq, NEW e \in DelEnv, QueueCleanup(d, e) PROVE DelShape
  BY <1>3, CleanupShape DEF QueueCleanup, CleanupOp
<1>4. ASSUME NEW t \in CleanupOp, StartCleanup(t) \/ FailCleanup(t) PROVE DelShape
  BY <1>4, CleanupShape DEF StartCleanup, FailCleanup, SetService
<1> QED
  BY <1>1, <1>2, <1>3, <1>4, CountShape, RemoveShape, MoveShape DEF DelNext

LEMMA DelTyped ==
    ASSUME DelTypeOK, DelNext
    PROVE  DelTypeOK'
<1> USE DEF DelTypeOK
<1>0. \A d \in DelReq, pc \in {"idle", "mark", "queue", "done"} :
        [delReq EXCEPT ![d].pc = pc] \in [DelReq -> DelRequest]
  BY DEF DelRequest
<1>1. ASSUME NEW t \in CleanupOp, RunStep(t) PROVE run' \in [Task -> RunRecord]
  BY <1>1, CleanupIsTask, RunStepTyped
<1>2. ASSUME NEW e \in DelEnv, BeginRollout(e) \/ StartRollout(e) \/ EndRollout(e)
      PROVE  DelTypeOK'
  BY <1>2 DEF BeginRollout, StartRollout, EndRollout, SetService
<1>3. ASSUME NEW d \in DelReq, BeginDelete(d) PROVE DelTypeOK'
  <2>1. PICK repo \in {{}, RepoTargets} :
          delReq' = [delReq EXCEPT ![d] = [pc |-> "mark", todo |-> IF targets = {} THEN repo ELSE targets]]
    BY <1>3 DEF BeginDelete
  <2>2. [pc |-> "mark", todo |-> IF targets = {} THEN repo ELSE targets] \in DelRequest
    BY CleanupAssumption DEF DelRequest
  <2>3. delReq' \in [DelReq -> DelRequest]
    BY <2>1, <2>2
  <2> QED
    BY <1>3, <2>3 DEF BeginDelete
<1>4. ASSUME NEW d \in DelReq, MarkDeleting(d) \/ DeleteNow(d) \/ StopDelete(d) PROVE DelTypeOK'
  <2>1. delReq' \in [DelReq -> DelRequest]
    BY <1>0, <1>4 DEF MarkDeleting, DeleteNow, StopDelete
  <2> QED
    BY <1>4, <2>1 DEF MarkDeleting, DeleteNow, StopDelete, SetService, FinalizeServiceDeletion
<1>5. ASSUME NEW d \in DelReq, NEW e \in DelEnv, QueueCleanup(d, e) PROVE DelTypeOK'
  <2>1. delReq[d] \in DelRequest
    OBVIOUS
  <2>2. [[delReq[d] EXCEPT !.todo = @ \ {e}]
            EXCEPT !.pc = IF delReq[d].todo = {e} THEN "done" ELSE delReq[d].pc] \in DelRequest
    BY <2>1 DEF DelRequest
  <2>3. delReq' \in [DelReq -> DelRequest]
    BY <1>5, <2>2 DEF QueueCleanup
  <2>4. run' \in [Task -> RunRecord]
    BY <1>1, <1>5 DEF QueueCleanup, CleanupOp, RunStep
  <2> QED
    BY <1>5, <2>3, <2>4 DEF QueueCleanup
<1>6. ASSUME NEW t \in CleanupOp,
             StartCleanup(t) \/ FailCleanup(t) \/ CountPending(t) \/ RemoveService(t) \/ CleanupMoves(t)
      PROVE  DelTypeOK'
  <2>1. RunStep(t) \/ UNCHANGED run
    BY <1>6 DEF StartCleanup, FailCleanup, CountPending, RemoveService, CleanupMoves, RunStep, Result
  <2>2. run' \in [Task -> RunRecord]
    BY <1>1, <2>1
  <2>3. Cleanups(t[1]) \in SUBSET CleanupOp
    BY DEF Cleanups
  <2>4. counted' \in [CleanupOp -> (SUBSET CleanupOp) \cup {NotCounted}]
    BY <1>6, <2>3 DEF StartCleanup, FailCleanup, CountPending, RemoveService, CleanupMoves
  <2> QED
    BY <1>6, <2>2, <2>4 DEF StartCleanup, FailCleanup, CountPending, RemoveService, CleanupMoves,
                            SetService, FinalizeServiceDeletion
<1> QED
  BY <1>2, <1>3, <1>4, <1>5, <1>6 DEF DelNext

LEMMA DelKept ==
    ASSUME DelInv, DelNext
    PROVE  DelInv'
<1>1. DelTypeOK'
  BY DelTyped DEF DelInv
<1>2. run \in [Task -> RunRecord] /\ DelShape
  BY DelStepShape DEF DelInv, DelTypeOK
<1>3. \A d : Cleanups(d) \subseteq Cleanups(d)'
  BY <1>2, CleanupsGrow, CleanupIsTask DEF DelShape, Cleanups
<1>4. LoneSuccessRemoves'
  BY <1>2, <1>3 DEF DelInv, DelShape, LoneSuccessRemoves
<1>5. CountedSucceeded'
  <2> SUFFICES ASSUME NEW t \in CleanupOp, counted'[t] # NotCounted, NEW u \in counted'[t], u # t
               PROVE  RunStatus(u)' = "succeeded"
    BY DEF CountedSucceeded
  <2>1. CASE counted'[t] = counted[t]
    <3>1. RunStatus(u) = "succeeded" /\ u \in CleanupOp
      BY <2>1 DEF DelInv, CountedSucceeded, DelTypeOK
    <3> QED
      BY <1>2, <3>1, SuccessStays, CleanupIsTask DEF DelShape, RunStatus
  <2>2. CASE UNCHANGED run /\ counted'[t] = Cleanups(t[1]) /\ Pending(t) = {}
    BY <2>2 DEF Pending, RunStatus
  <2> QED
    BY <1>2, <2>1, <2>2 DEF DelShape
<1> QED
  BY <1>1, <1>4, <1>5 DEF DelInv

LEMMA DelInductive == DelInv /\ [DelNext]_delVars => DelInv'
<1>1. DelInv /\ UNCHANGED delVars => DelInv'
  BY DEF delVars, DelInv, DelTypeOK, LoneSuccessRemoves, CountedSucceeded, Succeeds, RunStatus, Cleanups
<1> QED
  BY <1>1, DelKept

LEMMA DeletionInvariant == DelSpec => []DelInv
  BY InitialDeletion, DelInductive, PTL DEF DelSpec

\* The documents of a service, its deletions and their counts keep their types.
THEOREM DeletionTypeCorrect == DelSpec => []DelTypeOK
<1>1. DelInv => DelTypeOK
  BY DEF DelInv
<1> QED
  BY <1>1, DeletionInvariant, PTL

\* For any number of deletions and environments: a request with a single cleanup
\* has removed the service when the success of that cleanup is published,
\* whatever else goes on, and however many reports of it overlap.
THEOREM LoneCleanupSuffices == DelSpec => []LoneCleanupRemoves
<1>1. DelInv => LoneCleanupRemoves
  BY CleanupIsTask, SucceededIsEnded DEF DelInv, DelTypeOK, LoneSuccessRemoves, LoneCleanupRemoves, Succeeds
<1> QED
  BY <1>1, DeletionInvariant, PTL

\* Nothing that is late, of deploys or of other deletions, brings a service back.
THEOREM RemovalIsFinal == DelSpec => RemovedServiceStaysRemoved
<1>1. DelInv /\ [DelNext]_delVars => [service = "gone" => service' = "gone"]_delVars
  BY DelStepShape DEF DelShape
<1> QED
  BY <1>1, DeletionInvariant, PTL DEF DelSpec, RemovedServiceStaysRemoved

\* Whoever removes the service had seen every other cleanup of the request
\* succeed, and they have.
THEOREM RemovalComesLast == DelSpec => RemovalFollowsCleanups
<1>1. DelInv /\ [DelNext]_delVars =>
        [\A t \in CleanupOp : RemoveService(t) =>
            \A u \in counted[t] : u # t => RunStatus(u) = "succeeded"]_delVars
  BY DEF DelInv, CountedSucceeded, RemoveService
<1> QED
  BY <1>1, DeletionInvariant, PTL DEF DelSpec, RemovalFollowsCleanups

\* Deletions leave the operations their lives: each step is one of OperationRuns.
THEOREM DeletionsFollowRuns == DelSpec => RunSpec
<1>1. DelInit => RunInit
  BY DEF DelInit
<1>2. DelInv /\ [DelNext]_delVars => [\E t \in Task : RunStep(t)]_run
  BY DelStepShape, CleanupIsTask DEF DelShape, delVars
<1> QED
  BY <1>1, <1>2, DeletionInvariant, PTL DEF DelSpec, RunSpec
-----------------------------------------------------------------------------
(* RulePublishing *)

\* Approval is needed wherever a publication attaches the external gateway.
ExternalIsGated == \A gateways \in Gateways : "external" \in gateways => gateways \in RuleGated

\* Gateways that may be attached once those of the set given were granted.
MayAttach(gateways, given) ==
    ExternalIsGated /\ "external" \in gateways => \E g \in given : "external" \in g

\* A document that may be shown, or restored.
SoundRule(x, given) ==
    /\ x.status = "published" => x.gateways # {}
    /\ MayAttach(x.gateways, given)

\* What a request has read may be restored; what it wants may be attached,
\* unless it is a publication that still looks whether it needs approval.
SoundRequest(q, given) ==
    /\ SoundRule(q.prev, given)
    /\ MayAttach(q.want, given) \/ (q.pc = "check" /\ q.kind = "publish")

SoundPayload(p, given) == SoundRule(p.prev, given) /\ MayAttach(p.next, given)

\* The documents, the requests, the payloads, and what needs no more than types.
RulePart == rule \in Rule /\ SoundRule(rule, granted)
RequestPart == /\ ruleReq \in [RuleReq -> RuleRequest]
               /\ \A r \in RuleReq : SoundRequest(ruleReq[r], granted)
PayloadPart == /\ ruleOp \in [Task -> RulePayload]
               /\ \A t \in Task : SoundPayload(ruleOp[t], granted)
OtherPart == /\ run \in [Task -> RunRecord] /\ granted \subseteq Gateways
             /\ ruleApproval \in Gateways \cup {NoGateways}

\* The properties say something of the document; they hold because the same is
\* true of every copy of it, and of all gateways that are on their way into it.
RuleInv == RulePart /\ RequestPart /\ PayloadPart /\ OtherPart

LEMMA NoRuleSound ==
    /\ NoRule \in Rule /\ \A given : SoundRule(NoRule, given)
    /\ \A pc \in {"idle", "done"} :
         RuleRequestAt(pc) \in RuleRequest /\ \A given : SoundRequest(RuleRequestAt(pc), given)
<1>1. NoRule \in Rule /\ \A given : SoundRule(NoRule, given)
  BY DEF NoRule, Rule, RuleStatus, Gateways, SoundRule, MayAttach
<1>2. ASSUME NEW pc \in {"idle", "done"}
      PROVE  RuleRequestAt(pc) \in RuleRequest /\ \A given : SoundRequest(RuleRequestAt(pc), given)
  BY <1>1 DEF RuleRequestAt, RuleRequest, Gateways, SoundRequest, MayAttach
<1> QED
  BY <1>1, <1>2

LEMMA InitialRule == RuleInit => RuleInv
<1> SUFFICES ASSUME RuleInit PROVE RuleInv
  OBVIOUS
<1> DEFINE payload == [kind |-> "publish", next |-> {}, prev |-> NoRule]
<1>1. payload \in RulePayload /\ SoundPayload(payload, granted)
  BY NoRuleSound DEF RulePayload, Gateways, SoundPayload, MayAttach
<1> HIDE DEF payload
<1>2. ruleOp = [t \in Task |-> payload]
  BY DEF RuleInit, payload
<1>3. ruleReq = [r \in RuleReq |-> RuleRequestAt("idle")] /\ rule = NoRule
      /\ ruleApproval = NoGateways /\ granted = {} /\ RunInit
  BY DEF RuleInit
<1> QED
  BY <1>1, <1>2, <1>3, InitialRuns, NoRuleSound DEF RuleInv, RulePart, RequestPart, PayloadPart, OtherPart

\* What was granted stays granted.
LEMMA GrantsGrow ==
    ASSUME NEW given, NEW more, given \subseteq more
    PROVE  /\ \A x : SoundRule(x, given) => SoundRule(x, more)
           /\ \A q : SoundRequest(q, given) => SoundRequest(q, more)
           /\ \A p : SoundPayload(p, given) => SoundPayload(p, more)
<1>1. \A g : MayAttach(g, given) => MayAttach(g, more)
  BY DEF MayAttach
<1> QED
  BY <1>1 DEF SoundRule, SoundRequest, SoundPayload

LEMMA RuleSet ==
    ASSUME RulePart, NEW status \in RuleStatus \cup {"absent", "deleted"}, NEW gateways \in Gateways,
           SoundRule([status |-> status, gateways |-> gateways], granted),
           SetRule(status, gateways), UNCHANGED granted
    PROVE  RulePart'
<1>1. [status |-> status, gateways |-> gateways] \in Rule
  BY DEF Rule
<1> QED
  BY <1>1 DEF RulePart, SetRule

LEMMA RequestSet ==
    ASSUME RequestPart, NEW r \in RuleReq, NEW q \in RuleRequest, SoundRequest(q, granted'),
           granted \subseteq granted', ruleReq' = [ruleReq EXCEPT ![r] = q]
    PROVE  RequestPart'
<1>1. \A p \in RuleReq : SoundRequest(ruleReq[p], granted')
  BY GrantsGrow DEF RequestPart
<1> QED
  BY <1>1 DEF RequestPart

LEMMA RequestDone ==
    ASSUME RequestPart, NEW r \in RuleReq, RuleDone(r), UNCHANGED granted
    PROVE  RequestPart'
  BY NoRuleSound, RequestSet DEF RuleDone

\* A request goes on with what it has; past the check, it may attach what it wants.
LEMMA RequestGoes ==
    ASSUME RequestPart, NEW r \in RuleReq, UNCHANGED granted,
           NEW pc \in {"idle", "worker", "check", "mark", "enqueue", "busy", "done"},
           MayAttach(ruleReq[r].want, granted), RuleGoes(r, pc)
    PROVE  RequestPart'
<1>1. ruleReq[r] \in RuleRequest /\ SoundRequest(ruleReq[r], granted)
  BY DEF RequestPart
<1>2. [ruleReq[r] EXCEPT !.pc = pc] \in RuleRequest
  BY <1>1 DEF RuleRequest
<1>3. SoundRequest([ruleReq[r] EXCEPT !.pc = pc], granted)
  BY <1>1 DEF SoundRequest, RuleRequest
<1> QED
  BY <1>2, <1>3, RequestSet DEF RuleGoes, RequestPart

LEMMA PayloadSet ==
    ASSUME PayloadPart, run \in [Task -> RunRecord], NEW p \in RulePayload,
           SoundPayload(p, granted), QueueRuleOp(p), UNCHANGED granted
    PROVE  PayloadPart' /\ run' \in [Task -> RunRecord]
<1>1. PICK t \in Task : EnqueueRun(t) /\ ruleOp' = [ruleOp EXCEPT ![t] = p]
  BY DEF QueueRuleOp
<1>2. run' \in [Task -> RunRecord]
  BY <1>1, RunStepTyped DEF RunStep
<1> QED
  BY <1>1, <1>2 DEF PayloadPart

\* What an action on one operation leaves alone.
LEMMA OthersMove ==
    ASSUME OtherPart, NEW t \in Task, RunStep(t), UNCHANGED <<granted, ruleApproval>>
    PROVE  OtherPart'
  BY RunStepTyped DEF OtherPart

LEMMA OthersQuiet ==
    ASSUME OtherPart, UNCHANGED <<run, granted>>,
           ruleApproval' = ruleApproval \/ ruleApproval' \in Gateways \cup {NoGateways}
    PROVE  OtherPart'
  BY DEF OtherPart

LEMMA RuleStays == RulePart /\ UNCHANGED <<rule, granted>> => RulePart'
  BY DEF RulePart

LEMMA RequestsStay == RequestPart /\ UNCHANGED <<ruleReq, granted>> => RequestPart'
  BY DEF RequestPart

LEMMA PayloadsStay == PayloadPart /\ UNCHANGED <<ruleOp, granted>> => PayloadPart'
  BY DEF PayloadPart

LEMMA AskTyped ==
    ASSUME OtherPart, NEW want \in Gateways, AskApproval(want)
    PROVE  ruleApproval' \in Gateways \cup {NoGateways}
  BY DEF OtherPart, AskApproval

\* Drafts, and rules that are queued, may be shown if their gateways may be attached.
LEMMA PendingSound ==
    ASSUME NEW status \in {"draft", "queued", "in-progress"}, NEW gateways \in Gateways,
           NEW given, MayAttach(gateways, given)
    PROVE  /\ [status |-> status, gateways |-> gateways] \in Rule
           /\ SoundRule([status |-> status, gateways |-> gateways], given)
  BY DEF Rule, RuleStatus, SoundRule

LEMMA InternalMayBeAttached ==
    /\ {} \in Gateways /\ {"internal"} \in Gateways
    /\ \A given : MayAttach({}, given) /\ MayAttach({"internal"}, given)
  BY DEF MayAttach, Gateways

LEMMA UngatedMayBeAttached ==
    ASSUME NEW gateways \in Gateways, gateways \notin RuleGated, NEW given
    PROVE  MayAttach(gateways, given)
  BY DEF MayAttach, ExternalIsGated

\* A request that was just taken up.
Takes(r, pc, kind, want) ==
    ruleReq' = [ruleReq EXCEPT ![r] = [pc |-> pc, kind |-> kind, want |-> want, prev |-> rule]]

LEMMA RequestTaken ==
    ASSUME RequestPart, RulePart, NEW r \in RuleReq,
           NEW pc \in {"check", "enqueue", "busy"},
           NEW kind \in {"create", "publish", "execute", "republish", "delete"},
           NEW want \in Gateways, granted \subseteq granted',
           MayAttach(want, granted') \/ (pc = "check" /\ kind = "publish"),
           Takes(r, pc, kind, want)
    PROVE  RequestPart'
<1> DEFINE q == [pc |-> pc, kind |-> kind, want |-> want, prev |-> rule]
<1>1. SoundRule(rule, granted')
  BY GrantsGrow DEF RulePart
<1>2. q \in RuleRequest /\ SoundRequest(q, granted')
  BY <1>1 DEF RuleRequest, RulePart, SoundRequest
<1> HIDE DEF q
<1>3. ruleReq' = [ruleReq EXCEPT ![r] = q]
  BY DEF q, Takes
<1> QED
  BY <1>2, <1>3, RequestSet

\* CreateRule, PromoteRule and ensureDefaultRule bring the document about.
LEMMA CreationsKeep ==
    ASSUME RuleInv, NEW r \in RuleReq, NEW want \in Gateways,
           CreateRule(r, want) \/ PromoteRule \/ EnsureDefaultRule(r)
    PROVE  RuleInv'
<1> USE DEF RuleInv
<1>0. UNCHANGED <<run, ruleOp, granted>>
  BY DEF CreateRule, PromoteRule, EnsureDefaultRule
<1>1. PayloadPart'
  BY <1>0, PayloadsStay
<1>2. OtherPart'
  BY <1>0, AskTyped, OthersQuiet DEF CreateRule, PromoteRule, EnsureDefaultRule
<1> DEFINE draft == [status |-> "draft", gateways |-> {}]
           Shows(status, gateways) == rule' = [status |-> status, gateways |-> gateways]
           Queues(pc, kind, gateways) ==
               ruleReq' = [ruleReq EXCEPT ![r] = [pc |-> pc, kind |-> kind, want |-> gateways, prev |-> draft]]
<1>3. ASSUME NEW status \in {"draft", "queued"}, NEW gateways \in Gateways,
             MayAttach(gateways, granted), Shows(status, gateways)
      PROVE  RulePart'
  BY <1>0, <1>3, PendingSound DEF RulePart
<1>4. ASSUME NEW pc \in {"worker", "enqueue"}, NEW kind \in {"create", "republish"},
             NEW gateways \in Gateways, MayAttach(gateways, granted), Queues(pc, kind, gateways)
      PROVE  RequestPart'
  <2> DEFINE q == [pc |-> pc, kind |-> kind, want |-> gateways, prev |-> draft]
  <2>1. draft \in Rule /\ SoundRule(draft, granted)
    BY PendingSound, InternalMayBeAttached
  <2>2. q \in RuleRequest /\ SoundRequest(q, granted')
    BY <1>0, <1>4, <2>1 DEF RuleRequest, SoundRequest
  <2>3. ruleReq' = [ruleReq EXCEPT ![r] = q]
    BY <1>4
  <2> HIDE DEF q
  <2> QED
    BY <1>0, <2>2, <2>3, RequestSet
<1>5. CASE CreateRule(r, want)
  <2>1. CASE want \in RuleGated \/ want = {}
    <3>1. RulePart'
      BY <1>3, <1>5, <2>1, InternalMayBeAttached DEF CreateRule
    <3>2. RequestPart'
      BY <1>0, <1>5, <2>1, RequestDone DEF CreateRule
    <3> QED
      BY <1>1, <1>2, <3>1, <3>2
  <2>2. CASE want \notin RuleGated /\ want # {}
    <3>1. MayAttach(want, granted)
      BY <2>2, UngatedMayBeAttached
    <3>2. Shows("queued", want) /\ Queues("worker", "create", want)
      BY <1>5, <2>2 DEF CreateRule
    <3>3. RulePart' /\ RequestPart'
      BY <1>3, <1>4, <3>1, <3>2
    <3> QED
      BY <1>1, <1>2, <3>3
  <2> QED
    BY <2>1, <2>2
<1>6. CASE PromoteRule
  BY <1>0, <1>1, <1>2, <1>3, <1>6, RequestsStay, InternalMayBeAttached DEF PromoteRule
<1>7. CASE EnsureDefaultRule(r)
  <2>1. RulePart'
    BY <1>3, <1>7, InternalMayBeAttached DEF EnsureDefaultRule
  <2>2. UNCHANGED ruleReq \/ Queues("enqueue", "republish", {"internal"})
    BY <1>7 DEF EnsureDefaultRule
  <2>3. RequestPart'
    BY <1>0, <1>4, <2>2, RequestsStay, InternalMayBeAttached
  <2> QED
    BY <1>1, <1>2, <2>1, <2>3
<1> QED
  BY <1>5, <1>6, <1>7

\* Requests that load the document: what they want is in it, is looked at
\* later, or has just been approved.
LEMMA LoadsKeep ==
    ASSUME RuleInv, NEW r \in RuleReq, NEW want \in Gateways,
           PublishRule(r, want) \/ ApproveRule(r) \/ Republish(r) \/ DeleteRule(r)
    PROVE  RuleInv'
<1> USE DEF RuleInv
<1>0. /\ UNCHANGED <<run, rule, ruleOp>> /\ granted \subseteq granted'
      /\ granted' \subseteq Gateways /\ ruleApproval' \in {ruleApproval, NoGateways}
  BY DEF PublishRule, ApproveRule, Republish, DeleteRule, LoadRule, OtherPart
<1>1. RulePart' /\ PayloadPart' /\ OtherPart'
  BY <1>0, GrantsGrow DEF RulePart, PayloadPart, OtherPart
<1>2. CASE PublishRule(r, want)
  <2>1. Takes(r, "check", "publish", want)
    BY <1>2 DEF PublishRule, LoadRule, Takes
  <2> QED
    BY <1>0, <1>1, <2>1, RequestTaken
<1>3. CASE ApproveRule(r)
  <2>1. ruleApproval \in Gateways /\ MayAttach(ruleApproval, granted')
    BY <1>3 DEF ApproveRule, OtherPart, MayAttach
  <2>2. Takes(r, "check", "execute", ruleApproval)
    BY <1>3 DEF ApproveRule, LoadRule, Takes
  <2> QED
    BY <1>0, <1>1, <2>1, <2>2, RequestTaken
<1>4. CASE Republish(r)
  <2>1. rule.gateways \in Gateways /\ MayAttach(rule.gateways, granted')
    BY <1>4 DEF Republish, RulePart, SoundRule, Rule
  <2>2. Takes(r, "busy", "republish", rule.gateways)
    BY <1>4 DEF Republish, Takes
  <2> QED
    BY <1>0, <1>1, <2>1, <2>2, RequestTaken
<1>5. CASE DeleteRule(r)
  <2>1. Takes(r, "enqueue", "delete", {})
    BY <1>5 DEF DeleteRule, Takes
  <2> QED
    BY <1>0, <1>1, <2>1, InternalMayBeAttached, RequestTaken
<1> QED
  BY <1>2, <1>3, <1>4, <1>5

\* Requests that go on, and requests that end.
LEMMA RequestsKeep ==
    ASSUME RuleInv, NEW r \in RuleReq,
           FindWorker(r) \/ CheckRuleOps(r) \/ MarkRule(r) \/ MarkRepublished(r)
             \/ QueuePublish(r) \/ QueuePublishFails(r) \/ StopRule(r) \/ QueueDelete(r)
    PROVE  RuleInv'
<1> USE DEF RuleInv
<1>0. UNCHANGED granted
  BY DEF FindWorker, CheckRuleOps, MarkRule, MarkRepublished, QueuePublish, QueuePublishFails,
         StopRule, QueueDelete
<1>1. /\ ruleReq[r] \in RuleRequest /\ SoundRequest(ruleReq[r], granted)
      /\ ruleReq[r].want \in Gateways /\ ruleReq[r].prev \in Rule
      /\ rule \in Rule /\ SoundRule(rule, granted)
  BY DEF RequestPart, RulePart, RuleRequest
<1>2. ruleReq[r].pc # "check" => MayAttach(ruleReq[r].want, granted)
  BY <1>1 DEF SoundRequest
<1>3. CASE FindWorker(r)
  <2>1. RequestPart'
    BY <1>0, <1>2, <1>3, RequestGoes DEF FindWorker
  <2> QED
    BY <1>3, <2>1, RuleStays, PayloadsStay, OthersQuiet DEF FindWorker
<1>4. CASE CheckRuleOps(r)
  <2>1. ruleReq[r].kind # "publish" => MayAttach(ruleReq[r].want, granted)
    BY <1>1 DEF SoundRequest
  <2>2. ~ NeedsApproval(r) => MayAttach(ruleReq[r].want, granted)
    BY <1>1, <2>1, UngatedMayBeAttached DEF NeedsApproval
  <2>3. RuleDone(r) \/ (~ NeedsApproval(r) /\ RuleGoes(r, "mark"))
    BY <1>4 DEF CheckRuleOps
  <2>4. RequestPart'
    BY <1>0, <2>2, <2>3, RequestDone, RequestGoes
  <2>5. OtherPart'
    BY <1>1, <1>4, AskTyped, OthersQuiet DEF CheckRuleOps
  <2> QED
    BY <1>4, <2>4, <2>5, RuleStays, PayloadsStay DEF CheckRuleOps
<1>5. CASE MarkRule(r)
  <2>1. RequestPart'
    BY <1>0, <1>2, <1>5, RequestGoes DEF MarkRule
  <2>2. RulePart'
    BY <1>0, <1>1, <1>2, <1>5, PendingSound, RuleSet DEF MarkRule, RuleStatus
  <2> QED
    BY <1>5, <2>1, <2>2, PayloadsStay, OthersQuiet DEF MarkRule
<1>6. CASE MarkRepublished(r)
  <2>1. RequestPart'
    BY <1>0, <1>2, <1>6, RequestDone, RequestGoes DEF MarkRepublished
  <2>2. rule.gateways \in Gateways /\ MayAttach(rule.gateways, granted)
    BY <1>1 DEF Rule, SoundRule
  <2>3. RulePart'
    BY <1>0, <1>6, <2>2, PendingSound, RuleSet DEF MarkRepublished, RuleStatus
  <2> QED
    BY <1>6, <2>1, <2>3, PayloadsStay, OthersQuiet DEF MarkRepublished
<1>7. CASE QueuePublish(r)
  <2>1. PublishPayload(r) \in RulePayload /\ SoundPayload(PublishPayload(r), granted)
    BY <1>1, <1>2, <1>7 DEF QueuePublish, PublishPayload, RulePayload, SoundPayload, SoundRequest
  <2>2. PayloadPart' /\ run' \in [Task -> RunRecord]
    BY <1>0, <1>7, <2>1, PayloadSet DEF QueuePublish, OtherPart
  <2> QED
    BY <1>0, <1>7, <2>2, RequestDone, RuleStays DEF QueuePublish, OtherPart
<1>8. CASE QueuePublishFails(r)
  <2>1. /\ ruleReq[r].prev.status \in RuleStatus \cup {"absent", "deleted"}
        /\ ruleReq[r].prev.gateways \in Gateways
        /\ SoundRule([status |-> ruleReq[r].prev.status, gateways |-> ruleReq[r].prev.gateways], granted)
    BY <1>1 DEF Rule, SoundRequest, SoundRule
  <2>2. RulePart'
    BY <1>0, <1>8, <2>1, RuleSet DEF QueuePublishFails
  <2> QED
    BY <1>0, <1>8, <2>2, RequestDone, PayloadsStay, OthersQuiet DEF QueuePublishFails
<1>9. CASE StopRule(r)
  BY <1>9, RequestDone, RuleStays, PayloadsStay, OthersQuiet DEF StopRule
<1>10. CASE QueueDelete(r)
  <2> DEFINE p == [kind |-> "delete", next |-> {}, prev |-> ruleReq[r].prev]
  <2>1. p \in RulePayload /\ SoundPayload(p, granted)
    BY <1>1, InternalMayBeAttached DEF RulePayload, SoundPayload, SoundRequest
  <2>2. QueueRuleOp(p)
    BY <1>10 DEF QueueDelete
  <2> HIDE DEF p
  <2>3. PayloadPart' /\ run' \in [Task -> RunRecord]
    BY <1>0, <2>1, <2>2, PayloadSet DEF OtherPart
  <2>4. RequestPart'
    BY <1>0, <1>2, <1>10, RequestGoes DEF QueueDelete
  <2> QED
    BY <1>0, <1>10, <2>3, <2>4, RuleStays DEF QueueDelete, OtherPart
<1> QED
  BY <1>3, <1>4, <1>5, <1>6, <1>7, <1>8, <1>9, <1>10

\* The operations write what their payloads carry.
LEMMA RuleOpsKeep ==
    ASSUME RuleInv, NEW t \in Task,
           StartRule(t) \/ CompleteRule(t) \/ FailRule(t) \/ RuleOpMoves(t)
    PROVE  RuleInv'
<1> USE DEF RuleInv
<1>1. RunStep(t) /\ UNCHANGED <<ruleOp, ruleReq, ruleApproval, granted>>
  BY DEF StartRule, CompleteRule, FailRule, RuleOpMoves, RunStep, Result
<1>2. RequestPart' /\ PayloadPart' /\ OtherPart'
  BY <1>1, RequestsStay, PayloadsStay, OthersMove
<1>3. /\ rule \in Rule /\ SoundRule(rule, granted)
      /\ ruleOp[t] \in RulePayload /\ SoundPayload(ruleOp[t], granted)
  BY DEF RulePart, PayloadPart
<1>4. CASE StartRule(t)
  <2>1. rule.gateways \in Gateways /\ MayAttach(rule.gateways, granted)
    BY <1>3 DEF Rule, SoundRule
  <2>2. RulePart'
    BY <1>1, <1>4, <2>1, PendingSound, RuleSet, RuleStays DEF StartRule, RuleStatus
  <2> QED
    BY <1>2, <2>2
<1>5. CASE CompleteRule(t)
  <2>1. ruleOp[t].next \in Gateways /\ MayAttach(ruleOp[t].next, granted)
    BY <1>3 DEF RulePayload, SoundPayload
  <2> DEFINE status == PublishedStatus(ruleOp[t].next)
             x == [status |-> status, gateways |-> ruleOp[t].next]
  <2>2. status \in RuleStatus /\ SoundRule(x, granted)
    BY <2>1 DEF PublishedStatus, RuleStatus, SoundRule
  <2>3. CASE ruleOp[t].kind = "publish"
    <3>1. SetRule(status, ruleOp[t].next)
      BY <1>5, <2>3 DEF CompleteRule
    <3> HIDE DEF status
    <3>2. RulePart'
      BY <1>1, <2>1, <2>2, <3>1, RuleSet
    <3> QED
      BY <1>2, <3>2
  <2>4. CASE ruleOp[t].kind # "publish"
    <3>1. rule' = rule \/ rule' = [rule EXCEPT !.status = "deleted"]
      BY <1>3, <1>5, <2>4 DEF CompleteRule, Rule
    <3>2. RulePart'
      BY <1>1, <1>3, <3>1 DEF RulePart, Rule, SoundRule
    <3> QED
      BY <1>2, <3>2
  <2> QED
    BY <2>3, <2>4
<1>6. CASE FailRule(t)
  <2>1. /\ ruleOp[t].prev.status \in RuleStatus \cup {"absent", "deleted"}
        /\ ruleOp[t].prev.gateways \in Gateways
        /\ SoundRule([status |-> ruleOp[t].prev.status, gateways |-> ruleOp[t].prev.gateways], granted)
    BY <1>3 DEF RulePayload, Rule, SoundPayload, SoundRule
  <2>2. RulePart'
    BY <1>1, <1>6, <2>1, RuleSet, RuleStays DEF FailRule
  <2> QED
    BY <1>2, <2>2
<1>7. CASE RuleOpMoves(t)
  BY <1>2, <1>7, RuleStays DEF RuleOpMoves
<1> QED
  BY <1>4, <1>5, <1>6, <1>7

LEMMA RuleInductive == RuleInv /\ [RuleNext]_ruleVars => RuleInv'
<1> SUFFICES ASSUME RuleInv, [RuleNext]_ruleVars PROVE RuleInv'
  OBVIOUS
<1>1. CASE UNCHANGED ruleVars
  BY <1>1 DEF ruleVars, RuleInv, RulePart, RequestPart, PayloadPart, OtherPart
<1>2. CASE RejectRule
  BY <1>2, RuleStays, RequestsStay, PayloadsStay DEF RejectRule, RuleInv, OtherPart
<1>3. CASE PromoteRule
  <2>1. RulePart'
    BY <1>3, InternalMayBeAttached, PendingSound DEF PromoteRule, RulePart
  <2> QED
    BY <1>3, <2>1, RequestsStay, PayloadsStay, OthersQuiet DEF PromoteRule, RuleInv
<1>4. ASSUME NEW r \in RuleReq, NEW want \in Gateways, CreateRule(r, want) \/ PublishRule(r, want)
      PROVE  RuleInv'
  BY <1>4, CreationsKeep, LoadsKeep
<1>5. ASSUME NEW r \in RuleReq, EnsureDefaultRule(r) PROVE RuleInv'
  BY <1>5, InternalMayBeAttached, CreationsKeep
<1>6. ASSUME NEW r \in RuleReq, ApproveRule(r) \/ Republish(r) \/ DeleteRule(r) PROVE RuleInv'
  BY <1>6, InternalMayBeAttached, LoadsKeep
<1> QED
  BY <1>1, <1>2, <1>3, <1>4, <1>5, <1>6, RequestsKeep, RuleOpsKeep DEF RuleNext

LEMMA RuleInvariant == RuleSpec => []RuleInv
  BY InitialRule, RuleInductive, PTL DEF RuleSpec

\* The rule, its requests and the payloads of its operations keep their types.
THEOREM RuleTypeCorrect == RuleSpec => []RuleTypeOK
<1>1. RuleInv => RuleTypeOK
  BY DEF RuleInv, RulePart, RequestPart, PayloadPart, OtherPart, RuleTypeOK
<1> QED
  BY <1>1, RuleInvariant, PTL

\* Whichever of any number of requests and operations writes last, and whatever
\* it restores: a rule that says it is published is attached to a gateway.
THEOREM PublishedIsAttached == RuleSpec => []PublishedRuleHasGateways
<1>1. RuleInv => PublishedRuleHasGateways
  BY DEF RuleInv, RulePart, SoundRule, PublishedRuleHasGateways
<1> QED
  BY <1>1, RuleInvariant, PTL

\* Where every publication on the external gateway needs approval, none is
\* attached to it before an approval of one was granted.
THEOREM ExposureNeedsApproval ==
    ASSUME ExternalIsGated
    PROVE  RuleSpec => []ExternalExposureIsApproved
<1>1. RuleInv => ExternalExposureIsApproved
  BY DEF RuleInv, RulePart, SoundRule, MayAttach, ExternalExposureIsApproved
<1> QED
  BY <1>1, RuleInvariant, PTL

\* Rules leave the operations their lives: each step is one of OperationRuns.
THEOREM RulesFollowRuns == RuleSpec => RunSpec
<1>1. RuleInit => RunInit
  BY DEF RuleInit
<1>2. [RuleNext]_ruleVars => [\E t \in Task : RunStep(t)]_run
  <2>1. ASSUME NEW r \in RuleReq, QueuePublish(r) \/ QueueDelete(r)
        PROVE  \E t \in Task : RunStep(t)
    BY <2>1 DEF QueuePublish, QueueDelete, QueueRuleOp, RunStep
  <2>2. ASSUME NEW t \in Task, StartRule(t) \/ CompleteRule(t) \/ FailRule(t) \/ RuleOpMoves(t)
        PROVE  RunStep(t)
    BY <2>2 DEF StartRule, CompleteRule, FailRule, RuleOpMoves, RunStep, Result
  <2>3. ASSUME NEW r \in RuleReq, NEW want \in Gateways, CreateRule(r, want) \/ PublishRule(r, want)
        PROVE  UNCHANGED run
    BY <2>3 DEF CreateRule, PublishRule
  <2>4. ASSUME NEW r \in RuleReq,
               \/ EnsureDefaultRule(r) \/ FindWorker(r) \/ ApproveRule(r) \/ CheckRuleOps(r)
               \/ MarkRule(r) \/ Republish(r) \/ MarkRepublished(r) \/ QueuePublishFails(r)
               \/ StopRule(r) \/ DeleteRule(r)
        PROVE  UNCHANGED run
    BY <2>4 DEF EnsureDefaultRule, FindWorker, ApproveRule, CheckRuleOps, MarkRule, Republish,
                MarkRepublished, QueuePublishFails, StopRule, DeleteRule
  <2>5. PromoteRule \/ RejectRule \/ UNCHANGED ruleVars => UNCHANGED run
    BY DEF PromoteRule, RejectRule, ruleVars
  <2> QED
    BY <2>1, <2>2, <2>3, <2>4, <2>5 DEF RuleNext
<1> QED
  BY <1>1, <1>2, PTL DEF RuleSpec, RunSpec
=============================================================================
