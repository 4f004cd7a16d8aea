------------------------ MODULE GovernanceApprovalProofs ------------------------
(***************************************************************************)
(* Proofs about GovernanceApproval, for any number of gated requests,      *)
(* reviews and reviewers and any number of required approvers.  Together   *)
(* with rules they are the parts of MCGovernanceAndRules.                  *)
(***************************************************************************)
EXTENDS MCGovernanceAndRules, OperationRunsProofs, FiniteSetTheorems, TLAPS

\* The request of v has read an approval.
Loaded(v) == rev[v].pc # "new"

\* An approval requires at least one approver.
PositiveInv == \A g \in Gate : approval[g].required # 0

\* An approval is inserted once, and reviews are of approvals that were.
InsertedInv ==
    /\ \A g \in Gate : approval[g].status # "absent" => gate[g] = "done"
    /\ \A v \in Review : Loaded(v) => /\ rev[v].approval \in Gate
                                       /\ approval[rev[v].approval].status # "absent"

\* An answered review that decided left an approval that is not pending.
DecidedInv ==
    \A v \in Review : rev[v].pc = "done" /\ rev[v].final # "pending"
                       => approval[rev[v].approval].status # "pending"

\* The reviews that v came after have been answered.
AfterInv ==
    \A v \in Review : \A w \in rev[v].after : Loaded(v) /\ rev[w].pc = "done"

\* What v has done for the deployment.
Executing(v) == rev[v].pc \in {"check", "insert", "enqueue"} \/ deploy[v].active \/ deploy[v].queued

\* A review approves alone or not at all.
ApprovesAlone ==
    \A v \in Review : rev[v].final = "approved"
                       => Loaded(v) /\ approval[rev[v].approval].required = 1

DeployInv ==
    \A v \in Review :
        /\ rev[v].pc \in {"new", "check", "insert"} => ~ deploy[v].active /\ ~ deploy[v].queued
        /\ rev[v].pc = "enqueue" => deploy[v].active /\ ~ deploy[v].queued
        /\ rev[v].execution = "queued" => deploy[v].queued
        /\ Executing(v) => Loaded(v) /\ rev[v].final = "approved"

ApprovalInv ==
    /\ TypeOK
    /\ PositiveInv
    /\ InsertedInv
    /\ DecidedInv
    /\ AfterInv
    /\ DecisionsAreFinal
    /\ ApprovesAlone
    /\ SeveralNeverDecide
    /\ DeployInv
    /\ QueuedExecutionIsReal
    /\ ExecutionsExclude

LEMMA ApprovalInit == Init => ApprovalInv
<1> SUFFICES ASSUME Init PROVE ApprovalInv
  OBVIOUS
<1>1. NewRequest \in Request
  BY DEF NewRequest, Request, Decision
<1>2. TypeOK
  BY <1>1 DEF Init, TypeOK, Approval, Deploy, NoApproval
<1>3. PositiveInv /\ InsertedInv /\ DecidedInv /\ AfterInv /\ DecisionsAreFinal
  BY DEF Init, PositiveInv, InsertedInv, DecidedInv, AfterInv, DecisionsAreFinal, Loaded, NoApproval, NewRequest
<1>4. ApprovesAlone /\ SeveralNeverDecide
  BY DEF Init, ApprovesAlone, SeveralNeverDecide, NoApproval, NewRequest
<1>5. DeployInv
  BY DEF Init, DeployInv, Executing, NewRequest
<1>6. QueuedExecutionIsReal /\ ExecutionsExclude
  BY DEF Init, QueuedExecutionIsReal, ExecutionsExclude, NoApproval
<1> QED
  BY <1>2, <1>3, <1>4, <1>5, <1>6 DEF ApprovalInv
-----------------------------------------------------------------------------
(* The decisions *)

\* A review counts itself only: it rejects, or approves where one approver is
\* enough.
LEMMA CountsItselfOnly ==
    ASSUME NEW stored, NEW decision \in Decision, NEW required \in Nat
    PROVE  LET final == FinalStatus(ExtractApprovalReviews(stored), decision, required)
           IN  /\ final \in {"pending", "approved", "rejected"}
               /\ final = "approved" => required <= 1
<1>1. Cardinality({}) = 0
  BY FS_EmptySet
<1>2. \A d : Count({}, d) = 0
  BY <1>1 DEF Count
<1> QED
  BY <1>2 DEF FinalStatus, ExtractApprovalReviews, Decision

-----------------------------------------------------------------------------
(* Gated requests and deletions *)

LEMMA GateInv ==
    ASSUME ApprovalInv, NEW g \in Gate, FindPending(g) \/ InsertApproval(g) \/ DeleteApproval(g)
    PROVE  ApprovalInv'
<1>1. rev' = rev /\ deploy' = deploy
  BY DEF FindPending, InsertApproval, DeleteApproval
<1>2. \A a \in Gate :
        /\ approval'[a].execution = approval[a].execution
        /\ approval[a].status # "absent" =>
             /\ approval'[a].required = approval[a].required
             /\ approval'[a].status \in {approval[a].status, "deleted"}
        /\ approval[a].status = "absent" => approval'[a].status \in {"absent", "pending"}
  <2>1. CASE FindPending(g)
    BY <2>1 DEF FindPending
  <2>2. CASE InsertApproval(g)
    <3>1. approval[g].status = "absent"
      BY <2>2 DEF InsertApproval, ApprovalInv, InsertedInv
    <3> QED
      BY <2>2, <3>1 DEF InsertApproval, ApprovalInv, TypeOK, Approval
  <2>3. CASE DeleteApproval(g)
    BY <2>3 DEF DeleteApproval, ApprovalInv, TypeOK, Approval
  <2> QED
    BY <2>1, <2>2, <2>3
<1>3. TypeOK'
  <2>1. approval' \in [Gate -> Approval]
    <3>1. CASE FindPending(g) \/ DeleteApproval(g)
      BY <3>1 DEF FindPending, DeleteApproval, ApprovalInv, TypeOK, Approval
    <3>2. CASE InsertApproval(g)
      <4>1. CASE UNCHANGED approval
        BY <4>1 DEF ApprovalInv, TypeOK
      <4>2. ASSUME NEW n \in RequiredApprovers,
                   approval' = [approval EXCEPT ![g].status = "pending", ![g].required = n]
            PROVE  approval' \in [Gate -> Approval]
        <5>1. n \in Nat
          BY ApproverAssumption
        <5>2. [approval[g] EXCEPT !.status = "pending", !.required = n] \in Approval
          BY <5>1 DEF ApprovalInv, TypeOK, Approval
        <5> QED
          BY <4>2, <5>2 DEF ApprovalInv, TypeOK
      <4> QED
        BY <3>2, <4>1, <4>2 DEF InsertApproval
    <3> QED
      BY <3>1, <3>2
  <2>2. gate' \in [Gate -> {"new", "insert", "done"}]
    BY DEF FindPending, InsertApproval, DeleteApproval, ApprovalInv, TypeOK
  <2> QED
    BY <1>1, <2>1, <2>2 DEF ApprovalInv, TypeOK
<1>4. InsertedInv'
  <2>1. \A a \in Gate : approval'[a].status # "absent" => gate'[a] = "done"
    BY DEF FindPending, InsertApproval, DeleteApproval, ApprovalInv, InsertedInv, TypeOK, Approval
  <2> QED
    BY <1>1, <1>2, <2>1 DEF ApprovalInv, InsertedInv, Loaded
<1>5. DecidedInv'
  <2> SUFFICES ASSUME NEW v \in Review, rev[v].pc = "done", rev[v].final # "pending"
               PROVE  approval'[rev[v].approval].status # "pending"
    BY <1>1 DEF DecidedInv
  <2> QED
    BY <1>2 DEF ApprovalInv, DecidedInv, InsertedInv, Loaded
<1>6. AfterInv' /\ DecisionsAreFinal'
  BY <1>1 DEF ApprovalInv, AfterInv, DecisionsAreFinal, Loaded
<1>7. ApprovesAlone'
  BY <1>1, <1>2 DEF ApprovalInv, ApprovesAlone, InsertedInv, Loaded
<1>8. SeveralNeverDecide'
  <2>1. \A v \in Review : deploy[v].active \/ deploy[v].queued => Loaded(v)
    BY DEF ApprovalInv, DeployInv, Executing
  <2>2. \A v \in Review : deploy[v].active \/ deploy[v].queued
                           => approval'[rev[v].approval].required = 1
    BY <1>2, <2>1 DEF ApprovalInv, SeveralNeverDecide, InsertedInv
  <2>3. \A a \in Gate : approval'[a].status = "approved" => approval'[a].required = 1
    BY <1>2 DEF ApprovalInv, SeveralNeverDecide
  <2> QED
    BY <1>1, <2>2, <2>3 DEF SeveralNeverDecide
<1>9. DeployInv' /\ ExecutionsExclude' /\ QueuedExecutionIsReal'
  BY <1>1, <1>2 DEF ApprovalInv, DeployInv, ExecutionsExclude, QueuedExecutionIsReal, Loaded, Executing
<1>10. PositiveInv'
  <2>1. CASE UNCHANGED approval
    BY <2>1 DEF ApprovalInv, PositiveInv
  <2>2. ASSUME NEW n \in RequiredApprovers,
               approval' = [approval EXCEPT ![g].status = "pending", ![g].required = n]
        PROVE  PositiveInv'
    BY <2>2, ApproverAssumption DEF ApprovalInv, PositiveInv, TypeOK, Approval
  <2>3. CASE DeleteApproval(g)
    BY <2>3 DEF DeleteApproval, ApprovalInv, PositiveInv, TypeOK, Approval
  <2> QED
    BY <2>1, <2>2, <2>3 DEF FindPending, InsertApproval
<1> QED
  BY <1>3, <1>4, <1>5, <1>6, <1>7, <1>8, <1>9, <1>10 DEF ApprovalInv
-----------------------------------------------------------------------------
(* The steps of an execution *)

\* The request of v moves on, and changes at most its own deploy.
Moves(v, pc, execution, mine) ==
    /\ rev' = [rev EXCEPT ![v].pc = pc, ![v].execution = execution]
    /\ deploy' = [deploy EXCEPT ![v] = mine]
    /\ UNCHANGED <<approval, gate>>

LEMMA MovesInv ==
    ASSUME ApprovalInv, NEW v \in Review, Loaded(v),
           NEW pc \in {"check", "insert", "enqueue", "record", "done", "lost"},
           rev[v].pc = "done" <=> pc = "done",
           NEW execution \in {"none", "queued", "failed"},
           NEW mine \in Deploy,
           Moves(v, pc, execution, mine),
           deploy[v].queued => mine.queued,
           pc \in {"check", "insert"} => ~ mine.active /\ ~ mine.queued,
           pc = "enqueue" => mine.active /\ ~ mine.queued,
           execution = "queued" => mine.queued,
           pc \in {"check", "insert", "enqueue"} \/ mine.active \/ mine.queued => Executing(v),
           mine.active => deploy[v].active \/ KeyFree
    PROVE  ApprovalInv'
<1>1. /\ rev'[v].pc = pc /\ rev'[v].execution = execution
      /\ \A w \in Review : w # v => rev'[w] = rev[w]
      /\ \A w \in Review : /\ rev'[w].approval = rev[w].approval
                           /\ rev'[w].by = rev[w].by
                           /\ rev'[w].decision = rev[w].decision
                           /\ rev'[w].final = rev[w].final
                           /\ rev'[w].after = rev[w].after
  BY DEF Moves, ApprovalInv, TypeOK, Request
<1>2. /\ deploy'[v] = mine
      /\ \A w \in Review : w # v => deploy'[w] = deploy[w]
  BY DEF Moves, ApprovalInv, TypeOK
<1>3. approval' = approval /\ gate' = gate
  BY DEF Moves
<1>4. TypeOK'
  <2>1. [rev[v] EXCEPT !.pc = pc, !.execution = execution] \in Request
    <3>1. rev[v] \in Request
      BY DEF ApprovalInv, TypeOK
    <3>2. pc \in {"new", "check", "insert", "enqueue", "record", "done", "lost"}
      OBVIOUS
    <3> QED
      BY <3>1, <3>2 DEF Request
  <2>2. rev' = [rev EXCEPT ![v] = [rev[v] EXCEPT !.pc = pc, !.execution = execution]]
    BY DEF Moves, ApprovalInv, TypeOK
  <2>3. rev' \in [Review -> Request]
    BY <2>1, <2>2 DEF ApprovalInv, TypeOK
  <2>4. deploy' \in [Review -> Deploy]
    BY DEF Moves, ApprovalInv, TypeOK
  <2> QED
    BY <1>3, <2>3, <2>4 DEF ApprovalInv, TypeOK
<1>5. \A w \in Review : Loaded(w)' <=> Loaded(w)
  BY <1>1 DEF Loaded
<1>6. InsertedInv'
  BY <1>1, <1>3, <1>5 DEF ApprovalInv, InsertedInv
<1>7. \A w \in Review : rev'[w].pc = "done" <=> rev[w].pc = "done"
  BY <1>1
<1>8. \A w \in Review : rev[w].after \subseteq Review
  BY DEF ApprovalInv, TypeOK, Request
<1>9. DecidedInv' /\ AfterInv' /\ DecisionsAreFinal'
  BY <1>1, <1>3, <1>5, <1>7, <1>8 DEF ApprovalInv, DecidedInv, AfterInv, DecisionsAreFinal
<1>10. ApprovesAlone'
  BY <1>1, <1>3, <1>5 DEF ApprovalInv, ApprovesAlone
<1>11. \A w \in Review : Executing(w)' => Executing(w)
  BY <1>1, <1>2 DEF Executing
<1>12. SeveralNeverDecide'
  <2>1. \A w \in Review : Executing(w) => approval[rev[w].approval].required = 1
    BY DEF ApprovalInv, DeployInv, ApprovesAlone
  <2> QED
    BY <1>1, <1>3, <1>11, <2>1 DEF ApprovalInv, SeveralNeverDecide, Executing
<1>13. DeployInv'
  <2> SUFFICES ASSUME NEW w \in Review
               PROVE  /\ rev'[w].pc \in {"new", "check", "insert"} => ~ deploy'[w].active /\ ~ deploy'[w].queued
                      /\ rev'[w].pc = "enqueue" => deploy'[w].active /\ ~ deploy'[w].queued
                      /\ rev'[w].execution = "queued" => deploy'[w].queued
                      /\ Executing(w)' => Loaded(w)' /\ rev'[w].final = "approved"
    BY DEF DeployInv
  <2>1. Executing(w)' => Loaded(w)' /\ rev'[w].final = "approved"
    BY <1>1, <1>5, <1>11 DEF ApprovalInv, DeployInv
  <2>2. CASE w = v
    BY <1>1, <1>2, <2>1, <2>2
  <2>3. CASE w # v
    BY <1>1, <1>2, <2>1, <2>3 DEF ApprovalInv, DeployInv
  <2> QED
    BY <2>2, <2>3
<1>14. QueuedExecutionIsReal'
  <2>1. \A w \in Review : deploy[w].queued => deploy'[w].queued
    BY <1>2
  <2> QED
    BY <1>1, <1>3, <2>1 DEF ApprovalInv, QueuedExecutionIsReal
<1>15. ExecutionsExclude'
  BY <1>2 DEF ApprovalInv, ExecutionsExclude, KeyFree
<1>16. PositiveInv'
  BY <1>3 DEF ApprovalInv, PositiveInv
<1> QED
  BY <1>4, <1>6, <1>9, <1>10, <1>12, <1>13, <1>14, <1>15, <1>16 DEF ApprovalInv

LEMMA ExecutionInv ==
    ASSUME ApprovalInv, NEW v \in Review,
           \/ CheckDeploy(v) \/ InsertDeploy(v) \/ InsertDeployFails(v)
           \/ QueueOperation(v) \/ QueueOperationFails(v) \/ Stop(v)
    PROVE  ApprovalInv'
<1>1. /\ deploy[v] \in Deploy
      /\ deploy[v] = [active |-> deploy[v].active, queued |-> deploy[v].queued]
      /\ deploy = [deploy EXCEPT ![v] = deploy[v]]
      /\ rev[v] \in Request
      /\ \A pc : [rev EXCEPT ![v].pc = pc]
                 = [rev EXCEPT ![v].pc = pc, ![v].execution = rev[v].execution]
  BY DEF ApprovalInv, TypeOK, Deploy, Request
<1>2. rev[v].execution \in {"none", "queued", "failed"}
  BY <1>1 DEF Request
<1>3. /\ rev[v].pc \in {"check", "insert"} => ~ deploy[v].active /\ ~ deploy[v].queued
      /\ rev[v].pc = "enqueue" => deploy[v].active /\ ~ deploy[v].queued
      /\ rev[v].execution = "queued" => deploy[v].queued
  BY DEF ApprovalInv, DeployInv
<1> DEFINE Active == [deploy[v] EXCEPT !.active = TRUE]
           Enqueued == [deploy[v] EXCEPT !.queued = TRUE]
<1>4. /\ Active \in Deploy /\ Active.active /\ Active.queued = deploy[v].queued
      /\ Enqueued \in Deploy /\ Enqueued.queued /\ Enqueued.active = deploy[v].active
  BY <1>1 DEF Deploy
<1>5. CASE CheckDeploy(v)
  <2>1. Loaded(v) /\ Executing(v) /\ rev[v].pc = "check"
    BY <1>5 DEF CheckDeploy, Loaded, Executing
  <2>2. CASE Fails(v)
    <3>1. Moves(v, "record", "failed", deploy[v])
      BY <1>1, <1>5, <2>2 DEF CheckDeploy, Fails, Moves
    <3> QED
      BY <1>1, <1>3, <2>1, <3>1, MovesInv
  <2>3. CASE Proceed(v, "insert")
    <3>1. Moves(v, "insert", rev[v].execution, deploy[v])
      BY <1>1, <1>5, <2>3 DEF CheckDeploy, Proceed, Moves
    <3> QED
      BY <1>1, <1>2, <1>3, <2>1, <3>1, MovesInv
  <2> QED
    BY <1>5, <2>2, <2>3 DEF CheckDeploy
<1>6. CASE InsertDeploy(v)
  <2>1. Loaded(v) /\ Executing(v) /\ rev[v].pc = "insert"
    BY <1>6 DEF InsertDeploy, Loaded, Executing
  <2>2. CASE KeyFree
    <3>1. deploy' = [deploy EXCEPT ![v] = Active]
      BY <1>6, <2>2 DEF InsertDeploy
    <3>2. Moves(v, "enqueue", rev[v].execution, Active)
      BY <1>1, <1>6, <2>2, <3>1 DEF InsertDeploy, Proceed, Moves
    <3> HIDE DEF Active
    <3> QED
      BY <1>2, <1>3, <1>4, <2>1, <2>2, <3>2, MovesInv
  <2>3. CASE ~ KeyFree
    <3>1. Moves(v, "record", "failed", deploy[v])
      BY <1>1, <1>6, <2>3 DEF InsertDeploy, Fails, Moves
    <3> QED
      BY <1>1, <1>3, <2>1, <3>1, MovesInv
  <2> QED
    BY <2>2, <2>3
<1>7. CASE InsertDeployFails(v)
  <2>1. Loaded(v) /\ Executing(v) /\ rev[v].pc = "insert"
    BY <1>7 DEF InsertDeployFails, Loaded, Executing
  <2>2. CASE UNCHANGED deploy
    <3>1. Moves(v, "record", "failed", deploy[v])
      BY <1>1, <1>7, <2>2 DEF InsertDeployFails, Fails, Moves
    <3> QED
      BY <1>1, <1>3, <2>1, <3>1, MovesInv
  <2>3. CASE KeyFree /\ deploy' = [deploy EXCEPT ![v].active = TRUE]
    <3>1. deploy' = [deploy EXCEPT ![v] = Active]
      BY <2>3
    <3>2. Moves(v, "record", "failed", Active)
      BY <1>7, <3>1 DEF InsertDeployFails, Fails, Moves
    <3> HIDE DEF Active
    <3> QED
      BY <1>3, <1>4, <2>1, <2>3, <3>2, MovesInv
  <2> QED
    BY <1>7, <2>2, <2>3 DEF InsertDeployFails
<1>8. CASE QueueOperation(v)
  <2>1. Loaded(v) /\ Executing(v) /\ rev[v].pc = "enqueue" /\ deploy[v].active
    BY <1>3, <1>8 DEF QueueOperation, Loaded, Executing
  <2>2. deploy' = [deploy EXCEPT ![v] = Enqueued]
    BY <1>8 DEF QueueOperation
  <2>3. Moves(v, "record", "queued", Enqueued)
    BY <1>8, <2>2 DEF QueueOperation, Moves
  <2> HIDE DEF Enqueued
  <2> QED
    BY <1>4, <2>1, <2>3, MovesInv
<1>9. CASE QueueOperationFails(v)
  <2>1. Loaded(v) /\ Executing(v) /\ rev[v].pc = "enqueue" /\ deploy[v].active /\ ~ deploy[v].queued
    BY <1>3, <1>9 DEF QueueOperationFails, Loaded, Executing
  <2>2. PICK deleted \in BOOLEAN, committed \in BOOLEAN :
          deploy' = [deploy EXCEPT ![v] = [active |-> ~ deleted, queued |-> committed]]
    BY <1>9 DEF QueueOperationFails
  <2>3. Moves(v, "record", "failed", [active |-> ~ deleted, queued |-> committed])
    BY <1>9, <2>2 DEF QueueOperationFails, Fails, Moves
  <2>4. [active |-> ~ deleted, queued |-> committed] \in Deploy
    BY DEF Deploy
  <2> QED
    BY <2>1, <2>3, <2>4, MovesInv
<1>10. CASE Stop(v)
  <2>1. Loaded(v) /\ rev[v].pc # "done"
    BY <1>10 DEF Stop, Loaded
  <2>2. Moves(v, "lost", rev[v].execution, deploy[v])
    BY <1>1, <1>10 DEF Stop, Moves
  <2>3. deploy[v].active \/ deploy[v].queued => Executing(v)
    BY DEF Executing
  <2> QED
    BY <1>1, <1>2, <1>3, <2>1, <2>2, <2>3, MovesInv
<1> QED
  BY <1>5, <1>6, <1>7, <1>8, <1>9, <1>10
-----------------------------------------------------------------------------
(* The first and the last step of a review *)

LEMMA LoadInv ==
    ASSUME ApprovalInv, NEW v \in Review, NEW a \in Gate, NEW p \in Reviewer,
           NEW decision \in Decision, Load(v, a, p, decision)
    PROVE  ApprovalInv'
<1> DEFINE found == ExtractApprovalReviews(approval[a].reviews)
           final == FinalStatus(found, decision, approval[a].required)
           after == {w \in Review : rev[w].pc = "done" /\ rev[w].approval = a}
           loaded == [pc |-> IF final = "approved" THEN "check" ELSE "record",
                      approval |-> a, by |-> p, decision |-> decision,
                      reviews |-> found \cup {v}, final |-> final, after |-> after,
                      execution |-> "none"]
<1>1. rev' = [rev EXCEPT ![v] = loaded] /\ UNCHANGED <<approval, gate, deploy>> /\ ~ Loaded(v)
  BY DEF Load, Loaded
<1>2. approval[a] \in Approval /\ approval[a].required \in Nat /\ approval[a].status = "pending"
  BY DEF ApprovalInv, TypeOK, Approval, Load, Reviewable
<1>3. final \in {"pending", "approved", "rejected"} /\ (final = "approved" => approval[a].required <= 1)
  BY <1>2, CountsItselfOnly
<1>4. final = "approved" => approval[a].required = 1
  BY <1>2, <1>3 DEF ApprovalInv, PositiveInv
<1> HIDE DEF final
<1>5. TypeOK'
  <2>1. found \cup {v} \subseteq Review
    BY DEF ExtractApprovalReviews
  <2>2. loaded \in Request
    BY <1>3, <2>1 DEF Request, Decision
  <2> QED
    BY <1>1, <2>2 DEF ApprovalInv, TypeOK
<1>6. /\ rev'[v].approval = a /\ rev'[v].final = final /\ rev'[v].after = after
      /\ rev'[v].execution = "none"
      /\ rev'[v].pc = IF final = "approved" THEN "check" ELSE "record"
      /\ \A w \in Review : w # v => rev'[w] = rev[w]
  BY <1>1 DEF ApprovalInv, TypeOK
<1>7. /\ Loaded(v)'
      /\ \A w \in Review : w # v => (Loaded(w)' <=> Loaded(w))
  BY <1>6 DEF Loaded
<1>8. InsertedInv'
  BY <1>1, <1>2, <1>6, <1>7 DEF ApprovalInv, InsertedInv
<1>9. DecidedInv'
  BY <1>1, <1>6 DEF ApprovalInv, DecidedInv
<1>10. \A w \in Review : rev[w].pc = "done" => w # v
  BY <1>1 DEF Loaded
<1>11. \A w \in after : w # v /\ rev[w].pc = "done" /\ rev[w].final = "pending"
  BY <1>2, <1>10 DEF ApprovalInv, DecidedInv
<1>12. \A w \in Review : rev[w].after \subseteq Review
  BY DEF ApprovalInv, TypeOK, Request
<1>13. AfterInv' /\ DecisionsAreFinal'
  <2> SUFFICES ASSUME NEW w \in Review, NEW x \in rev'[w].after
               PROVE  Loaded(w)' /\ rev'[x].pc = "done" /\ rev'[x].final = "pending"
    BY DEF AfterInv, DecisionsAreFinal
  <2>1. CASE w = v
    BY <1>6, <1>7, <1>11, <2>1
  <2>2. CASE w # v
    <3>1. x \in rev[w].after /\ x \in Review
      BY <1>6, <1>12, <2>2
    <3>2. Loaded(w) /\ rev[x].pc = "done" /\ rev[x].final = "pending"
      BY <3>1 DEF ApprovalInv, AfterInv, DecisionsAreFinal
    <3> QED
      BY <1>6, <1>7, <1>10, <2>2, <3>1, <3>2
  <2> QED
    BY <2>1, <2>2
<1>14. ApprovesAlone'
  BY <1>1, <1>4, <1>6, <1>7 DEF ApprovalInv, ApprovesAlone
<1>15. ~ deploy[v].active /\ ~ deploy[v].queued
  BY <1>1 DEF ApprovalInv, DeployInv, Loaded
<1>16. SeveralNeverDecide'
  BY <1>1, <1>6, <1>15 DEF ApprovalInv, SeveralNeverDecide
<1>17. DeployInv'
  BY <1>1, <1>6, <1>7, <1>15 DEF ApprovalInv, DeployInv, Executing
<1>18. QueuedExecutionIsReal'
  BY <1>1, <1>6, <1>15 DEF ApprovalInv, QueuedExecutionIsReal
<1>19. ExecutionsExclude'
  BY <1>1 DEF ApprovalInv, ExecutionsExclude
<1>20. PositiveInv'
  BY <1>1 DEF ApprovalInv, PositiveInv
<1> QED
  BY <1>5, <1>8, <1>9, <1>13, <1>14, <1>16, <1>17, <1>18, <1>19, <1>20 DEF ApprovalInv

LEMMA RecordInv == ASSUME ApprovalInv, NEW v \in Review, Record(v) PROVE ApprovalInv'
<1> DEFINE a == rev[v].approval
           final == rev[v].final
<1>1. /\ rev' = [rev EXCEPT ![v].pc = "done"] /\ UNCHANGED <<gate, deploy>>
      /\ rev[v].pc = "record" /\ Loaded(v)
  BY DEF Record, Loaded
<1>2. /\ rev'[v].pc = "done"
      /\ \A w \in Review : w # v => rev'[w] = rev[w]
      /\ \A w \in Review : /\ rev'[w].approval = rev[w].approval
                           /\ rev'[w].final = rev[w].final
                           /\ rev'[w].after = rev[w].after
                           /\ rev'[w].execution = rev[w].execution
  BY <1>1 DEF ApprovalInv, TypeOK, Request
<1>3. /\ a \in Gate /\ approval[a].status # "absent"
      /\ rev[v].reviews \subseteq Review /\ final \in {"pending", "approved", "rejected"}
      /\ rev[v].execution \in {"none", "queued", "failed"}
  BY <1>1 DEF ApprovalInv, InsertedInv, TypeOK, Request, Decision
<1>4. \A w \in Review : Loaded(w)' <=> Loaded(w)
  BY <1>1, <1>2 DEF Loaded
<1>5. /\ \A g \in Gate : g # a => approval'[g] = approval[g]
      /\ approval'[a].execution \in {approval[a].execution, rev[v].execution}
      /\ approval'[a].required = approval[a].required
      /\ approval'[a].status = IF approval[a].status = "deleted" THEN "deleted"
                               ELSE IF final = "pending" THEN approval[a].status ELSE final
      /\ approval' \in [Gate -> Approval]
  <2>1. CASE approval[a].status = "deleted"
    BY <2>1 DEF Record, ApprovalInv, TypeOK
  <2>2. CASE approval[a].status # "deleted"
    <3> DEFINE new == [approval[a] EXCEPT
                         !.reviews = rev[v].reviews,
                         !.status = IF final = "pending" THEN @ ELSE final,
                         !.execution = IF final = "approved" THEN rev[v].execution ELSE @]
    <3>1. approval' = [approval EXCEPT ![a] = new]
      BY <2>2 DEF Record
    <3>2. approval[a] \in Approval
      BY <1>3 DEF ApprovalInv, TypeOK
    <3>3. /\ new \in Approval
          /\ new.required = approval[a].required
          /\ new.status = IF final = "pending" THEN approval[a].status ELSE final
          /\ new.execution \in {approval[a].execution, rev[v].execution}
      BY <1>3, <3>2 DEF Approval, Decision
    <3> HIDE DEF new
    <3> QED
      BY <1>3, <2>2, <3>1, <3>3 DEF ApprovalInv, TypeOK
  <2> QED
    BY <2>1, <2>2
<1>6. TypeOK'
  <2>1. rev' \in [Review -> Request]
    BY <1>1 DEF ApprovalInv, TypeOK, Request
  <2> QED
    BY <1>1, <1>5, <2>1 DEF ApprovalInv, TypeOK
<1>7. /\ approval'[a].status # "absent"
      /\ approval[a].status # "pending" => approval'[a].status # "pending"
      /\ final # "pending" => approval'[a].status # "pending"
  BY <1>3, <1>5
<1>8. InsertedInv'
  BY <1>1, <1>2, <1>3, <1>4, <1>5, <1>7 DEF ApprovalInv, InsertedInv
<1>9. DecidedInv'
  <2> SUFFICES ASSUME NEW w \in Review, rev'[w].pc = "done", rev'[w].final # "pending"
               PROVE  approval'[rev'[w].approval].status # "pending"
    BY DEF DecidedInv
  <2>1. CASE w = v
    BY <1>2, <1>7, <2>1
  <2>2. CASE w # v
    <3>1. /\ Loaded(w) /\ rev[w].approval \in Gate
          /\ approval[rev[w].approval].status # "pending"
      BY <1>2, <2>2 DEF ApprovalInv, DecidedInv, InsertedInv, Loaded
    <3> QED
      BY <1>2, <1>5, <1>7, <3>1
  <2> QED
    BY <2>1, <2>2
<1>10. \A w \in Review : rev[w].after \subseteq Review
  BY DEF ApprovalInv, TypeOK, Request
<1>11. AfterInv' /\ DecisionsAreFinal'
  BY <1>2, <1>4, <1>10 DEF ApprovalInv, AfterInv, DecisionsAreFinal
<1>12. \A g \in Gate : approval'[g].required = approval[g].required
  BY <1>5
<1>13. ApprovesAlone'
  BY <1>2, <1>4, <1>12 DEF ApprovalInv, ApprovesAlone, InsertedInv
<1>14. SeveralNeverDecide'
  <2>1. \A g \in Gate : approval'[g].status = "approved" => approval'[g].required = 1
    <3> SUFFICES ASSUME NEW g \in Gate, approval'[g].status = "approved"
                 PROVE  approval[g].required = 1
      BY <1>12
    <3>1. CASE approval[g].status = "approved"
      BY <3>1 DEF ApprovalInv, SeveralNeverDecide
    <3>2. CASE approval[g].status # "approved"
      <4>1. g = a /\ final = "approved"
        BY <1>5, <3>2
      <4> QED
        BY <4>1 DEF ApprovalInv, ApprovesAlone
    <3> QED
      BY <3>1, <3>2
  <2>2. \A w \in Review : deploy[w].active \/ deploy[w].queued
                           => Loaded(w) /\ rev[w].approval \in Gate
    BY DEF ApprovalInv, DeployInv, Executing, InsertedInv
  <2> QED
    BY <1>1, <1>2, <1>12, <2>1, <2>2 DEF ApprovalInv, SeveralNeverDecide
<1>15. QueuedExecutionIsReal'
  <2> SUFFICES ASSUME NEW g \in Gate, approval'[g].execution = "queued"
               PROVE  \E w \in Review : rev'[w].approval = g /\ deploy'[w].queued
    BY DEF QueuedExecutionIsReal
  <2>1. CASE approval[g].execution = "queued"
    BY <1>1, <1>2, <2>1 DEF ApprovalInv, QueuedExecutionIsReal
  <2>2. CASE approval[g].execution # "queued"
    <3>1. g = a /\ rev[v].execution = "queued"
      BY <1>5, <2>2
    <3>2. deploy[v].queued
      BY <3>1 DEF ApprovalInv, DeployInv
    <3> QED
      BY <1>1, <1>2, <3>1, <3>2
  <2> QED
    BY <2>1, <2>2
<1>16. DeployInv'
  <2>1. \A w \in Review : Executing(w)' => Executing(w)
    BY <1>1, <1>2 DEF Executing
  <2> QED
    BY <1>1, <1>2, <1>4, <2>1 DEF ApprovalInv, DeployInv
<1>17. ExecutionsExclude'
  BY <1>1 DEF ApprovalInv, ExecutionsExclude
<1>18. PositiveInv'
  BY <1>12 DEF ApprovalInv, PositiveInv
<1> QED
  BY <1>6, <1>8, <1>9, <1>11, <1>13, <1>14, <1>15, <1>16, <1>17, <1>18 DEF ApprovalInv

LEMMA DeployEndsInv == ASSUME ApprovalInv, NEW v \in Review, DeployEnds(v) PROVE ApprovalInv'
<1>1. /\ rev[v].pc # "enqueue"
      /\ deploy[v] \in Deploy
      /\ rev = [rev EXCEPT ![v].pc = rev[v].pc, ![v].execution = rev[v].execution]
  BY DEF DeployEnds, ApprovalInv, DeployInv, TypeOK, Request
<1> DEFINE ended == [deploy[v] EXCEPT !.active = FALSE]
<1>2. ended \in Deploy /\ ~ ended.active /\ ended.queued /\ deploy[v].queued
  BY <1>1 DEF Deploy, DeployEnds
<1>3. Moves(v, rev[v].pc, rev[v].execution, ended)
  BY <1>1 DEF DeployEnds, Moves
<1>4. /\ Executing(v) /\ Loaded(v) /\ rev[v].pc \notin {"new", "check", "insert"}
      /\ rev[v].pc \in {"record", "done", "lost"}
      /\ rev[v].execution \in {"none", "queued", "failed"}
  BY <1>1, <1>2 DEF ApprovalInv, DeployInv, Executing, TypeOK, Request
<1> HIDE DEF ended
<1> QED
  BY <1>2, <1>3, <1>4, MovesInv
-----------------------------------------------------------------------------
LEMMA ApprovalNext == ApprovalInv /\ [Next]_vars => ApprovalInv'
<1> SUFFICES ASSUME ApprovalInv, [Next]_vars PROVE ApprovalInv'
  OBVIOUS
<1>1. CASE UNCHANGED vars
  <2>1. TypeOK' /\ PositiveInv' /\ InsertedInv' /\ DecidedInv' /\ AfterInv' /\ DecisionsAreFinal'
    BY <1>1 DEF vars, ApprovalInv, TypeOK, PositiveInv, InsertedInv, DecidedInv, AfterInv,
                DecisionsAreFinal, Loaded
  <2>2. ApprovesAlone' /\ SeveralNeverDecide' /\ DeployInv'
    BY <1>1 DEF vars, ApprovalInv, ApprovesAlone, SeveralNeverDecide, DeployInv, Loaded, Executing
  <2>3. QueuedExecutionIsReal' /\ ExecutionsExclude'
    BY <1>1 DEF vars, ApprovalInv, QueuedExecutionIsReal, ExecutionsExclude
  <2> QED
    BY <2>1, <2>2, <2>3 DEF ApprovalInv
<1>2. ASSUME NEW g \in Gate, FindPending(g) \/ InsertApproval(g) \/ DeleteApproval(g)
      PROVE  ApprovalInv'
  BY <1>2, GateInv
<1>3. ASSUME NEW v \in Review, NEW a \in Gate, NEW p \in Reviewer, NEW decision \in Decision,
             Load(v, a, p, decision)
      PROVE  ApprovalInv'
  BY <1>3, LoadInv
<1>4. ASSUME NEW v \in Review,
             \/ CheckDeploy(v) \/ InsertDeploy(v) \/ InsertDeployFails(v)
             \/ QueueOperation(v) \/ QueueOperationFails(v)
             \/ Record(v) \/ Stop(v) \/ DeployEnds(v)
      PROVE  ApprovalInv'
  BY <1>4, ExecutionInv, RecordInv, DeployEndsInv
<1> QED
  BY <1>1, <1>2, <1>3, <1>4 DEF Next

\* Every reachable state of the approvals satisfies the invariant.
THEOREM ApprovalInvariant == Spec => []ApprovalInv
<1> QED
  BY ApprovalInit, ApprovalNext, PTL DEF Spec

\* Approvals, requests and deploys keep their types.
THEOREM ApprovalsTypeCorrect == Spec => []TypeOK
<1>1. ApprovalInv => TypeOK
  BY DEF ApprovalInv
<1> QED
  BY <1>1, ApprovalInvariant, PTL

\* No review begins, and none executes, after a deciding review was answered,
\* however reviews, deletions and executions interleave.
THEOREM DecisionsFinal == Spec => []DecisionsAreFinal
<1>1. ApprovalInv => DecisionsAreFinal
  BY DEF ApprovalInv
<1> QED
  BY <1>1, ApprovalInvariant, PTL

\* Whatever the number of reviewers: where several approvers are required,
\* nothing is approved or executed.
THEOREM SeveralApproversNeverDecide == Spec => []SeveralNeverDecide
<1>1. ApprovalInv => SeveralNeverDecide
  BY DEF ApprovalInv
<1> QED
  BY <1>1, ApprovalInvariant, PTL

\* Executions of the same deployment exclude each other, through whichever
\* approvals and reviews they come.
THEOREM OneActiveExecution == Spec => []ExecutionsExclude
<1>1. ApprovalInv => ExecutionsExclude
  BY DEF ApprovalInv
<1> QED
  BY <1>1, ApprovalInvariant, PTL

\* An approval is only marked queued when a review of it queued an operation.
THEOREM QueuedMeansQueued == Spec => []QueuedExecutionIsReal
<1>1. ApprovalInv => QueuedExecutionIsReal
  BY DEF ApprovalInv
<1> QED
  BY <1>1, ApprovalInvariant, PTL

-----------------------------------------------------------------------------
(* The parts next to each other *)

\* Approvals and rules share no state: next to the other, which stands still,
\* each of them behaves as its own specification says.
THEOREM PartsFollowTheirSpecs == MCSpec => Spec /\ RuleSpec
<1> DEFINE all == <<part, vars, ruleVars>>
<1>1. MCInit => Init /\ RuleInit
  BY DEF MCInit
<1>2. [MCNext]_all => [Next]_vars
  BY DEF MCNext
<1>3. [MCNext]_all => [RuleNext]_ruleVars
  BY DEF MCNext
<1> QED
  BY <1>1, <1>2, <1>3, PTL DEF MCSpec, Spec, RuleSpec

\* Approvals, reviews, rules, their requests and operations keep their types.
THEOREM PartsTypeCorrect == MCSpec => []PartsTypeOK
<1>1. TypeOK /\ RuleTypeOK => PartsTypeOK
  BY DEF PartsTypeOK
<1> QED
  BY <1>1, PartsFollowTheirSpecs, ApprovalsTypeCorrect, RuleTypeCorrect, PTL
=============================================================================
