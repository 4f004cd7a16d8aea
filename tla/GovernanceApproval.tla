--------------------------- MODULE GovernanceApproval ---------------------------
(***************************************************************************)
(* The approvals of one gated deployment (a service in an environment):    *)
(* gated requests look for a pending approval or create one                *)
(* (CreateOrGetPendingGovernanceApproval), reviewers approve or reject     *)
(* (ReviewGovernanceApproval), the deciding review queues the deploy       *)
(* (executeApprovedDeploy) before it writes the approval back, and         *)
(* administrators delete approvals.                                        *)
(*                                                                         *)
(* Every request is a slot of its own: its record is what the request read *)
(* and decided, and stays when the request has ended.  The list of reviews *)
(* of an approval is the set of the requests whose entries it holds.       *)
(***************************************************************************)
EXTENDS Naturals, FiniteSets

CONSTANTS
    Gate,               \* gated requests; approval g is the one request g creates
    Review,             \* review requests
    Reviewer,           \* administrators who review
    RequiredApprovers   \* the numbers of approvers the settings may ask for

ASSUME ApproverAssumption == RequiredApprovers \subseteq Nat \ {0}

VARIABLES
    approval,   \* the governance approvals
    gate,       \* the gated requests
    rev,        \* the review requests
    deploy      \* the deploy each review may have queued

vars == <<approval, gate, rev, deploy>>
-----------------------------------------------------------------------------
Decision == {"approved", "rejected"}

Approval == [status : {"absent", "pending", "deleted"} \cup Decision,
             required : Nat, reviews : SUBSET Review, execution : {"none", "queued", "failed"}]

\* What a review read and decided: the list it writes back, the status that
\* follows, and how the execution went.  "after" is a history: the reviews of
\* the approval that had been answered when this one began.
Request  == [pc : {"new", "check", "insert", "enqueue", "record", "done", "lost"},
             approval : Gate \cup {"none"}, by : Reviewer \cup {"none"},
             decision : Decision, reviews : SUBSET Review, final : {"pending"} \cup Decision,
             after : SUBSET Review, execution : {"none", "queued", "failed"}]
Deploy   == [active : BOOLEAN, queued : BOOLEAN]

TypeOK ==
    /\ approval \in [Gate -> Approval]
    /\ gate \in [Gate -> {"new", "insert", "done"}]
    /\ rev \in [Review -> Request]
    /\ deploy \in [Review -> Deploy]

NoApproval == [status |-> "absent", required |-> 1, reviews |-> {}, execution |-> "none"]
NewRequest == [pc |-> "new", approval |-> "none", by |-> "none", decision |-> "approved",
               reviews |-> {}, final |-> "pending", after |-> {}, execution |-> "none"]

Init ==
    /\ approval = [g \in Gate |-> NoApproval]
    /\ gate = [g \in Gate |-> "new"]
    /\ rev = [v \in Review |-> NewRequest]
    /\ deploy = [v \in Review |-> [active |-> FALSE, queued |-> FALSE]]
-----------------------------------------------------------------------------
(* CreateOrGetPendingGovernanceApproval *)

\* A pending approval is found and returned, or an insert follows.
FindPending(g) ==
    /\ gate[g] = "new"
    /\ gate' = [gate EXCEPT ![g] = IF \E a \in Gate : approval[a].status = "pending"
                                     THEN "done" ELSE "insert"]
    /\ UNCHANGED <<approval, rev, deploy>>

\* The insert, with the number of approvers the settings ask for, or its failure.
InsertApproval(g) ==
    /\ gate[g] = "insert"
    /\ gate' = [gate EXCEPT ![g] = "done"]
    /\ \/ UNCHANGED approval
       \/ \E n \in RequiredApprovers :
            approval' = [approval EXCEPT ![g].status = "pending", ![g].required = n]
    /\ UNCHANGED <<rev, deploy>>

DeleteApproval(a) ==
    /\ approval[a].status \notin {"absent", "deleted"}
    /\ approval' = [approval EXCEPT ![a].status = "deleted"]
    /\ UNCHANGED <<gate, rev, deploy>>
-----------------------------------------------------------------------------
(* ReviewGovernanceApproval *)

\* extractApprovalReviews finds no reviews in an approval that was read from the
\* database: the stored array comes as a primitive.A, for which it has no case.
ExtractApprovalReviews(stored) == {}

\* hasReviewerReview
HasReviewed(reviews, p) == \E w \in reviews : rev[w].by = p

Count(reviews, decision) == Cardinality({w \in reviews : rev[w].decision = decision})

\* Mutated form: one approver too few is enough.
FinalStatus_OneShort(reviews, decision, required) ==
    IF decision = "rejected" \/ Count(reviews, "rejected") > 0 THEN "rejected"
    ELSE IF Count(reviews, "approved") + 1 >= required - 1 THEN "approved" ELSE "pending"

\* The status that follows from the reviews found and the new one.
FinalStatus(reviews, decision, required) ==
    IF decision = "rejected" \/ Count(reviews, "rejected") > 0 THEN "rejected"
    ELSE IF Count(reviews, "approved") + 1 >= required THEN "approved" ELSE "pending"

\* Mutated form: an approval whose execution failed may be reviewed again.
Reviewable_AfterFailure(a) == approval[a].status = "pending" \/ approval[a].execution = "failed"

\* Any other approval "is already reviewed".
Reviewable(a) == approval[a].status = "pending"

\* The approval is read; it must be reviewable, and new to the reviewer.
Load(v, a, p, decision) ==
    LET found == ExtractApprovalReviews(approval[a].reviews)
        final == FinalStatus(found, decision, approval[a].required) IN
    /\ rev[v].pc = "new"
    /\ Reviewable(a)
    /\ ~ HasReviewed(found, p)
    /\ rev' = [rev EXCEPT ![v] =
                 [pc |-> IF final = "approved" THEN "check" ELSE "record",
                  approval |-> a, by |-> p, decision |-> decision,
                  reviews |-> found \cup {v}, final |-> final,
                  after |-> {w \in Review : rev[w].pc = "done" /\ rev[w].approval = a},
                  execution |-> "none"]]
    /\ UNCHANGED <<approval, gate, deploy>>

\* The update that ends a review: the whole list of reviews, the status if the
\* review decided, and the execution.  A deleted approval stays deleted.
Record(v) ==
    LET a == rev[v].approval  final == rev[v].final IN
    /\ rev[v].pc = "record"
    /\ rev' = [rev EXCEPT ![v].pc = "done"]
    /\ approval' =
         IF approval[a].status = "deleted" THEN approval
         ELSE [approval EXCEPT
                 ![a].reviews = rev[v].reviews,
                 ![a].status = IF final = "pending" THEN @ ELSE final,
                 ![a].execution = IF final = "approved" THEN rev[v].execution ELSE @]
    /\ UNCHANGED <<gate, deploy>>

\* The review ends between two calls: an error, its timeout or a crash.
Stop(v) ==
    /\ rev[v].pc \in {"check", "insert", "enqueue", "record"}
    /\ rev' = [rev EXCEPT ![v].pc = "lost"]
    /\ UNCHANGED <<approval, gate, deploy>>
-----------------------------------------------------------------------------
(* executeApprovedDeploy *)

Proceed(v, pc) == rev' = [rev EXCEPT ![v].pc = pc]

\* Mutated form: the record of an error is left empty.
Fails_Blank(v) == rev' = [rev EXCEPT ![v].pc = "record", ![v].execution = ""]

\* An error of the execution is not one of the review, which records it.
Fails(v) == rev' = [rev EXCEPT ![v].pc = "record", ![v].execution = "failed"]

\* An active worker and no active deploy; or an error, which is recorded.
CheckDeploy(v) ==
    /\ rev[v].pc = "check"
    /\ \/ Fails(v)
       \/ (\A w \in Review : ~ deploy[w].active) /\ Proceed(v, "insert")
    /\ UNCHANGED <<approval, gate, deploy>>

\* Mutated form: no unique index on activeKey.
KeyFree_NoIndex == TRUE

\* The unique index on activeKey admits the insert.
KeyFree == \A w \in Review : ~ deploy[w].active

InsertDeploy(v) ==
    /\ rev[v].pc = "insert"
    /\ IF KeyFree
         THEN deploy' = [deploy EXCEPT ![v].active = TRUE] /\ Proceed(v, "enqueue")
         ELSE Fails(v) /\ UNCHANGED deploy
    /\ UNCHANGED <<approval, gate>>

\* The insert reports an error; it may have been committed all the same.
InsertDeployFails(v) ==
    /\ rev[v].pc = "insert"
    /\ Fails(v)
    /\ UNCHANGED deploy \/ (KeyFree /\ deploy' = [deploy EXCEPT ![v].active = TRUE])
    /\ UNCHANGED <<approval, gate>>

\* The operation is inserted and published (a failed publication only adds a
\* warning).
QueueOperation(v) ==
    /\ rev[v].pc = "enqueue"
    /\ deploy' = [deploy EXCEPT ![v].queued = TRUE]
    /\ rev' = [rev EXCEPT ![v].pc = "record", ![v].execution = "queued"]
    /\ UNCHANGED <<approval, gate>>

\* Mutated form: the execution is recorded as queued before the insert.
QueueOperationFails_Queued(v) ==
    /\ rev[v].pc = "enqueue"
    /\ \E deleted \in BOOLEAN : deploy' = [deploy EXCEPT ![v].active = ~ deleted]
    /\ rev' = [rev EXCEPT ![v].pc = "record", ![v].execution = "queued"]
    /\ UNCHANGED <<approval, gate>>

\* The insert reports an error, and may have been committed all the same; the
\* deploy is deleted, unless that call fails as well.
QueueOperationFails(v) ==
    /\ rev[v].pc = "enqueue"
    /\ \E deleted, committed \in BOOLEAN :
         deploy' = [deploy EXCEPT ![v] = [active |-> ~ deleted, queued |-> committed]]
    /\ Fails(v)
    /\ UNCHANGED <<approval, gate>>

\* The operation ends, and with it the deploy (module ServiceDeploy).
DeployEnds(v) ==
    /\ deploy[v].active /\ deploy[v].queued
    /\ deploy' = [deploy EXCEPT ![v].active = FALSE]
    /\ UNCHANGED <<approval, gate, rev>>
-----------------------------------------------------------------------------
Next ==
    \/ \E g \in Gate : FindPending(g) \/ InsertApproval(g) \/ DeleteApproval(g)
    \/ \E v \in Review, a \in Gate, p \in Reviewer, decision \in Decision : Load(v, a, p, decision)
    \/ \E v \in Review : \/ CheckDeploy(v) \/ InsertDeploy(v) \/ InsertDeployFails(v)
                         \/ QueueOperation(v) \/ QueueOperationFails(v)
                         \/ Record(v) \/ Stop(v) \/ DeployEnds(v)

Spec == Init /\ [][Next]_vars
-----------------------------------------------------------------------------
(* Properties *)

\* A decision is final: no review that begins after a deciding one was answered
\* gets past the check, so none executes the approval again or turns it round,
\* whatever overlapping reviews and deletions write in between.
DecisionsAreFinal ==
    \A v \in Review : \A w \in rev[v].after : rev[w].final = "pending"

\* An approval that requires several approvers is never approved, and nothing is
\* executed for it, however many people approve it: a review counts only itself,
\* because the stored ones are not found.
SeveralNeverDecide ==
    /\ \A a \in Gate : approval[a].status = "approved" => approval[a].required = 1
    /\ \A v \in Review : deploy[v].active \/ deploy[v].queued
                          => approval[rev[v].approval].required = 1

\* However often the same deployment is executed, by several reviewers of an
\* approval or through several approvals, one deploy is active at a time.
ExecutionsExclude == \A v, w \in Review : deploy[v].active /\ deploy[w].active => v = w

\* An approval that says "queued" queued an operation.
QueuedExecutionIsReal ==
    \A a \in Gate : approval[a].execution = "queued" =>
        \E v \in Review : rev[v].approval = a /\ deploy[v].queued

\* A rejected approval was never executed: a decision is final, a second
\* reviewer is answered that the approval is already reviewed.
RejectedIsNotExecuted ==
    \A a \in Gate : approval[a].status = "rejected" =>
        ~ \E v \in Review : rev[v].approval = a /\ deploy[v].queued
=============================================================================
