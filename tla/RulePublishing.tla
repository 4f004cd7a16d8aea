--------------------------- MODULE RulePublishing ---------------------------
(***************************************************************************)
(* One rule: the requests that create, publish, unpublish, republish and   *)
(* delete it, the approval of a publication, and what the operations they  *)
(* queue write to it.  Every request is a sequence of separate database    *)
(* calls, and may stop between two of them.                                *)
(***************************************************************************)
EXTENDS OperationRuns

CONSTANTS RuleReq,    \* requests about the rule
          RuleGated   \* the sets of gateways whose publication needs approval

VARIABLES
    rule,      \* the document of the rule
    ruleOp,    \* the payload of each operation
    ruleReq,   \* the requests
    ruleApproval,  \* the gateways the pending approval would publish, or NoGateways
    granted    \* history: the sets of gateways that were approved

ruleVars == <<run, rule, ruleOp, ruleReq, ruleApproval, granted>>
-----------------------------------------------------------------------------
Gateways == SUBSET {"internal", "external"}
NoGateways == {"none"}   \* no approval is pending

RuleStatus == {"draft", "queued", "in-progress", "published"}
Rule == [status : RuleStatus \cup {"absent", "deleted"}, gateways : Gateways]

\* A publication carries the gateways it sets and what a failure restores.
RulePayload == [kind : {"publish", "delete"}, next : Gateways, prev : Rule]

RuleRequest == [pc : {"idle", "worker", "check", "mark", "enqueue", "busy", "done"},
                kind : {"create", "publish", "execute", "republish", "delete"},
                want : Gateways, prev : Rule]

NoRule == [status |-> "absent", gateways |-> {}]
RuleRequestAt(pc) == [pc |-> pc, kind |-> "create", want |-> {}, prev |-> NoRule]

RuleTypeOK ==
    /\ run \in [Task -> RunRecord]
    /\ rule \in Rule
    /\ ruleOp \in [Task -> RulePayload]
    /\ ruleReq \in [RuleReq -> RuleRequest]
    /\ ruleApproval \in Gateways \cup {NoGateways}
    /\ granted \subseteq Gateways

RuleInit ==
    /\ RunInit
    /\ rule = NoRule
    /\ ruleOp = [t \in Task |-> [kind |-> "publish", next |-> {}, prev |-> NoRule]]
    /\ ruleReq = [r \in RuleReq |-> RuleRequestAt("idle")]
    /\ ruleApproval = NoGateways
    /\ granted = {}

Exists == rule.status \notin {"absent", "deleted"}
Busy(status) == status \in {"queued", "in-progress"}

\* UpdateByID: nothing happens to a rule that is not there.
SetRule(status, gateways) ==
    rule' = IF Exists THEN [status |-> status, gateways |-> gateways] ELSE rule

RuleGoes(r, pc) == ruleReq' = [ruleReq EXCEPT ![r].pc = pc]
RuleDone(r) == ruleReq' = [ruleReq EXCEPT ![r] = RuleRequestAt("done")]

ActiveRuleOp(kind) == \E t \in Task : Unfinished(t) /\ ruleOp[t].kind = kind

\* The insert of an operation that was not used yet.
QueueRuleOp(payload) ==
    \E t \in Task : EnqueueRun(t) /\ ruleOp' = [ruleOp EXCEPT ![t] = payload]

AskApproval(want) == ruleApproval' = IF ruleApproval = NoGateways THEN want ELSE ruleApproval
-----------------------------------------------------------------------------
(* CreateRule, PromoteRule and ensureDefaultRule *)

\* The insert: a draft, or a rule queued for publication.
CreateRule(r, want) ==
    /\ ruleReq[r].pc = "idle"
    /\ rule.status = "absent"
    /\ IF want \in RuleGated
         THEN /\ rule' = [status |-> "draft", gateways |-> {}]
              /\ RuleDone(r)
              /\ AskApproval(want)
         ELSE /\ rule' = [status |-> IF want = {} THEN "draft" ELSE "queued", gateways |-> want]
              /\ IF want = {} THEN RuleDone(r)
                 ELSE ruleReq' = [ruleReq EXCEPT
                        ![r] = [pc |-> "worker", kind |-> "create", want |-> want,
                                prev |-> [status |-> "draft", gateways |-> {}]]]
              /\ UNCHANGED ruleApproval
    /\ UNCHANGED <<run, ruleOp, granted>>

\* A rule promoted to this environment arrives as a draft.
PromoteRule ==
    /\ rule.status = "absent"
    /\ rule' = [status |-> "draft", gateways |-> {}]
    /\ UNCHANGED <<run, ruleOp, ruleReq, ruleApproval, granted>>

\* The first successful deploy of a service: a rule for the internal gateway,
\* which is published when the deploy asked for it.
EnsureDefaultRule(r) ==
    /\ ruleReq[r].pc = "idle"
    /\ rule.status = "absent"
    /\ \/ rule' = [status |-> "draft", gateways |-> {"internal"}] /\ UNCHANGED ruleReq
       \/ /\ rule' = [status |-> "queued", gateways |-> {"internal"}]
          /\ ruleReq' = [ruleReq EXCEPT
               ![r] = [pc |-> "enqueue", kind |-> "republish", want |-> {"internal"},
                       prev |-> [status |-> "draft", gateways |-> {}]]]
    /\ UNCHANGED <<run, ruleOp, ruleApproval, granted>>

\* CreateRule looks for an active worker only after the insert.
FindWorker(r) ==
    /\ ruleReq[r].pc = "worker"
    /\ RuleGoes(r, "enqueue")
    /\ UNCHANGED <<run, rule, ruleOp, ruleApproval, granted>>
-----------------------------------------------------------------------------
(* PublishRule and executeApprovedRulePublish *)

\* Both load the rule first, and find an active worker.
LoadRule(r, kind, want) ==
    /\ ruleReq[r].pc = "idle"
    /\ Exists
    /\ ruleReq' = [ruleReq EXCEPT
                     ![r] = [pc |-> "check", kind |-> kind, want |-> want, prev |-> rule]]

PublishRule(r, want) ==
    /\ LoadRule(r, "publish", want)
    /\ UNCHANGED <<run, rule, ruleOp, ruleApproval, granted>>

\* A review decides the pending approval.
ApproveRule(r) ==
    /\ ruleApproval # NoGateways
    /\ LoadRule(r, "execute", ruleApproval)
    /\ granted' = granted \cup {ruleApproval}
    /\ ruleApproval' = NoGateways
    /\ UNCHANGED <<run, rule, ruleOp>>

RejectRule ==
    /\ ruleApproval # NoGateways
    /\ ruleApproval' = NoGateways
    /\ UNCHANGED <<run, rule, ruleOp, ruleReq, granted>>

\* Mutated form: the approval is only looked for when the rule is a draft.
NeedsApproval_Drafts(r) ==
    ruleReq[r].want \in RuleGated /\ ruleReq[r].kind = "publish" /\ ruleReq[r].prev.status = "draft"

\* RulePublishApprovalRequired; an execution has its approval.
NeedsApproval(r) == ruleReq[r].want \in RuleGated /\ ruleReq[r].kind = "publish"

\* An active publication answers the request; else it asks for approval or goes on.
CheckRuleOps(r) ==
    /\ ruleReq[r].pc = "check"
    /\ IF ActiveRuleOp("publish") THEN RuleDone(r) /\ UNCHANGED ruleApproval
       ELSE IF NeedsApproval(r) THEN RuleDone(r) /\ AskApproval(ruleReq[r].want)
       ELSE RuleGoes(r, "mark") /\ UNCHANGED ruleApproval
    /\ UNCHANGED <<run, rule, ruleOp, granted>>

\* The rule shows its next gateways before the operation exists.
MarkRule(r) ==
    /\ ruleReq[r].pc = "mark"
    /\ SetRule("queued", ruleReq[r].want)
    /\ RuleGoes(r, "enqueue")
    /\ UNCHANGED <<run, ruleOp, ruleApproval, granted>>
-----------------------------------------------------------------------------
(* RepublishRulesForServicePortChange, ...ForServiceStrategyWithOptions *)

\* The rule as it is, once more.  A strategy change skips a rule that is busy
\* or has no gateways; a port change takes it when its status says published or busy.
Republish(r) ==
    /\ ruleReq[r].pc = "idle"
    /\ Exists
    /\ rule.gateways # {} \/ rule.status = "published" \/ Busy(rule.status)
    /\ ruleReq' = [ruleReq EXCEPT ![r] = [pc |-> "busy", kind |-> "republish",
                                          want |-> rule.gateways, prev |-> rule]]
    /\ UNCHANGED <<run, rule, ruleOp, ruleApproval, granted>>

MarkRepublished(r) ==
    /\ ruleReq[r].pc = "busy"
    /\ SetRule("queued", rule.gateways)
    /\ IF ruleReq[r].kind = "delete" THEN RuleDone(r) ELSE RuleGoes(r, "enqueue")
    /\ UNCHANGED <<run, ruleOp, ruleApproval, granted>>
-----------------------------------------------------------------------------
(* The operation of a publication *)

PublishPayload(r) == [kind |-> "publish", next |-> ruleReq[r].want, prev |-> ruleReq[r].prev]

QueuePublish(r) ==
    /\ ruleReq[r].pc = "enqueue" /\ ruleReq[r].kind # "delete"
    /\ QueueRuleOp(PublishPayload(r))
    /\ RuleDone(r)
    /\ UNCHANGED <<rule, ruleApproval, granted>>

\* The insert fails: CreateRule and PublishRule put back what they had read,
\* the others leave the rule queued (StopRule).
QueuePublishFails(r) ==
    /\ ruleReq[r].pc = "enqueue" /\ ruleReq[r].kind \in {"create", "publish"}
    /\ SetRule(ruleReq[r].prev.status, ruleReq[r].prev.gateways)
    /\ RuleDone(r)
    /\ UNCHANGED <<run, ruleOp, ruleApproval, granted>>

\* No worker, a database error, a client that went away: the request ends here.
StopRule(r) ==
    /\ ruleReq[r].pc \in {"worker", "check", "mark", "enqueue", "busy"}
    /\ RuleDone(r)
    /\ UNCHANGED <<run, rule, ruleOp, ruleApproval, granted>>
-----------------------------------------------------------------------------
(* DeleteRule *)

DeleteRule(r) ==
    /\ ruleReq[r].pc = "idle"
    /\ Exists /\ ~ Busy(rule.status) /\ ~ ActiveRuleOp("delete")
    /\ ruleReq' = [ruleReq EXCEPT ![r] = [pc |-> "enqueue", kind |-> "delete",
                                          want |-> {}, prev |-> rule]]
    /\ UNCHANGED <<run, rule, ruleOp, ruleApproval, granted>>

\* The operation is inserted first, the status follows.
QueueDelete(r) ==
    /\ ruleReq[r].pc = "enqueue" /\ ruleReq[r].kind = "delete"
    /\ QueueRuleOp([kind |-> "delete", next |-> {}, prev |-> ruleReq[r].prev])
    /\ RuleGoes(r, "busy")
    /\ UNCHANGED <<rule, ruleApproval, granted>>
-----------------------------------------------------------------------------
(* The effects of the operations *)

StartRule(t) ==
    /\ StartRun(t)
    /\ IF ruleOp[t].kind = "publish" THEN SetRule("in-progress", rule.gateways) ELSE UNCHANGED rule
    /\ UNCHANGED <<ruleOp, ruleReq, ruleApproval, granted>>

\* Mutated form: an operation that removes every gateway publishes the rule all
\* the same.
PublishedStatus_Always(next) == "published"

PublishedStatus(next) == IF next = {} THEN "draft" ELSE "published"

CompleteRule(t) ==
    /\ ApplyRun(t, "succeeded")
    /\ IF ruleOp[t].kind = "publish"
         THEN SetRule(PublishedStatus(ruleOp[t].next), ruleOp[t].next)
         ELSE rule' = [rule EXCEPT !.status = IF Exists THEN "deleted" ELSE @]
    /\ UNCHANGED <<ruleOp, ruleReq, ruleApproval, granted>>

\* A failed publication restores what its payload saved; a failed deletion
\* restores nothing.
FailRule(t) ==
    /\ ApplyRun(t, "failed") \/ SettleRun(t)
    /\ IF ruleOp[t].kind = "publish"
         THEN SetRule(ruleOp[t].prev.status, ruleOp[t].prev.gateways) ELSE UNCHANGED rule
    /\ UNCHANGED <<ruleOp, ruleReq, ruleApproval, granted>>

RuleOpMoves(t) == RunMoves(t) /\ UNCHANGED <<rule, ruleOp, ruleReq, ruleApproval, granted>>
-----------------------------------------------------------------------------
RuleNext ==
    \/ \E r \in RuleReq, want \in Gateways : CreateRule(r, want) \/ PublishRule(r, want)
    \/ PromoteRule \/ RejectRule
    \/ \E r \in RuleReq : \/ EnsureDefaultRule(r) \/ FindWorker(r) \/ ApproveRule(r)
                          \/ CheckRuleOps(r) \/ MarkRule(r)
                          \/ Republish(r) \/ MarkRepublished(r)
                          \/ QueuePublish(r) \/ QueuePublishFails(r) \/ StopRule(r)
                          \/ DeleteRule(r) \/ QueueDelete(r)
    \/ \E t \in Task : StartRule(t) \/ CompleteRule(t) \/ FailRule(t) \/ RuleOpMoves(t)

RuleSpec == RuleInit /\ [][RuleNext]_ruleVars
-----------------------------------------------------------------------------
(* Properties *)

\* A rule is attached to the external gateway only if an approval of such a
\* publication was granted, where they need one: neither a republication, nor
\* the restoration of saved gateways, nor a publication that was in flight
\* brings an unapproved exposure about.
ExternalExposureIsApproved ==
    "external" \in rule.gateways => \E gateways \in granted : "external" \in gateways

\* A rule that says it is published is attached to a gateway, whichever
\* operation ended last and whatever it restored.
PublishedRuleHasGateways == rule.status = "published" => rule.gateways # {}
=============================================================================
