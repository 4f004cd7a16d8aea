---------------------------- MODULE ServiceDeploy ----------------------------
(***************************************************************************)
(* The deploys of one service in one environment: the requests that create *)
(* them (CreateDeploy), the phases workers report for them                 *)
(* (AppendDeployLogs) and what the claim protocol of their operations      *)
(* writes to them (applyOperationStart, applyOperationSuccess,             *)
(* applyOperationFailure and the "retrying" mark of recovery).             *)
(*                                                                         *)
(* Operation o belongs to deploy o.  The operations collection and its     *)
(* requests are those of OperationClaims; every step here is one of its    *)
(* steps, or leaves its variables alone.                                   *)
(***************************************************************************)
EXTENDS OperationClaims, DeployStates

CONSTANT ReportedPhase   \* the deploy statuses workers report

ASSUME PhaseAssumption == ReportedPhase \subseteq DeployStatus
ASSUME SlotAssumption == Req \cap Sweep = {}

VARIABLES
    deploy,   \* the deploys collection: the status and whether activeKey is set
    cre,      \* the CreateDeploy request that makes each deploy
    decision, \* the status applyOperationFailure chose from what it read
    orphaned  \* history: the operations failed by a sweep that never applied their failure

deployVars == <<deploy, cre, decision>>
allVars == <<op, upd, rec, deploy, cre, decision, orphaned>>
-----------------------------------------------------------------------------
Deploy   == [status : DeployStatus \cup {"absent"}, key : BOOLEAN]
Creation == [pc : {"new", "insert", "enqueue", "cleanup", "compensated", "done"}, live : BOOLEAN]
Decision == {"none", "failed", "rolled-back"}

DeployTypeOK ==
    /\ deploy \in [Op -> Deploy]
    /\ cre \in [Op -> Creation]
    /\ decision \in [Req \cup Sweep -> Decision]
    /\ orphaned \subseteq Op

DeployInit ==
    /\ Init
    /\ deploy = [o \in Op |-> [status |-> "absent", key |-> FALSE]]
    /\ cre = [o \in Op |-> [pc |-> "new", live |-> TRUE]]
    /\ decision = [x \in Req \cup Sweep |-> "none"]
    /\ orphaned = {}

\* UpdateOne on the deploys collection: a deploy that is not there stays absent.
SetDeploy(o, status, key) ==
    deploy' = IF deploy[o].status = "absent" THEN deploy
              ELSE [deploy EXCEPT ![o] = [status |-> status, key |-> key]]
-----------------------------------------------------------------------------
(* CreateDeploy *)

CreationGoes(o, pc) == cre' = [cre EXCEPT ![o].pc = pc]

\* The request's context ends, by a timeout or because the client went away:
\* every database call it still makes fails at once.
Disconnect(o) ==
    /\ cre[o].pc \in {"insert", "enqueue", "cleanup"}
    /\ cre' = [cre EXCEPT ![o].live = FALSE]
    /\ UNCHANGED <<op, upd, rec, deploy, decision>>

\* respondIfActiveDeployBlocked found no deploy with a blocking status.
CheckActive(o) ==
    /\ cre[o].pc = "new"
    /\ \A d \in Op : deploy[d].status \notin BlockingStatus
    /\ CreationGoes(o, "insert")
    /\ UNCHANGED <<op, upd, rec, deploy, decision>>

\* Mutated form: no unique index on activeKey.
KeyFree_NoIndex == TRUE

\* The unique sparse index on activeKey admits the insert.
KeyFree == \A d \in Op : ~ deploy[d].key

InsertDeploy(o) == deploy' = [deploy EXCEPT ![o] = [status |-> "requested", key |-> TRUE]]

\* persistDeployRecord: the insert succeeds, or the key is taken.
PersistDeploy(o) ==
    /\ cre[o].pc = "insert" /\ cre[o].live
    /\ IF KeyFree THEN InsertDeploy(o) /\ CreationGoes(o, "enqueue")
       ELSE CreationGoes(o, "done") /\ UNCHANGED deploy
    /\ UNCHANGED <<op, upd, rec, decision>>

\* The insert reports an error; it may have been committed all the same.
PersistDeployFails(o) ==
    /\ cre[o].pc = "insert"
    /\ CreationGoes(o, "done")
    /\ UNCHANGED deploy \/ (cre[o].live /\ KeyFree /\ InsertDeploy(o))
    /\ UNCHANGED <<op, upd, rec, decision>>

\* persistDeployOperationRecord: the operation is queued.
PersistOperation(o) ==
    /\ cre[o].pc = "enqueue" /\ cre[o].live
    /\ Create(o)
    /\ CreationGoes(o, "done")
    /\ UNCHANGED <<deploy, decision>>

PersistOperationFails(o) ==
    /\ cre[o].pc = "enqueue"
    /\ CreationGoes(o, "cleanup")
    /\ UNCHANGED <<op, upd, rec>> \/ (cre[o].live /\ Create(o))
    /\ UNCHANGED <<deploy, decision>>

\* The compensation: DeleteByID on the context of the request.
Compensate(o) ==
    /\ cre[o].pc = "cleanup"
    /\ CreationGoes(o, "compensated")
    /\ deploy' = IF cre[o].live THEN [deploy EXCEPT ![o] = [status |-> "absent", key |-> FALSE]]
                 ELSE deploy
    /\ UNCHANGED <<op, upd, rec, decision>>
-----------------------------------------------------------------------------
(* AppendDeployLogs *)

\* A worker that once claimed the operation reports a phase.  The update is
\* conditional on the status the transition was checked against.
ReportPhase(o, next) ==
    /\ op[o].ttl # 0
    /\ deploy[o].status # "absent"
    /\ CanTransitionDeployStatus(deploy[o].status, next)
    /\ SetDeploy(o, next, deploy[o].key /\ next \notin TerminalDeploy)
    /\ UNCHANGED <<op, upd, rec, cre, decision>>
-----------------------------------------------------------------------------
(* The effects of the claim protocol on the deploy *)

\* applyOperationStart
StartDeploy(r) ==
    /\ StartEffect(r)
    /\ SetDeploy(upd[r].op, "scheduled", deploy[upd[r].op].key)
    /\ UNCHANGED <<cre, decision>>

\* applyOperationSuccess
CompleteDeploy(r) ==
    /\ upd[r].result = "succeeded"
    /\ Apply(r)
    /\ SetDeploy(upd[r].op, "completed", FALSE)
    /\ UNCHANGED <<cre, decision>>

\* applyOperationFailure reads the deploy before it chooses the status to write.
FailureStatus(o) == IF deploy[o].status = "rolling-back" THEN "rolled-back" ELSE "failed"

DecideFailure(x, o) ==
    /\ decision[x] = "none"
    /\ decision' = [decision EXCEPT ![x] = FailureStatus(o)]
    /\ UNCHANGED <<op, upd, rec, deploy, cre>>

\* Mutated form: the failure keeps the active key.
WriteFailure_KeepsKey(x, o) ==
    /\ decision[x] # "none"
    /\ SetDeploy(o, decision[x], deploy[o].key)
    /\ decision' = [decision EXCEPT ![x] = "none"]
    /\ UNCHANGED cre

\* The terminal status of a failure, written with the release of the key.
WriteFailure(x, o) ==
    /\ decision[x] # "none"
    /\ SetDeploy(o, decision[x], FALSE)
    /\ decision' = [decision EXCEPT ![x] = "none"]
    /\ UNCHANGED cre

FailDeploy(r) ==
    /\ upd[r].pc = "apply" /\ upd[r].result = "failed"
    /\ \/ DecideFailure(r, upd[r].op)
       \/ Apply(r) /\ WriteFailure(r, upd[r].op)

\* Mutated form: a requeued operation takes the slot again for its deploy.
MarkRetrying_TakesKey(s) ==
    /\ rec[s].outcome = "queued"
    /\ RecoverSettle(s)
    /\ SetDeploy(rec[s].op, "retrying", TRUE)
    /\ UNCHANGED <<cre, decision>>

\* After a recovery write: "retrying" for a requeued operation, the failure
\* effects for an exhausted one.
MarkRetrying(s) ==
    /\ rec[s].outcome = "queued"
    /\ RecoverSettle(s)
    /\ SetDeploy(rec[s].op, "retrying", deploy[rec[s].op].key)
    /\ UNCHANGED <<cre, decision>>

FailRecovered(s) ==
    /\ rec[s].pc = "settle" /\ rec[s].outcome = "failed"
    /\ \/ DecideFailure(s, rec[s].op)
       \/ RecoverSettle(s) /\ WriteFailure(s, rec[s].op)

Forget(x) == decision' = [decision EXCEPT ![x] = "none"] /\ UNCHANGED <<deploy, cre>>

\* Sweep s has published the failure of o and not yet applied it to the deploy.
Failing(s, o) == rec[s].pc = "settle" /\ rec[s].outcome = "failed" /\ rec[s].op = o

\* A call of the effects fails and the sweep, ignoring the error, goes on; or
\* the sweep ends.  A failure that was published and not applied stays so.
LeaveUnsettled(s) ==
    /\ RecoverSettle(s) \/ RecoverEnd(s)
    /\ Forget(s)
    /\ orphaned' = orphaned \cup {o \in Op : Failing(s, o)}
-----------------------------------------------------------------------------
\* The steps that leave no failure unapplied.
SettledNext ==
    \/ \E o \in Op : \/ CheckActive(o) \/ Disconnect(o)
                     \/ PersistDeploy(o) \/ PersistDeployFails(o)
                     \/ PersistOperation(o) \/ PersistOperationFails(o) \/ Compensate(o)
    \/ \E o \in Op, next \in ReportedPhase : ReportPhase(o, next)
    \/ \E r \in Req : /\ Begin(r) \/ ClaimWrite(r) \/ RenewWrite(r) \/ Reserve(r) \/ Finish(r)
                      /\ UNCHANGED deployVars
    \/ \E r \in Req : StartDeploy(r) \/ CompleteDeploy(r) \/ FailDeploy(r)
    \/ \E r \in Req : Abort(r) /\ Forget(r)
    \/ \E s \in Sweep : /\ RecoverScan(s) \/ \E stale \in rec[s].batch : RecoverWrite(s, stale)
                        /\ UNCHANGED deployVars
    \/ \E s \in Sweep : MarkRetrying(s) \/ FailRecovered(s)
    \/ Tick /\ UNCHANGED deployVars

DeployNext ==
    \/ SettledNext /\ UNCHANGED orphaned
    \/ \E s \in Sweep : LeaveUnsettled(s)

DeploySpec == DeployInit /\ [][DeployNext]_allVars
-----------------------------------------------------------------------------
(* Properties *)

\* The active key belongs to at most one deploy, and only to one that still
\* blocks: whoever ends a deploy (a phase report, the effects of a report, or
\* recovery) frees its slot in the same write.
SlotHeldByActiveDeploy ==
    \A o \in Op : deploy[o].key =>
        /\ deploy[o].status \in BlockingStatus
        /\ \A d \in Op : deploy[d].key => d = o

\* An operation whose end was published holds no slot: a worker's report frees
\* it before the status becomes visible, and a sweep that exhausts an operation
\* frees it next, unless its effects fail or it stops right there.  That is the
\* only way a finished operation can block its service and environment.
PublishedOperationFreesSlot ==
    \A o \in Op : op[o].status \in Terminal /\ deploy[o].key =>
        /\ op[o].reg = NoWorker
        /\ o \in orphaned \/ \E s \in Sweep : Failing(s, o)

\* Creations, reports, claims and sweeps implement a lock: a deploy takes the
\* slot at most once, its operation is queued only while it holds it, and
\* nothing gives a slot back that was freed or refused.
Stage == [o \in Op |-> IF deploy[o].key THEN "holding"
                       ELSE IF cre[o].pc \in {"new", "insert"} THEN "waiting" ELSE "over"]
Existing == {o \in Op : op[o].status # "absent"}

Slot == INSTANCE ServiceSlot WITH stage <- Stage, queued <- Existing

ImplementsSlot == Slot!Spec

\* The deploy of a succeeded operation has ended, and stays ended.
SucceededDeployHasEnded ==
    \A o \in Op : op[o].status = "succeeded" => deploy[o].status \notin BlockingStatus

\* A creation that failed after its deploy was inserted leaves no deploy behind.
CompensationLeavesNoDeploy ==
    \A o \in Op : cre[o].pc = "compensated" => deploy[o].status = "absent"
=============================================================================
