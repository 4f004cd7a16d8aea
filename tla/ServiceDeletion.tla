--------------------------- MODULE ServiceDeletion ---------------------------
(***************************************************************************)
(* The deletion of one service.  DeleteService refuses while deploys or    *)
(* rules are in progress, marks the service and queues one cleanup         *)
(* operation for every environment that has deploys or rules.  The success *)
(* effects of a cleanup count the other cleanups of the same request and   *)
(* remove the service when none is left.  Meanwhile deploys go on.         *)
(*                                                                         *)
(* Cleanup <<d, e>> is the operation request d queues for environment e.   *)
(***************************************************************************)
EXTENDS OperationRuns

CONSTANTS DelReq,    \* DeleteService requests
          DelEnv,    \* environments, one per namespace
          RepoTargets, \* what a managed repository adds when nothing else is left
          NotCounted

\* The operations queueServiceDelete may queue.
CleanupOp == DelReq \X DelEnv

ASSUME CleanupAssumption == CleanupOp \subseteq Task /\ RepoTargets \subseteq DelEnv

VARIABLES
    service,  \* the status of the service document
    targets,  \* the environments with deploys or rules of the service
    rolling,  \* those whose latest deploy or rule is in progress
    delReq,   \* the DeleteService requests
    counted   \* what the effects of a cleanup counted: the cleanups they saw

delVars == <<run, service, targets, rolling, delReq, counted>>
-----------------------------------------------------------------------------
DelRequest == [pc : {"idle", "mark", "queue", "done"}, todo : SUBSET DelEnv]

DelTypeOK ==
    /\ run \in [Task -> RunRecord]
    /\ service \in {"running", "pending", "deleting", "error", "gone"}
    /\ targets \subseteq DelEnv /\ rolling \subseteq targets
    /\ delReq \in [DelReq -> DelRequest]
    /\ counted \in [CleanupOp -> (SUBSET CleanupOp) \cup {NotCounted}]

DelInit ==
    /\ RunInit
    /\ service = "running"
    /\ targets = {}
    /\ rolling = {}
    /\ delReq = [d \in DelReq |-> [pc |-> "idle", todo |-> {}]]
    /\ counted = [t \in CleanupOp |-> NotCounted]

\* Mutated form: an update that inserts what it does not find.
SetService_Upsert(status) == service' = status

\* UpdateByID: nothing happens to a service that is not there.
SetService(status) == service' = IF service = "gone" THEN "gone" ELSE status

\* Mutated form: it forgets what is in progress.
FinalizeServiceDeletion_KeepsRollouts ==
    /\ service' = "gone"
    /\ targets' = {} /\ UNCHANGED rolling

\* FinalizeServiceDeletion: deploys, rules and the service itself.
FinalizeServiceDeletion ==
    /\ service' = "gone"
    /\ targets' = {} /\ rolling' = {}
-----------------------------------------------------------------------------
(* Deploys and rules *)

\* CreateDeploy, CreateRule, PublishRule: none of them looks whether the
\* service is being deleted.
BeginRollout(e) ==
    /\ service # "gone"
    /\ targets' = targets \cup {e} /\ rolling' = rolling \cup {e}
    /\ UNCHANGED <<run, service, delReq, counted>>

\* The start effects of a deploy.
StartRollout(e) ==
    /\ e \in rolling
    /\ SetService("pending")
    /\ UNCHANGED <<run, targets, rolling, delReq, counted>>

EndRollout(e) ==
    /\ e \in rolling
    /\ rolling' = rolling \ {e}
    /\ \E status \in {"running", "error"} : SetService(status)
    /\ UNCHANGED <<run, targets, delReq, counted>>
-----------------------------------------------------------------------------
(* DeleteService *)

\* The checks, and the environments to clean up.
BeginDelete(d) ==
    /\ delReq[d].pc = "idle"
    /\ service # "gone"
    /\ rolling = {}
    /\ \E repo \in {{}, RepoTargets} :
         delReq' = [delReq EXCEPT ![d] = [pc |-> "mark",
                                          todo |-> IF targets = {} THEN repo ELSE targets]]
    /\ UNCHANGED <<run, service, targets, rolling, counted>>

MarkDeleting(d) ==
    /\ delReq[d].pc = "mark"
    /\ delReq' = [delReq EXCEPT ![d].pc = "queue"]
    /\ SetService("deleting")
    /\ UNCHANGED <<run, targets, rolling, counted>>

\* Nothing runs anywhere: the service is removed at once.
DeleteNow(d) ==
    /\ delReq[d].pc = "queue" /\ delReq[d].todo = {}
    /\ delReq' = [delReq EXCEPT ![d].pc = "done"]
    /\ FinalizeServiceDeletion
    /\ UNCHANGED <<run, counted>>

\* queueServiceDelete, one environment after the other; after the last one
\* the request is answered.
QueueCleanup(d, e) ==
    /\ delReq[d].pc = "queue" /\ e \in delReq[d].todo
    /\ EnqueueRun(<<d, e>>)
    /\ delReq' = [delReq EXCEPT ![d].todo = @ \ {e},
                                ![d].pc = IF delReq[d].todo = {e} THEN "done" ELSE @]
    /\ UNCHANGED <<service, targets, rolling, counted>>

\* An insert fails, or the request is cut off.
StopDelete(d) ==
    /\ delReq[d].pc \in {"mark", "queue"}
    /\ delReq' = [delReq EXCEPT ![d].pc = "done"]
    /\ UNCHANGED <<run, service, targets, rolling, counted>>
-----------------------------------------------------------------------------
(* The effects of a cleanup *)

Cleanups(d) == {t \in CleanupOp : t[1] = d /\ run[t].stage # "absent"}

StartCleanup(t) ==
    /\ StartRun(t)
    /\ SetService("deleting")
    /\ UNCHANGED <<targets, rolling, delReq, counted>>

\* Mutated forms: the count includes the operation itself; it leaves out
\* cleanups that failed.
Pending_Itself(t) == {u \in Cleanups(t[1]) : RunStatus(u) # "succeeded"}
Pending_Unfinished(t) == {u \in Cleanups(t[1]) \ {t} : Unfinished(u)}

\* The other cleanups of the request whose success is not published.
Pending(t) == {u \in Cleanups(t[1]) \ {t} : RunStatus(u) # "succeeded"}

\* finalizeServiceDeletionRequestIfComplete counts; if a cleanup is pending,
\* that is all.  A repeated report counts once more.
CountPending(t) ==
    /\ "succeeded" \in run[t].reported
    /\ counted[t] = NotCounted \/ t \in Overlapping
    /\ IF Pending(t) = {}
         THEN counted' = [counted EXCEPT ![t] = Cleanups(t[1])] /\ UNCHANGED run
         ELSE ApplyRun(t, "succeeded") /\ UNCHANGED counted
    /\ UNCHANGED <<service, targets, rolling, delReq>>

\* The count was zero: the documents of the service are removed, unless the
\* report stops here.
RemoveService(t) ==
    /\ counted[t] # NotCounted
    /\ ApplyRun(t, "succeeded")
    /\ FinalizeServiceDeletion
    /\ counted' = [counted EXCEPT ![t] = NotCounted]
    /\ UNCHANGED delReq

FailCleanup(t) ==
    /\ ApplyRun(t, "failed") \/ SettleRun(t)
    /\ SetService("error")
    /\ UNCHANGED <<targets, rolling, delReq, counted>>

\* A recovery, or another report if they do not overlap, starts from the beginning.
CleanupMoves(t) ==
    /\ RunMoves(t)
    /\ counted' = [counted EXCEPT
                     ![t] = IF t \in Overlapping /\ run'[t].reported # {} THEN @ ELSE NotCounted]
    /\ UNCHANGED <<service, targets, rolling, delReq>>
-----------------------------------------------------------------------------
DelNext ==
    \/ \E e \in DelEnv : BeginRollout(e) \/ StartRollout(e) \/ EndRollout(e)
    \/ \E d \in DelReq : \/ BeginDelete(d) \/ MarkDeleting(d) \/ DeleteNow(d) \/ StopDelete(d)
                         \/ \E e \in DelEnv : QueueCleanup(d, e)
    \/ \E t \in CleanupOp : \/ StartCleanup(t) \/ CountPending(t) \/ RemoveService(t)
                            \/ FailCleanup(t) \/ CleanupMoves(t)

DelSpec == DelInit /\ [][DelNext]_delVars
-----------------------------------------------------------------------------
(* Properties *)

\* A service that was removed stays removed: effects of operations that are
\* late, of deploys or of other deletions, do not bring its document back.
RemovedServiceStaysRemoved == [][service = "gone" => service' = "gone"]_delVars

\* When the effects of a cleanup remove the service, every cleanup the request
\* had queued when they counted has published its success, but for the one
\* that removes; none of them failed or still works on its environment.
RemovalFollowsCleanups ==
    [][\A t \in CleanupOp : RemoveService(t) =>
         \A u \in counted[t] : u # t => RunStatus(u) = "succeeded"]_delVars

\* A deletion with one environment to clean up is complete when its cleanup
\* has published its success: the effects come first, and their count leaves
\* out the operation itself.
LoneCleanupRemoves ==
    \A t \in CleanupOp :
        /\ run[t].stage = "ended" /\ run[t].result = "succeeded"
        /\ Cleanups(t[1]) = {t} /\ delReq[t[1]].pc = "done"
        => service = "gone"
=============================================================================
