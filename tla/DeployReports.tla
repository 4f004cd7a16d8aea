---------------------------- MODULE DeployReports ----------------------------
(***************************************************************************)
(* What AppendDeployLogs promises the workers that report about a deploy:  *)
(* each accepted batch takes effect at one instant, at which its phase was *)
(* a legal successor of the status of the deploy and its lines were not    *)
(* there yet.  The other writers of the status set it as they like.        *)
(***************************************************************************)
EXTENDS Naturals, DeployStates

CONSTANTS Batch, Numbered, NoStatus, BatchStatus, EffectStatus

VARIABLES
    status,    \* deploy.status
    appended   \* how often the lines of each batch are in deploy.logs

vars == <<status, appended>>
-----------------------------------------------------------------------------
Init == status = "requested" /\ appended = [b \in Batch |-> 0]

Legal(b) ==
    /\ b \in Numbered => appended[b] = 0
    /\ BatchStatus[b] # NoStatus => CanTransitionDeployStatus(status, BatchStatus[b])

Append(b) ==
    /\ appended' = [appended EXCEPT ![b] = @ + 1]
    /\ Legal(b)
    /\ status' = IF BatchStatus[b] = NoStatus THEN status ELSE BatchStatus[b]

Effect(next) == status' = next /\ UNCHANGED appended

Next == (\E next \in EffectStatus : Effect(next)) \/ (\E b \in Batch : Append(b))

Spec == Init /\ [][Next]_vars
=============================================================================
