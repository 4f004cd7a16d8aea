---------------------------- MODULE DeployStates ----------------------------
(***************************************************************************)
(* The statuses of a deploy document and the transition table the API      *)
(* enforces on the statuses workers report.                                *)
(***************************************************************************)
EXTENDS Integers

\* The phases of a deploy that makes progress, with their order.
deployProgressRank ==
    [requested |-> 0, scheduled |-> 1, preparing |-> 2, deploying |-> 3, validating |-> 4,
     progressing |-> 5, promoting |-> 6, completed |-> 7]

Phase          == DOMAIN deployProgressRank
TerminalDeploy == {"completed", "rolled-back", "failed"}
DeployStatus   == Phase \cup TerminalDeploy \cup {"rolling-back", "retrying"}

\* The statuses with which a deploy blocks the next one of its environment.
\* (The stored aliases "queued" and "in-progress" block as well.)
BlockingStatus == DeployStatus \ TerminalDeploy

\* A stored or reported status may have a legacy name.
NormalizeDeployStatus(status) ==
    CASE status = "success"     -> "completed"
      [] status = "rollback"    -> "rolled-back"
      [] status = "queued"      -> "scheduled"
      [] status = "in-progress" -> "deploying"
      [] OTHER                  -> status

\* Progress may skip phases but not go back; failure and rollback may come at
\* any time; a retried deploy resumes no earlier than its preparation.
Progresses(from, to) ==
    /\ to \in Phase
    /\ IF from = "retrying" THEN deployProgressRank[to] >= deployProgressRank["preparing"]
       ELSE from \in Phase /\ deployProgressRank[to] > deployProgressRank[from]

CanTransitionDeployStatus(current, next) ==
    LET from == NormalizeDeployStatus(current)
        to   == NormalizeDeployStatus(next)
    IN  \/ from = to
        \/ from = "rolling-back" /\ to \in {"rolled-back", "failed"}
        \/ /\ from \notin TerminalDeploy \cup {"rolling-back"}
           /\ \/ to \in {"failed", "rolling-back"}
              \/ to = "retrying" /\ from # "requested"
              \/ Progresses(from, to)
=============================================================================
