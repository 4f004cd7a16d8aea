-------------------------- MODULE MCDeployScenarios --------------------------
(***************************************************************************)
(* ServiceDeploy for TLC, in two scenarios that keep the run small.  Two   *)
(* creations compete for the slot while one request of a worker is served; *)
(* no sweep runs, so leases need not run out.  As the creations are alike, *)
(* o1 is the one whose insert ends first.  Or one deploy, whose creation   *)
(* keeps its context, meets two requests of a worker and a sweep.          *)
(***************************************************************************)
EXTENDS MCServiceDeploy

VARIABLE scenario

TwoCreations ==
    /\ UNCHANGED rec
    /\ \A r \in Req : upd'[r].age = 0
    /\ \A o \in Op : op'[o].lease >= op[o].lease \/ op'[o].status \in Terminal
    /\ Cardinality({r \in Req : upd'[r].pc # "idle"}) <= 1
    /\ \A o \in Op : deploy'[o].status # "rolling-back"
    /\ cre'[o1].pc \in {"new", "insert"} => cre'[o2].pc \in {"new", "insert"}

OneDeploy == op'[o2] = op[o2] /\ cre'[o2] = cre[o2] /\ cre'[o1].live

MCInit == DeployInit /\ scenario \in {"two creations", "one deploy"}

MCNext ==
    /\ DeployNext
    /\ UNCHANGED scenario
    /\ scenario = "two creations" => TwoCreations
    /\ scenario = "one deploy" => OneDeploy

MCSpec == MCInit /\ [][MCNext]_<<allVars, scenario>>
=============================================================================
