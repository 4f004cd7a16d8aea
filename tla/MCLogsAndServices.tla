-------------------------- MODULE MCLogsAndServices --------------------------
(* DeployLogs, ServiceDeletion and WorkerPools for TLC.  They share no state, *)
(* so one run checks one of these parts, chosen when it begins.  Requests *)
(* and replicas have the same names and are interchangeable.                  *)
EXTENDS MCDeployLogs, ServiceDeletion, WorkerPools, TLC

CONSTANTS e1, e2, pool

VARIABLE part

OneRegistration == [w \in Replica |-> pool]

\* Two that admission knows, one in another case, and one that nobody knows.
SomeStatuses == {"busy", "pending", "Online", "draining"}
InLowerCase  == [word \in SomeStatuses |-> IF word = "Online" THEN "online" ELSE word]

MCInit ==
    /\ Init /\ DelInit /\ PoolInit
    /\ part \in {"logs", "deletion", "pools"}

MCNext ==
    /\ UNCHANGED part
    /\ \/ part = "logs" /\ Next /\ UNCHANGED <<delVars, poolVars>>
       \/ part = "deletion" /\ DelNext /\ UNCHANGED <<vars, poolVars>>
       \/ part = "pools" /\ PoolNext /\ UNCHANGED <<vars, delVars>>

MCSpec == MCInit /\ [][MCNext]_<<part, vars, delVars, poolVars>>

MCSymmetry == Permutations(Req)

\* The documents, requests and replicas of all three parts keep their types.
PartsTypeOK == TypeOK /\ DelTypeOK /\ PoolTypeOK
=============================================================================
