---------------------------- MODULE MCDeployLogs ----------------------------
(* Instances of DeployLogs for TLC: two numbered batches that report the same *)
(* phase, a third one that ends the deploy and a plain one without a number.  *)
EXTENDS DeployLogs

CONSTANTS b1, b2, b3, b4

StatusOfBatch ==
    [b \in Batch |-> CASE b = b3 -> "completed" [] b = b4 -> NoStatus [] OTHER -> "deploying"]
=============================================================================
