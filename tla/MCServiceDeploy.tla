--------------------------- MODULE MCServiceDeploy ---------------------------
(* Instances of ServiceDeploy for TLC. *)
EXTENDS ServiceDeploy, TLC

CONSTANTS o1, o2, w1, w2, r1, r2, s1

Symmetry == Permutations({r1, r2})
=============================================================================
