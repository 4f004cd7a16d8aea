-------------------------- MODULE MCOperationClaims --------------------------
(* Instances of OperationClaims for TLC: the model values the configurations *)
(* use, and the permutations under which an instance is symmetric.           *)
EXTENDS OperationClaims, TLC

CONSTANTS o1, w1, w2, r1, r2, s1, s2

Symmetry == Permutations({r1, r2}) \cup Permutations({w1, w2}) \cup Permutations({s1, s2})
=============================================================================
