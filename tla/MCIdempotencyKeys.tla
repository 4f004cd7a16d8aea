-------------------------- MODULE MCIdempotencyKeys --------------------------
(* Instances of IdempotencyKeys for TLC.  Requests are interchangeable.    *)
EXTENDS IdempotencyKeys, TLC

Symmetry == Permutations(Req)
=============================================================================
