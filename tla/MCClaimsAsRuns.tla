--------------------------- MODULE MCClaimsAsRuns ---------------------------
(* ClaimsAsRuns for TLC, on the instances of OperationClaims. *)
EXTENDS ClaimsAsRuns, MCOperationClaims
=============================================================================
