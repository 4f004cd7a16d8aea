------------------------- MODULE MCGovernanceApproval -------------------------
(* Instances of GovernanceApproval for TLC.  Review requests are           *)
(* interchangeable; so are gated requests and reviewers, but permuting them *)
(* as well costs more than the states it saves.                            *)
EXTENDS GovernanceApproval, TLC

Symmetry == Permutations(Review)
=============================================================================
