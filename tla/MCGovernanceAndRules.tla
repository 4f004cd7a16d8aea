------------------------ MODULE MCGovernanceAndRules ------------------------
(* GovernanceApproval and RulePublishing for TLC.  They share no state, so   *)
(* one run checks one part or the other, chosen when it begins.  Operations  *)
(* are interchangeable, and so are reviews and requests about rules, which   *)
(* have the same names: one set of permutations serves both parts.           *)
EXTENDS MCGovernanceApproval, RulePublishing

CONSTANTS t1, t2

VARIABLE part

ExternalGateways == {gateways \in Gateways : "external" \in gateways}

MCInit == Init /\ RuleInit /\ part \in {"approvals", "rules"}

MCNext ==
    /\ UNCHANGED part
    /\ \/ part = "approvals" /\ Next /\ UNCHANGED ruleVars
       \/ part = "rules" /\ RuleNext /\ UNCHANGED vars

MCSpec == MCInit /\ [][MCNext]_<<part, vars, ruleVars>>

\* Approvals, reviews, rules, their requests and operations keep their types.
PartsTypeOK == TypeOK /\ RuleTypeOK

MCSymmetry == Symmetry \cup Permutations(Task)
=============================================================================
