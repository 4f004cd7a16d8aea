\* Two gated requests, three reviews; one or two approvers are required.  Who
\* reviews makes no difference, since no earlier review is found: one reviewer
\* stands for all.  Three requests about a rule, two operations each of which
\* recovery gives up once.
CONSTANTS
    Gate = {g1, g2}
    Review = {v1, v2, v3}
    Reviewer = {p1}
    RequiredApprovers = {1, 2}
    t1 = t1  t2 = t2
    Task = {t1, t2}
    RunLimit = 1
    Overlapping = {}
    RuleReq = {v1, v2, v3}
    RuleGated <- ExternalGateways
SPECIFICATION MCSpec
SYMMETRY MCSymmetry
CHECK_DEADLOCK FALSE
INVARIANTS PartsTypeOK DecisionsAreFinal  QueuedExecutionIsReal ExecutionsExclude
INVARIANTS ExternalExposureIsApproved PublishedRuleHasGateways
