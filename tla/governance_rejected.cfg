CONSTANTS
    Gate = {g1}
    Review = {v1, v2, v3}
    Reviewer = {p1, p2}
    RequiredApprovers = {1}
SPECIFICATION Spec
SYMMETRY Symmetry
CHECK_DEADLOCK FALSE
INVARIANT RejectedIsNotExecuted
