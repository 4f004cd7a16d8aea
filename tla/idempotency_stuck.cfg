CONSTANTS
    Req = {r1, r2, r3}
    NoReq = NoReq
    TTL = 4
    MaxAge = 2
SPECIFICATION Spec
SYMMETRY Symmetry
CHECK_DEADLOCK FALSE
INVARIANT KeyIsSettled
