\* An owner, a rival and a retry of one key, with either backend.  Three operations,
\* two of them for one resource, one of these a restart.  Two workers ask for the
\* lease, with three requests.
CONSTANTS
    Req = {r1, r2, r3}
    NoReq = NoReq
    TTL = 4
    MaxAge = 2
    t1 = t1  t2 = t2  t3 = t3  x = x  y = y
    Task = {t1, t2, t3}
    RunLimit = 1
    Overlapping = {}
    RestartOp = {t1}
    ResourceOf <- ResourceOfTask
    h1 = h1  h2 = h2
    Holder = {h1, h2}
    LeaseCall = {r1, r2, r3}
    NoHolder = NoHolder
    RequestedTTL <- RequestedByHolder
    MinLeaseTTL = 2
    DefaultLeaseTTL = 2
    MaxLeaseTTL = 3
    LeaseTimeout = 1
SPECIFICATION MCSpec
SYMMETRY Symmetry
CHECK_DEADLOCK FALSE
INVARIANTS OneHandlerAtATime EffectsAreApart ReplaysAreResponses
INVARIANTS PartsTypeOK DispatchIsTruthful PollIsFair
INVARIANTS OneAutoDeployer
PROPERTY ImplementsHandlers
