\* Two creations compete for the slot, or one deploy with two requests and a sweep.
SPECIFICATION MCSpec
CONSTANTS
    o1 = o1  o2 = o2  w1 = w1  w2 = w2  r1 = r1  r2 = r2  s1 = s1
    Op = {o1, o2}
    Worker = {w1}
    NoWorker = NoWorker
    Req = {r1, r2}
    Sweep = {s1}
    RequestedTTL = {0}
    MinTTL = 2
    DefaultTTL = 2
    MaxTTL = 2
    DBTimeout = 1
    RecoveryLimit = 2
    BatchSize = 1
    ReportedPhase = {"completed", "rolling-back"}
INVARIANTS SlotHeldByActiveDeploy PublishedOperationFreesSlot
SYMMETRY Symmetry
PROPERTY ImplementsSlot
