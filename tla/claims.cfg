\* Two workers, two requests and two sweeps race for one operation; leases last longer
\* than two timeouts.
SPECIFICATION RunsSpec
CONSTANTS
    o1 = o1  w1 = w1  w2 = w2  r1 = r1  r2 = r2  s1 = s1  s2 = s2
    Op = {o1}
    Worker = {w1, w2}
    NoWorker = NoWorker
    Req = {r1, r2}
    Sweep = {s1, s2}
    RequestedTTL = {0}
    MinTTL = 2
    DefaultTTL = 3
    MaxTTL = 3
    DBTimeout = 1
    RecoveryLimit = 3
    BatchSize = 1
SYMMETRY Symmetry
INVARIANTS TypeOK EffectsFenced
PROPERTY ImplementsLifecycle ImplementsRuns
