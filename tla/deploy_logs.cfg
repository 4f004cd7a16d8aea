\* Batches of two phases and none, two requests, the effects of a recovery and a claim.
\* Two deletions of a service with two environments; deletions end, and the
\* instance then stops.
SPECIFICATION MCSpec
CONSTANTS
    b1 = b1  b2 = b2  b3 = b3  b4 = b4
    Batch = {b1, b3, b4}
    Numbered = {b1, b3}
    NoStatus = NoStatus
    BatchStatus <- StatusOfBatch
    Req = {r1, r2}
    EffectStatus = {"scheduled", "retrying"}
    MaxSends = 2
    e1 = e1  e2 = e2
    DelReq = {r1, r2}
    DelEnv = {e1, e2}
    RepoTargets = {e1}
    NotCounted = NotCounted
    Task <- CleanupOp
    RunLimit = 1
    Overlapping = {}
    pool = pool
    Replica = {r1, r2}
    WorkerReg = {pool}
    RegOf <- OneRegistration
    StaleAge = 1
    ReportedStatus <- SomeStatuses
    ToLower <- InLowerCase
    BeatTimeout = 1
    ReadTimeout = 2
    DesiredAgents = 1
SYMMETRY MCSymmetry
CHECK_DEADLOCK FALSE
INVARIANTS PartsTypeOK AppendedAtMostOnce LoneCleanupRemoves
INVARIANTS AdmissionAgreesWithInventory QuietAfterDeletion
PROPERTIES RemovedServiceStaysRemoved RemovalFollowsCleanups
PROPERTIES ReportsDoNotRegress ImplementsReports
