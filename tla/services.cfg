\* Three records around a resolution, two updates of settings, two switches among two
\* deploys of two environments, three requests of an account.
SPECIFICATION MCSpec
CONSTANTS
    Word <- SomeWords
    BuildDoc <- SomeBuilds
    ReleaseDoc <- SomeReleases
    Ask <- SomeAsks
    ReferenceOf <- SomeReferences
    MaxRecords = 3
    Update = {"u1", "u2"}
    Settings <- SomeUpdates
    InitialService <- SomeService
    Environment = {"prod"}
    SwitchReq = {"r1", "r2"}
    SwitchEnv = {"prod", "dev"}
    MaxRollouts = 2
    AuthReq = {q1, q2, q3}
CHECK_DEADLOCK FALSE
INVARIANTS PartsTypeOK ResolutionIsAsNamed SettledMeansApplied SwitchNamesLiveSlot
           RevocationEndsSessions UsedOnce
SYMMETRY MCSymmetry
