SPECIFICATION ComponentsSpec
CONSTANTS
    t1 = t1
    t2 = t2
    t3 = t3
    MaxTries = 70
    MaxByte = 6
    NumFiles = 2
    MaxRuns = 4
    MaxKills = 3
    MaxErrors = 2
    MaxForeign = 1
    MaxMigrations = 3
    Callers = {"c1", "c2", "c3"}
    PoolDCs = {1, 2}
    HomeDC = 1
    MaxDials = 2
    FailureCooldown = 1
    MaxCalls = 1
    Tasks = {t1, t2, t3}
    ExpectedSize <- MCExpectedSize
    UnknownReserve = 2
    DiskSize = 5
    MinFreeSpace = 1
    Users = {"u1", "u2"}
    Namespaces = {"a", "b"}
    TwoFactor = {"u2"}
    Nodes <- MCNodes
    Groups = {"direct"}
    MaxRetests = 2
    MaxFlaps = 2
    MaxUserCalls = 2
    MaxApiErrors = 1
    NumNodes = 5
    Malformed = {1, 4}
    MaxOutages = 4
    Messages = {1, 2, 3, 4}
    Asked = {1}
    Resolvers = {"r1", "r2"}
    MaxEntries = 2
    Slack = 1
    MaxBatch = 2
    Lifetime = 1
    Pause = 2
    Attempts = 2
    MaxTime = 2
    MaxSyncs = 1
    Dialogs <- MCDialogs
    Album <- MCAlbum
    Media = {2, 3, 4}
    Limit = 2
    Buffer = 2
    MaxAttempts = 2
    MaxLost = 1
INVARIANTS
    TrackerIsExact
    RefusalHasCause
    OneConnection
    OneTakeout
    AdmittedFits
    LoggedInIsAuthorized
    ProviderIsCurrent
    CacheBounded
    CancellationIsOwn
    
    SendNeverBlocks
PROPERTIES
    FailuresBackOff
    MigrationKeepsFiles
    SuccessIsVerified
    MigrationIsFinal
    FailureRespected
    CallsReturn
    LeavesOnlyDead
    WatchdogRecovers
    FailoverRecovers
    BatchEnds
CHECK_DEADLOCK FALSE
