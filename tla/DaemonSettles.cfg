CONSTANTS
    Records = {r1}
    c1 = c1
    c2 = c2
    Contents = {c1}
    None = None
    Partial = Partial
    SizeOf <- MCSizeOf
    ArchiveOn = TRUE
    MaxFaults = 1
    MaxCrashes = 1
    MaxStamp = 3
    MaxAttempts = 3
    QueueCapacity = 1
    TerminalLimit = 2
    FileConcurrency = 1
    NameChanges = FALSE
    StartPaused = FALSE
    MaxControls = 0
    MaxEdits = 0
CHECK_DEADLOCK FALSE
SPECIFICATION FairSpec
PROPERTIES CommittingResolves RecordSettles RestartSettles
