CONSTANTS
    Records = {r1, r2}
    c1 = c1
    c2 = c2
    Contents = {c1}
    None = None
    Partial = Partial
    SizeOf <- MCSizeOf
    ArchiveOn = FALSE
    MaxFaults = 0
    MaxCrashes = 0
    MaxStamp = 2
    MaxAttempts = 3
    QueueCapacity = 1
    TerminalLimit = 1
    FileConcurrency = 2
    NameChanges = FALSE
    StartPaused = FALSE
    MaxControls = 0
    MaxEdits = 0
CHECK_DEADLOCK FALSE
SPECIFICATION Spec
INVARIANTS ActiveIsListed
