CONSTANTS
    Records = {r1}
    c1 = c1
    c2 = c2
    Contents = {c1, c2}
    None = None
    Partial = Partial
    SizeOf <- MCSizeOf
    ArchiveOn = FALSE
    MaxFaults = 1
    MaxCrashes = 0
    MaxStamp = 3
    MaxAttempts = 3
    QueueCapacity = 1
    TerminalLimit = 2
    FileConcurrency = 1
    NameChanges = TRUE
    StartPaused = FALSE
    MaxControls = 3
    MaxEdits = 0
CHECK_DEADLOCK FALSE
SPECIFICATION Spec
INVARIANTS QueuedOnce
PROPERTIES CancelledNeverCommits CurrentCommits
