CONSTANTS
    Records = {r1}
    c1 = c1
    c2 = c2
    Contents = {c1, c2}
    None = None
    Partial = Partial
    SizeOf <- MCSizeOf
    ArchiveOn = TRUE
    MaxFaults = 2
    MaxCrashes = 1
    MaxStamp = 2
    MaxAttempts = 2
    QueueCapacity = 1
    TerminalLimit = 2
    FileConcurrency = 1
    NameChanges = FALSE
    StartPaused = FALSE
    MaxControls = 0
    MaxEdits = 0
CHECK_DEADLOCK FALSE
SPECIFICATION Spec
INVARIANTS TypeOK SuccessIsStored ArchivedIsStored ArchiveInv ReportedIsDurable
PROPERTIES SuccessIsFinal FinalNeverReplaced
