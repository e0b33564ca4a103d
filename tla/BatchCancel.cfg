SPECIFICATION BatchSpec
CONSTANTS
    Dialogs <- MCDialogs
    Album <- MCAlbum
    Media = {1, 2}
    Limit = 1
    Buffer = 1
    MaxAttempts = 1
    MaxLost = 0
INVARIANT ClearedIsFinished
CHECK_DEADLOCK FALSE
