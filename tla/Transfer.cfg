SPECIFICATION TransferSpec
CONSTANTS
    f1 = f1
    f2 = f2
    d1 = d1
    Files = {f1, f2}
    DCs = {d1}
    Size <- MCSize
    DcOf <- MCDcOf
    PartSize = 2
    MaxFileThreads = 2
    MaxDataInFlight = 2
    MaxFloodWait = 1
    MaxRetries = 1
INVARIANTS
    PermitsConserved
    LateRequestsBounded
    ResultIsTrue
PROPERTIES
    TransferEnds
CHECK_DEADLOCK FALSE
