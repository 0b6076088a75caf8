SPECIFICATION Spec
CONSTANTS
    img1 = img1
    img2 = img2
    Images <- OneImage
    MaxVersion = 2
    BatchSize = 1
    Retry = 2
    Nested = TRUE
    StageCopyLimit = 1
    MaxBatches = 3
    Faults <- AllFaults
    MaxFaults = 3
CHECK_DEADLOCK FALSE
INVARIANTS
    TypeOK
    ParkedOnlyAfterRetries
PROPERTIES
    VersionsArriveInOrder
    SentBytesAreFixed
