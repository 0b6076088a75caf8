SPECIFICATION FairSpec
CONSTANTS
    img1 = img1
    img2 = img2
    Images <- OneImage
    MaxVersion = 2
    BatchSize = 2
    Retry = 2
    Nested = FALSE
    StageCopyLimit = 1
    MaxBatches = 6
    Faults <- NetFaults
    MaxFaults = 3
CHECK_DEADLOCK FALSE
PROPERTIES
    StableImageArrives
    OutstandingResolves
