SPECIFICATION FairSpec
CONSTANTS
    img1 = img1
    img2 = img2
    Images <- OneImage
    MaxVersion = 2
    BatchSize = 1
    Retry = 1
    Nested = TRUE
    StageCopyLimit = 1
    MaxBatches = 2
    Faults <- NoFaults
    MaxFaults = 0
CHECK_DEADLOCK FALSE
PROPERTIES
    StableImageArrives
