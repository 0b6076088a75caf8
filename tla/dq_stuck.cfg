SPECIFICATION FairSpec
CONSTANTS
    img1 = img1
    img2 = img2
    Images <- OneImage
    MaxVersion = 1
    BatchSize = 1
    Retry = 1
    Nested = FALSE
    StageCopyLimit = 1
    MaxBatches = 2
    Faults <- CrashOnly
    MaxFaults = 1
CHECK_DEADLOCK FALSE
PROPERTIES
    StableImageArrives
