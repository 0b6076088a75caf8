SPECIFICATION Spec
CONSTANTS
    img1 = img1
    img2 = img2
    Images <- TwoImages
    MaxVersion = 2
    BatchSize = 2
    Retry = 1
    Nested = TRUE
    StageCopyLimit = 2
    MaxBatches = 3
    Faults <- SafeFaults
    MaxFaults = 1
SYMMETRY Symmetry
CHECK_DEADLOCK FALSE
INVARIANTS
    IndexedIsDurable
    AtMostOneOutstanding
    CountsMatchDirectories
PROPERTIES
    BufferKeepsCustody
