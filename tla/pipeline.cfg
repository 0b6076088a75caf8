SPECIFICATION Spec
CONSTANTS
    batch = batch
    test = test
    worker = worker
    server = server
    Batches <- MCBatches
    MaxAttempts <- MCAttempts
    Jobs <- MCRequests
    NoJob = NoJob
    Workers = {worker}
    Server = server
    RetryLimit = 1
    Empty <- MCEmpty
    Faults <- MCFaults
    MaxFaults = 2
CONSTRAINT OneBatchOpen
INVARIANTS
    TypeOK
    NoJobLost
    AckedHasJob
    DuplicatesOverlap
    CompletedIsConverted
    GivenUpKeepsCopy
    RunsAreBounded
    PayloadsAreThere

CHECK_DEADLOCK FALSE
