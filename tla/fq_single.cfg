SPECIFICATION FairSpec
CONSTANTS
    worker1 = worker1
    worker2 = worker2
    server = server
    Jobs <- TwoJobs
    Workers <- OneWorker
    Server <- server
    RetryLimit = 1
    Supervised = TRUE
    Faults <- AllFaults
    MaxFaults = 3
CHECK_DEADLOCK FALSE
INVARIANTS
    TypeOK
    NoJobLost
    ClaimIsExclusive
    GivenUpOnlyAfterRetries
    RunsAreBounded
PROPERTIES
    QueueKeepsCustody
    EveryJobSettles
