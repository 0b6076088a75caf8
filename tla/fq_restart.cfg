SPECIFICATION Spec
CONSTANTS
    worker1 = worker1
    worker2 = worker2
    server = server
    Jobs <- OneJob
    Workers <- OneWorker
    Server <- server
    RetryLimit = 1
    Supervised = FALSE
    Faults <- Crashes
    MaxFaults = 1
CHECK_DEADLOCK FALSE
INVARIANTS
    NoJobLost
