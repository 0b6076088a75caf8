SPECIFICATION Spec
CONSTANTS
    worker1 = worker1
    worker2 = worker2
    server = server
    Jobs <- OneJob
    Workers <- TwoWorkers
    Server <- server
    RetryLimit = 1
    Supervised = TRUE
    Faults <- NoFaults
    MaxFaults = 0
CHECK_DEADLOCK FALSE
INVARIANTS
    NoJobLost
