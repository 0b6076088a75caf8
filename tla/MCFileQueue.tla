---------------------------- MODULE MCFileQueue ----------------------------
(* Model values and sets of faults for the runs of FileQueue. *)
EXTENDS FileQueue, TLC

CONSTANTS worker1, worker2, server

OneWorker  == {worker1}
TwoWorkers == {worker1, worker2}
TwoJobs    == 1..2
OneJob     == 1..1

NoFaults   == {}
Crashes    == {"crash", "late_error"}
AllFaults  == {"crash", "late_error", "torn"}
=============================================================================
