---------------------------- MODULE MCDiskQueue ----------------------------
(* Model values and sets of faults for the runs of DiskQueue. *)
EXTENDS DiskQueue, TLC

CONSTANTS img1, img2

OneImage  == {img1}
TwoImages == {img1, img2}

(* Images are interchangeable in every safety property. *)
Symmetry == Permutations(Images)

NoFaults     == {}
CrashOnly    == {"crash"}
SafeFaults   == {"crash", "refused", "ack_lost", "pressure", "copy_error", "delete",
                 "save_error"}
NetFaults    == {"refused", "ack_lost", "pressure"}
TornFaults   == {"crash", "torn"}
AllFaults    == FaultKinds
=============================================================================
