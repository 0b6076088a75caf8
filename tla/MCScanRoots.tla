---------------------------- MODULE MCScanRoots ----------------------------
(* A tree for the run of ScanRoots: four roots, of which a cycle sweeps two. *)
(* The first changes for ever, and comes and goes while still is not there.  *)
EXTENDS ScanRoots, TLC

CONSTANTS busy, still, deep, other

MCRoots  == 1..4
MCTrees  == 2..4
MCFiles  == {busy, still, deep, other}
MCRootOf == busy :> 1 @@ still :> 1 @@ other :> 2 @@ deep :> 4
MCDeep   == {deep}
MCBusy   == {busy}
=============================================================================
