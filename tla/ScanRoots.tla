----------------------------- MODULE ScanRoots -----------------------------
(***************************************************************************)
(* Which part of the image tree a scan cycle looks at                      *)
(* (machine_client/disk_queue.py, scan_for_candidates).  The tree is cut   *)
(* into roots; a cycle sweeps at most RootsPerCycle of them, first those   *)
(* whose directory signature is not the recorded one, then the next ones   *)
(* in turn, and stops when it has enough candidates.  In index-only mode   *)
(* the first cycles record what they find and queue nothing.               *)
(* A signature matters only by being the recorded one or not: stale.       *)
(***************************************************************************)
EXTENDS Integers, FiniteSets, FiniteSetsExt

CONSTANTS Roots,            \* scan roots, numbered as _collect_scan_roots sorts
          Trees,            \* roots that are directories, there without images
          Files,            \* images
          RootOf,           \* the root of every image
          Deep,             \* images below the directory whose signature counts
          Busy,             \* images that change again and again for ever
          RootsPerCycle,    \* SCAN_ROOTS_PER_CYCLE
          CandidateLimit,   \* upload.stage_copy_limit_per_cycle
          MaxChanges,       \* bound: changes of the other images
          MaxRestarts       \* bound: restarts of the agent

ASSUME ScanAssumption ==
    /\ Roots \subseteq Nat /\ IsFiniteSet(Roots)
    /\ Roots # {}        \* the files of image_root itself may always be one
    /\ Trees \subseteq Roots
    /\ IsFiniteSet(Files) /\ RootOf \in [Files -> Roots]
    /\ Deep \subseteq Files /\ Busy \subseteq Files
    /\ RootsPerCycle \in Nat \ {0} /\ CandidateLimit \in Nat \ {0}
    /\ MaxChanges \in Nat /\ MaxRestarts \in Nat

VARIABLES file,             \* absent, young (under two seconds) or ready
          known,            \* source index: images at their current signature
          stale,            \* directory index: roots without their signature there
          cursor,           \* ... and next_root_index
          indexOnly,        \* upload.index_existing_on_startup_only
          hasIndex,         \* source-index.json exists
          active,           \* _startup_index_only_active
          scan,             \* what a scan still has to save and to return
          queued,           \* history: images returned as candidates
          old, interrupted, \* history: images from before the first start;
                            \* a restart met the index-only cycles
          changes, restarts

tree    == <<file, changes>>
indexes == <<known, stale, cursor, hasIndex>>
history == <<queued, old, interrupted>>
vars    == <<tree, indexes, indexOnly, active, scan, history, restarts>>

NoScan == [found |-> {}, stale |-> {}, cursor |-> -1, active |-> FALSE]

Images(r) == {f \in Files : RootOf[f] = r}

Init == /\ file \in [Files -> {"absent", "ready"}]
        /\ known = {} /\ stale = Roots /\ cursor = 0
        /\ indexOnly \in BOOLEAN
        /\ hasIndex = FALSE
        /\ active = indexOnly
        /\ scan = NoScan
        /\ queued = {} /\ old = {f \in Files : file[f] = "ready"}
        /\ interrupted = FALSE
        /\ changes = 0 /\ restarts = 0

----------------------------------------------------------------------------
(* The image tree. *)

Charge(f) == IF f \in Busy THEN UNCHANGED changes
             ELSE changes < MaxChanges /\ changes' = changes + 1

(* A name comes or goes, or an image gets new bytes under its name, which  *)
(* its directory does not show.  The signatures of a scan under way are    *)
(* from before.                                                            *)
Change(f, to) ==
    /\ file[f] # "absent" \/ to # "absent"
    /\ Charge(f)
    /\ file' = [file EXCEPT ![f] = to]
    /\ known' = known \ {f}
    /\ LET shown == IF f \in Deep \/ "absent" \notin {file[f], to} THEN {}
                    ELSE {RootOf[f]}
       IN  /\ stale' = stale \cup shown
           /\ scan' = IF scan = NoScan THEN scan ELSE [scan EXCEPT !.stale = @ \cup shown]
    /\ old' = old \ {f}
    /\ UNCHANGED <<cursor, hasIndex, indexOnly, active, queued, interrupted, restarts>>

Ripen(f) == /\ file[f] = "young"
            /\ file' = [file EXCEPT ![f] = "ready"]
            /\ UNCHANGED <<changes, indexes, indexOnly, active, scan, history, restarts>>

----------------------------------------------------------------------------
(* _collect_scan_roots and _select_scan_roots *)

Existing == {r \in Roots : r \in Trees \/ \E f \in Images(r) : file[f] # "absent"}

(* The order in which a cycle takes the roots: those that changed, then the *)
(* others in turn from the cursor.                                           *)
Rank == LET n == Cardinality(Existing)
            place(r) == Cardinality({q \in Existing : q < r})
        IN  [r \in Existing |-> IF r \in stale THEN place(r)
                                ELSE n + ((place(r) - cursor) % n)]

Above(rank, r) == {q \in DOMAIN rank : rank[q] < rank[r]}

Selected(rank) == {r \in DOMAIN rank : Cardinality(Above(rank, r)) < RootsPerCycle}

(* Variant: the cursor does not move on. *)
CursorStays(rank) == cursor

(* Variant: ... or does not wrap. *)
CursorRunsOn(rank) ==
    LET n    == Cardinality(DOMAIN rank)
        last == Max({rank[r] : r \in Selected(rank)})
    IN  IF n = 0 THEN 0 ELSE IF last < n THEN cursor ELSE cursor + last + 1 - n

(* The cursor goes behind the last root that was taken in turn. *)
NextCursor(rank) ==
    LET n    == Cardinality(DOMAIN rank)
        last == Max({rank[r] : r \in Selected(rank)})
    IN  IF n = 0 THEN 0 ELSE IF last < n THEN cursor ELSE (cursor + last + 1) % n

----------------------------------------------------------------------------
(* scan_for_candidates *)

Candidates(roots) == {f \in Files : RootOf[f] \in roots /\ file[f] = "ready" /\ f \notin known}

(* The cycle ends with the root in which it reaches the limit. *)
Swept(rank) ==
    {r \in Selected(rank) :
        active \/ Cardinality(Candidates(Above(rank, r))) < CandidateLimit}

(* What the cycle finds: all it meets, or the first ones up to the limit. *)
Find(rank, met) ==
    IF active THEN {met}
    ELSE {found \in SUBSET met :
             /\ Cardinality(found) = Min({CandidateLimit, Cardinality(met)})
             /\ \A f \in met \ found, g \in met : rank[RootOf[g]] <= rank[RootOf[f]]}

(* Variant: a root that sorts last may be missing. *)
CompleteButLast(left) == Existing \cap left \subseteq {Max(Roots)}
Complete(left) == Existing \cap left = {}

(* The cycle, up to the write of the source index ... *)
Scan == /\ scan = NoScan
        /\ hasIndex' = TRUE
        /\ UNCHANGED <<tree, stale, cursor, indexOnly, active, history, restarts>>
        /\ \E rank \in {Rank} : \E found \in Find(rank, Candidates(Swept(rank))) :
              LET left == (stale \ Swept(rank)) \cup (Roots \ Existing)   \* pruned
              IN  /\ known' = known \cup found
                  /\ scan' = [found  |-> IF active THEN {} ELSE found,
                              stale  |-> left,
                              cursor |-> NextCursor(rank),
                              active |-> active /\ ~Complete(left)]

(* ... and from there the write of the directory index and the return. *)
ScanReturns ==
    /\ scan # NoScan
    /\ stale' = scan.stale
    /\ cursor' = scan.cursor
    /\ active' = scan.active
    /\ queued' = queued \cup scan.found
    /\ scan' = NoScan
    /\ UNCHANGED <<tree, known, hasIndex, indexOnly, old, interrupted, restarts>>

(* The agent starts again: the mode depends on the source index alone. *)
Restart == /\ restarts < MaxRestarts
           /\ restarts' = restarts + 1
           /\ scan' = NoScan
           /\ active' = (indexOnly /\ ~hasIndex)
           /\ interrupted' = (interrupted \/ active)
           /\ UNCHANGED <<tree, indexes, indexOnly, queued, old>>

Next == \/ \E f \in Files : Ripen(f)
        \/ \E f \in Files, to \in {"absent", "young"} : Change(f, to)
        \/ Scan \/ ScanReturns \/ Restart

(* _scan_loop cycles for ever: one of its steps is possible in every state, *)
(* so this is its weak fairness.  Nothing is assumed of the tree.            *)
Spec == Init /\ [][Next]_vars /\ []<><<Scan \/ ScanReturns>>_vars

----------------------------------------------------------------------------
(* Properties. *)

(* Every variable keeps its shape. *)
TypeOK == /\ file \in [Files -> {"absent", "young", "ready"}]
          /\ known \subseteq Files /\ queued \subseteq Files /\ old \subseteq Files
          /\ stale \subseteq Roots
          /\ cursor \in 0..(Cardinality(Roots) - 1)
          /\ scan.found \subseteq Files /\ scan.stale \subseteq Roots

(* With index_existing_on_startup_only no image from before the first      *)
(* start is ever queued, however many cycles it takes to see the whole     *)
(* tree and whatever else changes meanwhile, unless a restart cut these    *)
(* cycles short: then the mode is off, though it has not seen everything.  *)
OldImagesStay == indexOnly /\ ~interrupted => queued \cap old = {}

(* Every image that stays is found in the end, be its change deep, in place *)
(* or within two seconds of a sweep, as long as fewer than RootsPerCycle     *)
(* roots change for ever and their images do not use up every limit: no      *)
(* root is passed over for ever.  Only a list of roots that never settles    *)
(* can do that, since the cursor is a position in it.                        *)
ListNeverSettles == []<><<Existing' # Existing>>_vars
ImagesAreFound ==
    \A f \in Files : \/ file[f] = "ready" ~> f \in known \/ file[f] # "ready"
                     \/ ListNeverSettles
=============================================================================
