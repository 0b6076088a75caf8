-------------------------- MODULE ScanRootsProofs --------------------------
(***************************************************************************)
(* Index-only mode and the cursor of the sweep, for any image tree, any    *)
(* number of roots and any limits.                                         *)
(***************************************************************************)
EXTENDS ScanRoots, FiniteSetTheorems, WellFoundedInduction, TLAPS

Uncut == indexOnly /\ ~interrupted

(* What is recorded of a tree by directories, or by the scan under way, is *)
(* in the source index as far as it is old.                                *)
Recorded(left) == \A f \in old : RootOf[f] \notin left => f \in known

OldIsReady   == old \subseteq {f \in Files : file[f] = "ready"}
Recording    == active => Recorded(stale)
ScanRecords  == scan # NoScan /\ active =>
                    /\ Recorded(scan.stale)
                    /\ scan.found = {}
                    /\ ~scan.active => old \subseteq known
ScanIsFresh  == scan # NoScan /\ ~active => /\ ~scan.active
                                            /\ scan.found \cap old = {}
ModeIsOver   == ~active => hasIndex /\ old \subseteq known
NothingOld   == queued \cap old = {}

ScanIsRecord == scan # NoScan => scan = [found |-> scan.found, stale |-> scan.stale,
                                         cursor |-> scan.cursor, active |-> scan.active]

(* While the mode lasts, a recorded root has no old image that is not in   *)
(* the source index; once it is over, there is none anywhere.              *)
ModeInv == /\ OldIsReady /\ ScanIsRecord
           /\ Uncut => /\ Recording /\ ScanRecords /\ ScanIsFresh /\ ModeIsOver
                       /\ NothingOld
           /\ scan # NoScan => hasIndex

(* The mode holds at the start, with nothing recorded. *)
LEMMA ModeInitially == ASSUME ScanAssumption PROVE Init => ModeInv
  BY DEF ScanAssumption, Init, ModeInv, OldIsReady, ScanIsRecord, Uncut, Recording, ScanRecords, ScanIsFresh,
         ModeIsOver, NothingOld, Recorded, Images

(* An image that changes is no longer old, and the rest stays as it is. *)
LEMMA ChangeKeepsMode ==
    ASSUME ModeInv, NEW f \in Files, NEW to \in {"absent", "young"}, Change(f, to)
    PROVE  ModeInv'
<1> DEFINE shown == IF f \in Deep \/ "absent" \notin {file[f], to} THEN {} ELSE {RootOf[f]}
<1>1. /\ old' = old \ {f} /\ known' = known \ {f} /\ stale' = stale \cup shown
      /\ scan' = IF scan = NoScan THEN scan ELSE [scan EXCEPT !.stale = @ \cup shown]
      /\ file' = [file EXCEPT ![f] = to]
      /\ UNCHANGED <<hasIndex, indexOnly, active, queued, interrupted>>
  BY DEF Change
<1> HIDE DEF shown
<1>2. OldIsReady'
  BY <1>1 DEF ModeInv, OldIsReady
<1>3. scan' # NoScan => /\ scan # NoScan
                        /\ scan' = [found |-> scan.found, stale |-> scan.stale \cup shown,
                                    cursor |-> scan.cursor, active |-> scan.active]
  BY <1>1, Zenon DEF ModeInv, ScanIsRecord
<1>4. ScanIsRecord'
  BY <1>3 DEF ScanIsRecord
<1>5. Uncut' => (Recording /\ ScanRecords /\ ScanIsFresh /\ ModeIsOver /\ NothingOld)'
  BY <1>1, <1>3 DEF ModeInv, OldIsReady, ScanIsRecord, Uncut, Recording, ScanRecords,
       ScanIsFresh, ModeIsOver, NothingOld, Recorded
<1> QED
  BY <1>1, <1>2, <1>3, <1>4, <1>5 DEF ModeInv

(* An image that ages was not there before the start. *)
LEMMA RipenKeepsMode ==
    ASSUME ModeInv, NEW f \in Files, Ripen(f) PROVE ModeInv'
  BY DEF Ripen, indexes, history, ModeInv, OldIsReady, ScanIsRecord, Uncut, Recording, ScanRecords,
       ScanIsFresh, ModeIsOver, NothingOld, Recorded

(* A cycle of the mode takes all it meets in the roots it records. *)
LEMMA ScanKeepsMode == ASSUME ScanAssumption, ModeInv, Scan PROVE ModeInv'
<1>1. PICK rank, found :
         /\ rank = Rank /\ found \in Find(rank, Candidates(Swept(rank)))
         /\ known' = known \cup found
         /\ scan' = [found  |-> IF active THEN {} ELSE found,
                     stale  |-> (stale \ Swept(rank)) \cup (Roots \ Existing),
                     cursor |-> NextCursor(rank),
                     active |-> active /\ ~Complete((stale \ Swept(rank))
                                                     \cup (Roots \ Existing))]
  BY DEF Scan
<1> DEFINE left == (stale \ Swept(rank)) \cup (Roots \ Existing)
<1>2. /\ hasIndex' = TRUE
      /\ UNCHANGED <<file, stale, indexOnly, active, queued, old, interrupted>>
  BY DEF Scan, tree, history
<1>3. /\ found \subseteq Candidates(Swept(rank))
      /\ active => found = Candidates(Swept(rank))
  BY <1>1 DEF Find
<1>4. Candidates(Swept(rank)) \cap known = {}
  BY DEF Candidates
<1>5. \A f \in old : f \in Files /\ file[f] = "ready" /\ RootOf[f] \in Existing
  BY DEF ModeInv, OldIsReady, Existing, Images, ScanAssumption
<1>6. Uncut /\ active => \A f \in old : RootOf[f] \notin left => f \in known'
  <2> SUFFICES ASSUME Uncut, active, NEW f \in old, RootOf[f] \notin left
               PROVE  f \in known'
    OBVIOUS
  <2>1. CASE RootOf[f] \in stale
    BY <2>1, <1>1, <1>3, <1>5 DEF Candidates
  <2>2. CASE RootOf[f] \notin stale
    BY <2>2, <1>1 DEF ModeInv, Recording, Recorded
  <2> QED
    BY <2>1, <2>2
<1>7. Uncut /\ active /\ Complete(left) => old \subseteq known'
  BY <1>5, <1>6 DEF Complete
<1>8. Uncut /\ ~active => found \cap old = {}
  BY <1>3, <1>4 DEF ModeInv, ModeIsOver
<1>9. OldIsReady' /\ ScanIsRecord'
  BY <1>1, <1>2 DEF ModeInv, OldIsReady, ScanIsRecord
<1>10. Uncut' => (Recording /\ ModeIsOver /\ NothingOld)'
  BY <1>1, <1>2 DEF ModeInv, OldIsReady, ScanIsRecord, Uncut, Recording, ScanRecords,
       ScanIsFresh, ModeIsOver, NothingOld, Recorded
<1>11. Uncut' => (ScanRecords /\ ScanIsFresh)'
  <2>1. Uncut' => Uncut
    BY <1>2 DEF Uncut
  <2>2. Uncut /\ active => \A f \in old' : RootOf[f] \notin left => f \in known'
    BY <1>2, <1>6
  <2>3. /\ scan'.found = IF active THEN {} ELSE found
        /\ scan'.stale = left
        /\ scan'.active => active
        /\ active /\ ~scan'.active => Complete(left)
    BY <1>1
  <2>4. Uncut' => ScanRecords'
    BY <2>1, <2>2, <2>3, <1>2, <1>7 DEF ScanRecords, Recorded
  <2>5. Uncut' => ScanIsFresh'
    BY <2>1, <2>3, <1>2, <1>8 DEF ScanIsFresh
  <2> QED
    BY <2>4, <2>5
<1> QED
  BY <1>2, <1>9, <1>10, <1>11 DEF ModeInv

(* What the scan recorded takes effect. *)
LEMMA ReturnKeepsMode == ASSUME ModeInv, ScanReturns PROVE ModeInv'
  BY DEF ScanReturns, tree, ModeInv, OldIsReady, ScanIsRecord, Uncut, Recording, ScanRecords,
       ScanIsFresh, ModeIsOver, NothingOld, Recorded

(* A restart while the mode lasts cuts it; afterwards the index keeps it off. *)
LEMMA RestartKeepsMode == ASSUME ModeInv, Restart PROVE ModeInv'
  BY DEF Restart, tree, indexes, ModeInv, OldIsReady, ScanIsRecord, Uncut, Recording, ScanRecords,
       ScanIsFresh, ModeIsOver, NothingOld, Recorded

(* No image from before the first start is queued in index-only mode. *)
THEOREM OldImagesNeverQueued == ASSUME ScanAssumption PROVE Spec => []OldImagesStay
<1>1. Init => ModeInv
  BY ModeInitially
<1>2. ModeInv /\ [Next]_vars => ModeInv'
  <2> SUFFICES ASSUME ModeInv, [Next]_vars PROVE ModeInv'
    OBVIOUS
  <2>1. CASE UNCHANGED vars
    BY <2>1 DEF vars, tree, indexes, history, ModeInv, OldIsReady, ScanIsRecord, Uncut, Recording,
                ScanRecords, ScanIsFresh, ModeIsOver, NothingOld, Recorded
  <2>2. CASE Next
    BY <2>2, ChangeKeepsMode, RipenKeepsMode, ScanKeepsMode, ReturnKeepsMode,
       RestartKeepsMode DEF Next
  <2> QED
    BY <2>1, <2>2
<1>3. ModeInv => OldImagesStay
  BY DEF ModeInv, OldImagesStay, Uncut, NothingOld
<1> QED
  BY <1>1, <1>2, <1>3, PTL DEF Spec

----------------------------------------------------------------------------
(* The cursor. *)

(* A set of naturals has a least member. *)
LEMMA HasLeast ==
    ASSUME NEW I \in SUBSET Nat, I # {}
    PROVE  \E x \in I : \A y \in I : x <= y
<1> DEFINE less == OpToRel(<, Nat)
<1>1. PICK x \in I : \A y \in I : <<y, x>> \notin less
  BY NatLessThanWellFounded, WFMin
<1>2. \A k, m \in Nat : <<m, k>> \notin less => k <= m
  BY DEF OpToRel
<1>3. \A y \in I : x <= y
  BY <1>1, <1>2, x \in Nat
<1> QED
  BY <1>3

(* And a greatest one, where there is a bound; Max chooses it. *)
LEMMA MaxIsMember ==
    ASSUME NEW bound \in Nat, NEW I \in SUBSET (0..bound), I # {}
    PROVE  Max(I) \in I
<1> DEFINE below == {k \in Nat : \E x \in I : k = bound - x}
<1>1. PICK x \in I : TRUE
  OBVIOUS
<1>2. bound - x \in below
  OBVIOUS
<1>3. PICK k \in below : \A m \in below : k <= m
  BY <1>2, HasLeast
<1>4. PICK y \in I : k = bound - y
  OBVIOUS
<1>5. \A z \in I : z <= y
  <2> SUFFICES ASSUME NEW z \in I PROVE z <= y
    OBVIOUS
  <2>1. bound - z \in below
    OBVIOUS
  <2>2. k <= bound - z
    BY <1>3, <2>1
  <2> QED
    BY <1>4, <2>2
<1>6. \A z \in I : y >= z
  BY <1>4, <1>5
<1> QED
  BY <1>4, <1>6 DEF Max

(* The existing roots are finitely many, and a place in a cycle is a number. *)
LEMMA RanksAreNumbers ==
    ASSUME ScanAssumption, cursor \in Nat
    PROVE  /\ IsFiniteSet(Existing) /\ Cardinality(Existing) \in Nat
           /\ Cardinality(Existing) <= Cardinality(Roots)
           /\ Cardinality(Existing) # 0 =>
                 Rank \in [Existing -> 0..(2 * Cardinality(Existing))]
<1>1. /\ Existing \subseteq Roots /\ IsFiniteSet(Roots)
  BY DEF Existing, ScanAssumption
<1>2. /\ IsFiniteSet(Existing) /\ Cardinality(Existing) \in Nat
      /\ Cardinality(Existing) <= Cardinality(Roots)
  BY <1>1, FS_Subset, FS_CardinalityType
<1> DEFINE n == Cardinality(Existing)
           place(r) == Cardinality({q \in Existing : q < r})
<1>3. ASSUME n # 0, NEW r \in Existing
      PROVE  /\ place(r) \in 0..(2 * n)
             /\ n + ((place(r) - cursor) % n) \in 0..(2 * n)
  <2>1. place(r) \in Nat /\ place(r) <= n
    <3>1. {q \in Existing : q < r} \in SUBSET Existing
      OBVIOUS
    <3> QED
      BY <1>2, <3>1, FS_Subset, FS_CardinalityType
  <2> HIDE DEF place, n
  <2>2. n \in Nat \ {0}
    BY <1>2, <1>3 DEF n
  <2>3. place(r) - cursor \in Int
    BY <2>1
  <2>4. (place(r) - cursor) % n \in 0..(n - 1)
    BY <2>2, <2>3
  <2> QED
    BY <2>1, <2>2, <2>4
<1>4. n # 0 => Rank \in [Existing -> 0..(2 * n)]
  BY <1>3 DEF Rank
<1> QED
  BY <1>2, <1>4

(* A cycle takes at least the first root that there is. *)
LEMMA SomethingSelected ==
    ASSUME ScanAssumption, NEW S, S # {}, NEW bound \in Nat, NEW rank \in [S -> 0..bound]
    PROVE  Selected(rank) # {}
<1> DEFINE ranks == {rank[r] : r \in S}
<1>1. PICK m \in ranks : \A k \in ranks : m <= k
  <2>1. ranks \in SUBSET Nat /\ ranks # {}
    OBVIOUS
  <2> QED
    BY <2>1, HasLeast
<1>2. PICK r \in S : rank[r] = m
  OBVIOUS
<1>3. Above(rank, r) = {}
  BY <1>1, <1>2 DEF Above
<1>4. Cardinality(Above(rank, r)) < RootsPerCycle
  BY <1>3, FS_EmptySet DEF ScanAssumption
<1> QED
  BY <1>2, <1>4 DEF Selected

(* The cursor stays a position in the list of roots. *)
LEMMA CursorStaysInside ==
    ASSUME ScanAssumption, cursor \in 0..(Cardinality(Roots) - 1)
    PROVE  NextCursor(Rank) \in 0..(Cardinality(Roots) - 1)
<1> DEFINE n == Cardinality(Existing)
           last == Max({Rank[r] : r \in Selected(Rank)})
<1>1. Cardinality(Roots) \in Nat \ {0}
  BY FS_CardinalityType, FS_EmptySet DEF ScanAssumption
<1>2. /\ IsFiniteSet(Existing) /\ n \in Nat /\ n <= Cardinality(Roots)
      /\ n # 0 => Rank \in [Existing -> 0..(2 * n)]
  BY RanksAreNumbers
<1>3. DOMAIN Rank = Existing
  BY DEF Rank
<1>4. NextCursor(Rank) = IF n = 0 THEN 0 ELSE IF last < n THEN cursor
                         ELSE (cursor + last + 1) % n
  BY <1>3 DEF NextCursor
<1>5. n # 0 => last \in Nat
  <2> SUFFICES ASSUME n # 0 PROVE last \in Nat
    OBVIOUS
  <2>1. Existing # {}
    BY FS_EmptySet
  <2>2. Selected(Rank) # {} /\ Selected(Rank) \subseteq Existing
    BY <1>2, <1>3, <2>1, SomethingSelected DEF Selected
  <2>3. {Rank[r] : r \in Selected(Rank)} \in SUBSET (0..(2 * n))
    BY <1>2, <2>2
  <2>4. {Rank[r] : r \in Selected(Rank)} # {}
    BY <2>2
  <2>5. 2 * n \in Nat
    BY <1>2
  <2>6. last \in {Rank[r] : r \in Selected(Rank)}
    BY <2>3, <2>4, <2>5, MaxIsMember
  <2> QED
    BY <2>3, <2>6
<1> HIDE DEF n, last
<1>6. n # 0 => (cursor + last + 1) % n \in 0..(n - 1)
  BY <1>1, <1>2, <1>5
<1> QED
  BY <1>1, <1>2, <1>4, <1>6

----------------------------------------------------------------------------
(* Types. *)

TypeInv == /\ TypeOK /\ ScanIsRecord
           /\ scan # NoScan => scan.cursor \in 0..(Cardinality(Roots) - 1)

(* The cursor starts at the first root. *)
LEMMA TypesInitially == ASSUME ScanAssumption PROVE Init => TypeInv
<1>1. Cardinality(Roots) \in Nat \ {0}
  BY FS_CardinalityType, FS_EmptySet DEF ScanAssumption
<1>2. 0 \in 0..(Cardinality(Roots) - 1)
  BY <1>1
<1> QED
  BY <1>2 DEF Init, NoScan, TypeInv, TypeOK, ScanIsRecord

(* A scan proposes images, roots and a cursor. *)
LEMMA ScanKeepsTypes == ASSUME ScanAssumption, TypeInv, Scan PROVE TypeInv'
<1>1. PICK found :
         /\ found \in Find(Rank, Candidates(Swept(Rank)))
         /\ known' = known \cup found
         /\ scan' = [found  |-> IF active THEN {} ELSE found,
                     stale  |-> (stale \ Swept(Rank)) \cup (Roots \ Existing),
                     cursor |-> NextCursor(Rank),
                     active |-> active /\ ~Complete((stale \ Swept(Rank))
                                                     \cup (Roots \ Existing))]
  BY DEF Scan
<1>2. found \subseteq Files
  <2>1. Candidates(Swept(Rank)) \subseteq Files
    BY DEF Candidates
  <2> QED
    BY <1>1, <2>1 DEF Find
<1>3. NextCursor(Rank) \in 0..(Cardinality(Roots) - 1)
  BY CursorStaysInside DEF TypeInv, TypeOK
<1>4. /\ scan'.found = (IF active THEN {} ELSE found)
      /\ scan'.stale = (stale \ Swept(Rank)) \cup (Roots \ Existing)
      /\ scan'.cursor = NextCursor(Rank)
      /\ ScanIsRecord'
  BY <1>1 DEF ScanIsRecord
<1>5. UNCHANGED <<file, stale, cursor, queued, old>>
  BY DEF Scan, tree, history
<1> QED
  BY <1>1, <1>2, <1>3, <1>4, <1>5 DEF TypeInv, TypeOK

(* Every variable keeps its shape; the cursor is always a position in the  *)
(* list of roots, however many of them come and go.                        *)
THEOREM TypesAreCorrect == ASSUME ScanAssumption PROVE Spec => []TypeOK
<1>1. Init => TypeInv
  BY TypesInitially
<1>2. TypeInv /\ [Next]_vars => TypeInv'
  <2> SUFFICES ASSUME TypeInv, [Next]_vars PROVE TypeInv'
    OBVIOUS
  <2>1. ASSUME NEW f \in Files, NEW to \in {"absent", "young"}, Change(f, to)
        PROVE  TypeInv'
    <3> DEFINE shown == IF f \in Deep \/ "absent" \notin {file[f], to} THEN {}
                        ELSE {RootOf[f]}
    <3>1. /\ old' = old \ {f} /\ known' = known \ {f} /\ stale' = stale \cup shown
          /\ scan' = IF scan = NoScan THEN scan ELSE [scan EXCEPT !.stale = @ \cup shown]
          /\ file' = [file EXCEPT ![f] = to]
          /\ UNCHANGED <<cursor, queued>>
      BY <2>1 DEF Change
    <3>2. shown \subseteq Roots
      BY DEF ScanAssumption
    <3> HIDE DEF shown
    <3>3. scan # NoScan => scan' = [found |-> scan.found, stale |-> scan.stale \cup shown,
                                    cursor |-> scan.cursor, active |-> scan.active]
      BY <3>1, Zenon DEF TypeInv, ScanIsRecord
    <3>4. /\ scan'.found = scan.found /\ scan'.stale \subseteq scan.stale \cup shown
          /\ scan # NoScan => scan'.cursor = scan.cursor
          /\ scan' # NoScan => scan # NoScan
          /\ ScanIsRecord'
      BY <3>1, <3>3 DEF ScanIsRecord
    <3> QED
      BY <3>1, <3>2, <3>4 DEF TypeInv, TypeOK
  <2>2. CASE Scan
    BY <2>2, ScanKeepsTypes
  <2>3. ASSUME NEW f \in Files, Ripen(f) PROVE TypeInv'
    BY <2>3 DEF Ripen, indexes, history, TypeInv, TypeOK, ScanIsRecord
  <2>4. CASE ScanReturns
    BY <2>4 DEF ScanReturns, tree, NoScan, TypeInv, TypeOK, ScanIsRecord
  <2>5. CASE Restart
    BY <2>5 DEF Restart, tree, indexes, NoScan, TypeInv, TypeOK, ScanIsRecord
  <2>6. CASE UNCHANGED vars
    BY <2>6 DEF vars, tree, indexes, history, TypeInv, TypeOK, ScanIsRecord
  <2> QED
    BY <2>1, <2>2, <2>3, <2>4, <2>5, <2>6 DEF Next
<1>3. TypeInv => TypeOK
  BY DEF TypeInv
<1> QED
  BY <1>1, <1>2, <1>3, PTL DEF Spec
=============================================================================
