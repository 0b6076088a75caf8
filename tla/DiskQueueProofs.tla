-------------------------- MODULE DiskQueueProofs --------------------------
(***************************************************************************)
(* Theorems about DiskQueue, for any images, batch size, retry limit, copy *)
(* limit and bounds.                                                       *)
(***************************************************************************)
EXTENDS DiskQueue, FiniteSetTheorems, TLAPS

----------------------------------------------------------------------------
(* The staged index as a function. *)

(* There are finitely many image versions. *)
LEMMA ItemsFinite == IsFiniteSet(Items)
<1>1. IsFiniteSet(Versions)
  BY ConstantsAssumption, FS_Interval DEF Versions
<1> QED
  BY <1>1, ConstantsAssumption, FS_Product DEF Items

(* Order(entries, at) has an entry for exactly the given items. *)
LEMMA OrderEntries ==
    ASSUME NEW entries \in SUBSET Items, NEW at
    PROVE  /\ Order(entries, at) \in [Items -> Nat]
           /\ \A it \in Items : Order(entries, at)[it] > 0 <=> it \in entries
<1>1. \A it \in Items : Cardinality({e \in entries : at[e] < at[it]}) \in Nat
  <2> TAKE it \in Items
  <2>1. {e \in entries : at[e] < at[it]} \in SUBSET Items
    OBVIOUS
  <2>2. IsFiniteSet({e \in entries : at[e] < at[it]})
    BY <2>1, ItemsFinite, FS_Subset
  <2> QED
    BY <2>2, FS_CardinalityType
<1> QED
  BY <1>1 DEF Order

(* Saving the loaded index with one more entry adds just that entry. *)
LEMMA WithEntryEntries ==
    ASSUME NEW c \in Items
    PROVE  /\ WithEntry(c) \in [Items -> Nat]
           /\ \A it \in Items : WithEntry(c)[it] > 0 <=> it \in Indexed \/ it = c
<1>1. Indexed \cup {c} \in SUBSET Items
  BY DEF Indexed
<1> QED
  BY <1>1, OrderEntries DEF WithEntry

----------------------------------------------------------------------------
(* Type correctness. *)

USE DEF source, index, batches, copyThread, batchThread, stats, server

(* The count taken at a restart is a number, and not 0 if a zip is there.   *)
LEMMA CountIsNat ==
    /\ Cardinality(Ready \cup Inflight) \in Nat
    /\ Ready \cup Inflight # {} => Cardinality(Ready \cup Inflight) > 0
<1>1. IsFiniteSet(BatchIds)
  BY ConstantsAssumption, FS_Interval DEF BatchIds
<1>2. Ready \cup Inflight \subseteq BatchIds
  BY DEF Ready, Inflight
<1>3. IsFiniteSet(Ready \cup Inflight)
  BY <1>1, <1>2, FS_Subset
<1>4. Cardinality(Ready \cup Inflight) \in Nat
  BY <1>3, FS_CardinalityType
<1>5. Cardinality(Ready \cup Inflight) = 0 <=> Ready \cup Inflight = {}
  BY <1>3, FS_EmptySet
<1> QED
  BY <1>4, <1>5

(* The initial state is of the right shape. *)
LEMMA InitType == Init => TypeOK
<1> SUFFICES ASSUME Init PROVE TypeOK
  OBVIOUS
<1> USE ConstantsAssumption DEF Init
<1>1. SourceType /\ IndexType
  BY DEF SourceType, IndexType
<1>2. StagedType /\ BatchesType
  BY DEF StagedType, BatchesType, Bytes, Missing
<1>3. QueueType /\ CopyType /\ BatchType
  BY DEF QueueType, CopyType, BatchType
<1>4. StatsType /\ ServerType
  BY DEF StatsType, ServerType
<1> QED
  BY <1>1, <1>2, <1>3, <1>4 DEF TypeOK

(* The camera and the scan thread keep the shape of the state. *)
LEMMA CameraScanType == TypeOK /\ (Camera \/ ScanThread) => TypeOK'
<1> SUFFICES ASSUME TypeOK, Camera \/ ScanThread PROVE TypeOK'
  OBVIOUS
<1> USE ConstantsAssumption DEF TypeOK
<1>1. UNCHANGED <<staged, stagedAt, batches, copyThread, batchThread, stats, server>>
  BY DEF Camera, ScanThread, Capture, Delete, Scan, ScanPut
<1>2. StagedType' /\ BatchesType' /\ CopyType' /\ BatchType' /\ ServerType'
  BY <1>1 DEF StagedType, BatchesType, CopyType, BatchType, ServerType
<1>3. ASSUME NEW i \in Images, Capture(i)
      PROVE  SourceType' /\ IndexType' /\ QueueType' /\ StatsType'
  BY <1>3 DEF Capture, SourceType, IndexType, QueueType, StatsType
<1>4. ASSUME NEW i \in Images, Delete(i)
      PROVE  SourceType' /\ IndexType' /\ QueueType' /\ StatsType'
  BY <1>4 DEF Delete, Fault, SourceType, IndexType, QueueType, StatsType
<1>5. ASSUME NEW found \in SUBSET Images, Scan(found)
      PROVE  SourceType' /\ IndexType' /\ QueueType' /\ StatsType'
  <2>1. scanned' \subseteq Items
    BY <1>5 DEF Scan, Candidate, SourceType, Items, Versions
  <2> QED
    BY <1>5, <2>1 DEF Scan, SourceType, IndexType, QueueType, StatsType
<1>6. CASE ScanPut
  <2>1. QueueType'
    BY <1>6 DEF ScanPut, QueueType
  <2> QED
    BY <1>2, <1>6, <2>1 DEF ScanPut, SourceType, IndexType, StatsType
<1> QED
  BY <1>2, <1>3, <1>4, <1>5, <1>6 DEF Camera, ScanThread

(* The copy thread keeps the shape of the state. *)
LEMMA CopyThreadType == TypeOK /\ CopyThread => TypeOK'
<1> SUFFICES ASSUME TypeOK, CopyThread PROVE TypeOK'
  OBVIOUS
<1> USE ConstantsAssumption DEF TypeOK
<1>1. UNCHANGED <<source, batches, scanned, batchThread, server>>
  BY DEF CopyThread, CopyGet, CopyPutBack, CopyStat, CopyClearPending, CopyOpen,
         CopyFile, CopyRaises, CopySaveStaged, CopySaveSource, SaveRaises
<1>2. SourceType' /\ BatchesType' /\ BatchType' /\ ServerType'
  BY <1>1 DEF SourceType, BatchesType, BatchType, ServerType
<1>3. CASE CopyGet
  BY <1>2, <1>3 DEF CopyGet, IndexType, StagedType, QueueType, CopyType, StatsType
<1>4. CASE CopyPutBack
  BY <1>2, <1>4 DEF CopyPutBack, Fault, IndexType, StagedType, QueueType, CopyType, StatsType
<1>5. CASE CopyStat
  BY <1>2, <1>5 DEF CopyStat, IndexType, StagedType, QueueType, CopyType, StatsType
<1>6. CASE CopyClearPending
  <2>1. candidate[1] \in Images
    BY <1>6 DEF CopyClearPending, CopyType, Items
  <2>2. IndexType'
    BY <1>6, <2>1 DEF CopyClearPending, IndexType
  <2> QED
    BY <1>2, <1>6, <2>2 DEF CopyClearPending, StagedType, QueueType, CopyType, StatsType
<1>7. CASE CopyOpen
  <2>1. StagedType'
    <3>1. Partial \in Bytes
      BY DEF Bytes, Missing, Partial
    <3>2. staged' = [staged EXCEPT ![candidate] = Partial] /\ stagedAt' = stagedAt
      BY <1>7 DEF CopyOpen
    <3> QED
      BY <3>1, <3>2 DEF StagedType
  <2> QED
    BY <1>2, <1>7, <2>1 DEF CopyOpen, Fault, IndexType, QueueType, CopyType, StatsType
<1>8. CASE CopyFile
  <2>1. StagedType'
    BY <1>8 DEF CopyFile, SourceType, CopyType, StagedType, Bytes, Missing, Items
  <2> QED
    BY <1>2, <1>8, <2>1 DEF CopyFile, IndexType, QueueType, CopyType, StatsType
<1>9. CASE CopyRaises
  BY <1>2, <1>9
     DEF CopyRaises, Fault, IndexType, StagedType, QueueType, CopyType, StatsType
<1>10. CASE CopySaveStaged
  <2>1. candidate \in Items
    BY <1>10 DEF CopyType, CopySaveStaged
  <2>2. StagedType'
    BY <1>10, <2>1, WithEntryEntries DEF CopySaveStaged, StagedType
  <2> QED
    BY <1>2, <1>10, <2>2 DEF CopySaveStaged, IndexType, QueueType, CopyType, StatsType
<1>11. CASE CopySaveSource
  <2>1. IndexType'
    BY <1>11 DEF CopySaveSource, CopyType, IndexType, Items, Versions
  <2> QED
    BY <1>2, <1>11, <2>1 DEF CopySaveSource, StagedType, QueueType, CopyType, StatsType
<1>12. CASE SaveRaises
  <2>1. IndexType'
    BY <1>12 DEF SaveRaises, IndexType
  <2>2. StagedType'
    BY <1>12 DEF SaveRaises, CutShort, StagedType
  <2>3. CopyType' /\ QueueType' /\ StatsType'
    BY <1>12 DEF SaveRaises, Fault, CopyType, QueueType, StatsType
  <2> QED
    BY <1>2, <2>1, <2>2, <2>3
<1> QED
  BY <1>3, <1>4, <1>5, <1>6, <1>7, <1>8, <1>9, <1>10, <1>11, <1>12 DEF CopyThread

(* The server's answer to an upload keeps the shape of its state. *)
LEMMA ServerStoresType ==
    ASSUME TypeOK, NEW b \in BatchIds, ServerStores(b)
    PROVE  /\ received' \subseteq BatchIds
           /\ latest' \in [Images -> 0..MaxVersion]
<1>1. ASSUME NEW i \in Images, \E it \in Contents(b) : it[1] = i
      PROVE  (CHOOSE it \in Contents(b) : it[1] = i)[2] \in 0..MaxVersion
  <2>1. (CHOOSE it \in Contents(b) : it[1] = i) \in Contents(b)
    BY <1>1
  <2> QED
    BY <2>1 DEF Contents, Items, Versions
<1> QED
  BY <1>1 DEF TypeOK, ServerType, ServerStores

(* The batch thread keeps the shape of the state. *)
LEMMA BatchThreadType == TypeOK /\ BatchThread => TypeOK'
<1> SUFFICES ASSUME TypeOK, BatchThread PROVE TypeOK'
  OBVIOUS
<1> USE ConstantsAssumption DEF TypeOK
<1>1. UNCHANGED <<source, index, scanned, copyQueue, copyThread>>
  BY DEF BatchThread, SelectBatch, WriteZip, WriteManifest, BuildRaises, TakeReady,
         UploadSucceeds, UploadFails, BeginMarkUploaded, UnlinkStaged,
         CleanupDirectories, MoveToSent,
         FinishUploaded, CountAttempt, ParkBatch, SettleRaises
<1>2. SourceType' /\ IndexType' /\ QueueType' /\ CopyType'
  BY <1>1 DEF SourceType, IndexType, QueueType, CopyType
<1>3. CASE SelectBatch
  <2>1. BatchEntries \subseteq Items
    BY DEF BatchEntries, OldestPerPath, Indexed
  <2> QED
    BY <1>2, <1>3, <2>1 DEF SelectBatch, NextId, BatchIds, StagedType, BatchesType, BatchType,
                            StatsType, ServerType
<1>4. CASE WriteZip
  <2>1. BatchesType'
    <3>1. [it \in Items |-> IF it \in selected THEN staged[it] ELSE Missing]
             \in [Items -> Bytes]
      BY DEF StagedType, Bytes, Missing
    <3>2. zip' \in [BatchIds -> [Items -> Bytes]]
      BY <1>4, <3>1 DEF WriteZip, BatchesType
    <3> QED
      BY <1>4, <3>2 DEF WriteZip, BatchesType
  <2> QED
    BY <1>2, <1>4, <2>1 DEF WriteZip, StagedType, BatchType, StatsType, ServerType
<1>5. CASE WriteManifest
  BY <1>2, <1>5
     DEF WriteManifest, StagedType, BatchesType, BatchType, StatsType, ServerType
<1>6. CASE BuildRaises
  BY <1>2, <1>6
     DEF BuildRaises, Fault, StagedType, BatchesType, BatchType, StatsType, ServerType
<1>7. CASE TakeReady
  <2>1. BatchesType' /\ StagedType' /\ ServerType'
    BY <1>7 DEF TakeReady, StagedType, BatchesType, ServerType
  <2>2. StatsType'
    BY <1>7 DEF TakeReady, OneLess, StatsType
  <2>3. PICK b \in Ready : IF b \in manifest THEN batchPc' = "upload" /\ batch' = b
                                            ELSE batchPc' = "idle" /\ batch' = 0
    BY <1>7 DEF TakeReady
  <2>4. UNCHANGED <<selected, remaining>>
    BY <1>7 DEF TakeReady
  <2>5. BatchType'
    BY <2>3, <2>4 DEF Ready, BatchType
  <2> QED
    BY <1>2, <2>1, <2>2, <2>5
<1>8. CASE UploadSucceeds
  <2>1. ServerType'
    BY <1>8, ServerStoresType DEF UploadSucceeds, BatchType, ServerType
  <2> QED
    BY <1>2, <1>8, <2>1 DEF UploadSucceeds, StagedType, BatchesType, BatchType, StatsType
<1>9. CASE UploadFails
  <2>1. batch \in BatchIds
    BY <1>9 DEF UploadFails, BatchType
  <2>2. ServerType'
    BY <1>9, <2>1, ServerStoresType DEF UploadFails, ServerType
  <2> QED
    BY <1>2, <1>9, <2>2 DEF UploadFails, Fault, StagedType, BatchesType, BatchType, StatsType
<1>10. CASE BeginMarkUploaded
  <2>1. StatsType'
    BY <1>10 DEF BeginMarkUploaded, StatsType
  <2>2. BatchType'
    BY <1>10 DEF BeginMarkUploaded, BatchType, Contents, Indexed
  <2> QED
    BY <1>2, <1>10, <2>1, <2>2 DEF BeginMarkUploaded, StagedType, BatchesType, ServerType
<1>11. CASE UnlinkStaged
  BY <1>2, <1>11
     DEF UnlinkStaged, StagedType, BatchesType, BatchType, StatsType, ServerType,
         Bytes, Missing
<1>12. CASE MoveToSent
  BY <1>2, <1>12 DEF MoveToSent, StagedType, BatchesType, BatchType, StatsType, ServerType
<1>13. CASE FinishUploaded
  <2>1. StagedType'
    BY <1>13, OrderEntries DEF FinishUploaded, StagedType, BatchType
  <2> QED
    BY <1>2, <1>13, <2>1 DEF FinishUploaded, OneLess, BatchesType, BatchType, StatsType, ServerType
<1>16. CASE CleanupDirectories
  BY <1>2, <1>16
     DEF CleanupDirectories, StagedType, BatchesType, BatchType, StatsType, ServerType
<1>14. CASE CountAttempt
  BY <1>2, <1>14
     DEF CountAttempt, StagedType, BatchesType, BatchType, StatsType, ServerType
<1>15. CASE ParkBatch
  <2>1. BatchesType'
    BY <1>15 DEF ParkBatch, ParkDirectory, BatchesType
  <2>2. StatsType'
    BY <1>15 DEF ParkBatch, OneLess, StatsType
  <2> QED
    BY <1>2, <1>15, <2>1, <2>2 DEF ParkBatch, StagedType, BatchType, ServerType
<1>17. CASE SettleRaises
  <2>1. StagedType'
    BY <1>17 DEF SettleRaises, CutShort, StagedType
  <2>2. BatchesType' /\ BatchType'
    BY <1>17 DEF SettleRaises, BatchesType, BatchType
  <2>3. StatsType' /\ ServerType'
    BY <1>17 DEF SettleRaises, Fault, StatsType, ServerType
  <2> QED
    BY <1>2, <2>1, <2>2, <2>3
<1> QED
  BY <1>3, <1>4, <1>5, <1>6, <1>7, <1>8, <1>9, <1>10, <1>11, <1>12, <1>13, <1>14, <1>15,
     <1>16, <1>17 DEF BatchThread

(* A crash and the restart keep the shape of the state. *)
LEMMA CrashType == TypeOK /\ Crash => TypeOK'
<1> SUFFICES ASSUME TypeOK,
                    NEW ts \in BOOLEAN, NEW ti \in BOOLEAN, NEW tm \in BOOLEAN,
                    Restart(ts, ti, tm)
             PROVE  TypeOK'
  BY DEF Crash
<1> USE ConstantsAssumption DEF TypeOK
<1>1. StagedType'
  <2>1. (IF ti THEN {} ELSE Indexed) \in SUBSET Items
    BY DEF Indexed
  <2> QED
    BY <2>1, OrderEntries DEF Restart, StagedType
<1>2. StatsType'
  BY CountIsNat DEF Restart, Fault, StatsType
<1>3. SourceType' /\ ServerType'
  BY DEF Restart, SourceType, ServerType
<1>6. IndexType'
  BY DEF Restart, IndexType
<1>4. BatchesType'
  BY DEF Restart, BatchesType
<1>5. QueueType' /\ CopyType' /\ BatchType'
  BY DEF Restart, QueueType, CopyType, BatchType
<1> QED
  BY <1>1, <1>2, <1>3, <1>4, <1>5, <1>6

(* TypeOK is an invariant: the files, the threads, the cached counts and    *)
(* the server keep their shape through every operation, fault and restart. *)
THEOREM TypeCorrect == Spec => []TypeOK
<1>1. TypeOK /\ UNCHANGED vars => TypeOK'
  BY DEF TypeOK, vars, SourceType, IndexType, StagedType, BatchesType, QueueType,
         CopyType, BatchType, StatsType, ServerType
<1>2. TypeOK /\ [Next]_vars => TypeOK'
  BY <1>1, CameraScanType, CopyThreadType, BatchThreadType, CrashType DEF Next
<1> QED
  BY InitType, <1>2, PTL DEF Spec

----------------------------------------------------------------------------
(* Durability. *)

(* The index files are never cut short by a crash, nor seen half written.   *)
WholeFiles == "torn" \notin Faults /\ "partial" \notin Faults

(* The inductive invariant.  Files have at least the bytes of the signature *)
(* they are filed under; ... *)
WholeStaged == \A it \in Items : staged[it] # Missing => staged[it] >= it[2]
WholeZips   == \A b \in BatchIds, it \in Items :
                  zip[b][it] # Missing => zip[b][it] >= it[2]

(* ... the batch thread works on a batch in the directory it expects, and   *)
(* ids that are not used yet have no zip, so an acknowledged batch is never *)
(* written again; ... *)
BatchPlace ==
    /\ \A b \in BatchIds : b >= nextBatch => zipIn[b] = "none"
    /\ \A b \in acked : zipIn[b] # "none"
    /\ batchPc = "zip" => zipIn[batch] = "none" /\ batch < nextBatch
    /\ batchPc \in {"upload", "acked", "unlink", "cleanup", "finish", "failed",
                   "park"} =>
           zipIn[batch] # "none"
    /\ batchPc \in {"acked", "unlink", "cleanup", "finish"} => batch \in acked

(* ... only files of that batch are unlinked, and the index saved then      *)
(* keeps every entry that the server has not acknowledged; ... *)
Unlinking ==
    /\ batchPc \in {"unlink", "cleanup"} => \A it \in selected : zip[batch][it] # Missing
    /\ LockHeldByBatch => /\ ~LockHeldByCopy
                          /\ \A it \in Items : stagedAt[it] > 0 =>
                                it \in remaining \/ InAcked(it)
                          /\ \A it \in remaining : stagedAt[it] > 0

(* ... an index entry without its file, a copy that is gone before it was   *)
(* indexed, and a signature recorded as done without an index entry are all *)
(* explained by an acknowledgement.                                         *)
Entries == \A it \in Items : stagedAt[it] > 0 => staged[it] # Missing \/ InAcked(it)
Copying ==
    /\ copyPc # "copying"
    /\ copyPc = "copy" => candidate[2] <= version[candidate[1]]
    /\ copyPc = "save_staged" => staged[candidate] # Missing \/ InAcked(candidate)
    /\ copyPc = "save_source" => stagedAt[candidate] > 0 \/ InAcked(candidate)
Recorded ==
    \A it \in Items : lastSignature[it[1]] = it[2] => stagedAt[it] > 0 \/ InAcked(it)

DurableInv == /\ WholeStaged /\ WholeZips /\ BatchPlace /\ Unlinking
              /\ Entries /\ Copying /\ Recorded

(* Nothing is recorded before the client starts. *)
LEMMA InitDurable == Init => DurableInv
<1> SUFFICES ASSUME Init PROVE DurableInv
  OBVIOUS
<1>1. WholeStaged /\ WholeZips /\ Entries
  BY DEF Init, WholeStaged, WholeZips, Entries
<1>2. BatchPlace /\ Unlinking /\ Copying
  BY DEF Init, BatchPlace, Unlinking, Copying, LockHeldByBatch
<1>3. Recorded
  BY DEF Init, Recorded, Items, Versions
<1> QED
  BY <1>1, <1>2, <1>3 DEF DurableInv

(* The camera and the scan thread touch no file of the invariant. *)
LEMMA CameraScanDurable ==
    ASSUME TypeOK, DurableInv, Camera \/ ScanThread PROVE DurableInv'
<1> USE DEF DurableInv
<1>1. UNCHANGED <<lastSignature, staged, stagedAt, batches, copyThread, batchThread, acked>>
  BY DEF Camera, ScanThread, Capture, Delete, Scan, ScanPut
<1>2. \A it : InAcked(it)' <=> InAcked(it)
  BY <1>1 DEF InAcked
<1>3. WholeStaged' /\ WholeZips' /\ BatchPlace'
  BY <1>1 DEF WholeStaged, WholeZips, BatchPlace
<1>4. Unlinking' /\ Entries' /\ Recorded'
  BY <1>1, <1>2 DEF Unlinking, Entries, Recorded, LockHeldByBatch, LockHeldByCopy
<1>5. copyPc = "copy" => candidate[2] <= version'[candidate[1]]
  <2> SUFFICES ASSUME copyPc = "copy" PROVE candidate[2] <= version'[candidate[1]]
    OBVIOUS
  <2>1. candidate[1] \in Images /\ candidate[2] \in Nat
    BY DEF TypeOK, CopyType, Items, Versions
  <2>2. version[candidate[1]] \in Nat /\ candidate[2] <= version[candidate[1]]
    BY <2>1 DEF TypeOK, SourceType, Copying
  <2>3. version'[candidate[1]] \in {version[candidate[1]], version[candidate[1]] + 1}
    <3>1. ASSUME NEW i \in Images, Capture(i)
          PROVE  version'[candidate[1]] \in {version[candidate[1]], version[candidate[1]] + 1}
      BY <3>1, <2>1 DEF Capture, TypeOK, SourceType
    <3>2. ASSUME UNCHANGED version
          PROVE  version'[candidate[1]] \in {version[candidate[1]], version[candidate[1]] + 1}
      BY <3>2
    <3> QED
      BY <3>1, <3>2 DEF Camera, ScanThread, Delete, Scan, ScanPut
  <2> QED
    BY <2>1, <2>2, <2>3
<1>6. Copying'
  BY <1>1, <1>2, <1>5 DEF Copying
<1> QED
  BY <1>3, <1>4, <1>6

(* The copy thread indexes what it copied whole, and records a signature    *)
(* only after that.                                                         *)
LEMMA CopyThreadDurable ==
    ASSUME WholeFiles, TypeOK, DurableInv, CopyThread PROVE DurableInv'
<1> USE DEF DurableInv
<1>1. UNCHANGED <<version, zip, zipIn, nextBatch, batchThread, acked>>
  BY DEF CopyThread, CopyGet, CopyPutBack, CopyStat, CopyClearPending, CopyOpen,
         CopyFile, CopyRaises, CopySaveStaged, CopySaveSource, SaveRaises
<1>2. \A it : InAcked(it)' <=> InAcked(it)
  BY <1>1 DEF InAcked
<1>3. WholeZips' /\ BatchPlace'
  BY <1>1 DEF WholeZips, BatchPlace
<1>4. ASSUME UNCHANGED <<staged, stagedAt, lastSignature>>, copyPc' # "save_source"
      PROVE  WholeStaged' /\ Unlinking' /\ Entries' /\ Recorded'
  BY <1>1, <1>2, <1>4 DEF WholeStaged, Unlinking, Entries, Recorded, LockHeldByBatch,
                          LockHeldByCopy
<1>5. CASE CopyGet
  <2>1. Copying'
    BY <1>5 DEF CopyGet, Copying
  <2> QED
    BY <1>3, <1>4, <1>5, <2>1 DEF CopyGet
<1>6. CASE CopyPutBack
  <2>1. Copying'
    BY <1>6 DEF CopyPutBack, Copying
  <2> QED
    BY <1>3, <1>4, <1>6, <2>1 DEF CopyPutBack
<1>7. CASE CopyStat
  <2>1. candidate[2] \in Nat
    BY <1>7 DEF CopyStat, TypeOK, CopyType, Items, Versions
  <2>2. Copying'
    BY <1>7, <2>1 DEF CopyStat, Copying, Outdated
  <2> QED
    BY <1>3, <1>4, <1>7, <2>2 DEF CopyStat
<1>8. CASE CopyClearPending
  <2>1. Copying'
    BY <1>8 DEF CopyClearPending, Copying
  <2> QED
    BY <1>3, <1>4, <1>8, <2>1 DEF CopyClearPending
<1>9. CASE CopyOpen
  BY <1>9 DEF CopyOpen, Fault, WholeFiles
<1>10. CASE CopyFile
  <2> DEFINE v == version[candidate[1]]
  <2>1. candidate \in Items /\ candidate[2] \in Nat \ {0} /\ v \in Nat /\ candidate[2] <= v
    BY <1>10 DEF CopyFile, TypeOK, CopyType, SourceType, Copying, Items, Versions
  <2>2. /\ staged' = [staged EXCEPT ![candidate] = v]
        /\ UNCHANGED <<stagedAt, lastSignature, candidate>>
        /\ copyPc' = "save_staged" /\ ~LockHeldByCopy
    BY <1>10 DEF CopyFile, LockHeldByCopy
  <2>3. \A it \in Items : staged'[it] = IF it = candidate THEN v ELSE staged[it]
    BY <2>2 DEF TypeOK, StagedType
  <2>4. v # Missing
    BY <2>1 DEF Missing
  <2>5. WholeStaged'
    BY <2>1, <2>3 DEF WholeStaged
  <2>6. Unlinking'
    BY <1>1, <1>2, <2>2 DEF Unlinking, LockHeldByBatch, LockHeldByCopy
  <2>7. Entries' /\ Recorded'
    BY <1>2, <2>2, <2>3, <2>4 DEF Entries, Recorded
  <2>8. Copying'
    BY <2>1, <2>2, <2>3, <2>4 DEF Copying
  <2> QED
    BY <1>3, <2>5, <2>6, <2>7, <2>8
<1>11. CASE CopyRaises
  <2>1. Copying'
    BY <1>11 DEF CopyRaises, Copying
  <2> QED
    BY <1>3, <1>4, <1>11, <2>1 DEF CopyRaises
<1>12. CASE CopySaveStaged
  <2>1. candidate \in Items
    BY <1>12 DEF CopySaveStaged, TypeOK, CopyType
  <2>2. /\ stagedAt' = WithEntry(candidate)
        /\ UNCHANGED <<staged, lastSignature, candidate>>
        /\ copyPc' = "save_source" /\ ~LockHeldByBatch /\ copyPc = "save_staged"
    BY <1>12 DEF CopySaveStaged
  <2>3. \A it \in Items : stagedAt'[it] > 0 <=> it \in Indexed \/ it = candidate
    BY <2>1, <2>2, WithEntryEntries
  <2>4. WholeStaged' /\ Unlinking'
    BY <1>1, <2>2 DEF WholeStaged, Unlinking, LockHeldByBatch
  <2>5. Entries'
    BY <1>2, <2>2, <2>3 DEF Entries, Copying, Indexed
  <2>6. Recorded'
    BY <1>2, <2>2, <2>3 DEF Recorded, Entries, Indexed
  <2>7. Copying'
    BY <2>1, <2>2, <2>3 DEF Copying
  <2> QED
    BY <1>3, <2>4, <2>5, <2>6, <2>7
<1>13. CASE CopySaveSource
  <2>1. candidate \in Items
    BY <1>13 DEF CopySaveSource, TypeOK, CopyType
  <2>2. /\ lastSignature' = [lastSignature EXCEPT ![candidate[1]] = candidate[2]]
        /\ UNCHANGED <<staged, stagedAt>>
        /\ copyPc' = "idle" /\ copyPc = "save_source"
    BY <1>13 DEF CopySaveSource
  <2>3. WholeStaged' /\ Entries' /\ Copying'
    BY <1>2, <2>2 DEF WholeStaged, Entries, Copying
  <2>4. Unlinking'
    BY <1>1, <1>2, <2>2 DEF Unlinking, LockHeldByBatch, LockHeldByCopy
  <2>5. Recorded'
    <3> SUFFICES ASSUME NEW it \in Items, lastSignature'[it[1]] = it[2]
                 PROVE  stagedAt[it] > 0 \/ InAcked(it)
      BY <1>2, <2>2 DEF Recorded
    <3>1. CASE it[1] = candidate[1]
      <4>1. it[2] = candidate[2]
        BY <2>1, <2>2, <3>1 DEF TypeOK, IndexType, Items
      <4>2. it = candidate
        BY <2>1, <3>1, <4>1 DEF Items
      <4> QED
        BY <4>2, <2>2 DEF Copying
    <3>2. CASE it[1] # candidate[1]
      <4>1. lastSignature[it[1]] = it[2]
        BY <2>2, <3>2 DEF TypeOK, IndexType, Items
      <4> QED
        BY <4>1 DEF Recorded
    <3> QED
      BY <3>1, <3>2
  <2> QED
    BY <1>3, <2>3, <2>4, <2>5
<1>14. CASE SaveRaises
  <2>1. UNCHANGED <<staged, stagedAt, lastSignature>> /\ copyPc' = "idle"
    BY <1>14 DEF SaveRaises, CutShort, WholeFiles
  <2>2. Copying'
    BY <2>1 DEF Copying
  <2> QED
    BY <1>3, <1>4, <2>1, <2>2
<1> QED
  BY <1>5, <1>6, <1>7, <1>8, <1>9, <1>10, <1>11, <1>12, <1>13, <1>14 DEF CopyThread

(* The batch thread writes only fresh zips, deletes only what the server    *)
(* acknowledged, and saves an index without anything else missing.          *)
LEMMA BatchThreadDurable ==
    ASSUME WholeFiles, TypeOK, DurableInv, BatchThread PROVE DurableInv'
<1> USE DEF DurableInv
<1> USE ConstantsAssumption
<1>1. UNCHANGED <<version, lastSignature, copyThread>>
  BY DEF BatchThread, SelectBatch, WriteZip, WriteManifest, BuildRaises, TakeReady,
         UploadSucceeds, UploadFails, BeginMarkUploaded, UnlinkStaged,
         CleanupDirectories, MoveToSent,
         FinishUploaded, CountAttempt, ParkBatch, SettleRaises
<1>2. ASSUME UNCHANGED <<zip, acked>>
      PROVE  WholeZips' /\ \A it : InAcked(it)' <=> InAcked(it)
  BY <1>2 DEF WholeZips, InAcked
<1>3. ASSUME UNCHANGED <<staged, stagedAt, zip, acked>>
      PROVE  WholeStaged' /\ WholeZips' /\ Entries' /\ Copying' /\ Recorded'
  BY <1>1, <1>2, <1>3 DEF WholeStaged, Entries, Copying, Recorded
<1>4. ASSUME ~LockHeldByBatch' PROVE Unlinking'
  BY <1>4 DEF Unlinking, LockHeldByBatch
<1>5. CASE SelectBatch
  <2>1. BatchPlace'
    BY <1>5 DEF SelectBatch, NextId, BatchPlace, TypeOK, BatchesType, BatchIds
  <2> QED
    BY <1>3, <1>4, <1>5, <2>1 DEF SelectBatch, LockHeldByBatch
<1>6. CASE WriteZip
  <2>1. batch \in BatchIds /\ batch \notin acked
    BY <1>6 DEF WriteZip, TypeOK, BatchType, BatchPlace
  <2>2. \A b \in BatchIds : b # batch => zip'[b] = zip[b]
    BY <1>6, <2>1 DEF WriteZip, TypeOK, BatchesType
  <2>3. \A it \in Items :
           zip'[batch][it] = IF it \in selected THEN staged[it] ELSE Missing
    BY <1>6, <2>1 DEF WriteZip, TypeOK, BatchesType
  <2>4. acked \subseteq BatchIds
    BY DEF TypeOK, ServerType
  <2>5. \A it : InAcked(it)' <=> InAcked(it)
    BY <1>6, <2>1, <2>2, <2>4 DEF WriteZip, InAcked
  <2>6. WholeZips'
    BY <2>2, <2>3 DEF WholeZips, WholeStaged
  <2>7. WholeStaged' /\ Entries' /\ Copying' /\ Recorded'
    BY <1>1, <1>6, <2>5 DEF WriteZip, WholeStaged, Entries, Copying, Recorded
  <2>8. BatchPlace'
    BY <1>6, <2>1 DEF WriteZip, BatchPlace, TypeOK, BatchesType, BatchIds
  <2> QED
    BY <1>4, <1>6, <2>6, <2>7, <2>8 DEF WriteZip, LockHeldByBatch
<1>7. CASE WriteManifest
  <2>1. BatchPlace'
    BY <1>7 DEF WriteManifest, BatchPlace
  <2> QED
    BY <1>3, <1>4, <1>7, <2>1 DEF WriteManifest, LockHeldByBatch
<1>8. CASE BuildRaises
  <2>1. BatchPlace'
    BY <1>8 DEF BuildRaises, BatchPlace
  <2> QED
    BY <1>3, <1>4, <1>8, <2>1 DEF BuildRaises, LockHeldByBatch
<1>9. CASE TakeReady
  <2>1. PICK b \in Ready : /\ zipIn' = [zipIn EXCEPT ![b] = "inflight"]
                           /\ IF b \in manifest
                              THEN batchPc' = "upload" /\ batch' = b
                              ELSE batchPc' = "idle" /\ batch' = 0
    BY <1>9 DEF TakeReady
  <2>2. UNCHANGED <<staged, stagedAt, zip, acked, nextBatch>>
    BY <1>9 DEF TakeReady
  <2>3. b \in BatchIds /\ zipIn[b] = "ready"
    BY DEF Ready
  <2>4. \A c \in BatchIds : zipIn'[c] = IF c = b THEN "inflight" ELSE zipIn[c]
    BY <2>1, <2>3 DEF TypeOK, BatchesType
  <2>5. BatchPlace'
    BY <2>1, <2>2, <2>3, <2>4 DEF BatchPlace, TypeOK, ServerType
  <2> QED
    BY <1>3, <1>4, <2>1, <2>2, <2>5 DEF LockHeldByBatch
<1>10. CASE UploadSucceeds
  <2>1. /\ batchPc = "upload" /\ batchPc' = "acked" /\ acked' = acked \cup {batch}
        /\ UNCHANGED <<staged, stagedAt, batches, batch, selected, remaining>>
    BY <1>10 DEF UploadSucceeds
  <2>2. \A it : InAcked(it) => InAcked(it)'
    BY <2>1 DEF InAcked
  <2>3. WholeStaged' /\ WholeZips' /\ Entries' /\ Copying' /\ Recorded'
    BY <1>1, <2>1, <2>2 DEF WholeStaged, WholeZips, Entries, Copying, Recorded
  <2>4. BatchPlace'
    BY <2>1 DEF BatchPlace
  <2> QED
    BY <1>4, <2>1, <2>3, <2>4 DEF LockHeldByBatch
<1>11. CASE UploadFails
  <2>1. BatchPlace'
    BY <1>11 DEF UploadFails, BatchPlace
  <2> QED
    BY <1>3, <1>4, <1>11, <2>1 DEF UploadFails, LockHeldByBatch
<1>12. CASE BeginMarkUploaded
  <2>1. /\ batchPc = "acked" /\ batchPc' = "unlink" /\ ~LockHeldByCopy
        /\ selected' = Contents(batch) /\ remaining' = Indexed \ Contents(batch)
        /\ UNCHANGED <<staged, stagedAt, batches, acked, batch>>
    BY <1>12 DEF BeginMarkUploaded
  <2>2. batch \in acked
    BY <2>1 DEF BatchPlace
  <2>3. \A it \in Items : stagedAt[it] > 0 =>
             it \in Indexed \ Contents(batch) \/ InAcked(it)
    BY <2>2 DEF Entries, Indexed, Contents, InAcked
  <2>4. Unlinking'
    BY <1>1, <1>2, <2>1, <2>3 DEF Unlinking, Contents, Indexed, LockHeldByCopy
  <2>5. BatchPlace'
    BY <2>1 DEF BatchPlace
  <2> QED
    BY <1>3, <2>1, <2>4, <2>5
<1>13. CASE UnlinkStaged
  <2>1. PICK d \in selected : /\ staged' = [staged EXCEPT ![d] = Missing]
                              /\ selected' = selected \ {d}
    BY <1>13 DEF UnlinkStaged
  <2>2. /\ UNCHANGED <<stagedAt, batches, acked, batch, remaining>>
        /\ batchPc = "unlink" /\ batchPc' \in {"unlink", "cleanup"}
    BY <1>13 DEF UnlinkStaged
  <2>3. d \in Items /\ InAcked(d)
    BY <2>2 DEF TypeOK, BatchType, Unlinking, BatchPlace, InAcked
  <2>4. \A it \in Items : staged'[it] = IF it = d THEN Missing ELSE staged[it]
    BY <2>1, <2>3 DEF TypeOK, StagedType
  <2>5. \A it : InAcked(it)' <=> InAcked(it)
    BY <1>2, <2>2
  <2>6. WholeStaged' /\ WholeZips' /\ Entries' /\ Recorded'
    BY <1>1, <1>2, <2>2, <2>3, <2>4, <2>5 DEF WholeStaged, Entries, Recorded
  <2>7. Copying'
    <3>1. copyPc = "save_staged" => candidate \in Items
      BY DEF TypeOK, CopyType
    <3> QED
      BY <1>1, <2>2, <2>3, <2>4, <2>5, <3>1 DEF Copying
  <2>8. Unlinking'
    BY <1>1, <2>1, <2>2, <2>5 DEF Unlinking, LockHeldByBatch, LockHeldByCopy
  <2>9. BatchPlace'
    BY <2>2 DEF BatchPlace
  <2> QED
    BY <2>6, <2>7, <2>8, <2>9
<1>18. CASE CleanupDirectories
  <2>1. /\ UNCHANGED <<staged, stagedAt, batches, acked, batch, selected, remaining>>
        /\ batchPc = "cleanup" /\ batchPc' = "unlink"
    BY <1>18 DEF CleanupDirectories
  <2>2. Unlinking'
    BY <1>1, <1>2, <2>1 DEF Unlinking, LockHeldByBatch, LockHeldByCopy
  <2>3. BatchPlace'
    BY <2>1 DEF BatchPlace
  <2> QED
    BY <1>3, <2>1, <2>2, <2>3
<1>14. CASE MoveToSent
  <2>1. /\ batchPc = "unlink" /\ batchPc' = "finish"
        /\ zipIn' = [zipIn EXCEPT ![batch] = "sent"]
        /\ UNCHANGED <<staged, stagedAt, zip, acked, nextBatch, batch, selected, remaining>>
    BY <1>14 DEF MoveToSent
  <2>2. batch \in BatchIds
    BY <2>1 DEF TypeOK, BatchType
  <2>3. \A c \in BatchIds : zipIn'[c] = IF c = batch THEN "sent" ELSE zipIn[c]
    BY <2>1, <2>2 DEF TypeOK, BatchesType
  <2>4. BatchPlace'
    BY <2>1, <2>2, <2>3 DEF BatchPlace, TypeOK, ServerType
  <2>5. Unlinking'
    BY <1>1, <1>2, <2>1 DEF Unlinking, LockHeldByBatch, LockHeldByCopy
  <2> QED
    BY <1>3, <2>1, <2>4, <2>5
<1>15. CASE FinishUploaded
  <2>1. /\ batchPc = "finish" /\ batchPc' = "idle"
        /\ stagedAt' = Order(remaining, stagedAt)
        /\ UNCHANGED <<staged, zip, zipIn, nextBatch, acked>>
    BY <1>15 DEF FinishUploaded
  <2>2. \A it \in Items : stagedAt'[it] > 0 <=> it \in remaining
    BY <2>1, OrderEntries DEF TypeOK, BatchType
  <2>3. \A it \in Items : stagedAt[it] > 0 => stagedAt'[it] > 0 \/ InAcked(it)
    BY <2>1, <2>2 DEF Unlinking, LockHeldByBatch
  <2>4. Entries'
    BY <1>2, <2>1, <2>2 DEF Entries, Unlinking, LockHeldByBatch
  <2>5. Recorded'
    BY <1>1, <1>2, <2>1, <2>3 DEF Recorded
  <2>6. Copying'
    BY <1>1, <1>2, <2>1 DEF Copying, Unlinking, LockHeldByBatch, LockHeldByCopy
  <2>7. WholeStaged' /\ BatchPlace'
    BY <2>1 DEF WholeStaged, BatchPlace
  <2> QED
    BY <1>2, <1>4, <2>1, <2>4, <2>5, <2>6, <2>7 DEF LockHeldByBatch
<1>16. CASE CountAttempt
  <2>1. BatchPlace'
    BY <1>16 DEF CountAttempt, BatchPlace
  <2> QED
    BY <1>3, <1>4, <1>16, <2>1 DEF CountAttempt, LockHeldByBatch
<1>17. CASE ParkBatch
  <2>1. /\ batchPc = "park" /\ batchPc' = "idle"
        /\ zipIn' = [zipIn EXCEPT ![batch] = ParkDirectory(batch)]
        /\ UNCHANGED <<staged, stagedAt, zip, acked, nextBatch>>
    BY <1>17 DEF ParkBatch
  <2>2. batch \in BatchIds /\ ParkDirectory(batch) # "none"
    BY <2>1 DEF TypeOK, BatchType, ParkDirectory
  <2>3. \A c \in BatchIds :
           zipIn'[c] = IF c = batch THEN ParkDirectory(batch) ELSE zipIn[c]
    BY <2>1, <2>2 DEF TypeOK, BatchesType
  <2>4. BatchPlace'
    BY <2>1, <2>2, <2>3 DEF BatchPlace, TypeOK, ServerType
  <2> QED
    BY <1>3, <1>4, <2>1, <2>4 DEF LockHeldByBatch
<1>19. CASE SettleRaises
  <2>1. /\ UNCHANGED <<staged, stagedAt, zip, zipIn, acked, nextBatch>>
        /\ batchPc' = "idle"
    BY <1>19 DEF SettleRaises, CutShort, WholeFiles
  <2>2. BatchPlace'
    BY <2>1 DEF BatchPlace
  <2> QED
    BY <1>3, <1>4, <2>1, <2>2 DEF LockHeldByBatch
<1> QED
  BY <1>5, <1>6, <1>7, <1>8, <1>9, <1>10, <1>11, <1>12, <1>13, <1>14, <1>15, <1>16, <1>17,
     <1>18, <1>19 DEF BatchThread

(* A restart keeps the index entries whose files are there. *)
LEMMA CrashDurable ==
    ASSUME WholeFiles, TypeOK, DurableInv, Crash PROVE DurableInv'
<1> USE DEF DurableInv
<1>1. PICK ts, ti, tm \in BOOLEAN : Restart(ts, ti, tm)
  BY DEF Crash
<1>2. ~ts /\ ~ti /\ ~tm
  BY <1>1 DEF Restart, WholeFiles
<1>3. /\ UNCHANGED <<version, lastSignature, staged, zip, nextBatch, acked>>
      /\ stagedAt' = Order(Indexed, stagedAt)
      /\ zipIn' = [b \in BatchIds |-> IF b \in Inflight THEN "ready" ELSE zipIn[b]]
      /\ copyPc' = "idle" /\ batchPc' = "idle"
  BY <1>1, <1>2 DEF Restart
<1>4. \A it : InAcked(it)' <=> InAcked(it)
  BY <1>3 DEF InAcked
<1>5. \A it \in Items : stagedAt'[it] > 0 <=> it \in Indexed
  <2>1. Indexed \in SUBSET Items
    BY DEF Indexed
  <2> QED
    BY <1>3, <2>1, OrderEntries
<1>6. WholeStaged' /\ WholeZips'
  BY <1>3 DEF WholeStaged, WholeZips
<1>7. BatchPlace'
  BY <1>3 DEF BatchPlace, Inflight, TypeOK, ServerType
<1>8. Unlinking' /\ Copying'
  BY <1>3 DEF Unlinking, Copying, LockHeldByBatch
<1>9. Entries' /\ Recorded'
  BY <1>3, <1>4, <1>5 DEF Entries, Recorded, Indexed
<1> QED
  BY <1>6, <1>7, <1>8, <1>9

(* What DurableInv says of the signatures recorded as done. *)
LEMMA DurableInvImplies ==
    ASSUME TypeOK, DurableInv PROVE IndexedIsDurable
<1> SUFFICES ASSUME NEW i \in Images, lastSignature[i] > 0
             PROVE  Held(<<i, lastSignature[i]>>) \/ Delivered(<<i, lastSignature[i]>>)
  BY DEF IndexedIsDurable
<1> DEFINE it == <<i, lastSignature[i]>>
<1>1. it \in Items /\ it[1] = i /\ it[2] = lastSignature[i] /\ it[2] \in Nat
  BY ConstantsAssumption DEF TypeOK, IndexType, Items, Versions
<1>2. stagedAt[it] > 0 \/ InAcked(it)
  BY <1>1 DEF DurableInv, Recorded
<1>3. CASE InAcked(it)
  <2>1. Delivered(it)
    BY <1>1, <1>3 DEF DurableInv, WholeZips, InAcked, Delivered, TypeOK, ServerType
  <2> QED
    BY <2>1
<1>4. CASE stagedAt[it] > 0 /\ ~InAcked(it)
  <2>1. it \in Indexed /\ staged[it] >= it[2]
    BY <1>1, <1>4 DEF DurableInv, Entries, WholeStaged, Indexed
  <2>2. Held(it)
    BY <2>1 DEF Held
  <2> QED
    BY <2>2
<1> QED
  BY <1>2, <1>3, <1>4

(* With whole files DurableInv is inductive. *)
LEMMA DurableInvariant == ASSUME WholeFiles PROVE Spec => []DurableInv
<1>1. TypeOK /\ DurableInv /\ UNCHANGED vars => DurableInv'
  <2> SUFFICES ASSUME TypeOK, DurableInv, UNCHANGED vars PROVE DurableInv'
    OBVIOUS
  <2>1. \A it : InAcked(it)' <=> InAcked(it)
    BY DEF InAcked, vars
  <2>2. WholeStaged' /\ WholeZips' /\ BatchPlace'
    BY DEF vars, DurableInv, WholeStaged, WholeZips, BatchPlace
  <2>3. Unlinking' /\ Entries' /\ Copying' /\ Recorded'
    BY <2>1 DEF vars, DurableInv, Unlinking, Entries, Copying, Recorded,
                LockHeldByBatch, LockHeldByCopy
  <2> QED
    BY <2>2, <2>3 DEF DurableInv
<1>2. TypeOK /\ DurableInv /\ [Next]_vars => DurableInv'
  BY <1>1, CameraScanDurable, CopyThreadDurable, BatchThreadDurable, CrashDurable DEF Next
<1> QED
  BY TypeCorrect, InitDurable, <1>2, PTL DEF Spec

(* With files that are written whole, every image version the client calls  *)
(* done is either staged whole and indexed or acknowledged by the server:   *)
(* always, through crashes, restarts, refused uploads and lost answers.     *)
THEOREM DurabilityHolds == ASSUME WholeFiles PROVE Spec => []IndexedIsDurable
  BY TypeCorrect, DurableInvariant, DurableInvImplies, PTL

----------------------------------------------------------------------------
(* Retries. *)

(* The manifest never counts more attempts than uploads that failed, and one *)
(* fewer while mark_failed has still to count the last; what is parked has   *)
(* used up its attempts.                                                     *)
AttemptsAreFailures ==
    /\ \A b \in BatchIds : attempts[b] <= tries[b]
    /\ batchPc = "failed" => attempts[batch] < tries[batch]
ParkedIsSpent == \A b \in BatchIds : zipIn[b] = "failed" => attempts[b] >= Retry
RetryInv == AttemptsAreFailures /\ ParkedIsSpent

LEMMA OthersKeepRetries ==
    ASSUME RetryInv, Camera \/ ScanThread \/ CopyThread
    PROVE  RetryInv'
<1>1. UNCHANGED <<batches, batchThread, server>>
  BY DEF Camera, ScanThread, Capture, Delete, Scan, ScanPut, CopyThread, CopyGet,
         CopyPutBack, CopyStat, CopyClearPending, CopyOpen, CopyFile, CopyRaises,
         CopySaveStaged, CopySaveSource, SaveRaises
<1> QED
  BY <1>1 DEF RetryInv, AttemptsAreFailures, ParkedIsSpent

LEMMA BatchThreadKeepsRetries ==
    ASSUME TypeOK, RetryInv, BatchThread
    PROVE  RetryInv'
<1> USE DEF TypeOK, BatchesType, BatchType, ServerType, RetryInv
<1>1. ASSUME UNCHANGED <<zipIn, attempts, tries>>, batchPc' # "failed" PROVE RetryInv'
  BY <1>1 DEF AttemptsAreFailures, ParkedIsSpent
<1>2. CASE SelectBatch \/ WriteManifest \/ BuildRaises \/ UploadSucceeds
           \/ BeginMarkUploaded \/ UnlinkStaged \/ CleanupDirectories \/ FinishUploaded
           \/ SettleRaises
  BY <1>1, <1>2 DEF SelectBatch, WriteManifest, BuildRaises, UploadSucceeds,
     BeginMarkUploaded, UnlinkStaged, CleanupDirectories, FinishUploaded, SettleRaises
<1>3. CASE WriteZip
  BY <1>3 DEF WriteZip, AttemptsAreFailures, ParkedIsSpent
<1>4. CASE TakeReady
  BY <1>4 DEF TakeReady, Ready, AttemptsAreFailures, ParkedIsSpent
<1>5. CASE UploadFails
  BY <1>5 DEF UploadFails, AttemptsAreFailures, ParkedIsSpent
<1>6. CASE MoveToSent
  BY <1>6 DEF MoveToSent, AttemptsAreFailures, ParkedIsSpent
<1>7. CASE CountAttempt
  BY <1>7, ConstantsAssumption DEF CountAttempt, AttemptsAreFailures, ParkedIsSpent
<1>8. CASE ParkBatch
  BY <1>8 DEF ParkBatch, ParkDirectory, AttemptsAreFailures, ParkedIsSpent
<1> QED
  BY <1>2, <1>3, <1>4, <1>5, <1>6, <1>7, <1>8 DEF BatchThread

LEMMA CrashKeepsRetries ==
    ASSUME RetryInv, Crash
    PROVE  RetryInv'
  BY DEF RetryInv, AttemptsAreFailures, ParkedIsSpent, Crash, Restart, Inflight

(* A batch is parked in failed/ only after the configured number of uploads  *)
(* of it failed, whatever dies in between, lost manifests included.          *)
THEOREM BatchesAreRetried == Spec => []ParkedOnlyAfterRetries
<1>1. Init => RetryInv
  BY DEF Init, RetryInv, AttemptsAreFailures, ParkedIsSpent
<1>2. TypeOK /\ RetryInv /\ [Next]_vars => RetryInv'
  <2>1. RetryInv /\ UNCHANGED vars => RetryInv'
    BY DEF vars, RetryInv, AttemptsAreFailures, ParkedIsSpent
  <2> QED
    BY <2>1, OthersKeepRetries, BatchThreadKeepsRetries, CrashKeepsRetries DEF Next
<1>3. TypeOK /\ RetryInv => ParkedOnlyAfterRetries
  BY ConstantsAssumption DEF TypeOK, BatchesType, ServerType, RetryInv,
     AttemptsAreFailures, ParkedIsSpent, ParkedOnlyAfterRetries
<1> QED
  BY TypeCorrect, <1>1, <1>2, <1>3, PTL DEF Spec

----------------------------------------------------------------------------
(* What was sent under a batch id. *)

(* Ids not given out yet have no zip, the id being zipped has none, and what *)
(* the server stored has one.                                                *)
SentInv ==
    /\ \A b \in BatchIds : b >= nextBatch => zipIn[b] = "none"
    /\ batchPc = "zip" => zipIn[batch] = "none" /\ batch < nextBatch
    /\ batchPc \in {"upload", "acked", "unlink", "cleanup", "finish", "failed",
                    "park"} => zipIn[batch] # "none"
    /\ \A b \in received : zipIn[b] # "none"

LEMMA BatchThreadKeepsSent ==
    ASSUME TypeOK, SentInv, BatchThread
    PROVE  SentInv' /\ \A b \in received : zip'[b] = zip[b]
<1> USE ConstantsAssumption DEF TypeOK, BatchesType, BatchType, ServerType, SentInv
<1>1. CASE SelectBatch
  BY <1>1 DEF SelectBatch, NextId, BatchIds
<1>2. CASE WriteZip
  BY <1>2 DEF WriteZip, BatchIds
<1>3. CASE WriteManifest \/ BuildRaises \/ BeginMarkUploaded \/ UnlinkStaged
           \/ CleanupDirectories \/ FinishUploaded \/ CountAttempt \/ SettleRaises
  BY <1>3 DEF WriteManifest, BuildRaises, BeginMarkUploaded, UnlinkStaged,
     CleanupDirectories, FinishUploaded, CountAttempt, SettleRaises
<1>4. CASE TakeReady
  BY <1>4 DEF TakeReady, Ready
<1>5. CASE UploadSucceeds \/ UploadFails
  BY <1>5 DEF UploadSucceeds, UploadFails, ServerStores
<1>6. CASE MoveToSent
  BY <1>6 DEF MoveToSent
<1>7. CASE ParkBatch
  BY <1>7 DEF ParkBatch, ParkDirectory
<1> QED
  BY <1>1, <1>2, <1>3, <1>4, <1>5, <1>6, <1>7 DEF BatchThread

(* A batch id never stands for other bytes once the server has stored some   *)
(* under it: not after a restart, a retry or a lost answer.                  *)
THEOREM SentBytesStay == Spec => SentBytesAreFixed
<1>1. Init => SentInv
  BY DEF Init, SentInv
<1>2. TypeOK /\ SentInv /\ [Next]_vars
          => SentInv' /\ \A b \in received : zip'[b] = zip[b]
  <2> SUFFICES ASSUME TypeOK, SentInv, [Next]_vars
               PROVE  SentInv' /\ \A b \in received : zip'[b] = zip[b]
    OBVIOUS
  <2>1. CASE UNCHANGED vars \/ Camera \/ ScanThread \/ CopyThread
    <3>1. UNCHANGED <<batches, batchThread, server>>
      BY <2>1 DEF vars, Camera, ScanThread, Capture, Delete, Scan, ScanPut, CopyThread,
             CopyGet, CopyPutBack, CopyStat, CopyClearPending, CopyOpen, CopyFile,
             CopyRaises, CopySaveStaged, CopySaveSource, SaveRaises
    <3> QED
      BY <3>1 DEF SentInv
  <2>2. CASE Crash
    BY <2>2 DEF SentInv, Crash, Restart, Inflight, TypeOK, ServerType
  <2> QED
    BY <2>1, <2>2, BatchThreadKeepsSent DEF Next
<1> QED
  BY TypeCorrect, <1>1, <1>2, PTL DEF Spec, SentBytesAreFixed

----------------------------------------------------------------------------
(* The gate on cached counts. *)

(* A zip and its manifest are always written together. *)
WholeBatches == "zip_error" \notin Faults

Outstanding == {"ready", "inflight"}
Clear == \A c \in BatchIds : zipIn[c] \notin Outstanding
Alone(b, directory) == /\ zipIn[b] = directory
                       /\ \A c \in BatchIds : c # b => zipIn[c] \notin Outstanding
Counted(ready, inflight) == readyBatches = ready /\ inflightBatches = inflight

(* What is outstanding, and what the cache says of it, in each phase of the  *)
(* batch thread: the counts lag behind the zip while it is moved, and agree  *)
(* again when the thread decides, unless an error came between the two.      *)
GateInv ==
    /\ batchPc = "idle" =>
           \/ Clear /\ Counted(0, 0)
           \/ \E b \in BatchIds : Alone(b, "ready") /\ Counted(1, 0)
           \/ \E b \in BatchIds : Alone(b, "inflight") /\ Counted(0, 1)
           \/ Clear /\ Counted(0, 1) /\ "save_error" \in Faults /\ budget < MaxFaults
    /\ batchPc = "zip" => Clear /\ Counted(0, 0)
    /\ batchPc = "manifest" => Alone(batch, "ready") /\ Counted(0, 0)
    /\ batchPc = "built" => Alone(batch, "ready") /\ Counted(1, 0)
    /\ batchPc \in {"upload", "acked", "unlink", "cleanup", "failed", "park"} =>
           Alone(batch, "inflight") /\ Counted(0, 1)
    /\ batchPc = "finish" => Clear /\ Counted(0, 1)

(* What GateInv says of the directories. *)
LEMMA AloneInDirectory ==
    ASSUME NEW b \in BatchIds
    PROVE  /\ Alone(b, "ready") => Ready = {b} /\ Inflight = {}
           /\ Alone(b, "inflight") => Ready = {} /\ Inflight = {b}
  BY DEF Alone, Outstanding, Ready, Inflight

LEMMA ClearDirectories == Clear => Ready = {} /\ Inflight = {}
  BY DEF Clear, Outstanding, Ready, Inflight

LEMMA BatchThreadKeepsGate ==
    ASSUME WholeBatches, TypeOK, GateInv, BatchThread
    PROVE  GateInv'
<1> USE DEF TypeOK, BatchesType, BatchType, GateInv, Clear, Alone, Outstanding, Counted
<1>1. CASE SelectBatch
  BY <1>1 DEF SelectBatch, MayBuild
<1>2. CASE WriteZip
  BY <1>2 DEF WriteZip
<1>3. CASE WriteManifest
  BY <1>3 DEF WriteManifest
<1>4. CASE BuildRaises
  BY <1>4 DEF BuildRaises, Fault, WholeBatches
<1>5. CASE TakeReady
  <2>1. PICK b \in Ready : /\ zipIn' = [zipIn EXCEPT ![b] = "inflight"]
                           /\ IF b \in manifest
                              THEN batchPc' = "upload" /\ batch' = b
                              ELSE batchPc' = "idle" /\ batch' = 0
    BY <1>5 DEF TakeReady
  <2>2. Alone(b, "ready") /\ Counted(1, 0) /\ b \in BatchIds
    BY <1>5 DEF TakeReady, Ready
  <2>3. Counted(0, 1)'
    BY <1>5, <2>2 DEF TakeReady, OneLess
  <2>4. Alone(b, "inflight")'
    BY <2>1, <2>2
  <2> QED
    BY <2>1, <2>2, <2>3, <2>4
<1>6. CASE UploadSucceeds \/ UploadFails \/ BeginMarkUploaded \/ CleanupDirectories
           \/ CountAttempt
  BY <1>6 DEF UploadSucceeds, UploadFails, BeginMarkUploaded, CleanupDirectories,
     CountAttempt
<1>7. CASE UnlinkStaged
  BY <1>7 DEF UnlinkStaged
<1>8. CASE MoveToSent
  BY <1>8 DEF MoveToSent
<1>9. CASE FinishUploaded
  BY <1>9 DEF FinishUploaded, OneLess
<1>10. CASE ParkBatch
  BY <1>10 DEF ParkBatch, ParkDirectory, OneLess
<1>11. CASE SettleRaises
  <2>1. /\ UNCHANGED <<zipIn, readyBatches, inflightBatches>> /\ batchPc' = "idle"
        /\ batch \in BatchIds
        /\ "save_error" \in Faults /\ budget' < MaxFaults
    BY <1>11, ConstantsAssumption DEF SettleRaises, Fault, StatsType
  <2>2. CASE batchPc = "finish"
    <3>1. Clear /\ Counted(0, 1)
      BY <2>2
    <3> QED
      BY <2>1, <3>1
  <2>3. CASE batchPc # "finish"
    <3>1. Alone(batch, "inflight") /\ Counted(0, 1)
      BY <1>11, <2>3 DEF SettleRaises
    <3> QED
      BY <2>1, <3>1
  <2> QED
    BY <2>2, <2>3
<1> QED
  BY <1>1, <1>2, <1>3, <1>4, <1>5, <1>6, <1>7, <1>8, <1>9, <1>10, <1>11 DEF BatchThread

(* A restart counts what it finds: the one batch outstanding, or none. *)
LEMMA CrashKeepsGate ==
    ASSUME TypeOK, GateInv, Crash
    PROVE  GateInv'
<1> USE DEF TypeOK, BatchesType, BatchType
<1>1. /\ zipIn' = [b \in BatchIds |-> IF b \in Inflight THEN "ready" ELSE zipIn[b]]
      /\ readyBatches' = Cardinality(Ready \cup Inflight)
      /\ inflightBatches' = 0 /\ batchPc' = "idle"
  BY DEF Crash, Restart
<1>2. CASE Clear
  <2>1. Ready \cup Inflight = {} /\ Clear'
    BY <1>1, <1>2, ClearDirectories DEF Clear
  <2>2. Counted(0, 0)'
    BY <1>1, <2>1, FS_EmptySet DEF Counted
  <2> QED
    BY <1>1, <2>1, <2>2 DEF GateInv
<1>3. ASSUME NEW b \in BatchIds, Alone(b, "ready") \/ Alone(b, "inflight")
      PROVE  GateInv'
  <2>1. Ready \cup Inflight = {b}
    BY <1>3, AloneInDirectory
  <2>2. Alone(b, "ready")'
    BY <1>1, <1>3 DEF Alone, Outstanding, Inflight
  <2>3. Counted(1, 0)'
    BY <1>1, <2>1, FS_Singleton DEF Counted
  <2> QED
    BY <1>1, <2>2, <2>3 DEF GateInv
<1>4. Clear \/ \E b \in BatchIds : Alone(b, "ready") \/ Alone(b, "inflight")
  BY DEF GateInv
<1> QED
  BY <1>2, <1>3, <1>4

LEMMA GateInvariant == ASSUME WholeBatches PROVE Spec => []GateInv
<1>1. Init => GateInv
  BY DEF Init, GateInv, Clear, Outstanding, Counted
<1>2. TypeOK /\ GateInv /\ [Next]_vars => GateInv'
  <2> SUFFICES ASSUME TypeOK, GateInv, [Next]_vars PROVE GateInv'
    OBVIOUS
  <2>1. CASE UNCHANGED vars \/ Camera \/ ScanThread \/ CopyThread
    <3>1. /\ UNCHANGED <<zipIn, batchPc, batch, readyBatches, inflightBatches>>
          /\ budget' = budget \/ budget' = budget - 1
      BY <2>1 DEF vars, Fault, Camera, ScanThread, Capture, Delete, Scan, ScanPut, CopyThread,
             CopyGet, CopyPutBack, CopyStat, CopyClearPending, CopyOpen, CopyFile,
             CopyRaises, CopySaveStaged, CopySaveSource, SaveRaises
    <3>2. budget < MaxFaults => budget' < MaxFaults
      BY <3>1, ConstantsAssumption DEF TypeOK, StatsType
    <3> QED
      BY <3>1, <3>2 DEF GateInv, Clear, Alone, Counted
  <2> QED
    BY <2>1, BatchThreadKeepsGate, CrashKeepsGate DEF Next
<1> QED
  BY TypeCorrect, <1>1, <1>2, PTL DEF Spec

(* While no zip is left without its manifest, the gate on the cached counts  *)
(* keeps at most one batch outstanding, through crashes and cut files.       *)
THEOREM OneBatchOutstanding ==
    ASSUME WholeBatches
    PROVE  Spec => []AtMostOneOutstanding
<1>1. TypeOK /\ GateInv => AtMostOneOutstanding
  <2> SUFFICES ASSUME TypeOK, GateInv PROVE AtMostOneOutstanding
    OBVIOUS
  <2>1. Clear \/ \E b \in BatchIds : Alone(b, "ready") \/ Alone(b, "inflight")
    BY DEF GateInv, TypeOK, BatchType
  <2> QED
    BY <2>1, ClearDirectories, AloneInDirectory DEF AtMostOneOutstanding
<1> QED
  BY <1>1, TypeCorrect, GateInvariant, PTL

(* And the counts it decides by are the numbers of zips in the directories,  *)
(* but for one too many, with nothing outstanding, after an error.           *)
THEOREM CountsAreRight ==
    ASSUME WholeBatches
    PROVE  Spec => []CountsMatchDirectories
<1>1. GateInv => CountsMatchDirectories
  BY FS_EmptySet, FS_Singleton, ClearDirectories, AloneInDirectory
     DEF GateInv, CountsMatchDirectories, Counted, Stranded
<1> QED
  BY <1>1, GateInvariant, PTL

----------------------------------------------------------------------------
(* What can be uploaded. *)

(* The batches that can be taken and uploaded.                               *)
Readable == {b \in manifest : zipIn[b] \in Outstanding}

(* At most one of them is outstanding at a time, even where the counts drift *)
(* and zips without a manifest pile up: it closes the gate while it is in    *)
(* ready/ or in inflight/, stranded there by an error or not.                *)
ReadableInv ==
    /\ \A b \in manifest : b < nextBatch
    /\ batchPc \in {"zip", "manifest"} =>
           Readable = {} /\ batch \notin manifest /\ batch < nextBatch
    /\ \A b, c \in Readable : b = c
    /\ Readable # {} => readyBatches + inflightBatches > 0
    /\ batchPc \in {"upload", "acked", "unlink", "cleanup", "failed", "park"} =>
           batch \in Readable
    /\ batchPc = "finish" => Readable = {}

LEMMA BatchThreadKeepsReadable ==
    ASSUME TypeOK, ReadableInv, BatchThread
    PROVE  ReadableInv'
<1> USE DEF TypeOK, BatchesType, BatchType, StatsType
<1>1. ASSUME UNCHANGED <<zipIn, manifest, readyBatches, inflightBatches, nextBatch>>,
             \/ batchPc' = "idle"
             \/ /\ batch' = batch
                /\ batchPc \in {"upload", "acked", "unlink", "cleanup", "failed"}
                /\ batchPc' \notin {"zip", "manifest", "finish"}
      PROVE  ReadableInv'
  <2>1. Readable' = Readable
    BY <1>1 DEF Readable
  <2> QED
    BY <1>1, <2>1 DEF ReadableInv
<1>2. CASE UploadSucceeds \/ UploadFails \/ BeginMarkUploaded \/ UnlinkStaged
           \/ CleanupDirectories \/ CountAttempt \/ BuildRaises
  BY <1>1, <1>2 DEF UploadSucceeds, UploadFails, BeginMarkUploaded, UnlinkStaged,
     CleanupDirectories, CountAttempt, BuildRaises
<1>3. CASE SelectBatch
  <2>1. /\ UNCHANGED <<zipIn, manifest, readyBatches, inflightBatches>>
        /\ batchPc' = "zip" /\ batch' = nextBatch /\ nextBatch' = nextBatch + 1
        /\ readyBatches = 0 /\ inflightBatches = 0
    BY <1>3 DEF SelectBatch, MayBuild, NextId
  <2>2. Readable' = Readable /\ Readable = {}
    BY <2>1 DEF Readable, ReadableInv
  <2>3. nextBatch \in Nat /\ \A b \in manifest : b \in Nat
    BY ConstantsAssumption DEF BatchIds
  <2> QED
    BY <2>1, <2>2, <2>3 DEF ReadableInv
<1>4. CASE WriteZip
  <2>1. /\ UNCHANGED <<manifest, batch, nextBatch, readyBatches, inflightBatches>>
        /\ batchPc = "zip" /\ batchPc' = "manifest"
        /\ zipIn' = [zipIn EXCEPT ![batch] = "ready"]
    BY <1>4 DEF WriteZip
  <2>2. Readable' = {}
    BY <2>1 DEF Readable, ReadableInv
  <2> QED
    BY <2>1, <2>2 DEF ReadableInv
<1>5. CASE WriteManifest
  <2>1. /\ UNCHANGED <<zipIn, batch, nextBatch, inflightBatches>>
        /\ batchPc = "manifest" /\ batchPc' = "built"
        /\ manifest' = manifest \cup {batch} /\ readyBatches' = readyBatches + 1
    BY <1>5 DEF WriteManifest
  <2>2. Readable' \subseteq {batch}
    BY <2>1 DEF Readable, ReadableInv
  <2> QED
    BY <2>1, <2>2 DEF ReadableInv
<1>6. CASE TakeReady
  <2>1. PICK b \in Ready : /\ zipIn' = [zipIn EXCEPT ![b] = "inflight"]
                           /\ IF b \in manifest
                              THEN batchPc' = "upload" /\ batch' = b
                              ELSE batchPc' = "idle" /\ batch' = 0
    BY <1>6 DEF TakeReady
  <2>2. /\ UNCHANGED <<manifest, nextBatch>> /\ inflightBatches' = inflightBatches + 1
        /\ readyBatches' \in Nat
    BY <1>6 DEF TakeReady, OneLess
  <2>3. Readable' = Readable
    BY <2>1, <2>2 DEF Readable, Outstanding, Ready
  <2>4. b \in manifest => b \in Readable
    BY DEF Readable, Outstanding, Ready
  <2>5. readyBatches' + inflightBatches' > 0
    <3>1. inflightBatches \in Nat /\ inflightBatches' = inflightBatches + 1
      BY <2>2
    <3>2. readyBatches' \in Nat
      BY <2>2
    <3>3. \A m, n \in Nat : m + (n + 1) > 0
      OBVIOUS
    <3> QED
      BY <3>1, <3>2, <3>3
  <2>6. \/ batchPc' = "idle"
        \/ batchPc' = "upload" /\ batch' \in Readable
    BY <2>1, <2>4
  <2> QED
    BY <2>2, <2>3, <2>5, <2>6 DEF ReadableInv
<1>7. CASE MoveToSent
  <2>1. /\ UNCHANGED <<manifest, batch, nextBatch, readyBatches, inflightBatches>>
        /\ batchPc = "unlink" /\ batchPc' = "finish"
        /\ zipIn' = [zipIn EXCEPT ![batch] = "sent"]
    BY <1>7 DEF MoveToSent
  <2>2. Readable' = {}
    BY <2>1 DEF Readable, ReadableInv, Outstanding
  <2> QED
    BY <2>1, <2>2 DEF ReadableInv
<1>8. CASE FinishUploaded
  <2>1. /\ UNCHANGED <<zipIn, nextBatch>> /\ manifest' \subseteq manifest
        /\ batchPc = "finish" /\ batchPc' = "idle"
    BY <1>8 DEF FinishUploaded
  <2>2. Readable' = {}
    BY <2>1 DEF Readable, ReadableInv
  <2> QED
    BY <2>1, <2>2 DEF ReadableInv
<1>9. CASE ParkBatch
  <2>1. /\ UNCHANGED <<manifest, nextBatch>>
        /\ batchPc = "park" /\ batchPc' = "idle"
        /\ zipIn' = [zipIn EXCEPT ![batch] = ParkDirectory(batch)]
        /\ inflightBatches' = OneLess(inflightBatches)
        /\ readyBatches' = IF ParkDirectory(batch) = "ready" THEN readyBatches + 1
                                                             ELSE readyBatches
        /\ ParkDirectory(batch) \in {"failed", "ready"}
    BY <1>9 DEF ParkBatch, ParkDirectory
  <2>2. Readable' \subseteq Readable /\ Readable = {batch}
    BY <2>1 DEF Readable, ReadableInv, Outstanding
  <2>3. batch \in Readable' => ParkDirectory(batch) = "ready"
    BY <2>1 DEF Readable, Outstanding
  <2>4. inflightBatches' \in Nat
    BY <2>1 DEF OneLess
  <2>5. Readable' # {} => readyBatches' + inflightBatches' > 0
    BY <2>1, <2>2, <2>3, <2>4
  <2> QED
    BY <2>1, <2>2, <2>5 DEF ReadableInv
<1>10. CASE SettleRaises
  <2>1. /\ UNCHANGED <<zipIn, nextBatch, readyBatches, inflightBatches>>
        /\ manifest' \subseteq manifest /\ batchPc' = "idle"
    BY <1>10 DEF SettleRaises
  <2>2. Readable' \subseteq Readable
    BY <2>1 DEF Readable
  <2> QED
    BY <2>1, <2>2 DEF ReadableInv
<1> QED
  BY <1>2, <1>3, <1>4, <1>5, <1>6, <1>7, <1>8, <1>9, <1>10 DEF BatchThread

(* A restart counts it again. *)
LEMMA CrashKeepsReadable ==
    ASSUME TypeOK, ReadableInv, Crash
    PROVE  ReadableInv'
<1>1. /\ zipIn' = [b \in BatchIds |-> IF b \in Inflight THEN "ready" ELSE zipIn[b]]
      /\ readyBatches' = Cardinality(Ready \cup Inflight)
      /\ inflightBatches' = 0 /\ batchPc' = "idle"
      /\ manifest' \subseteq manifest /\ nextBatch' = nextBatch
  BY DEF Crash, Restart
<1>2. Readable' \subseteq Readable /\ Readable \subseteq Ready \cup Inflight
  BY <1>1 DEF Readable, Outstanding, Ready, Inflight, TypeOK, BatchesType
<1>3. Readable' # {} => readyBatches' + inflightBatches' > 0
  BY <1>1, <1>2, CountIsNat
<1> QED
  BY <1>1, <1>2, <1>3 DEF ReadableInv

LEMMA ReadableInvariant == Spec => []ReadableInv
<1>1. Init => ReadableInv
  BY DEF Init, ReadableInv, Readable
<1>2. TypeOK /\ ReadableInv /\ [Next]_vars => ReadableInv'
  <2> SUFFICES ASSUME TypeOK, ReadableInv, [Next]_vars PROVE ReadableInv'
    OBVIOUS
  <2>1. CASE UNCHANGED vars \/ Camera \/ ScanThread \/ CopyThread
    <3>1. UNCHANGED <<batches, batchThread, stats>>
      BY <2>1 DEF vars, Camera, ScanThread, Capture, Delete, Scan, ScanPut, CopyThread,
             CopyGet, CopyPutBack, CopyStat, CopyClearPending, CopyOpen, CopyFile,
             CopyRaises, CopySaveStaged, CopySaveSource, SaveRaises
    <3> QED
      BY <3>1 DEF ReadableInv, Readable
  <2> QED
    BY <2>1, BatchThreadKeepsReadable, CrashKeepsReadable DEF Next
<1> QED
  BY TypeCorrect, <1>1, <1>2, PTL DEF Spec

----------------------------------------------------------------------------
(* The buffer implements Custody. *)

Settled == {it \in Items : InAcked(it)}
Transfer == Buffer!Next \/ UNCHANGED <<Indexed, Settled>>

(* What is in a batch, or about to be zipped, is held or acknowledged. *)
BatchesAreHeld ==
    /\ batchPc = "zip" => selected \subseteq Indexed
    /\ \A b \in BatchIds, it \in Items :
           zip[b][it] # Missing => it \in Indexed \/ InAcked(it)

CustodyInv == TypeOK /\ DurableInv /\ BatchesAreHeld

(* A step that holds one more item, or lets go of acknowledged ones. *)
LEMMA HoldIsTransfer ==
    ASSUME NEW it \in Items, Indexed' \in {Indexed, Indexed \cup {it}}, Settled' = Settled
    PROVE  Transfer
  BY DEF Transfer, Buffer!Next, Buffer!Hold, Settled

LEMMA ReleaseIsTransfer ==
    ASSUME Indexed' \subseteq Indexed, Indexed \ Indexed' \subseteq Settled,
           Settled' = Settled
    PROVE  Transfer
<1> DEFINE gone == Indexed \ Indexed'
<1>1. gone \in SUBSET Items /\ Buffer!Release(gone)
  BY DEF Buffer!Release, Settled, Indexed
<1> QED
  BY <1>1 DEF Transfer, Buffer!Next

LEMMA SettleIsTransfer ==
    ASSUME NEW items \in SUBSET Items, items \subseteq Indexed \cup Settled,
           Indexed' = Indexed, Settled' = Settled \cup items
    PROVE  Transfer
<1>1. Buffer!Settle(items)
  BY DEF Buffer!Settle, Settled
<1> QED
  BY <1>1 DEF Transfer, Buffer!Next

(* When nothing is acknowledged, the batches stay held if the index only     *)
(* grows, or loses acknowledged items.                                       *)
LEMMA HeldIsKept ==
    ASSUME BatchesAreHeld, UNCHANGED <<zip, acked>>, Indexed \ Indexed' \subseteq Settled,
           batchPc' = "zip" => batchPc = "zip" /\ selected' = selected
                               /\ Indexed \subseteq Indexed'
    PROVE  BatchesAreHeld' /\ Settled' = Settled
  BY DEF BatchesAreHeld, Settled, InAcked

LEMMA OthersTransfer ==
    ASSUME WholeFiles, TypeOK, BatchesAreHeld, Camera \/ ScanThread \/ CopyThread
    PROVE  Transfer /\ BatchesAreHeld'
<1>1. UNCHANGED <<zip, acked, batchPc, selected>>
  BY DEF Camera, ScanThread, Capture, Delete, Scan, ScanPut, CopyThread, CopyGet,
         CopyPutBack, CopyStat, CopyClearPending, CopyOpen, CopyFile, CopyRaises,
         CopySaveStaged, CopySaveSource, SaveRaises
<1>2. ASSUME NEW it \in Items, Indexed' \in {Indexed, Indexed \cup {it}}
      PROVE  Transfer /\ BatchesAreHeld'
  BY <1>1, <1>2, HeldIsKept, HoldIsTransfer
<1>3. ASSUME Indexed' = Indexed PROVE Transfer /\ BatchesAreHeld'
  BY <1>1, <1>3, HeldIsKept DEF Transfer
<1>4. CASE CopyOpen \/ CopyFile
  <2>1. candidate \in Items /\ version[candidate[1]] \in Nat /\ stagedAt' = stagedAt
    BY <1>4 DEF CopyOpen, CopyFile, TypeOK, SourceType, CopyType, Items
  <2>2. /\ staged'[candidate] # Missing
        /\ \A it \in Items \ {candidate} : staged'[it] = staged[it]
    BY <1>4, <2>1 DEF CopyOpen, CopyFile, TypeOK, StagedType, Missing, Partial
  <2>3. Indexed' \in {Indexed, Indexed \cup {candidate}}
    BY <2>1, <2>2 DEF Indexed
  <2> QED
    BY <1>2, <2>1, <2>3
<1>5. CASE CopySaveStaged
  <2>1. candidate \in Items /\ stagedAt' = WithEntry(candidate) /\ staged' = staged
    BY <1>5 DEF CopySaveStaged, TypeOK, CopyType
  <2>2. Indexed' \in {Indexed, Indexed \cup {candidate}}
    BY <2>1, WithEntryEntries DEF Indexed
  <2> QED
    BY <1>2, <2>1, <2>2
<1>6. CASE UNCHANGED <<staged, stagedAt>>
  BY <1>3, <1>6 DEF Indexed
<1>7. CASE SaveRaises
  BY <1>6, <1>7 DEF SaveRaises, CutShort, WholeFiles
<1> QED
  BY <1>4, <1>5, <1>6, <1>7
     DEF Camera, ScanThread, Capture, Delete, Scan, ScanPut, CopyThread, CopyGet,
         CopyPutBack, CopyStat, CopyClearPending, CopyRaises, CopySaveSource

LEMMA BatchThreadTransfers ==
    ASSUME WholeFiles, CustodyInv, BatchThread
    PROVE  Transfer /\ BatchesAreHeld'
<1>0. TypeOK /\ DurableInv /\ BatchesAreHeld
  BY DEF CustodyInv
<1>1. ASSUME UNCHANGED <<staged, stagedAt, zip, acked>>, batchPc' # "zip"
      PROVE  Transfer /\ BatchesAreHeld'
  <2>1. Indexed' = Indexed
    BY <1>1 DEF Indexed
  <2> QED
    BY <1>0, <1>1, <2>1, HeldIsKept DEF Transfer
<1>2. CASE WriteManifest \/ BuildRaises \/ TakeReady \/ UploadFails \/ BeginMarkUploaded
           \/ CleanupDirectories \/ MoveToSent \/ CountAttempt \/ ParkBatch
  BY <1>1, <1>2 DEF WriteManifest, BuildRaises, TakeReady, UploadFails,
     BeginMarkUploaded, CleanupDirectories, MoveToSent, CountAttempt, ParkBatch
<1>9. CASE SettleRaises
  BY <1>1, <1>9 DEF SettleRaises, CutShort, WholeFiles
<1>3. CASE SelectBatch
  <2>1. Indexed' = Indexed /\ Settled' = Settled /\ selected' \subseteq Indexed
    BY <1>3 DEF SelectBatch, Indexed, Settled, InAcked, BatchEntries, OldestPerPath
  <2> QED
    BY <1>0, <1>3, <2>1 DEF SelectBatch, Transfer, BatchesAreHeld, InAcked
<1>4. CASE WriteZip
  <2>1. batch \in BatchIds /\ batch \notin acked /\ acked \subseteq BatchIds
    BY <1>0, <1>4 DEF WriteZip, TypeOK, BatchType, ServerType, DurableInv, BatchPlace
  <2>2. \A b \in BatchIds : b # batch => zip'[b] = zip[b]
    BY <1>0, <1>4, <2>1 DEF WriteZip, TypeOK, BatchesType
  <2>3. \A it \in Items : zip'[batch][it] # Missing => it \in Indexed
    BY <1>0, <1>4, <2>1 DEF WriteZip, TypeOK, BatchesType, BatchesAreHeld
  <2>4. Indexed' = Indexed /\ \A it : InAcked(it)' <=> InAcked(it)
    BY <1>4, <2>1, <2>2 DEF WriteZip, Indexed, InAcked
  <2>5. BatchesAreHeld'
    BY <1>0, <1>4, <2>1, <2>2, <2>3, <2>4 DEF WriteZip, BatchesAreHeld
  <2> QED
    BY <2>4, <2>5 DEF Transfer, Settled
<1>5. CASE UploadSucceeds
  <2>1. Indexed' = Indexed /\ acked' = acked \cup {batch} /\ zip' = zip
    BY <1>5 DEF UploadSucceeds, Indexed
  <2>2. batch \in BatchIds
    BY <1>0, <1>5 DEF UploadSucceeds, TypeOK, BatchType
  <2>3. Settled' = Settled \cup Contents(batch)
    BY <2>1 DEF Settled, InAcked, Contents
  <2>4. Contents(batch) \in SUBSET Items /\ Contents(batch) \subseteq Indexed \cup Settled
    BY <1>0, <2>2 DEF BatchesAreHeld, Contents, Settled
  <2>5. BatchesAreHeld'
    BY <1>0, <1>5, <2>1 DEF UploadSucceeds, BatchesAreHeld, InAcked
  <2> QED
    BY <2>1, <2>3, <2>4, <2>5, SettleIsTransfer
<1>6. ASSUME Indexed' \subseteq Indexed, Indexed \ Indexed' \subseteq Settled,
             UNCHANGED <<zip, acked>>, batchPc' # "zip"
      PROVE  Transfer /\ BatchesAreHeld'
  BY <1>0, <1>6, HeldIsKept, ReleaseIsTransfer
<1>7. CASE UnlinkStaged
  <2>1. PICK d \in selected : staged' = [staged EXCEPT ![d] = Missing]
    BY <1>7 DEF UnlinkStaged
  <2>2. d \in Items /\ InAcked(d)
    BY <1>0, <1>7 DEF UnlinkStaged, TypeOK, BatchType, DurableInv, Unlinking, BatchPlace,
       InAcked
  <2>3. Indexed' \subseteq Indexed /\ Indexed \ Indexed' \subseteq {d}
    BY <1>0, <1>7, <2>1, <2>2 DEF UnlinkStaged, Indexed, TypeOK, StagedType
  <2> QED
    BY <1>6, <1>7, <2>2, <2>3 DEF UnlinkStaged, Settled
<1>8. CASE FinishUploaded
  <2>1. \A it \in Items : stagedAt'[it] > 0 <=> it \in remaining
    BY <1>0, <1>8, OrderEntries DEF FinishUploaded, TypeOK, BatchType
  <2>2. Indexed' \subseteq Indexed /\ Indexed \ Indexed' \subseteq Settled
    BY <1>0, <1>8, <2>1 DEF FinishUploaded, Indexed, Settled, DurableInv, Unlinking,
       LockHeldByBatch
  <2> QED
    BY <1>6, <1>8, <2>2 DEF FinishUploaded
<1> QED
  BY <1>2, <1>3, <1>4, <1>5, <1>7, <1>8, <1>9 DEF BatchThread

LEMMA CrashTransfers ==
    ASSUME WholeFiles, BatchesAreHeld, Crash
    PROVE  Transfer /\ BatchesAreHeld'
<1>1. PICK ts, ti, tm \in BOOLEAN : Restart(ts, ti, tm)
  BY DEF Crash
<1>2. /\ UNCHANGED <<staged, zip, acked>> /\ batchPc' = "idle"
      /\ stagedAt' = Order(Indexed, stagedAt)
  BY <1>1 DEF Restart, WholeFiles
<1>3. Indexed' = Indexed
  <2>1. Indexed \in SUBSET Items
    BY DEF Indexed
  <2>2. \A it \in Items : stagedAt'[it] > 0 <=> it \in Indexed
    BY <1>2, <2>1, OrderEntries
  <2> QED
    BY <1>2, <2>2 DEF Indexed
<1> QED
  BY <1>2, <1>3, HeldIsKept DEF Transfer

(* With files that are written whole the buffer implements Custody: no       *)
(* operation, fault or restart lets go of an image that the server has not   *)
(* acknowledged.                                                             *)
THEOREM BufferImplementsCustody ==
    ASSUME WholeFiles
    PROVE  Spec => BufferKeepsCustody
<1>1. Init => Buffer!Init /\ BatchesAreHeld
  BY DEF Init, Buffer!Init, BatchesAreHeld, Indexed, InAcked
<1>2. TypeOK /\ DurableInv /\ BatchesAreHeld /\ [Next]_vars
          => BatchesAreHeld' /\ [Buffer!Next]_<<Indexed, Settled>>
  <2> SUFFICES ASSUME TypeOK, DurableInv, BatchesAreHeld, [Next]_vars
               PROVE  Transfer /\ BatchesAreHeld'
    BY DEF Transfer
  <2>1. CASE UNCHANGED vars
    BY <2>1 DEF vars, Transfer, BatchesAreHeld, Indexed, Settled, InAcked
  <2> QED
    BY <2>1, OthersTransfer, BatchThreadTransfers, CrashTransfers DEF Next, CustodyInv
<1> QED
  BY TypeCorrect, DurableInvariant, <1>1, <1>2, PTL
     DEF Spec, BufferKeepsCustody, Buffer!Spec, Buffer!vars, Settled

----------------------------------------------------------------------------
(* The order of versions. *)

(* Where an image version can be between the copy thread and the server: in  *)
(* the index, chosen for a batch, or in a batch that may still be sent and   *)
(* was not stored.                                                           *)
Chosen(it) == batchPc = "zip" /\ it \in selected
Unsent == {b \in BatchIds :
              /\ b \notin received
              /\ \/ b \in manifest /\ zipIn[b] \in Outstanding
                 \/ batchPc = "manifest" /\ b = batch}
Inside(it) == \/ it \in Indexed
              \/ Chosen(it)
              \/ \E b \in Unsent : zip[b][it] # Missing

(* Version v of image i is as new as all of that and as the server's. *)
AsNew(i, v) ==
    /\ latest[i] <= v
    /\ \A it \in Items : it[1] = i /\ (stagedAt[it] > 0 \/ Inside(it)) => it[2] <= v

(* The versions of one image grow along the pipeline: the server's, those in *)
(* batches by batch id, those chosen, those indexed by staged_at, the one    *)
(* being copied, the source's.                                               *)
LatestFirst == \A it \in Items : Inside(it) => latest[it[1]] <= it[2]
BatchesFirst ==
    \A b \in Unsent, e, f \in Items :
        /\ e[1] = f[1] /\ zip[b][e] # Missing
        /\ f \in Indexed \/ Chosen(f) \/ \E c \in Unsent : b < c /\ zip[c][f] # Missing
        => e[2] <= f[2]
ChosenFirst ==
    \A e, f \in Items : e[1] = f[1] /\ Chosen(e) /\ f \in Indexed => e[2] <= f[2]
StagedInOrder ==
    \A e, f \in Items : /\ e[1] = f[1] /\ stagedAt[e] > 0 /\ stagedAt[e] <= stagedAt[f]
                        => e[2] <= f[2]
Copies == {"copy", "copying", "save_staged", "save_source"}
CopyIsNewest == copyPc \in Copies => /\ candidate[2] <= version[candidate[1]]
                                     /\ AsNew(candidate[1], candidate[2])
SourceIsNewest == \A i \in Images : AsNew(i, version[i])

(* Batches are numbered in the order they are built, and sent in that order. *)
IdsInOrder ==
    /\ \A b \in Unsent : b < nextBatch
    /\ batchPc = "zip" => batch < nextBatch /\ \A c \in Unsent : c < batch
    /\ batchPc = "manifest" => zipIn[batch] = "ready" /\ batch < nextBatch
    /\ batchPc \in {"upload", "failed", "park"} => batch \in Inflight \cap manifest
    /\ batchPc = "upload" => \A c \in Unsent : batch <= c
PositionsFit == \A it \in Items : stagedAt[it] <= Cardinality(Items)
SavedIsIndexed == LockHeldByBatch => \A it \in remaining : stagedAt[it] > 0

OrderInv == /\ LatestFirst /\ BatchesFirst /\ ChosenFirst /\ StagedInOrder
            /\ CopyIsNewest /\ SourceIsNewest /\ IdsInOrder /\ SavedIsIndexed
            /\ PositionsFit

(* Saving an index keeps the order of the entries it keeps. *)
LEMMA OrderIsKept ==
    ASSUME NEW entries \in SUBSET Items, NEW at \in [Items -> Nat],
           NEW e \in entries, NEW f \in Items,
           Order(entries, at)[f] > 0, Order(entries, at)[e] <= Order(entries, at)[f]
    PROVE  f \in entries /\ at[e] <= at[f]
<1>1. f \in entries
  BY OrderEntries
<1> DEFINE Before(x) == {y \in entries : at[y] < at[x]}
<1>2. IsFiniteSet(Before(e)) /\ Before(e) \in SUBSET Items
  BY ItemsFinite, FS_Subset
<1>3. IsFiniteSet(Before(f)) /\ Before(f) \in SUBSET Items
  BY ItemsFinite, FS_Subset
<1>4. Cardinality(Before(e)) \in Nat /\ Cardinality(Before(f)) \in Nat
  BY <1>2, <1>3, FS_CardinalityType
<1>5. Cardinality(Before(e)) <= Cardinality(Before(f))
  <2>1. Order(entries, at)[e] = 1 + Cardinality(Before(e))
    BY DEF Order
  <2>2. Order(entries, at)[f] = 1 + Cardinality(Before(f))
    BY <1>1 DEF Order
  <2> QED
    BY <1>4, <2>1, <2>2
<1>6. ASSUME at[f] < at[e] PROVE FALSE
  <2>1. Before(f) \subseteq Before(e) /\ f \in Before(e) /\ f \notin Before(f)
    BY <1>1, <1>6
  <2>2. /\ Cardinality(Before(f)) <= Cardinality(Before(e))
        /\ Cardinality(Before(f)) = Cardinality(Before(e)) => Before(f) = Before(e)
    BY <1>2, <2>1, FS_Subset
  <2> QED
    BY <1>4, <1>5, <2>1, <2>2
<1> QED
  BY <1>1, <1>6

(* A position in an index is at most the number of items. *)
LEMMA OrderFits ==
    ASSUME NEW entries \in SUBSET Items, NEW at \in [Items -> Nat]
    PROVE  \A it \in Items : Order(entries, at)[it] <= Cardinality(Items)
<1> TAKE it \in Items
<1> DEFINE before == {e \in entries : at[e] < at[it]}
<1>1. Cardinality(Items) \in Nat
  BY ItemsFinite, FS_CardinalityType
<1>2. ~(at[it] < at[it])
  OBVIOUS
<1>3. before \subseteq Items /\ it \notin before
  BY <1>2
<1>4. /\ Cardinality(before) \in Nat
      /\ Cardinality(before) < Cardinality(Items)
  BY <1>1, <1>3, ItemsFinite, FS_Subset, FS_CardinalityType
<1> QED
  BY <1>1, <1>4 DEF Order

(* A step that only takes versions out of the middle of the pipeline. *)
LEMMA PipelineShrinks ==
    ASSUME OrderInv, UNCHANGED <<version, latest, zip>>,
           Unsent' \subseteq Unsent, Indexed' \subseteq Indexed,
           \A it \in Items : Chosen(it)' => Chosen(it),
           \A it \in Items : stagedAt'[it] > 0 => stagedAt[it] > 0,
           \A e, f \in Items : stagedAt'[e] > 0 /\ stagedAt'[e] <= stagedAt'[f]
                                  => stagedAt[e] <= stagedAt[f],
           copyPc' \in Copies => copyPc \in Copies /\ candidate' = candidate
    PROVE  /\ LatestFirst' /\ BatchesFirst' /\ ChosenFirst' /\ StagedInOrder'
           /\ CopyIsNewest' /\ SourceIsNewest'
<1>1. \A it \in Items : Inside(it)' => Inside(it)
  BY DEF Inside
<1>2. LatestFirst' /\ ChosenFirst' /\ StagedInOrder'
  BY <1>1 DEF OrderInv, LatestFirst, ChosenFirst, StagedInOrder
<1>3. BatchesFirst'
  BY DEF OrderInv, BatchesFirst
<1>4. \A i, v : AsNew(i, v) => AsNew(i, v)'
  BY <1>1 DEF AsNew
<1> QED
  BY <1>2, <1>3, <1>4 DEF OrderInv, CopyIsNewest, SourceIsNewest

(* A copy with an entry already in the index makes it count, as the newest.  *)
LEMMA CopyFileKeepsOrder ==
    ASSUME TypeOK, OrderInv, CopyOpen \/ CopyFile
    PROVE  OrderInv'
<1> DEFINE c == candidate
<1>1. /\ copyPc \in Copies /\ copyPc' \in Copies
      /\ UNCHANGED <<version, latest, stagedAt, batches, batchThread, received, candidate>>
  BY DEF CopyOpen, CopyFile, Copies
<1>2. c \in Items /\ AsNew(c[1], c[2])
  BY <1>1 DEF OrderInv, CopyIsNewest, TypeOK, CopyType, Copies
<1>3. Unsent' = Unsent /\ \A it : Chosen(it)' <=> Chosen(it)
  BY <1>1 DEF Unsent, Chosen
<1>4. \A it \in Indexed' : it \in Indexed \/ (it = c /\ stagedAt[c] > 0)
  BY <1>1, <1>2 DEF CopyOpen, CopyFile, TypeOK, StagedType, Indexed
<1>5. \A it \in Items : Inside(it)' => Inside(it) \/ (it = c /\ stagedAt[c] > 0)
  BY <1>1, <1>3, <1>4 DEF Inside
<1>6. \A it \in Items : it[1] = c[1] /\ Inside(it) => it[2] <= c[2]
  BY <1>2 DEF AsNew
<1>7. LatestFirst'
  BY <1>1, <1>2, <1>5 DEF OrderInv, LatestFirst, AsNew
<1>8. BatchesFirst' /\ ChosenFirst'
  BY <1>1, <1>3, <1>4, <1>6 DEF OrderInv, BatchesFirst, ChosenFirst, Inside
<1>9. \A i, v : AsNew(i, v) => AsNew(i, v)'
  BY <1>1, <1>5 DEF AsNew
<1>10. CopyIsNewest' /\ SourceIsNewest' /\ StagedInOrder'
  BY <1>1, <1>9 DEF OrderInv, CopyIsNewest, SourceIsNewest, StagedInOrder
<1>11. IdsInOrder' /\ SavedIsIndexed' /\ PositionsFit'
  BY <1>1, <1>3 DEF OrderInv, PositionsFit, IdsInOrder, SavedIsIndexed, Inflight, LockHeldByBatch
<1> QED
  BY <1>7, <1>8, <1>10, <1>11 DEF OrderInv

(* The copied version becomes the last entry. *)
LEMMA SaveStagedKeepsOrder ==
    ASSUME TypeOK, OrderInv, CopySaveStaged
    PROVE  OrderInv'
<1> DEFINE c == candidate
           at == [stagedAt EXCEPT ![c] = Cardinality(Items) + 1]
           kept == Indexed \cup {c}
<1>1. /\ copyPc \in Copies /\ copyPc' \in Copies /\ ~LockHeldByBatch
      /\ stagedAt' = Order(kept, at)
      /\ UNCHANGED <<version, latest, staged, batches, batchThread, received, candidate>>
  BY DEF CopySaveStaged, WithEntry, Copies
<1>2. c \in Items /\ AsNew(c[1], c[2]) /\ c[2] \in Nat
  BY <1>1 DEF OrderInv, CopyIsNewest, TypeOK, CopyType, Copies, Items, Versions
<1>3. Unsent' = Unsent /\ \A it : Chosen(it)' <=> Chosen(it)
  BY <1>1 DEF Unsent, Chosen
<1>4. kept \in SUBSET Items
  BY <1>2 DEF Indexed
<1>16. at \in [Items -> Nat]
  <2>1. Cardinality(Items) + 1 \in Nat
    BY ItemsFinite, FS_CardinalityType
  <2> QED
    BY <2>1 DEF TypeOK, StagedType
<1>5. \A it \in Items : stagedAt'[it] > 0 <=> it \in Indexed \/ it = c
  BY <1>1, <1>4, OrderEntries
<1>6. \A it \in Items : (stagedAt'[it] > 0 \/ Inside(it)')
                           => stagedAt[it] > 0 \/ Inside(it) \/ it = c
  BY <1>1, <1>3, <1>5 DEF Inside, Indexed
<1>7. Indexed' \subseteq Indexed \cup {c}
  BY <1>1, <1>5 DEF Indexed
<1>8. \A it \in Items : it[1] = c[1] /\ Inside(it) => it[2] <= c[2]
  BY <1>2 DEF AsNew
<1>9. LatestFirst'
  BY <1>1, <1>2, <1>3, <1>7 DEF OrderInv, LatestFirst, AsNew, Inside
<1>10. BatchesFirst' /\ ChosenFirst'
  BY <1>1, <1>3, <1>7, <1>8 DEF OrderInv, BatchesFirst, ChosenFirst, Inside
<1>11. ASSUME NEW i \in Images, NEW v, AsNew(i, v), i = c[1] => c[2] <= v
       PROVE  AsNew(i, v)'
  BY <1>1, <1>6, <1>11 DEF AsNew
<1>12. CopyIsNewest' /\ SourceIsNewest'
  <2>1. c[1] \in Images
    BY <1>2 DEF Items
  <2> QED
    BY <1>1, <1>2, <1>11, <2>1 DEF OrderInv, CopyIsNewest, SourceIsNewest
<1>13. StagedInOrder'
  <2> SUFFICES ASSUME NEW e \in Items, NEW f \in Items, e[1] = f[1],
                      stagedAt'[e] > 0, stagedAt'[e] <= stagedAt'[f]
               PROVE  e[2] <= f[2]
    BY DEF StagedInOrder
  <2>2. stagedAt' \in [Items -> Nat]
    BY <1>1, <1>4, OrderEntries
  <2>3. e \in kept /\ f \in kept /\ at[e] <= at[f]
    <3>1. stagedAt'[e] > 0 /\ stagedAt'[f] > 0
      BY <2>2
    <3>2. e \in kept /\ f \in kept
      BY <1>5, <3>1
    <3> QED
      BY <1>1, <1>4, <1>16, <3>1, <3>2, OrderIsKept
  <2>4. CASE f = c
    BY <1>2, <2>3, <2>4, e \in Indexed \/ e = c DEF AsNew, Indexed
  <2>5. CASE f # c /\ e # c
    BY <2>3, <2>5 DEF TypeOK, StagedType, OrderInv, StagedInOrder, Indexed
  <2>6. CASE f # c /\ e = c
    <3>1. at[e] = Cardinality(Items) + 1 /\ at[f] = stagedAt[f]
      BY <1>2, <2>6 DEF TypeOK, StagedType
    <3>2. stagedAt[f] <= Cardinality(Items)
      BY DEF OrderInv, PositionsFit
    <3>3. stagedAt[f] \in Nat /\ Cardinality(Items) \in Nat
      BY ItemsFinite, FS_CardinalityType DEF TypeOK, StagedType
    <3> QED
      BY <2>3, <3>1, <3>2, <3>3
  <2> QED
    BY <2>4, <2>5, <2>6
<1>14. PositionsFit'
  BY <1>1, <1>4, <1>16, OrderFits DEF PositionsFit
<1>15. IdsInOrder' /\ SavedIsIndexed'
  BY <1>1, <1>3 DEF OrderInv, IdsInOrder, SavedIsIndexed, Inflight, LockHeldByBatch
<1> QED
  BY <1>9, <1>10, <1>12, <1>13, <1>14, <1>15 DEF OrderInv

(* A step that leaves the index and the batches alone and copies nothing new. *)
LEMMA PipelineStays ==
    ASSUME OrderInv, UNCHANGED <<version, latest, zip, staged, stagedAt, received>>,
           Unsent' \subseteq Unsent, batchPc' # "zip",
           copyPc' \in Copies => copyPc \in Copies /\ candidate' = candidate
    PROVE  /\ LatestFirst' /\ BatchesFirst' /\ ChosenFirst' /\ StagedInOrder'
           /\ CopyIsNewest' /\ SourceIsNewest' /\ PositionsFit'
<1>1. Indexed' = Indexed
  BY DEF Indexed
<1>2. \A it \in Items : Chosen(it)' => Chosen(it)
  BY DEF Chosen
<1>3. PositionsFit'
  BY DEF OrderInv, PositionsFit
<1> QED
  BY <1>1, <1>2, <1>3, PipelineShrinks

(* An error that ends what a thread was doing, and may cost the index or a    *)
(* manifest.                                                                  *)
LEMMA ErrorKeepsOrder ==
    ASSUME TypeOK, OrderInv, SaveRaises \/ SettleRaises
    PROVE  OrderInv'
<1>1. /\ UNCHANGED <<version, latest, staged, zip, zipIn, received, nextBatch>>
      /\ manifest' \subseteq manifest
      /\ stagedAt' = stagedAt \/ stagedAt' = [it \in Items |-> 0]
      /\ UNCHANGED <<manifest, batchPc, batch, selected>> \/ batchPc' = "idle"
      /\ UNCHANGED copyThread \/ copyPc' = "idle"
  BY DEF SaveRaises, SettleRaises, CutShort
<1>2. /\ Indexed' \subseteq Indexed /\ \A it \in Items : Chosen(it)' => Chosen(it)
      /\ \A it \in Items : stagedAt'[it] > 0 => stagedAt[it] > 0
  BY <1>1 DEF Indexed, Chosen
<1>3. \A e, f \in Items : stagedAt'[e] > 0 /\ stagedAt'[e] <= stagedAt'[f]
                               => stagedAt[e] <= stagedAt[f]
  BY <1>1
<1>4. Unsent' \subseteq Unsent
  BY <1>1 DEF Unsent
<1>5. PositionsFit'
  BY <1>1, ItemsFinite, FS_CardinalityType DEF OrderInv, PositionsFit
<1>6. IdsInOrder'
  BY <1>1, <1>4 DEF OrderInv, IdsInOrder, Inflight
<1>7. SavedIsIndexed'
  BY DEF SaveRaises, SettleRaises, CutShort, LockHeldByBatch, OrderInv, SavedIsIndexed
<1> QED
  BY <1>1, <1>2, <1>3, <1>4, <1>5, <1>6, <1>7, PipelineShrinks DEF OrderInv, Copies

(* The camera and the scan: a newer version in the source, nothing else.      *)
LEMMA CameraScanKeepsOrder ==
    ASSUME TypeOK, OrderInv, Camera \/ ScanThread
    PROVE  OrderInv'
<1>1. /\ UNCHANGED <<latest, staged, stagedAt, batches, copyThread, batchThread, received>>
      /\ \A i \in Images : version[i] <= version'[i] /\ version'[i] \in Nat
  BY DEF Camera, ScanThread, Capture, Delete, Scan, ScanPut, TypeOK, SourceType
<1>2. Indexed' = Indexed /\ Unsent' = Unsent /\ \A it : Chosen(it)' <=> Chosen(it)
  BY <1>1 DEF Indexed, Unsent, Chosen
<1>3. \A it : Inside(it)' <=> Inside(it)
  BY <1>1, <1>2 DEF Inside
<1>4. LatestFirst' /\ BatchesFirst' /\ ChosenFirst' /\ StagedInOrder'
  BY <1>1, <1>2, <1>3 DEF OrderInv, LatestFirst, BatchesFirst, ChosenFirst, StagedInOrder
<1>5. \A i, v : AsNew(i, v) => AsNew(i, v)'
  BY <1>1, <1>3 DEF AsNew
<1>6. \A i \in Images : AsNew(i, version[i]) => AsNew(i, version'[i])
  <2> SUFFICES ASSUME NEW i \in Images, AsNew(i, version[i])
               PROVE  AsNew(i, version'[i])
    OBVIOUS
  <2>1. latest[i] \in Nat /\ version[i] \in Nat /\ \A it \in Items : it[2] \in Nat
    BY DEF TypeOK, SourceType, ServerType, Items, Versions
  <2> QED
    BY <1>1, <2>1 DEF AsNew
<1>7. SourceIsNewest'
  <2> SUFFICES ASSUME NEW i \in Images PROVE AsNew(i, version[i])'
    BY DEF SourceIsNewest
  <2>1. AsNew(i, version'[i])
    BY <1>6 DEF OrderInv, SourceIsNewest
  <2> QED
    BY <1>1, <1>3, <2>1 DEF AsNew
<1>8. CopyIsNewest'
  <2> SUFFICES ASSUME copyPc \in Copies PROVE candidate[2] <= version'[candidate[1]]
    BY <1>1, <1>5 DEF OrderInv, CopyIsNewest
  <2>1. candidate[1] \in Images /\ candidate[2] \in Nat
    BY DEF TypeOK, CopyType, Copies, Items, Versions
  <2>2. candidate[2] <= version[candidate[1]] /\ version[candidate[1]] \in Nat
    BY <2>1 DEF OrderInv, CopyIsNewest, TypeOK, SourceType
  <2> QED
    BY <1>1, <2>1, <2>2
<1>9. IdsInOrder' /\ SavedIsIndexed' /\ PositionsFit'
  BY <1>1, <1>2 DEF OrderInv, IdsInOrder, SavedIsIndexed, PositionsFit, Inflight,
     LockHeldByBatch
<1> QED
  BY <1>4, <1>7, <1>8, <1>9 DEF OrderInv

LEMMA CopyThreadKeepsOrder ==
    ASSUME TypeOK, OrderInv, CopyThread
    PROVE  OrderInv'
<1>1. CASE CopyStat
  <2>1. /\ UNCHANGED <<version, latest, staged, stagedAt, batches, batchThread, received>>
        /\ candidate' = candidate
        /\ copyPc' \in Copies => candidate[2] = version[candidate[1]]
    BY <1>1 DEF CopyStat, Outdated, Copies
  <2>2. Indexed' = Indexed /\ Unsent' = Unsent /\ \A it : Chosen(it)' <=> Chosen(it)
    BY <2>1 DEF Indexed, Unsent, Chosen
  <2>3. \A it : Inside(it)' <=> Inside(it)
    BY <2>1, <2>2 DEF Inside
  <2>4. LatestFirst' /\ BatchesFirst' /\ ChosenFirst' /\ StagedInOrder'
    BY <2>1, <2>2, <2>3 DEF OrderInv, LatestFirst, BatchesFirst, ChosenFirst,
       StagedInOrder
  <2>5. \A i, v : AsNew(i, v) => AsNew(i, v)'
    BY <2>1, <2>3 DEF AsNew
  <2>6. SourceIsNewest'
    BY <2>1, <2>5 DEF OrderInv, SourceIsNewest
  <2>7. CopyIsNewest'
    <3> SUFFICES ASSUME copyPc' \in Copies
                 PROVE  /\ candidate[2] <= version[candidate[1]]
                        /\ AsNew(candidate[1], candidate[2])'
      BY <2>1 DEF CopyIsNewest
    <3>1. candidate[1] \in Images /\ version[candidate[1]] \in Nat
      BY <1>1 DEF CopyStat, TypeOK, CopyType, SourceType, Items
    <3>2. AsNew(candidate[1], version[candidate[1]])
      BY <3>1 DEF OrderInv, SourceIsNewest
    <3> QED
      BY <2>1, <2>5, <3>1, <3>2
  <2>8. IdsInOrder' /\ SavedIsIndexed' /\ PositionsFit'
    BY <2>1, <2>2 DEF OrderInv, IdsInOrder, SavedIsIndexed, PositionsFit, Inflight,
       LockHeldByBatch
  <2> QED
    BY <2>4, <2>6, <2>7, <2>8 DEF OrderInv
<1>2. CASE CopyGet \/ CopyPutBack \/ CopyClearPending \/ CopyRaises \/ CopySaveSource
  <2>1. /\ UNCHANGED <<version, latest, staged, stagedAt, batches, batchThread, received>>
        /\ copyPc' \notin Copies
    BY <1>2 DEF CopyGet, CopyPutBack, CopyClearPending, CopyRaises, CopySaveSource, Copies
  <2>2. Unsent' = Unsent /\ Indexed' = Indexed /\ \A it : Chosen(it)' <=> Chosen(it)
    BY <2>1 DEF Unsent, Indexed, Chosen
  <2>3. IdsInOrder' /\ SavedIsIndexed' /\ PositionsFit'
    BY <2>1, <2>2 DEF OrderInv, IdsInOrder, SavedIsIndexed, PositionsFit, Inflight,
       LockHeldByBatch
  <2> QED
    BY <2>1, <2>2, <2>3, PipelineShrinks DEF OrderInv
<1> QED
  BY <1>1, <1>2, CopyFileKeepsOrder, SaveStagedKeepsOrder, ErrorKeepsOrder DEF CopyThread

(* The oldest entry of a path is its oldest version. *)
LEMMA SelectBatchKeepsOrder ==
    ASSUME TypeOK, OrderInv, SelectBatch
    PROVE  OrderInv'
<1>1. /\ UNCHANGED <<version, latest, staged, stagedAt, zip, zipIn, manifest, received,
                     copyThread, remaining>>
      /\ batchPc = "idle" /\ batchPc' = "zip" /\ selected' = BatchEntries
      /\ batch' = nextBatch /\ nextBatch' = nextBatch + 1 /\ nextBatch \in Nat
  BY DEF SelectBatch, NextId, BatchIds
<1>2. Indexed' = Indexed /\ Unsent' = Unsent /\ \A it : ~Chosen(it)
  BY <1>1 DEF Indexed, Unsent, Chosen
<1>3. \A it : Chosen(it)' => /\ it \in Indexed
                             /\ \A e \in Indexed : e[1] = it[1] => stagedAt[it] <= stagedAt[e]
  BY <1>1 DEF Chosen, BatchEntries, OldestPerPath
<1>4. \A it : Inside(it)' => Inside(it)
  BY <1>1, <1>2, <1>3 DEF Inside
<1>5. LatestFirst' /\ StagedInOrder' /\ PositionsFit'
  BY <1>1, <1>4 DEF OrderInv, LatestFirst, StagedInOrder, PositionsFit
<1>6. BatchesFirst'
  BY <1>1, <1>2, <1>3 DEF OrderInv, BatchesFirst
<1>7. ChosenFirst'
  <2> SUFFICES ASSUME NEW e \in Items, NEW f \in Items, e[1] = f[1], Chosen(e)',
                      f \in Indexed
               PROVE  e[2] <= f[2]
    BY <1>2 DEF ChosenFirst
  <2>1. stagedAt[e] > 0 /\ stagedAt[e] <= stagedAt[f]
    BY <1>3 DEF Indexed
  <2> QED
    BY <2>1 DEF OrderInv, StagedInOrder
<1>8. \A i, v : AsNew(i, v) => AsNew(i, v)'
  BY <1>1, <1>4 DEF AsNew
<1>9. CopyIsNewest' /\ SourceIsNewest'
  BY <1>1, <1>8 DEF OrderInv, CopyIsNewest, SourceIsNewest
<1>10. \A b \in Unsent : b \in Nat
  BY DEF Unsent, BatchIds
<1>11. IdsInOrder' /\ SavedIsIndexed'
  BY <1>1, <1>2, <1>10 DEF OrderInv, IdsInOrder, SavedIsIndexed, Inflight, LockHeldByBatch
<1> QED
  BY <1>5, <1>6, <1>7, <1>9, <1>11 DEF OrderInv

(* What was chosen becomes the newest batch. *)
LEMMA WriteZipKeepsOrder ==
    ASSUME TypeOK, OrderInv, WriteZip
    PROVE  OrderInv'
<1>1. /\ UNCHANGED <<version, latest, staged, stagedAt, manifest, received, copyThread,
                     remaining, batch, nextBatch>>
      /\ batchPc = "zip" /\ batchPc' = "manifest"
      /\ zipIn' = [zipIn EXCEPT ![batch] = "ready"]
      /\ batch \in BatchIds
  BY DEF WriteZip, TypeOK, BatchType
<1>2. /\ \A b \in BatchIds : b # batch => zip'[b] = zip[b] /\ zipIn'[b] = zipIn[b]
      /\ zipIn'[batch] = "ready"
      /\ \A it \in Items : zip'[batch][it] # Missing => Chosen(it)
  BY <1>1 DEF WriteZip, TypeOK, BatchesType, Chosen
<1>3. /\ Unsent' \subseteq Unsent \cup {batch} /\ batch \notin Unsent
      /\ \A b \in Unsent : b < batch /\ b \in BatchIds
  <2>1. \A b \in Unsent : b < batch /\ b \in BatchIds
    BY <1>1 DEF OrderInv, IdsInOrder, Unsent
  <2> QED
    BY <1>1, <1>2, <2>1 DEF Unsent, BatchIds
<1>4. Indexed' = Indexed /\ \A it : ~Chosen(it)'
  BY <1>1 DEF Indexed, Chosen
<1>5. \A it \in Items : Inside(it)' => Inside(it)
  BY <1>2, <1>3, <1>4 DEF Inside
<1>6. LatestFirst' /\ ChosenFirst' /\ StagedInOrder' /\ PositionsFit'
  BY <1>1, <1>4, <1>5 DEF OrderInv, LatestFirst, ChosenFirst, StagedInOrder, PositionsFit
<1>7. BatchesFirst'
  <2> SUFFICES ASSUME NEW b \in Unsent', NEW e \in Items, NEW f \in Items, e[1] = f[1],
                      zip'[b][e] # Missing,
                      f \in Indexed \/ \E c \in Unsent' : b < c /\ zip'[c][f] # Missing
               PROVE  e[2] <= f[2]
    BY <1>4 DEF BatchesFirst
  <2>1. batch \in Nat /\ \A c \in Unsent : c \in Nat
    BY <1>1, <1>3 DEF BatchIds
  <2>2. CASE b = batch
    <3>1. Chosen(e) /\ f \in Indexed
      BY <1>2, <1>3, <2>1, <2>2
    <3> QED
      BY <3>1 DEF OrderInv, ChosenFirst
  <2>3. CASE b # batch
    <3>1. b \in Unsent /\ zip[b][e] # Missing
      BY <1>2, <1>3, <2>3
    <3>2. f \in Indexed \/ Chosen(f) \/ \E c \in Unsent : b < c /\ zip[c][f] # Missing
      BY <1>2, <1>3
    <3> QED
      BY <3>1, <3>2 DEF OrderInv, BatchesFirst
  <2> QED
    BY <2>2, <2>3
<1>8. \A i, v : AsNew(i, v) => AsNew(i, v)'
  BY <1>1, <1>5 DEF AsNew
<1>9. CopyIsNewest' /\ SourceIsNewest'
  BY <1>1, <1>8 DEF OrderInv, CopyIsNewest, SourceIsNewest
<1>11. IdsInOrder' /\ SavedIsIndexed'
  BY <1>1, <1>2, <1>3
     DEF OrderInv, IdsInOrder, SavedIsIndexed, LockHeldByBatch
<1> QED
  BY <1>6, <1>7, <1>9, <1>11 DEF OrderInv

(* The one batch that can be uploaded is taken, or one without a manifest.    *)
LEMMA TakeReadyKeepsOrder ==
    ASSUME TypeOK, ReadableInv, OrderInv, TakeReady
    PROVE  OrderInv'
<1>1. PICK b \in Ready : /\ zipIn' = [zipIn EXCEPT ![b] = "inflight"]
                         /\ IF b \in manifest
                            THEN batchPc' = "upload" /\ batch' = b
                            ELSE batchPc' = "idle" /\ batch' = 0
  BY DEF TakeReady
<1>2. /\ UNCHANGED <<version, latest, zip, staged, stagedAt, received, manifest, copyThread,
                     remaining, nextBatch>>
      /\ batchPc \in {"built", "idle"}
  BY DEF TakeReady
<1>3. b \in BatchIds /\ \A c \in BatchIds : zipIn'[c] = IF c = b THEN "inflight" ELSE zipIn[c]
  BY <1>1 DEF Ready, TypeOK, BatchesType
<1>4. Unsent' \subseteq Unsent
  BY <1>1, <1>2, <1>3 DEF Unsent, Outstanding, Ready
<1>5. b \in manifest => b \in Inflight' /\ \A c \in Unsent' : b <= c
  <2>1. \A c \in Unsent' : c \in Readable /\ c \in Nat
    BY <1>1, <1>2, <1>4 DEF Unsent, Readable, BatchIds
  <2>2. b \in manifest => b \in Readable
    BY DEF Readable, Outstanding, Ready
  <2> QED
    BY <1>3, <2>1, <2>2 DEF ReadableInv, Inflight
<1>8. IdsInOrder'
  BY <1>1, <1>2, <1>4, <1>5 DEF OrderInv, IdsInOrder
<1>9. SavedIsIndexed'
  BY <1>1 DEF SavedIsIndexed, LockHeldByBatch
<1> QED
  BY <1>1, <1>2, <1>4, <1>8, <1>9, PipelineStays DEF OrderInv

(* The server stores the oldest batch that it has not got yet. *)
LEMMA StoredInOrder ==
    ASSUME TypeOK, OrderInv, batchPc = "upload", ServerStores(batch)
    PROVE  /\ \A i \in Images : latest[i] <= latest'[i]
           /\ \A it \in Items :
                 (it \in Indexed \/ \E c \in Unsent \ {batch} : zip[c][it] # Missing)
                     => latest'[it[1]] <= it[2]
           /\ \A i \in Images :
                 \/ latest'[i] = latest[i]
                 \/ \E it \in Items : it[1] = i /\ Inside(it) /\ latest'[i] = it[2]
<1>1. CASE batch \in received
  <2>1. \A i \in Images : latest'[i] = latest[i]
    BY <1>1 DEF ServerStores
  <2>2. \A i \in Images : latest[i] \in Nat
    BY DEF TypeOK, ServerType
  <2>3. \A it \in Items : it[1] \in Images
    BY DEF Items
  <2> QED
    BY <2>1, <2>2, <2>3 DEF OrderInv, LatestFirst, Inside
<1>2. CASE batch \notin received
  <2>1. batch \in Unsent /\ \A c \in Unsent \ {batch} : batch < c
    <3>1. batch \in Unsent
      BY <1>2 DEF OrderInv, IdsInOrder, Unsent, Inflight, Outstanding
    <3>2. batch \in Nat /\ \A c \in Unsent : c \in Nat
      BY <3>1 DEF Unsent, BatchIds
    <3> QED
      BY <3>1, <3>2 DEF OrderInv, IdsInOrder
  <2>2. ASSUME NEW i \in Images
        PROVE  \/ latest'[i] = latest[i] /\ \A it \in Contents(batch) : it[1] # i
               \/ \E it \in Contents(batch) : it[1] = i /\ latest'[i] = it[2]
    <3>1. CASE \E it \in Contents(batch) : it[1] = i
      <4> DEFINE it == CHOOSE it \in Contents(batch) : it[1] = i
      <4>1. it \in Contents(batch) /\ it[1] = i
        BY <3>1
      <4>2. latest'[i] = it[2]
        BY <1>2, <3>1 DEF ServerStores
      <4> QED
        BY <4>1, <4>2
    <3>2. CASE \A it \in Contents(batch) : it[1] # i
      BY <3>2 DEF ServerStores
    <3> QED
      BY <3>1, <3>2
  <2>3. \A it \in Contents(batch) : it \in Items /\ Inside(it) /\ zip[batch][it] # Missing
    BY <2>1 DEF Contents, Inside
  <2>4. \A i \in Images : latest[i] <= latest'[i]
    BY <2>2, <2>3 DEF OrderInv, LatestFirst, TypeOK, ServerType
  <2>5. ASSUME NEW it \in Items,
               it \in Indexed \/ \E c \in Unsent \ {batch} : zip[c][it] # Missing
        PROVE  latest'[it[1]] <= it[2]
    <3>1. it[1] \in Images /\ latest[it[1]] <= it[2]
      BY <2>5 DEF OrderInv, LatestFirst, Inside, Items
    <3>2. \A e \in Contents(batch) : e[1] = it[1] => e[2] <= it[2]
      BY <2>1, <2>3, <2>5 DEF OrderInv, BatchesFirst
    <3> QED
      BY <2>2, <3>1, <3>2
  <2> QED
    BY <2>2, <2>3, <2>4, <2>5
<1> QED
  BY <1>1, <1>2

LEMMA UploadKeepsOrder ==
    ASSUME TypeOK, OrderInv, UploadSucceeds \/ UploadFails
    PROVE  OrderInv' /\ \A i \in Images : latest[i] <= latest'[i]
<1>1. /\ UNCHANGED <<version, staged, stagedAt, batches, copyThread, batch, remaining>>
      /\ batchPc = "upload" /\ batchPc' \in {"acked", "failed"}
      /\ ServerStores(batch) \/ UNCHANGED <<received, latest>>
  BY DEF UploadSucceeds, UploadFails
<1>2. Indexed' = Indexed /\ (\A it : ~Chosen(it) /\ ~Chosen(it)') /\ Unsent' \subseteq Unsent
  BY <1>1 DEF Indexed, Chosen, Unsent, ServerStores
<1>3. IdsInOrder' /\ SavedIsIndexed' /\ PositionsFit'
  BY <1>1, <1>2 DEF OrderInv, IdsInOrder, SavedIsIndexed, PositionsFit, Inflight,
     LockHeldByBatch
<1>4. CASE UNCHANGED <<received, latest>>
  <2>1. \A i \in Images : latest[i] \in Nat
    BY DEF TypeOK, ServerType
  <2> QED
    BY <1>1, <1>2, <1>3, <1>4, <2>1, PipelineStays DEF OrderInv
<1>5. CASE ServerStores(batch)
  <2>1. batch \notin Unsent'
    BY <1>1, <1>5 DEF ServerStores, Unsent
  <2>2. \A it \in Items : Inside(it)' => Inside(it)
    BY <1>1, <1>2 DEF Inside
  <2>3. LatestFirst'
    BY <1>1, <1>2, <1>5, <2>1, StoredInOrder DEF LatestFirst, Inside
  <2>4. BatchesFirst' /\ ChosenFirst' /\ StagedInOrder'
    BY <1>1, <1>2 DEF OrderInv, BatchesFirst, ChosenFirst, StagedInOrder
  <2>5. ASSUME NEW i \in Images, NEW v, AsNew(i, v) PROVE AsNew(i, v)'
    <3>1. latest'[i] <= v
      BY <1>1, <1>5, <2>5, StoredInOrder DEF AsNew
    <3> QED
      BY <1>1, <2>2, <2>5, <3>1 DEF AsNew
  <2>6. copyPc \in Copies => candidate[1] \in Images
    BY DEF TypeOK, CopyType, Copies, Items
  <2>7. CopyIsNewest' /\ SourceIsNewest'
    BY <1>1, <2>5, <2>6 DEF OrderInv, CopyIsNewest, SourceIsNewest
  <2> QED
    BY <1>1, <1>3, <1>5, <2>3, <2>4, <2>7, StoredInOrder DEF OrderInv
<1> QED
  BY <1>1, <1>4, <1>5

LEMMA MarkUploadedKeepsOrder ==
    ASSUME TypeOK, OrderInv,
           BeginMarkUploaded \/ UnlinkStaged \/ CleanupDirectories \/ MoveToSent
               \/ FinishUploaded
    PROVE  OrderInv'
<1>1. CASE BeginMarkUploaded \/ CleanupDirectories
  <2>1. /\ UNCHANGED <<version, latest, staged, stagedAt, batches, received, copyThread, batch>>
        /\ batchPc \in {"acked", "cleanup"} /\ batchPc' = "unlink"
        /\ \/ remaining' = remaining /\ LockHeldByBatch
           \/ remaining' \subseteq Indexed
    BY <1>1 DEF BeginMarkUploaded, CleanupDirectories, LockHeldByBatch
  <2>2. Unsent' = Unsent
    BY <2>1 DEF Unsent
  <2>3. IdsInOrder' /\ SavedIsIndexed'
    BY <2>1, <2>2 DEF OrderInv, IdsInOrder, SavedIsIndexed, Inflight, Indexed
  <2> QED
    BY <2>1, <2>2, <2>3, PipelineStays DEF OrderInv
<1>2. CASE UnlinkStaged
  <2>1. /\ UNCHANGED <<version, latest, stagedAt, batches, received, copyThread, batch,
                       remaining>>
        /\ batchPc = "unlink" /\ batchPc' \in {"unlink", "cleanup"}
        /\ \A it \in Items : staged'[it] # Missing => staged[it] # Missing
    BY <1>2 DEF UnlinkStaged, TypeOK, StagedType
  <2>2. Unsent' = Unsent /\ Indexed' \subseteq Indexed /\ \A it : ~Chosen(it)'
    BY <2>1 DEF Unsent, Indexed, Chosen
  <2>3. IdsInOrder' /\ SavedIsIndexed' /\ PositionsFit'
    BY <2>1, <2>2 DEF OrderInv, IdsInOrder, SavedIsIndexed, PositionsFit, Inflight,
       LockHeldByBatch
  <2> QED
    BY <2>1, <2>2, <2>3, PipelineShrinks DEF OrderInv
<1>3. CASE MoveToSent
  <2>1. /\ UNCHANGED <<version, latest, zip, staged, stagedAt, manifest, received, copyThread,
                       batch, remaining, nextBatch>>
        /\ batchPc = "unlink" /\ batchPc' = "finish"
        /\ zipIn' = [zipIn EXCEPT ![batch] = "sent"]
    BY <1>3 DEF MoveToSent
  <2>2. \A c \in BatchIds : zipIn'[c] = zipIn[c] \/ zipIn'[c] = "sent"
    BY <2>1 DEF TypeOK, BatchesType
  <2>3. Unsent' \subseteq Unsent /\ Inflight' \subseteq Inflight
    BY <2>1, <2>2 DEF Unsent, Outstanding, Inflight
  <2>4. IdsInOrder' /\ SavedIsIndexed'
    BY <2>1, <2>3 DEF OrderInv, IdsInOrder, SavedIsIndexed, LockHeldByBatch
  <2> QED
    BY <2>1, <2>3, <2>4, PipelineStays DEF OrderInv
<1>4. CASE FinishUploaded
  <2>1. /\ UNCHANGED <<version, latest, zip, zipIn, staged, received, copyThread, nextBatch>>
        /\ batchPc = "finish" /\ batchPc' = "idle"
        /\ manifest' = manifest \ {batch} /\ stagedAt' = Order(remaining, stagedAt)
        /\ remaining \in SUBSET Items /\ stagedAt \in [Items -> Nat]
    BY <1>4 DEF FinishUploaded, TypeOK, BatchType, StagedType
  <2>2. \A it \in Items : stagedAt'[it] > 0 <=> it \in remaining
    BY <2>1, OrderEntries
  <2>3. \A it \in remaining : stagedAt[it] > 0
    BY <2>1 DEF OrderInv, SavedIsIndexed, LockHeldByBatch
  <2>4. \A e, f \in Items : stagedAt'[e] > 0 /\ stagedAt'[e] <= stagedAt'[f]
                               => stagedAt[e] <= stagedAt[f]
    <3> SUFFICES ASSUME NEW e \in Items, NEW f \in Items, stagedAt'[e] > 0,
                        stagedAt'[e] <= stagedAt'[f]
                 PROVE  stagedAt[e] <= stagedAt[f]
      OBVIOUS
    <3>1. stagedAt' \in [Items -> Nat]
      BY <2>1, OrderEntries
    <3>2. e \in remaining /\ stagedAt'[f] > 0
      BY <2>2, <3>1
    <3> QED
      BY <2>1, <3>2, OrderIsKept
  <2>5. /\ Indexed' \subseteq Indexed /\ Unsent' \subseteq Unsent
        /\ \A it : ~Chosen(it)'
    BY <2>1, <2>2, <2>3 DEF Indexed, Unsent, Chosen
  <2>6. PositionsFit'
    BY <2>1, OrderFits DEF PositionsFit
  <2>7. Inflight' = Inflight
    BY <2>1 DEF Inflight
  <2>8. IdsInOrder' /\ SavedIsIndexed'
    BY <2>1, <2>5, <2>7 DEF OrderInv, IdsInOrder, SavedIsIndexed, LockHeldByBatch
  <2> QED
    BY <2>1, <2>2, <2>3, <2>4, <2>5, <2>6, <2>8, PipelineShrinks DEF OrderInv
<1> QED
  BY <1>1, <1>2, <1>3, <1>4

LEMMA OtherBatchStepsKeepOrder ==
    ASSUME TypeOK, OrderInv, WriteManifest \/ BuildRaises \/ CountAttempt \/ ParkBatch
    PROVE  OrderInv'
<1>1. CASE WriteManifest \/ BuildRaises \/ CountAttempt
  <2>1. /\ UNCHANGED <<version, latest, zip, zipIn, staged, stagedAt, received, copyThread,
                       nextBatch, remaining>>
        /\ \/ /\ batchPc = "manifest" /\ manifest' = manifest \cup {batch}
              /\ batchPc' = "built" /\ batch' = batch
           \/ batchPc = "manifest" /\ manifest' = manifest /\ batchPc' = "idle"
           \/ /\ batchPc = "failed" /\ manifest' = manifest
              /\ batchPc' = "park" /\ batch' = batch
    BY <1>1 DEF WriteManifest, BuildRaises, CountAttempt
  <2>2. /\ Unsent' \subseteq Unsent
        /\ batchPc = "manifest" => batch \notin Inflight
    BY <2>1 DEF OrderInv, IdsInOrder, Unsent, Outstanding, Inflight
  <2>3. Inflight' = Inflight
    BY <2>1 DEF Inflight
  <2>4. IdsInOrder' /\ SavedIsIndexed'
    BY <2>1, <2>2, <2>3
       DEF OrderInv, IdsInOrder, SavedIsIndexed, LockHeldByBatch
  <2> QED
    BY <2>1, <2>2, <2>4, PipelineStays DEF OrderInv, Copies
<1>2. CASE ParkBatch
  <2>1. /\ UNCHANGED <<version, latest, zip, staged, stagedAt, manifest, received, copyThread,
                       nextBatch, remaining>>
        /\ batchPc = "park" /\ batchPc' = "idle"
        /\ zipIn' = [zipIn EXCEPT ![batch] = ParkDirectory(batch)]
        /\ ParkDirectory(batch) \in {"failed", "ready"} /\ batch \in BatchIds
    BY <1>2 DEF ParkBatch, ParkDirectory, TypeOK, BatchType
  <2>2. \A c \in BatchIds : zipIn'[c] = IF c = batch THEN ParkDirectory(batch) ELSE zipIn[c]
    BY <2>1 DEF TypeOK, BatchesType
  <2>4. Unsent' \subseteq Unsent
    BY <2>1, <2>2 DEF Unsent, Outstanding, OrderInv, IdsInOrder, Inflight
  <2>5. IdsInOrder' /\ SavedIsIndexed'
    BY <2>1, <2>4 DEF OrderInv, IdsInOrder, SavedIsIndexed, LockHeldByBatch
  <2> QED
    BY <2>1, <2>4, <2>5, PipelineStays DEF OrderInv
<1> QED
  BY <1>1, <1>2

(* A restart reloads the index in order and forgets what was being copied. *)
LEMMA CrashKeepsOrder ==
    ASSUME TypeOK, OrderInv, Crash
    PROVE  OrderInv'
<1>1. PICK ts, ti, tm \in BOOLEAN : Restart(ts, ti, tm)
  BY DEF Crash
<1> DEFINE kept == IF ti THEN {} ELSE Indexed
<1>2. /\ UNCHANGED <<version, latest, zip, staged, received, nextBatch>>
      /\ stagedAt' = Order(kept, stagedAt) /\ manifest' \subseteq manifest
      /\ zipIn' = [b \in BatchIds |-> IF b \in Inflight THEN "ready" ELSE zipIn[b]]
      /\ copyPc' = "idle" /\ batchPc' = "idle"
  BY <1>1 DEF Restart
<1>3. kept \in SUBSET Items /\ kept \subseteq Indexed /\ stagedAt \in [Items -> Nat]
  BY DEF Indexed, TypeOK, StagedType
<1>4. stagedAt' \in [Items -> Nat] /\ \A it \in Items : stagedAt'[it] > 0 <=> it \in kept
  BY <1>2, <1>3, OrderEntries
<1>5. \A e, f \in Items : stagedAt'[e] > 0 /\ stagedAt'[e] <= stagedAt'[f]
                             => stagedAt[e] <= stagedAt[f]
  <2> SUFFICES ASSUME NEW e \in Items, NEW f \in Items, stagedAt'[e] > 0,
                      stagedAt'[e] <= stagedAt'[f]
               PROVE  stagedAt[e] <= stagedAt[f]
    OBVIOUS
  <2>1. e \in kept /\ stagedAt'[f] > 0
    BY <1>4
  <2> QED
    BY <1>2, <1>3, <2>1, OrderIsKept
<1>6. /\ Indexed' \subseteq Indexed /\ \A it : ~Chosen(it)'
      /\ \A it \in Items : stagedAt'[it] > 0 => stagedAt[it] > 0
  BY <1>2, <1>3, <1>4 DEF Indexed, Chosen
<1>7. Unsent' \subseteq Unsent /\ Inflight' = {}
  BY <1>2 DEF Unsent, Outstanding, Inflight
<1>8. PositionsFit'
  BY <1>2, <1>3, OrderFits DEF PositionsFit
<1>9. IdsInOrder' /\ SavedIsIndexed'
  BY <1>2, <1>7 DEF OrderInv, IdsInOrder, SavedIsIndexed, LockHeldByBatch
<1> QED
  BY <1>2, <1>5, <1>6, <1>7, <1>8, <1>9, PipelineShrinks DEF OrderInv, Copies

(* What the server stores for a path never gets older, whatever the threads, *)
(* retries, crashes, cut files and put-backs do.                             *)
THEOREM VersionsStayInOrder == Spec => VersionsArriveInOrder
<1>1. Init => OrderInv
  <2> SUFFICES ASSUME Init PROVE OrderInv
    OBVIOUS
  <2>1. Indexed = {} /\ Unsent = {} /\ \A it : ~Chosen(it) /\ ~Inside(it)
    BY DEF Init, Indexed, Unsent, Chosen, Inside
  <2>2. \A i \in Images : version[i] \in Nat
    BY DEF Init
  <2>3. LatestFirst /\ BatchesFirst /\ ChosenFirst /\ StagedInOrder
    BY <2>1 DEF Init, LatestFirst, BatchesFirst, ChosenFirst, StagedInOrder
  <2>4. CopyIsNewest /\ SourceIsNewest
    BY <2>1, <2>2 DEF Init, CopyIsNewest, SourceIsNewest, AsNew, Copies
  <2>5. IdsInOrder /\ SavedIsIndexed
    BY <2>1 DEF Init, IdsInOrder, SavedIsIndexed, LockHeldByBatch
  <2>6. PositionsFit
    BY ItemsFinite, FS_CardinalityType DEF Init, PositionsFit
  <2> QED
    BY <2>3, <2>4, <2>5, <2>6 DEF OrderInv
<1>2. TypeOK /\ ReadableInv /\ OrderInv /\ [Next]_vars
          => OrderInv' /\ \A i \in Images : latest'[i] >= latest[i]
  <2> SUFFICES ASSUME TypeOK, ReadableInv, OrderInv, [Next]_vars
               PROVE  OrderInv' /\ \A i \in Images : latest'[i] >= latest[i]
    OBVIOUS
  <2>1. \A i \in Images : latest[i] \in Nat
    BY DEF TypeOK, ServerType
  <2>2. CASE UNCHANGED vars
    <3>1. Indexed' = Indexed /\ Unsent' = Unsent /\ \A it : Chosen(it)' <=> Chosen(it)
      BY <2>2 DEF vars, Indexed, Unsent, Chosen
    <3>2. IdsInOrder' /\ SavedIsIndexed' /\ PositionsFit'
      BY <2>2, <3>1 DEF vars, OrderInv, IdsInOrder, SavedIsIndexed, PositionsFit, Inflight,
         LockHeldByBatch
    <3> QED
      BY <2>1, <2>2, <3>1, <3>2, PipelineShrinks DEF vars, OrderInv
  <2>3. CASE UploadSucceeds \/ UploadFails
    BY <2>1, <2>3, UploadKeepsOrder DEF TypeOK, ServerType
  <2>4. CASE Camera \/ ScanThread \/ CopyThread \/ Crash
    <3>1. latest' = latest
      BY <2>4 DEF Camera, ScanThread, Capture, Delete, Scan, ScanPut, CopyThread, CopyGet,
         CopyPutBack, CopyStat, CopyClearPending, CopyOpen, CopyFile, CopyRaises,
         CopySaveStaged, CopySaveSource, SaveRaises, Crash, Restart
    <3> QED
      BY <2>1, <2>4, <3>1, CameraScanKeepsOrder, CopyThreadKeepsOrder, CrashKeepsOrder
  <2>5. CASE BatchThread /\ ~UploadSucceeds /\ ~UploadFails
    <3>1. latest' = latest
      BY <2>5 DEF BatchThread, SelectBatch, WriteZip, WriteManifest, BuildRaises, TakeReady,
         BeginMarkUploaded, UnlinkStaged, CleanupDirectories, MoveToSent, FinishUploaded,
         CountAttempt, ParkBatch, SettleRaises
    <3> QED
      BY <2>1, <2>5, <3>1, SelectBatchKeepsOrder, WriteZipKeepsOrder, TakeReadyKeepsOrder,
         MarkUploadedKeepsOrder, OtherBatchStepsKeepOrder, ErrorKeepsOrder DEF BatchThread
  <2> QED
    BY <2>2, <2>3, <2>4, <2>5 DEF Next
<1> QED
  BY TypeCorrect, ReadableInvariant, <1>1, <1>2, PTL DEF Spec, VersionsArriveInOrder
=============================================================================
