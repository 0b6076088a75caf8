----------------------------- MODULE DiskQueue -----------------------------
(***************************************************************************)
(* The machine client's disk buffer (machine_client/disk_queue.py) driven  *)
(* by the three threads of the agent (machine_client/agent.py):            *)
(*   scan thread   finds new source versions and queues them in memory;    *)
(*   copy thread   copies one candidate into staged/ and indexes it;       *)
(*   batch thread  zips staged files, uploads the zip, cleans up.          *)
(* Files and the two JSON indexes survive a crash, the copy queue, the     *)
(* threads and the statistics cache do not.  The threads share one lock,   *)
(* which is held across several file writes in two places: LockHeldBy...   *)
(* below.  A source signature (mtime:size) is a version number.            *)
(***************************************************************************)
EXTENDS Integers, Sequences, FiniteSets

CONSTANTS Images,          \* source files; one relative path each
          MaxVersion,      \* bound: versions written per source file
          BatchSize,       \* config.upload.batch_size
          Retry,           \* config.upload.retry
          Nested,          \* the images are in a subdirectory of image_root
          StageCopyLimit,  \* config.upload.stage_copy_limit_per_cycle
          MaxBatches,      \* bound: batches built
          Faults,          \* the faults that may happen
          MaxFaults        \* bound: faults in a behaviour

FaultKinds == { "crash",       \* the client process dies and is restarted
                "torn",        \* a crash or an error cuts a JSON file short
                "partial",     \* a copy into staged/ is seen half done
                "refused",     \* an upload fails before the server stores it
                "ack_lost",    \* ... after the server stored it
                "pressure",    \* the disk is too full to stage
                "copy_error",  \* copying into staged/ raises
                "zip_error",   \* writing the zip or its manifest raises
                "save_error",  \* ending a staging, or settling a batch, raises
                "delete" }     \* somebody removes a source file

ASSUME ConstantsAssumption ==
    /\ IsFiniteSet(Images)
    /\ MaxVersion \in Nat \ {0}
    /\ BatchSize \in Nat \ {0}
    /\ Retry \in Nat \ {0}
    /\ Nested \in BOOLEAN
    /\ StageCopyLimit \in Nat \ {0}
    /\ MaxBatches \in Nat \ {0}
    /\ MaxFaults \in Nat
    /\ Faults \subseteq FaultKinds

Versions == 1..MaxVersion
BatchIds == 1..MaxBatches
Items    == Images \X Versions      \* a relative path and a signature
NoItem   == <<>>
Missing  == -1                      \* there is no such file
Partial  == 0                       \* the file has not all of its bytes
Bytes    == Missing..MaxVersion     \* or the version the bytes are of

VARIABLES
    \* the camera's directory
    version,           \* newest version written of every source file
    absent,            \* source files that were removed
    \* files of the buffer: they survive a crash
    lastSignature,     \* source-index.json: last_signature, 0 = none
    pendingSignature,  \* source-index.json: pending_signature, 0 = none
    staged,            \* staged/: version of a file's bytes, or Missing or Partial
    stagedAt,          \* staged-index.json: position by staged_at, 0 = no entry
    zip,               \* the same of the images in a batch
    zipIn,             \* directory a batch's zip is in
    manifest,          \* batches whose manifest can be read
    attempts,          \* attempts field of a manifest
    nextBatch,         \* the clock the batch ids come from
    \* memory of the client process: lost in a crash
    scanned,           \* candidates returned by a scan, not yet queued
    copyQueue,         \* the queue from the scan to the copy thread
    copyPc, candidate, \* copy thread
    batchPc, batch, selected, remaining,  \* batch thread
    readyBatches, inflightBatches,        \* _stats_cache (staged_images is only shown)
    \* the server, as the client can tell, and the fault budget
    received, acked,   \* batches the server stored, and acknowledged
    latest,            \* version the server stored last for a path
    tries,             \* uploads of a batch that failed
    budget             \* faults that may still happen

source == <<version, absent>>
index  == <<lastSignature, pendingSignature>>
batches == <<zip, zipIn, manifest, attempts, nextBatch>>
copyThread == <<copyPc, candidate>>
batchThread == <<batchPc, batch, selected, remaining>>
stats == <<readyBatches, inflightBatches>>
server == <<received, acked, latest, tries>>
vars == <<source, index, staged, stagedAt, batches, scanned, copyQueue,
          copyThread, batchThread, stats, server, budget>>

Ready    == {b \in BatchIds : zipIn[b] = "ready"}
Inflight == {b \in BatchIds : zipIn[b] = "inflight"}
Contents(b) == {it \in Items : zip[b][it] # Missing}

(* The index holding these entries, in the order of staged_at. *)
Order(entries, at) ==
    [it \in Items |-> IF it \in entries
                       THEN 1 + Cardinality({e \in entries : at[e] < at[it]})
                       ELSE 0]

(* _load_staged_index_unlocked: an entry counts only if its file is there. *)
Indexed == {it \in Items : stagedAt[it] > 0 /\ staged[it] # Missing}

(* Variant: a new entry replaces the index. *)
OnlyEntry(it) == Order({it}, stagedAt)

(* The loaded index with entry it added, or moved to the end. *)
WithEntry(it) ==
    Order(Indexed \cup {it}, [stagedAt EXCEPT ![it] = Cardinality(Items) + 1])

(* Variants: no lower bound, or the decrement is forgotten. *)
OneLessUnchecked(count) == count - 1
SameCount(count) == count

(* max(0, count - 1), as _stats_cache is decremented. *)
OneLess(count) == IF count > 0 THEN count - 1 ELSE 0

(* Fault f happens now and is charged to the budget. *)
Fault(f) == /\ f \in Faults
            /\ budget > 0
            /\ budget' = budget - 1

LockHeldByCopy  == copyPc = "save_source"

(* Variant: mark_uploaded does not take the lock. *)
NeverHeld == FALSE
LockHeldByBatch == batchPc \in {"unlink", "cleanup", "finish"}

Init == /\ version \in [Images -> 0..1]
        /\ absent = {}
        /\ lastSignature = [i \in Images |-> 0]
        /\ pendingSignature = [i \in Images |-> 0]
        /\ staged = [it \in Items |-> Missing]
        /\ stagedAt = [it \in Items |-> 0]
        /\ zip = [b \in BatchIds |-> [it \in Items |-> Missing]]
        /\ zipIn = [b \in BatchIds |-> "none"]
        /\ manifest = {}
        /\ attempts = [b \in BatchIds |-> 0]
        /\ nextBatch = 1
        /\ scanned = {}
        /\ copyQueue = <<>>
        /\ copyPc = "idle" /\ candidate = NoItem
        /\ batchPc = "idle" /\ batch = 0 /\ selected = {} /\ remaining = {}
        /\ readyBatches = 0 /\ inflightBatches = 0
        /\ received = {} /\ acked = {}
        /\ latest = [i \in Images |-> 0]
        /\ tries = [b \in BatchIds |-> 0]
        /\ budget = MaxFaults

----------------------------------------------------------------------------
(* The machine writes image i, for the first time or anew. *)
Capture(i) == /\ version[i] < MaxVersion
              /\ version' = [version EXCEPT ![i] = @ + 1]
              /\ absent' = absent \ {i}
              /\ UNCHANGED <<index, staged, stagedAt, batches, scanned, copyQueue,
                             copyThread, batchThread, stats, server, budget>>

Delete(i) == /\ Fault("delete")
             /\ version[i] > 0 /\ i \notin absent
             /\ absent' = absent \cup {i}
             /\ UNCHANGED <<version, index, staged, stagedAt, batches, scanned, copyQueue,
                            copyThread, batchThread, stats, server>>

----------------------------------------------------------------------------
(* Scan thread. *)

(* A source file whose signature the index has not seen. *)
Candidate(i) == /\ version[i] > 0 /\ i \notin absent
                /\ version[i] # lastSignature[i]
                /\ version[i] # pendingSignature[i]

(* scan_for_candidates: some new files of the roots of this cycle, at most *)
(* the limit, are marked pending in the saved index and returned.          *)
Scan(found) == /\ scanned = {}
               /\ ~LockHeldByCopy /\ ~LockHeldByBatch
               /\ found # {} /\ \A i \in found : Candidate(i)
               /\ Cardinality(found) <= StageCopyLimit
               /\ pendingSignature' =
                      [i \in Images |-> IF i \in found THEN version[i]
                                        ELSE pendingSignature[i]]
               /\ scanned' = {<<i, version[i]>> : i \in found}
               /\ UNCHANGED <<source, lastSignature, staged, stagedAt, batches, copyQueue,
                              copyThread, batchThread, stats, server, budget>>

(* The scan loop puts the returned candidates into the copy queue. *)
ScanPut == \E it \in scanned :
              /\ scanned' = scanned \ {it}
              /\ copyQueue' = Append(copyQueue, it)
              /\ UNCHANGED <<source, index, staged, stagedAt, batches,
                             copyThread, batchThread, stats, server, budget>>

----------------------------------------------------------------------------
(* Copy thread: _copy_loop and stage_candidate. *)

CopyGet == /\ copyPc = "idle"
           /\ copyQueue # <<>>
           /\ candidate' = Head(copyQueue)
           /\ copyQueue' = Tail(copyQueue)
           /\ copyPc' = "check"
           /\ UNCHANGED <<source, index, staged, stagedAt, batches, scanned,
                          batchThread, stats, server, budget>>

(* _scan_allowed is false: the candidate goes back to the end of the queue. *)
CopyPutBack == /\ copyPc = "check"
               /\ Fault("pressure")
               /\ copyQueue' = Append(copyQueue, candidate)
               /\ copyPc' = "idle" /\ candidate' = NoItem
               /\ UNCHANGED <<source, index, staged, stagedAt, batches, scanned,
                              batchThread, stats, server>>

(* The source is gone or has another signature than the candidate's. *)
Outdated == candidate[1] \in absent \/ version[candidate[1]] # candidate[2]

CopyStat == /\ copyPc = "check"
            /\ copyPc' = IF Outdated THEN "clear" ELSE "copy"
            /\ UNCHANGED <<source, index, staged, stagedAt, batches, scanned, copyQueue,
                           candidate, batchThread, stats, server, budget>>

(* _clear_pending_signature, and stage_candidate returns False. *)
CopyClearPending ==
    /\ copyPc = "clear"
    /\ ~LockHeldByBatch
    /\ pendingSignature' = [pendingSignature EXCEPT ![candidate[1]] =
                               IF @ = candidate[2] THEN 0 ELSE @]
    /\ copyPc' = "idle" /\ candidate' = NoItem
    /\ UNCHANGED <<source, lastSignature, staged, stagedAt, batches, scanned, copyQueue,
                   batchThread, stats, server, budget>>

(* shutil.copy2 truncates the destination, ... *)
CopyOpen == /\ copyPc = "copy"
            /\ candidate[1] \notin absent
            /\ Fault("partial")
            /\ staged' = [staged EXCEPT ![candidate] = Partial]
            /\ copyPc' = "copying"
            /\ UNCHANGED <<source, index, stagedAt, batches, scanned, copyQueue,
                           candidate, batchThread, stats, server>>

(* ... and copies whatever version the source has by now. *)
CopyFile == /\ copyPc \in {"copy", "copying"}
            /\ candidate[1] \notin absent
            /\ staged' = [staged EXCEPT ![candidate] = version[candidate[1]]]
            /\ copyPc' = "save_staged"
            /\ UNCHANGED <<source, index, stagedAt, batches, scanned, copyQueue,
                           candidate, batchThread, stats, server, budget>>

(* The directory the copy thread has just made under staged/ is empty, and *)
(* the batch thread removes it before copy2 can open a file in it.          *)
DirectoryRemoved == /\ Nested
                    /\ copyPc = "copy" /\ batchPc = "cleanup"
                    /\ \A it \in Items : staged[it] = Missing

(* copy2 raises (the source or the directory is gone, or the disk fails): *)
(* the copy loop logs it and goes on with the next candidate.              *)
CopyRaises == /\ copyPc \in {"copy", "copying"}
              /\ \/ candidate[1] \in absent /\ UNCHANGED budget
                 \/ DirectoryRemoved /\ UNCHANGED budget
                 \/ Fault("copy_error")
              /\ copyPc' = "idle" /\ candidate' = NoItem
              /\ UNCHANGED <<source, index, staged, stagedAt, batches, scanned, copyQueue,
                             batchThread, stats, server>>

(* Takes the lock, loads both indexes and saves staged-index.json. *)
CopySaveStaged ==
    /\ copyPc = "save_staged"
    /\ ~LockHeldByBatch
    /\ stagedAt' = WithEntry(candidate)
    /\ copyPc' = "save_source"
    /\ UNCHANGED <<source, index, staged, batches, scanned, copyQueue, candidate,
                   batchThread, stats, server, budget>>

(* Saves source-index.json, whose new entry has no pending_signature, and *)
(* releases the lock.                                                      *)
CopySaveSource ==
    /\ copyPc = "save_source"
    /\ lastSignature' = [lastSignature EXCEPT ![candidate[1]] = candidate[2]]
    /\ pendingSignature' = [pendingSignature EXCEPT ![candidate[1]] = 0]
    /\ copyPc' = "idle" /\ candidate' = NoItem
    /\ UNCHANGED <<source, staged, stagedAt, batches, scanned, copyQueue,
                   batchThread, stats, server, budget>>

(* An index whose rewriting is cut short loads as empty. *)
CutShort(positions) == "torn" \in Faults /\ positions' = [it \in Items |-> 0]

(* One of the two saves raises: the copy loop logs it and goes on. *)
SaveRaises ==
    /\ copyPc = "save_source" \/ (copyPc = "save_staged" /\ ~LockHeldByBatch)
    /\ Fault("save_error")
    /\ \/ UNCHANGED <<index, stagedAt>>
       \/ copyPc = "save_staged" /\ CutShort(stagedAt) /\ UNCHANGED index
       \/ /\ copyPc = "save_source" /\ "torn" \in Faults
          /\ lastSignature' = [i \in Images |-> 0]
          /\ pendingSignature' = [i \in Images |-> 0]
          /\ UNCHANGED stagedAt
    /\ copyPc' = "idle" /\ candidate' = NoItem
    /\ UNCHANGED <<source, staged, batches, scanned, copyQueue, batchThread, stats,
                   server>>

----------------------------------------------------------------------------
(* Batch thread: _batch_loop, maybe_build_batch, next_ready_batch, *)
(* ServerClient.upload_batch, mark_uploaded and mark_failed.       *)

(* Variant: the newest entry of every relative path. *)
NewestPerPath == {it \in Indexed : \A e \in Indexed :
                     e[1] = it[1] => stagedAt[it] >= stagedAt[e]}

(* The oldest entry of every relative path, oldest first, at most a batch. *)
OldestPerPath == {it \in Indexed : \A e \in Indexed :
                     e[1] = it[1] => stagedAt[it] <= stagedAt[e]}
BatchEntries  == {it \in OldestPerPath :
                     Cardinality({e \in OldestPerPath : stagedAt[e] < stagedAt[it]})
                         < BatchSize}

(* Variants: a batch in flight is not waited for; only full batches. *)
MayBuildInFlight == readyBatches = 0 /\ Indexed # {}
MayBuildFull == /\ readyBatches = 0 /\ inflightBatches = 0
                /\ Cardinality(BatchEntries) >= BatchSize
MayBuild == readyBatches = 0 /\ inflightBatches = 0 /\ Indexed # {}

(* The clock's next reading, and the variant that stands still. *)
StoppedClock(time) == time
NextId(time) == time + 1

(* maybe_build_batch under the lock.  A batch that is not full waits for *)
(* interval_sec, so it may be built now or later.                         *)
SelectBatch == /\ batchPc = "idle"
               /\ ~LockHeldByCopy
               /\ MayBuild
               /\ nextBatch \in BatchIds
               /\ selected' = BatchEntries
               /\ batch' = nextBatch
               /\ nextBatch' = NextId(nextBatch)
               /\ batchPc' = "zip"
               /\ UNCHANGED <<source, index, staged, stagedAt, zip, zipIn, manifest,
                              attempts, scanned, copyQueue, copyThread, remaining, stats, server,
                              budget>>

(* The zip is written straight into ready/, from the files as they are. *)
WriteZip == /\ batchPc = "zip"
            /\ zip' = [zip EXCEPT ![batch] =
                          [it \in Items |-> IF it \in selected THEN staged[it]
                                            ELSE Missing]]
            /\ zipIn' = [zipIn EXCEPT ![batch] = "ready"]
            /\ selected' = {}
            /\ batchPc' = "manifest"
            /\ UNCHANGED <<source, index, staged, stagedAt, manifest, attempts, nextBatch,
                           scanned, copyQueue, copyThread, remaining, batch, stats, server, budget>>

WriteManifest == /\ batchPc = "manifest"
                 /\ manifest' = manifest \cup {batch}
                 /\ readyBatches' = readyBatches + 1
                 /\ batchPc' = "built"
                 /\ UNCHANGED <<source, index, staged, stagedAt, zip, zipIn, attempts,
                                nextBatch, scanned, copyQueue, copyThread, remaining, batch, selected,
                                inflightBatches, server, budget>>

(* Writing the zip's end or the manifest raises; the batch loop logs it. *)
BuildRaises == /\ batchPc = "manifest"
               /\ Fault("zip_error")
               /\ batchPc' = "idle" /\ batch' = 0
               /\ UNCHANGED <<source, index, staged, stagedAt, batches, scanned, copyQueue,
                              copyThread, remaining, selected, stats, server>>

BuildReturnsNone == ~MayBuild \/ Cardinality(BatchEntries) < BatchSize

(* next_ready_batch takes the oldest zip; without a readable manifest it *)
(* raises after the zip was moved.                                       *)
TakeReady == /\ batchPc = "built" \/ (batchPc = "idle" /\ BuildReturnsNone)
             /\ ~LockHeldByCopy
             /\ \E b \in Ready :
                   /\ \A c \in Ready : b <= c
                   /\ zipIn' = [zipIn EXCEPT ![b] = "inflight"]
                   /\ IF b \in manifest
                      THEN batchPc' = "upload" /\ batch' = b
                      ELSE batchPc' = "idle" /\ batch' = 0
             /\ readyBatches' = OneLess(readyBatches)
             /\ inflightBatches' = inflightBatches + 1
             /\ UNCHANGED <<source, index, staged, stagedAt, zip, manifest, attempts,
                            nextBatch, scanned, copyQueue, copyThread, remaining, selected,
                            server, budget>>

(* The server stores a batch once per idempotency key. *)
ServerStores(b) ==
    /\ received' = received \cup {b}
    /\ latest' = [i \in Images |->
                     IF b \notin received /\ \E it \in Contents(b) : it[1] = i
                     THEN (CHOOSE it \in Contents(b) : it[1] = i)[2]
                     ELSE latest[i]]

UploadSucceeds == /\ batchPc = "upload"
                  /\ ServerStores(batch)
                  /\ acked' = acked \cup {batch}
                  /\ batchPc' = "acked"
                  /\ UNCHANGED <<source, index, staged, stagedAt, batches, scanned,
                                 copyQueue, copyThread, remaining, batch, selected, stats, tries,
                                 budget>>

(* No server answers with success: none was reached, or one stored the *)
(* batch and its answer was lost.                                       *)
UploadFails == /\ batchPc = "upload"
               /\ \/ Fault("refused") /\ UNCHANGED <<received, latest>>
                  \/ Fault("ack_lost") /\ ServerStores(batch)
               /\ tries' = [tries EXCEPT ![batch] = @ + 1]
               /\ batchPc' = "failed"
               /\ UNCHANGED <<source, index, staged, stagedAt, batches, scanned, copyQueue,
                              copyThread, remaining, batch, selected, stats, acked>>

(* mark_uploaded takes the lock and loads the index: selected is what is   *)
(* left to unlink, remaining the entries it will save.                     *)
BeginMarkUploaded ==
    /\ batchPc = "acked"
    /\ ~LockHeldByCopy
    /\ selected' = Contents(batch)
    /\ remaining' = Indexed \ Contents(batch)
    /\ batchPc' = "unlink"
    /\ UNCHANGED <<source, index, staged, stagedAt, batches, scanned, copyQueue,
                   copyThread, batch, stats, server, budget>>

(* It unlinks one staged file after the other, where it is still there, ... *)
UnlinkStaged == /\ batchPc = "unlink"
                /\ \E it \in selected :
                      /\ staged' = [staged EXCEPT ![it] = Missing]
                      /\ selected' = selected \ {it}
                      /\ batchPc' = IF staged[it] = Missing THEN "unlink" ELSE "cleanup"
                /\ UNCHANGED <<source, index, stagedAt, batches, scanned, copyQueue,
                               copyThread, remaining, batch, stats, server, budget>>

(* removes the directories that are empty now (DirectoryRemoved), ... *)
CleanupDirectories == /\ batchPc = "cleanup"
                      /\ batchPc' = "unlink"
                      /\ UNCHANGED <<source, index, staged, stagedAt, batches, scanned,
                                     copyQueue, copyThread, remaining, batch, selected,
                                     stats, server, budget>>

(* moves the zip to sent/, ... *)
MoveToSent == /\ batchPc = "unlink" /\ selected = {}
              /\ zipIn' = [zipIn EXCEPT ![batch] = "sent"]
              /\ batchPc' = "finish"
              /\ UNCHANGED <<source, index, staged, stagedAt, zip, manifest, attempts,
                             nextBatch, scanned, copyQueue, copyThread, remaining, batch, selected,
                             stats, server, budget>>

(* ... unlinks the manifest and saves staged-index.json. *)
FinishUploaded ==
    /\ batchPc = "finish"
    /\ manifest' = manifest \ {batch}
    /\ stagedAt' = Order(remaining, stagedAt)
    /\ inflightBatches' = OneLess(inflightBatches)
    /\ batchPc' = "idle" /\ batch' = 0 /\ remaining' = {}
    /\ UNCHANGED <<source, index, staged, zip, zipIn, attempts, nextBatch, scanned,
                   copyQueue, copyThread, selected, readyBatches, server, budget>>

(* mark_failed, without the lock: the manifest is rewritten, ... *)
CountAttempt == /\ batchPc = "failed"
                /\ attempts' = [attempts EXCEPT ![batch] = @ + 1]
                /\ batchPc' = "park"
                /\ UNCHANGED <<source, index, staged, stagedAt, zip, zipIn, manifest,
                               nextBatch, scanned, copyQueue, copyThread, remaining, batch,
                               selected, stats, server, budget>>

(* Variants: parked one attempt early; never moved back to ready/. *)
ParkDirectoryEarly(b) == IF attempts[b] + 1 >= Retry THEN "failed" ELSE "ready"
ParkDirectoryStays(b) == IF attempts[b] >= Retry THEN "failed" ELSE "inflight"
(* ... and the zip goes back to ready/, or to failed/ after the last try. *)
ParkDirectory(b) == IF attempts[b] >= Retry THEN "failed" ELSE "ready"
ParkBatch ==
    LET target == ParkDirectory(batch)
    IN  /\ batchPc = "park"
        /\ zipIn' = [zipIn EXCEPT ![batch] = target]
        /\ inflightBatches' = OneLess(inflightBatches)
        /\ readyBatches' = IF target = "ready" THEN readyBatches + 1 ELSE readyBatches
        /\ batchPc' = "idle" /\ batch' = 0
        /\ UNCHANGED <<source, index, staged, stagedAt, zip, manifest, attempts, nextBatch,
                       scanned, copyQueue, copyThread, remaining, selected, server, budget>>

(* An unlink, a rename or a write in mark_uploaded or mark_failed raises.   *)
(* The batch loop logs it: the lock is free, files and counts stay as they  *)
(* are, and until the next restart nothing takes the zip in inflight/, or   *)
(* its count, away.                                                         *)
SettleRaises ==
    /\ batchPc \in {"acked", "unlink", "finish", "failed", "park"}
    /\ Fault("save_error")
    /\ \/ UNCHANGED <<manifest, stagedAt>>
       \/ /\ batchPc = "finish" /\ manifest' = manifest \ {batch}
          /\ UNCHANGED stagedAt \/ CutShort(stagedAt)
       \/ /\ batchPc = "failed" /\ "torn" \in Faults
          /\ manifest' = manifest \ {batch} /\ UNCHANGED stagedAt
    /\ batchPc' = "idle" /\ batch' = 0 /\ selected' = {} /\ remaining' = {}
    /\ UNCHANGED <<source, index, staged, zip, zipIn, attempts, nextBatch, scanned,
                   copyQueue, copyThread, stats, server>>

----------------------------------------------------------------------------
(* The process dies and starts again.  DiskQueue.__init__ moves inflight/ *)
(* to ready/, reloads the staged index, saves it and counts; the threads  *)
(* start over with an empty copy queue.  A JSON file that was being       *)
(* rewritten is cut short: an index then loads as empty (the scan saves   *)
(* the source index in every cycle, the start itself the staged index),   *)
(* a manifest can no longer be read.                                      *)
Restart(tornSource, tornStaged, tornManifest) ==
    /\ Fault("crash")
    /\ tornSource \/ tornStaged \/ tornManifest => "torn" \in Faults
    /\ tornManifest => batchPc = "failed"
    /\ IF tornSource
       THEN /\ lastSignature' = [i \in Images |-> 0]
            /\ pendingSignature' = [i \in Images |-> 0]
       ELSE UNCHANGED index
    /\ stagedAt' = Order(IF tornStaged THEN {} ELSE Indexed, stagedAt)
    /\ manifest' = IF tornManifest THEN manifest \ {batch} ELSE manifest
    /\ zipIn' = [b \in BatchIds |-> IF b \in Inflight THEN "ready" ELSE zipIn[b]]
    /\ readyBatches' = Cardinality(Ready \cup Inflight)
    /\ inflightBatches' = 0
    /\ scanned' = {} /\ copyQueue' = <<>>
    /\ copyPc' = "idle" /\ candidate' = NoItem
    /\ batchPc' = "idle" /\ batch' = 0 /\ selected' = {} /\ remaining' = {}
    /\ UNCHANGED <<source, staged, zip, attempts, nextBatch, server>>

Camera == \E i \in Images : Capture(i) \/ Delete(i)

ScanThread == \/ \E found \in SUBSET Images : Scan(found)
              \/ ScanPut

CopyThread == \/ CopyGet \/ CopyPutBack \/ CopyStat \/ CopyClearPending
              \/ CopyOpen \/ CopyFile \/ CopyRaises
              \/ CopySaveStaged \/ CopySaveSource \/ SaveRaises

BatchThread == \/ SelectBatch \/ WriteZip \/ WriteManifest \/ BuildRaises
               \/ TakeReady \/ UploadSucceeds \/ UploadFails
               \/ BeginMarkUploaded \/ UnlinkStaged \/ CleanupDirectories
               \/ MoveToSent \/ FinishUploaded
               \/ CountAttempt \/ ParkBatch \/ SettleRaises

Crash == \E tornSource, tornStaged, tornManifest \in BOOLEAN :
            Restart(tornSource, tornStaged, tornManifest)

Next == Camera \/ ScanThread \/ CopyThread \/ BatchThread \/ Crash

Spec == Init /\ [][Next]_vars

(* Every thread loops for ever and sleeps between its cycles, so it gets    *)
(* the lock again and again; the round robin over the scan roots brings     *)
(* every file into some scan; the copy thread's put-backs and the failed    *)
(* uploads are bounded by MaxFaults: the disk gets room and a server can be *)
(* reached in the end.                                                      *)
Fairness == /\ \A i \in Images :
                  SF_vars(\E found \in SUBSET Images : i \in found /\ Scan(found))
            /\ WF_vars(ScanPut)
            /\ SF_vars(CopyThread)
            /\ SF_vars(BatchThread)

FairSpec == Spec /\ Fairness

----------------------------------------------------------------------------
(* Properties. *)

(* Every variable keeps its shape, a part of the state at a time.          *)
SourceType  == /\ version \in [Images -> 0..MaxVersion]
               /\ absent \subseteq Images
IndexType   == /\ lastSignature \in [Images -> 0..MaxVersion]
               /\ pendingSignature \in [Images -> 0..MaxVersion]
StagedType  == /\ staged \in [Items -> Bytes]
               /\ stagedAt \in [Items -> Nat]
BatchesType == /\ zip \in [BatchIds -> [Items -> Bytes]]
               /\ zipIn \in [BatchIds -> {"none", "ready", "inflight", "sent", "failed"}]
               /\ manifest \subseteq BatchIds
               /\ attempts \in [BatchIds -> Nat]
               /\ nextBatch \in 1..MaxBatches + 1
QueueType   == /\ scanned \subseteq Items
               /\ copyQueue \in Seq(Items)
CopyType    == /\ copyPc \in {"idle", "check", "clear", "copy", "copying",
                              "save_staged", "save_source"}
               /\ candidate \in Items \/ (copyPc = "idle" /\ candidate = NoItem)
BatchType   == /\ batchPc \in {"idle", "zip", "manifest", "built", "upload", "acked",
                               "unlink", "cleanup", "finish", "failed", "park"}
               /\ batch \in BatchIds \/ (batchPc = "idle" /\ batch = 0)
               /\ selected \subseteq Items /\ remaining \subseteq Items
StatsType   == /\ readyBatches \in Nat /\ inflightBatches \in Nat
               /\ budget \in 0..MaxFaults
ServerType  == /\ received \subseteq BatchIds /\ acked \subseteq BatchIds
               /\ latest \in [Images -> 0..MaxVersion]
               /\ tries \in [BatchIds -> Nat]
TypeOK == /\ SourceType /\ IndexType /\ StagedType /\ BatchesType /\ QueueType
          /\ CopyType /\ BatchType /\ StatsType /\ ServerType

(* The server acknowledged a batch with all the bytes of item it, or newer. *)
Delivered(it) == \E b \in acked : zip[b][it] >= it[2]

(* The client can still upload it: the bytes are there and are indexed. *)
Held(it) == it \in Indexed /\ staged[it] >= it[2]

(* An image version the source index calls done (last_signature) is never *)
(* scanned again, so at every instant, as a crash would leave the disk, it  *)
(* is either staged whole and indexed, or acknowledged by the server        *)
(* (stage_candidate against mark_uploaded, the order of their saves, and    *)
(* the recovery in __init__).                                               *)
IndexedIsDurable ==
    \A i \in Images :
        lastSignature[i] > 0 => Held(<<i, lastSignature[i]>>)
                                \/ Delivered(<<i, lastSignature[i]>>)

(* The gate of maybe_build_batch, which only looks at cached counts, keeps *)
(* at most one batch in ready/ and inflight/ together, through restarts.    *)
AtMostOneOutstanding ==
    \A b, c \in Ready \cup Inflight : b = c

(* Whenever the batch thread decides (top of its loop), the cached counts   *)
(* it decides by are the numbers of zips in the directories.  An error of   *)
(* mark_uploaded after the zip went to sent/ leaves one count too many, and *)
(* then nothing is outstanding: the gate is closed, never open too early.   *)
Stranded == /\ "save_error" \in Faults /\ budget < MaxFaults
            /\ Ready \cup Inflight = {} /\ inflightBatches = 1
CountsMatchDirectories ==
    batchPc = "idle" => /\ readyBatches = Cardinality(Ready)
                        /\ inflightBatches = Cardinality(Inflight) \/ Stranded

(* A batch is given up (failed/) only after config.upload.retry uploads of  *)
(* it failed, counted across restarts.                                      *)
ParkedOnlyAfterRetries ==
    \A b \in BatchIds : zipIn[b] = "failed" => tries[b] >= Retry

(* No stage of the pipeline reorders the versions of one path: what the     *)
(* server stores for it is never older than what it stored before (copy     *)
(* queue, one version per path in a batch, one batch at a time).            *)
VersionsArriveInOrder == [][\A i \in Images : latest'[i] >= latest[i]]_latest

(* A batch is told apart by its key alone, so bytes that were sent under a  *)
(* batch id never change while that batch may still be sent or retried.     *)
SentBytesAreFixed ==
    [][\A b \in received : zip'[b] = zip[b]]_<<zip, received>>

(* The buffer never lets go of an image the server has not acknowledged:    *)
(* every operation, crash or restart is a step of Custody or no step of it. *)
InAcked(it) == \E b \in acked : zip[b][it] # Missing
Buffer == INSTANCE Custody WITH held <- Indexed,
                                settled <- {it \in Items : InAcked(it)}
BufferKeepsCustody == Buffer!Spec

(* The client uploads every image that stops changing.                      *)
Stable(i, v) == version[i] = v /\ i \notin absent
StableImageArrives ==
    \A i \in Images, v \in Versions :
        <>[]Stable(i, v) => <>Delivered(<<i, v>>)

(* A batch in ready/ does not stay outstanding for ever.                    *)
OutstandingResolves ==
    \A b \in BatchIds : b \in Ready ~> zipIn[b] \in {"sent", "failed"}
=============================================================================
