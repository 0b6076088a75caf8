# Verification of the machine image uploader

TLA+ models of the programs in this repository: specifications, TLC
configurations that check them on small instances, and proofs for every value
of the constants. Paths below are relative to `src/`.

## The system

An image travels through four processes; each hand-over is a directory, a file
or a Redis list, and each process may die at any point. A control server watches
the upload servers.

| Component | State | Operations |
|---|---|---|
| Disk buffer, `machine_client/disk_queue.py` | `staged/`, `ready/`, `inflight/`, `sent/`, `failed/`, `manifests/`; `source-index.json`, `staged-index.json`, `directory-index.json`; `_stats_cache` in memory | `scan_for_candidates`, `stage_candidate`, `maybe_build_batch`, `next_ready_batch`, `mark_uploaded`, `mark_failed`, constructor with `recover_inflight` |
| Agent, `machine_client/agent.py` | the copy queue, three threads, the current configuration | scan, copy and batch loop, `update_config` |
| Transport, `machine_client/transport.py` | none | `upload_batch` over a list of URLs, auth calls |
| Upload storage, `server/storage.py`, `server/routes.py` | raw files, metadata log, index of idempotency keys | `save_upload` |
| File queue, `server/queue.py` | a JSON file per job in `pending/`, `processing/`, `completed/`, `failed/` | `enqueue`, `claim_next`, `mark_completed`, `mark_failed`, `recover_processing_jobs` |
| Redis queue, `server/queue.py` | four lists and a payload per job | the same five |
| Worker, `worker/service.py`, `worker/processor.py` | extracted and processed files, heartbeat | `run_forever`, `process`, `handle_failure` |
| Maintenance, `server/maintenance.py` | none | removes raw and temporary files by age |
| Runtime store, `server/store.py` | none of its own | machines, queue, worker and alerts, read from the others |
| Control server: auth, `control_server/auth.py` | users, sessions | login, refresh, logout, `require_access`, changes of users |
| Control server: fleet, `control_server/store.py` | registry, snapshots, the poll thread | register, patch, refresh, poll, overview |

Interaction: the scan thread marks a source version pending in the source index
and puts it into the copy queue; the copy thread copies it into `staged/` and
moves it to the staged index; the batch thread zips staged files, uploads the
zip under an idempotency key and then unlinks what was acknowledged. The server
stores the zip once per key and enqueues a job; a worker claims the job and
completes it, or fails it up to four times. The control server fetches the
runtime store's answers over HTTP and derives the status of each server and of
the fleet; its users change the registry through requests.

What is hard: three threads over one set of files with a lock that covers only
part of each operation; decisions by cached counts; JSON files rewritten in
place; retries across restarts and lost answers; several processes moving job
files without any lock, or jobs through Redis in several commands; an `await`
between looking a key up and remembering it; checks of a session that release
the lock before they are used; a poll that saves what it read seconds ago.
`PROJECT.json` lists the hazards by line.

What makes the parts correct:

- buffer: what an index calls done is never lost; one batch is outstanding at
  most; versions of a path arrive in order; what is retried is what was sent;
  every stable image arrives;
- scan: no root is passed over for ever; old images stay unqueued in index-only
  mode;
- queues: no enqueued job disappears; retries are counted; every job ends;
- storage and worker: an acknowledged batch has its job; one batch becomes two
  jobs only by overlap or a lost key; a completed job has its images;
- auth: a session is usable only while its user's password and enabled flag are
  those of its login; a revoked session stays revoked;
- fleet: a server in trouble at its last successful poll keeps the fleet from
  being normal; the poller undoes no request; every server that answers is shown
  as it is in the end, and one that does not has its error beside the old snapshot.

## Modules

| Module | Role |
|---|---|
| `Custody` | The abstract promise: an item that is held stays held until it is settled. |
| `DiskQueue`, `MCDiskQueue`, `DiskQueueProofs` | The disk buffer and the threads of the agent; implements `Custody`. |
| `ScanRoots`, `MCScanRoots`, `ScanRootsProofs` | Which part of the image tree a scan cycle sweeps. |
| `FileQueue`, `MCFileQueue`, `FileQueueProofs` | The file backed queue, the workers and the server that use it; implements `Custody`. |
| `RedisQueue` | The queue on Redis and the worker's loop on top of it. |
| `UploadStorage` | `save_upload` and the client that retries a batch. |
| `Pipeline`, `MCPipeline`, `PipelineProofs` | The composition of storage, Redis queue, processor and maintenance. |
| `RunsProofs`, `DeliveryProofs` | Proofs about the runs of a job, and about what the client and the worker may rely on. |
| `ControlAuth` | Users and sessions of the control server, a specification by itself. |
| `RuntimeStore` | Status and alerts as functions of a server's condition. |
| `FleetStore` | Registry, snapshots and the poll thread. |
| `ControlPlane`, `MCControlPlane` | The composition of the three before; its requests need a granted session. |
| `ControlPlaneProofs`, `FleetProofs` | Proofs about the sessions and about the fleet. |

The `MC` modules hold the model values, the sets of faults and the bounds of the runs.

### DiskQueue

A source signature (mtime and size) is a version number, a path with a version
an item. `staged` and `zip` give the version of the bytes a file really has, so
a copy that picked up a newer version, or was seen half done (`Partial`), is
told apart from a whole one. `stagedAt` is the staged index: the position of an
entry by `staged_at`. Copies, manifests and indexes survive `Restart`; the copy
queue, the program counters and the three counts do not.

Actions follow the code in the order it writes. Where an operation holds the lock
over several writes it is split into one step per write, and `LockHeldByCopy` and
`LockHeldByBatch` keep the other lock holders out, not the crashes. Within such a
section the in-memory count may be updated in the first step, since nobody reads
it before the lock is released.

| Code | Actions |
|---|---|
| `scan_for_candidates`, `_scan_loop` | `Scan`, `ScanPut` |
| `_copy_loop`, `stage_candidate` | `CopyGet`, `CopyPutBack`, `CopyStat`, `CopyClearPending`, `CopyOpen`, `CopyFile`, `CopyRaises`, `CopySaveStaged`, `CopySaveSource` |
| `maybe_build_batch` | `SelectBatch`, `WriteZip`, `WriteManifest`, `BuildRaises` |
| `next_ready_batch` | `TakeReady` |
| `upload_batch` | `UploadSucceeds`, `UploadFails` |
| `mark_uploaded` | `BeginMarkUploaded`, `UnlinkStaged`, `CleanupDirectories`, `MoveToSent`, `FinishUploaded` |
| `mark_failed` | `CountAttempt`, `ParkBatch` |
| the `except` of `_copy_loop` and of `_batch_loop` | `CopyRaises`, `SaveRaises`; `BuildRaises`, `SettleRaises` |
| constructor, `recover_inflight`, `_initialize_stats` | `Restart` |

Which files a scan finds is any set of unseen ones up to the copy limit; that the
code's choice of roots finds every image is the subject of `ScanRoots`. A
batch that is not full may be built now or later (`interval_sec`). The manifest's
list of images is the zip's list of members. A scan that finds nothing new only
saves what it loaded; it is no step, but `Restart` may leave its file torn.
The server is the set of batches it stored: it stores a key once, when the
request is made; a request that runs on after the client gave up waiting is left
to `UploadStorage`. `FinishUploaded`
unlinks the manifest and saves the index in one step: a crash between the two
leaves entries without files, which no load of the index returns.

The loops catch what the operations raise. An error while one of the two indexes is
saved (`SaveRaises`) ends the staging; an error in `mark_uploaded` or `mark_failed`
(`SettleRaises`) frees the lock and leaves files and counts as they are: the zip stays
in `inflight/`, or is in `sent/` while its count stays, and nothing is built before the
next restart. Of the cached counts `staged_images` is left out: only the dashboard
reads it.

With `Nested` the images lie in one subdirectory of `image_root`, whose copy under
`staged/` comes and goes: `CleanupDirectories` ends the moment in which
`mark_uploaded` may remove it, and within that moment a copy that has made the
directory, and not opened its file, may find it gone (`DirectoryRemoved`).

### ScanRoots

The tree is cut into roots. `Scan` is `scan_for_candidates` up to the source
index: it ranks the roots that exist (`Rank`: changed ones first, then those
after the cursor), sweeps the first `RootsPerCycle` of them up to the limit
(`Selected`, `Swept`, `Find`) and in index-only mode records what it finds and
returns nothing. `ScanReturns` saves the directory index and hands the candidates
over; a `Restart` may come between the two. A signature matters only by being the
recorded one or not (`stale`). `Change` and `Ripen` are the camera and the age
limit of two seconds: an image is absent, young or ready. A change of a deep file
or in place leaves the root's signature alone, as it does in the file system.

### FileQueue

`pending` and `processing` hold each job's file content, which is its `attempts`
field, `Corrupt`, or `NoFile`. Every rename, write and unlink is a step. A write
can be cut short by a crash (`Torn`); enqueue's file is visible while still empty
(`EnqueueOpen`, `EnqueueWrite`), because a worker lists the directory at the
same time. The other writes to `pending/` are single steps: with one worker
nobody lists the directory during them. An exception outside the `try` of
`run_forever` ends the worker, which systemd starts again.

| Code | Actions |
|---|---|
| constructor, `recover_processing_jobs` | `Start`, `RecoverRead`, `RecoverWrite`, `RecoverUnlink`, `RecoverDone` |
| `enqueue` | `EnqueueOpen`, `EnqueueWrite` |
| `claim_next` | `ClaimList`, `ClaimRename`, `ClaimRead`, `ClaimStamp` |
| `run_forever` | `ProcessReturns`, `ProcessRaises`, `WriteState` |
| `mark_completed`, `mark_failed` | `CompleteWrite`, `CompleteUnlink`, `FailWrite`, `FailUnlink` |

`Supervised` says that a process starts only while no other one is busy, the
order of the runbook (stop server and worker; start server, then worker).

### Pipeline, UploadStorage and RedisQueue

A request is a batch with the number of its attempt; the client sends the next
one when the last was refused, cut off by a crash or given up, and the server works
on after a client gave up.
`save_upload` is one step per effect, in the order of the code. Steps without an
`await` between them still are steps of their own, because a crash or an error may
come between them, but no other request runs meanwhile (`LoopFree`). The raw file's
name is chosen before the body is read, so two requests may share it (`slot`).

Files are written in two steps where somebody can tell. `OpenRaw` truncates the raw
file and `WriteRaw` fills it; between the two, and after a crash or an error there, it
is `short`, and converting it fails. `BeginCopy` and `EndCopy` are the `copy2` of
`handle_failure`, which takes what bytes the raw file has then: a copy that lacks some
is in `half`, and since a copy is never made where one is, it stays there. The index of
keys is rewritten in place: a crash or an error in `_remember_idempotency` may leave the
old index or one that loads as empty (`LoseKeys`). `Raise` is every exception
of the handler but the checksum's, a full disk or Redis out of reach: the client gets a
500 and sends the batch again. `keyless` remembers whose key was never written or went
with the index.

In `RedisQueue` every Redis command is a step. `adrift` remembers the jobs whose
id was only in the memory of a process that died; the properties name it where
the code has no answer to it. A payload that is not there loads as `{}`, without
`attempts`. The batch of `test_connection` has no image: its job can only fail.

| Code | Actions |
|---|---|
| `upload_batch`, `_batch_loop` | `Send`, `TimeOut` |
| `save_upload`, `enqueue` | `Lookup`, `OpenRaw`, `WriteRaw`, `Refuse`, `AppendMetadata`, `EnqueueSave`, `EnqueuePush`, `Remember`, `Raise`, `Answer` |
| `RedisQueue.claim_next` | `ClaimPop`, `ClaimPush`, `ClaimLoad`, `ClaimSave` |
| `mark_completed`, `mark_failed` | `CompleteSave`, `CompleteRemove`, `CompletePush`; `FailSave`, `FailRemove`, `FailPush` |
| `recover_processing_jobs` | `RecoverList`, `RecoverLoad`, `RecoverSave`, `RecoverRemove`, `RecoverPush`, `RecoverDone` |
| `process`, `handle_failure` | `Process`; `BeginCopy`, `EndCopy`, `FailureRaises` |
| `write_state`, and an error in it or in `mark_completed` | `StateWritten`, `CompletionRaises` |
| `run_startup_maintenance`, in `create_app` and by the timer | `ServerReady`, `Maintenance` |

### ControlPlane, ControlAuth, FleetStore and RuntimeStore

Requests run in threads (`req`); each action is one critical section of a lock,
and what a thread knows between two of them is the record `req[r]`. Passwords and
tokens are values: a hash verifies when they are equal. A token that has expired
is a request that never came, so there is no clock. `CheckUser` keeps in `legit`
whether the session was entitled when it was looked up.

The poller is the state of `poll`: it lists the servers that are due, reads the
entry, fetches without the lock, and then writes the snapshot and the registry
under the lock. A restart may come between these two writes (`PollStore`,
`PollStamp`). `world` is the condition of the server behind each URL: the ages of
machines, their jobs, disk, heartbeat and last error, or no answer; `RuntimeStore`
computes alerts and status from it with the thresholds of the code.

A poll that fails keeps the last snapshot and writes only `last_error`
(`control_server/store.py:284`). So a server that stopped answering stays `online` in
the overview, and the fleet may stay `normal`, however long that lasts, although
`docs/multi-server-control-plane-spec.md:1073` has `offline` after 60 seconds without a
successful poll. `NormalWasHealthy` is therefore about the past, as its name says:
normal means that every server was healthy when its snapshot was taken.
`PollFetch` is the request for `/api/local/snapshot`, which every server of this
repository answers; the eight single requests that follow when it gives nothing
(`store.py:299-332`), and may see eight moments of the server, are left out.

| Code | Actions |
|---|---|
| `login`, `refresh`, `logout` | `LoginCheck`, `LoginSave`; `RefreshFind`, `RefreshSave`; `LogoutFind`, `LogoutSave` |
| `require_access` | `Lookup`, `CheckUser`, `Answer` |
| changes of users | `RegisterUser`, `ChangePassword`, `ResetPassword`, `ToggleUser`, `PatchUser` |
| `register_server`, `patch_server`, `refresh_server` | `RegisterServer`, `PatchServer`, `RefreshServer` |
| `_poll_loop`, `_poll_server` | `PollList`, `PollRead`, `PollFetch`, `PollStore`, `PollStamp`, `PollFail` |
| `machines`, `alerts`, `_normalize_snapshot`, `fleet_overview` | `MachineStatus`, `Alerts`, `ServerStatus`, `FleetStatus` |

## Runs

| Run | Result | Shows |
|---|---|---|
| `dq_durable` | pass | `IndexedIsDurable`, `AtMostOneOutstanding`, `CountsMatchDirectories`, `BufferKeepsCustody` |
| `dq_all_faults` | pass | `TypeOK`, `ParkedOnlyAfterRetries`, `VersionsArriveInOrder`, `SentBytesAreFixed` |
| `dq_live` | pass | `StableImageArrives`, `OutstandingResolves` without crashes, for images directly in `image_root` |
| `dq_stuck` | violation | an image is pending for ever after a restart |
| `dq_emptied` | violation | a version in a subdirectory is pending for ever, without any fault |
| `dq_wedged` | violation | a zip without a manifest closes the build gate for ever |
| `scan` | pass | `OldImagesStay`, `ImagesAreFound` |
| `fq_single` | pass | safety of the queue with one worker and ordered starts, `QueueKeepsCustody`, `EveryJobSettles` |
| `fq_scaled` | violation | two workers lose a job without any fault |
| `fq_restart` | violation | a restarting server loses the job of a live worker |
| `pipeline` | pass | `NoJobLost`, `AckedHasJob`, `DuplicatesOverlap`, `CompletedIsConverted`, `GivenUpKeepsCopy`, `RunsAreBounded`, `PayloadsAreThere` |
| `control` | pass | `GrantWasValid`, `OldPasswordIsUseless`, `DeadStaysDead`, `OnlyAdminsChangeRegistry`, `NormalWasHealthy`, `SeenHasSnapshot`, `PollCatchesUp` |

Bounds, buffer. Two images with two versions give a batch that holds one version of one
path and another path, with a newer version behind; three batches give a first one, its
successor and a rebuilt one. `dq_durable` allows one fault but the full interleaving of
the threads; its fault set leaves out torn files, half copies and zip errors, under
which its properties do not hold (below); an error of a save is in it. `dq_all_faults`
takes one image and any three of all faults: two refused uploads and a crash between
them is the longest story its properties speak about with `Retry` 2. `dq_live` uses a
batch size larger than the number of images, so every batch is a partial one.

Bounds, scan. Four roots, two per cycle and a limit of two images make the cursor
go round, the limit cut a root short, and one root that changes for ever compete
with the rest; one further change and one restart meet every state of this.

Bounds, queues. In `fq_single` two jobs and three
faults let a recovered job meet a fresh one and a crash during the recovery from
a crash; `RetryLimit` is 1 instead of 3, so a job is given up after two errors.
`pipeline` has one batch that may be sent twice and the empty one, and any two of
crash, timeout, garbled body, error in the handler, conversion error, late error and
expiry: a timeout and a crash put both requests of a batch and the recovery of server
and worker into one behaviour (3 million states). `OneBatchOpen`, a constraint, keeps
the requests of the two batches from being open at once: they share no raw file and
meet only in the index of keys and in the queue, which they change without another
request in between, and there they still follow each other in either order. The
requests of one batch overlap freely. The theorems have no such bound.

Bounds, control plane. Two users, two passwords, two sessions, two threads and
four arrivals: a login, a request by each of two threads and a change of the user
under them. One server with two URLs meets one change of condition, one restart,
patches and refreshes; the five conditions have one trouble from each source.

Deadlock checking is off in all runs: bounded captures, batches, requests and jobs
end, and the models then stop where the program would sleep.

Faults that break a property are left out of the run that checks it, and named
here:

- *torn staged index*: images the source index calls done are forgotten;
- *half copies*: a second copy of an indexed version can be zipped half done;
- *zip error*: the same missing manifest as in `dq_wedged`, without a crash;
- *error of a save*, left out of `dq_live`: an image whose staging it ends stays pending
  for ever, as in `dq_stuck`, and a batch stays in `inflight/`, with the gate closed,
  until the next restart;
- *torn job file*: claim and recovery raise on it at every start, so the queue
  stops; `EveryJobSettles` says that nothing else stops it.

Cases a property names as its exception, because the code breaks it there: a
process that dies with a job's id in its hands (`adrift`, Redis); a key that was lost
(`keyless`); a copy in `failed_root` that lacks bytes (`half`); an error of
`mark_uploaded` behind its move to `sent/`, which leaves a count (`Stranded`); a restart during
the index-only cycles (`interrupted`); a list of roots that never settles
(`ListNeverSettles`: the cursor is a position in the list, so that a root that
comes and goes can make it skip another one for ever, although
`docs/path-preserving-upload-change-spec.md:178` expects old branches to be visited
again); roots that change in every cycle, at least as many as a cycle sweeps.

### Fairness

`FairSpec` of `DiskQueue` asks for strong fairness of the copy and batch threads: they loop for
ever with a sleep or a blocking get, and the lock they need is released again and
again. Strong fairness of `Scan` for each image stands for the round robin over
the roots, which `ImagesAreFound` of `ScanRoots` checks by itself. Put-backs and
failed uploads are faults and bounded by `MaxFaults`: the disk gets room and a server can be reached in the end. `FairSpec` of `FileQueue`
asks that a process which died is started (systemd, `Restart=always`), strongly
because a start waits for the others, and that a worker and an open `enqueue` continue.

`ScanRoots` asks that `Scan` or `ScanReturns` happens again and again: the loop
never ends, and one of the two is always possible, so this is weak fairness.
`ControlPlane` asks for weak fairness of the poller, a daemon thread that catches
every exception, and of `BecomesDue`, the passing of time; nothing is asked of
clients. `Pipeline` states safety only.

## Findings

- **`dq_stuck`** `pending_signature` is persisted before the copy and cleared
  only by the candidate itself. README: "New or modified files are copied into
  the local buffer".
- **`dq_emptied`** `stage_candidate` makes a directory and copies into it without
  the lock, while `mark_uploaded` removes directories it has emptied. The copy
  raises, and the pending signature stays. README: "When a source file content
  changes, it is uploaded again on the next cycle".
- **`dq_wedged`** the zip appears in `ready/` before its manifest exists.
- **`fq_scaled`** `mark_failed` writes and then unlinks a path another worker
  may have claimed meanwhile; the design speaks of horizontal worker scaling.
- **`fq_restart`** recovery belongs to every constructor, not to the worker that died.

## Proofs

Every theorem holds for all values of the constants that satisfy the module's
named assumption, such as `ConstantsAssumption` or `ScanAssumption`. The proofs
take an invariant of the actions, which the property alone hardly ever is.

### DiskQueueProofs

- `TypeCorrect`: every action keeps every part of `TypeOK`, grouped by thread
  (`CameraScanType`, `CopyThreadType`, `BatchThreadType`, `CrashType`).
- `DurabilityHolds` and `BufferImplementsCustody`, assuming `WholeFiles`: neither
  torn JSON files nor half copies. `IndexedIsDurable` does not say why the file of an
  entry may be unlinked, nor that the index `mark_uploaded` will save still has
  everything else. `DurableInv` adds this. `WholeStaged` and `WholeZips`: bytes are at
  least as new as the version they are filed under. `BatchPlace`: a batch being built is
  not acknowledged. `Unlinking`: while `mark_uploaded` holds the lock, what it unlinks
  is in an acknowledged batch and `remaining` has every other entry. `Entries`: an
  index entry without a file, outside such a section, is acknowledged. `Copying`: the
  candidate whose staged entry is saved is there until its source entry is.
  `Recorded`: every version the source index calls done is indexed or acknowledged.
  The refinement adds that the images of a batch are held (`BatchesAreHeld`).
- `OneBatchOutstanding`, `CountsAreRight`, assuming `WholeBatches` (no zip error).
  `GateInv` says for each phase of the batch thread which of `ready/` and `inflight/`
  holds the one zip (`Clear`, `Alone`) and what the counts say (`Counted`): the
  gate reads counts, so that neither property can be proved without the other. After an
  error in `mark_uploaded` or `mark_failed` the counts may say one zip too many, never
  one too few.
- `BatchesAreRetried`, under all faults. `RetryInv`: the attempts of a manifest are
  failed uploads, and what is parked has used them up.
- `SentBytesStay`, under all faults. `SentInv`: a batch the server has seen is
  neither being built nor still to be built.
- `VersionsStayInOrder`, under all faults. `OrderInv`: the versions of an image
  grow backwards along the whole line, from the server over batches by id, the
  chosen files, the index by `staged_at` and the staged copy to the source file, and each hand-over
  takes from the old end of one part and puts at the new end of the next. It rests on
  `ReadableInv`: of the batches with a manifest one at most is outstanding, and it closes
  the gate, even where zips without a manifest pile up or an error left a batch behind.

### FileQueueProofs

- `TypeCorrect` and `RetriesComeFirst` for any number of workers and any order of
  starts. `RetryInv`: attempts in a file or in memory are no more than real errors.
- `JobsAreNotLost`, `ClaimsAreExclusive`, `QueueImplementsCustody`, `RunsStayBounded`,
  assuming `Runbook`: one worker, and starts in order. `fq_scaled` and
  `fq_restart` show that neither half can go. `SafeInv`: who may do what (`Roles`), the server
  waits while the worker is busy (`ServerWaits`), a worker's job has its file in
  `processing/` and no other (`WorkerOwns`, `FileIsThere`), `enqueue` writes only
  fresh names (`FreshIsNew`, `OpenFile`). `RunInv`: a job whose file or whose claim in
  memory says n attempts has run at most n times, once more for every fault spent, and
  once more while its run is not filed yet.

### PipelineProofs

`Inv` is `StorageInv`, `QueueInv` and `WorkInv`: what a request in each phase has
already left in log, raw files, index and queue; where the id of a pushed job can
be; which results and copies are there when a job is settled. From it, for any
batches, attempts, workers and faults: `TypesAreCorrect`, `JobsAreNotLost`,
`AcknowledgedBatchesHaveJobs`, `DuplicatesDidOverlap`, `ResultsComeFirst` and
`CopiesComeFirst`. That the server always finds a free file name needs a pigeonhole
argument (`FS_Surjection`).

### RunsProofs

`RunsStayBounded`, assuming `OneWorker`, for any faults and retry limit. Every job has a
cost: its runs so far, the runs its count of attempts still leaves (`Left(Count(j))`), one
for an id in the worker's hand (`Held`), one for every copy of its id in `pending`
(`Copies`), and what a recovery of the server that is under way may add (`Credit`).
`RunInv` says that the cost is at most `RetryLimit + 1` for every fault that happened and
once more (`Affordable`), and that every step pays for itself: a run raises `runs` and ends
what is held, a failure raises the count and pushes one copy, and a fault adds
`RetryLimit + 1` to the allowance, which is what one recovery can cost: a copy more, and an
old count in place of a newer one. That a recovery of the worker finds at most the one
job it was at, and only once, is `OneClaim`; it is where the assumption is
needed. With two workers each recovery may put its own stale count in place of the
other's, and a job then runs more often than the bound.

### DeliveryProofs

For any number of workers:

- `AcknowledgedBatchesAreSafe` joins four invariants to one statement about a batch that
  the client has deleted: it waits in the queue or in a process, is in `processed_root`,
  is whole in `failed_root`, or fell to one of the three things that lose it: a process
  that dies with the id in its hands, retention, and a copy that was cut short.
  `NothingElseLosesABatch` is the same without crashes, retention and clients that give
  up, and without these exceptions: `FilesInv` says that a raw file then belongs to one
  request and is whole when its job is pushed, `CopiesGetDone` that a copy that was begun
  is in the hands of a worker.
- `SecondJobsComeFromLostKeys` and `OneJobPerBatch` say when uploading is idempotent: if no
  client gives up waiting, only a lost key makes a second job (a server that dies or
  raises between a job and its key, or in the rewrite of the index), and if neither
  happens there is none. `PatientInv`: an open request is the latest of its batch and is
  awaited, so that a lookup never meets another one.
- `PayloadsAreAlwaysThere`: every id in a list or in a process has a saved payload
  (`PayloadInv`), because `enqueue` saves before it pushes and nothing deletes; so the branch
  of `FailureHandled` in which the worker dies of missing fields is never taken.

The hypotheses of these theorems are on `Faults`, and `Faults = {}` satisfies all of them.

### ControlPlaneProofs and FleetProofs

`ControlPlaneImplementsAuth`: every step of the control server is a step of
`AuthSpec` or leaves users and sessions alone. `AuthTypeCorrect`, `GrantsAreValid`,
`OldPasswordsAreUseless` and `DeadSessionsStayDead` are proved for `AuthSpec` and
carried over. Their idea is that a `token_version` belongs to one password (`Follows`):
a login or a session has an earlier version, which never becomes current again, or the
current one and then the current password (`LoginsFollow`, `SessionsFollow`); a check that
will succeed began with a session that was entitled (`ChecksFollow`).

`FleetInv` (types, `PollKnown`, `StampHasSnapshot`) gives `FleetTypeCorrect`,
`SeenServersHaveSnapshots`, `NormalFleetsWereHealthy` and `AdminsOwnTheRegistry`: the poller
knows only servers of the registry, and has written the snapshot when it stamps.

### ScanRootsProofs

`OldImagesNeverQueued` from `ModeInv`: while the index-only mode lasts, a recorded root
has no old image that is not in the source index; once it is over, there is none anywhere.
`TypesAreCorrect`: the new cursor is a place in the list of roots. It is computed from the
largest rank among the selected roots (`MaxIsMember`, by well-founded induction on the
naturals), and there is one because a cycle with a root selects a root
(`SomethingSelected`). The assumption `Roots # {}` is the code's: `image_root` itself is a
root whenever files lie directly in it (`_collect_scan_roots`).

Only model-checked: liveness, which the prover cannot do (`StableImageArrives`,
`OutstandingResolves`, `EveryJobSettles`, `PollCatchesUp`, `ImagesAreFound`). Every
other property of a passing run has a theorem.

## Plan

Done: buffer, scan, both queues, storage, worker, control plane, and the proofs
above. What is left, in this order:

1. Two generations of `DiskQueue` under the running loops (`update_config`).
2. `server/auth.py`, as a second composition with `ControlAuth`'s rules.
3. The file queue in place of the Redis queue under the storage, and liveness
   of the Redis queue with its lost ids.
4. Proofs for an unordered start of the file queue: what remains true without `Runbook`.

## Not modelled

- `server/auth.py`: sessions in memory and a users file, the rules of the control
  server in a smaller form; a session keeps the role it was opened with.
- Fallback URLs and the backup server: the two share nothing, so no state relates a
  batch that timed out at one to its copy at the other.
- The names of the processor's output files and half converted batches; the
  conversion itself is PIL.
- Tokens that expire by the clock, display names, scopes, the audit log.
- Torn files of the control server: every one of its properties would have the same
  exception, a file that loads as empty.
- The single requests of `_fetch_server_snapshot` that follow a failed
  `/api/local/snapshot`.
- UI, dashboards, configuration parsing and packaging hold no state the pipeline
  depends on.

Further places that are hard to test and that no module covers:
`machine_client/transport.py:99` (a timeout at the primary, then an upload to the
backup), `worker/processor.py:60` and `:62` (free output names, batches that fail half-way),
`control_server/store.py:282` (a poll overwrites a refresh requested meanwhile),
`control_server/store.py:393` (registry and users rewritten in place),
`control_server/auth.py:165` (the last administrator can disable itself),
`control_server/auth.py:340` (a role read before the lock), `control_server/routes.py:103`
(logout with an access token that a refresh replaced), `control_server/routes.py:144`
(`ResetPasswordRequest` is not imported). `PROJECT.json` lists every component with its status.
