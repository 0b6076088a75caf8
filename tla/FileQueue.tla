----------------------------- MODULE FileQueue -----------------------------
(***************************************************************************)
(* The server's file backed job queue (server/queue.py, FileQueue) and the *)
(* processes that use it: the upload server, which enqueues, and workers   *)
(* (worker/service.py), which claim, process and finish jobs.  A job is a  *)
(* JSON file in one of four directories.  Nothing locks the directories:   *)
(* every rename, write and unlink of a process is a step of its own.  The  *)
(* constructor of FileQueue, so every process as it starts, moves          *)
(* processing/ back to pending/.                                           *)
(***************************************************************************)
EXTENDS Integers, FiniteSets

CONSTANTS Jobs,         \* job ids; claim_next takes the first in sort order
          Workers,      \* worker processes
          Server,       \* the upload server process
          RetryLimit,   \* the 3 in WorkerService.run_forever
          Supervised,   \* processes start only while no other one is busy
          Faults,       \* the faults that may happen
          MaxFaults     \* bound: faults in a behaviour

FaultKinds == { "crash",        \* a process dies
                "torn",         \* ... in the middle of writing a file
                "late_error" }  \* write_state raises after mark_completed

ASSUME ConstantsAssumption ==
    /\ Jobs \subseteq Nat
    /\ Server \notin Workers
    /\ RetryLimit \in Nat
    /\ Supervised \in BOOLEAN
    /\ MaxFaults \in Nat
    /\ Faults \subseteq FaultKinds

Processes == Workers \cup {Server}

(* The contents of a job file that matter: its attempts field. *)
NoFile  == -1
Corrupt == -2                 \* the file is not valid JSON
IsFile(content)     == content # NoFile

(* Variant: a file counts as readable once it exists. *)
ReadableIfThere(content) == content # NoFile
Readable(content) == content >= 0

VARIABLES pending, processing,  \* contents of every job's file there
          completed, failed,    \* jobs with a file there
          pc, job, payload,     \* of every process; payload: its attempts
          todo,                 \* files recover_processing_jobs has listed
          submitted,            \* job ids given to enqueue so far
          runs, errors,         \* how often a job was processed, and raised
          budget                \* faults that may still happen

files   == <<pending, processing, completed, failed>>
memory  == <<pc, job, payload, todo>>
history == <<submitted, runs, errors>>
vars    == <<files, memory, history, budget>>

NoJob == 0 - 1

Fault(f) == /\ f \in Faults
            /\ budget > 0
            /\ budget' = budget - 1

Init == /\ pending = [j \in Jobs |-> NoFile]
        /\ processing = [j \in Jobs |-> NoFile]
        /\ completed = {} /\ failed = {}
        /\ pc = [p \in Processes |-> "down"]
        /\ job = [p \in Processes |-> NoJob]
        /\ payload = [p \in Processes |-> 0]
        /\ todo = [p \in Processes |-> {}]
        /\ submitted = {}
        /\ runs = [j \in Jobs |-> 0]
        /\ errors = [j \in Jobs |-> 0]
        /\ budget = MaxFaults

Goto(p, to) == pc' = [pc EXCEPT ![p] = to]

----------------------------------------------------------------------------
(* Startup: FileQueue.__init__ and recover_processing_jobs. *)

MayStart(p) == /\ pc[p] = "down"
               /\ Supervised => \A q \in Processes : pc[q] \in {"down", "ready"}

(* Variant: the constructor does not call recover_processing_jobs. *)
StartWithoutRecovery(p) ==
    /\ MayStart(p)
    /\ Goto(p, "ready")
    /\ UNCHANGED <<files, job, payload, todo, history, budget>>

Start(p) == /\ MayStart(p)
            /\ Goto(p, "recover")
            /\ todo' = [todo EXCEPT ![p] = {j \in Jobs : IsFile(processing[j])}]
            /\ UNCHANGED <<files, job, payload, history, budget>>

(* Variant: the file is taken out of processing/ before it is requeued. *)
RecoverTakesFile(p) ==
    /\ pc[p] = "recover"
    /\ \E j \in todo[p] :
          /\ Readable(processing[j])
          /\ todo' = [todo EXCEPT ![p] = @ \ {j}]
          /\ job' = [job EXCEPT ![p] = j]
          /\ payload' = [payload EXCEPT ![p] = processing[j]]
          /\ processing' = [processing EXCEPT ![j] = NoFile]
    /\ Goto(p, "requeue")
    /\ UNCHANGED <<pending, completed, failed, history, budget>>

(* Reading a file that is gone or not valid JSON raises: the process dies. *)
RecoverRead(p) ==
    /\ pc[p] = "recover"
    /\ \E j \in todo[p] :
          /\ todo' = [todo EXCEPT ![p] = @ \ {j}]
          /\ IF Readable(processing[j])
             THEN /\ job' = [job EXCEPT ![p] = j]
                  /\ payload' = [payload EXCEPT ![p] = processing[j]]
                  /\ Goto(p, "requeue")
             ELSE Goto(p, "down") /\ UNCHANGED <<job, payload>>
    /\ UNCHANGED <<files, history, budget>>

RecoverWrite(p) == /\ pc[p] = "requeue"
                   /\ pending' = [pending EXCEPT ![job[p]] = payload[p]]
                   /\ Goto(p, "unlink")
                   /\ UNCHANGED <<processing, completed, failed, job, payload, todo,
                                  history, budget>>

RecoverUnlink(p) == /\ pc[p] = "unlink"
                    /\ processing' = [processing EXCEPT ![job[p]] = NoFile]
                    /\ Goto(p, "recover")
                    /\ UNCHANGED <<pending, completed, failed, job, payload, todo,
                                   history, budget>>

RecoverDone(p) == /\ pc[p] = "recover" /\ todo[p] = {}
                  /\ Goto(p, "ready")
                  /\ UNCHANGED <<files, job, payload, todo, history, budget>>

----------------------------------------------------------------------------
(* The server: enqueue, called by UploadStorage.save_upload.  The file is *)
(* there, and empty, before its text is; a worker may rename it meanwhile.  *)

EnqueueOpen(j) == /\ pc[Server] = "ready"
                  /\ j \notin submitted
                  /\ submitted' = submitted \cup {j}
                  /\ pending' = [pending EXCEPT ![j] = Corrupt]
                  /\ job' = [job EXCEPT ![Server] = j]
                  /\ Goto(Server, "enqueue")
                  /\ UNCHANGED <<processing, completed, failed, payload, todo, runs,
                                 errors, budget>>

EnqueueWrite == LET j == job[Server]
                IN  /\ pc[Server] = "enqueue"
                    /\ IF IsFile(pending[j])
                       THEN pending' = [pending EXCEPT ![j] = 0] /\ UNCHANGED processing
                       ELSE processing' = [processing EXCEPT ![j] = 0] /\ UNCHANGED pending
                    /\ Goto(Server, "ready")
                    /\ UNCHANGED <<completed, failed, job, payload, todo, history, budget>>

----------------------------------------------------------------------------
(* A worker: WorkerService.run_forever. *)

(* claim_next lists pending/ ... *)
ClaimList(w) == /\ pc[w] = "ready"
                /\ \E j \in Jobs :
                      /\ IsFile(pending[j])
                      /\ \A k \in Jobs : IsFile(pending[k]) => j <= k
                      /\ job' = [job EXCEPT ![w] = j]
                /\ Goto(w, "claim")
                /\ UNCHANGED <<files, payload, todo, history, budget>>

(* Variant: the file is copied to processing/ and not removed. *)
ClaimCopies(w) ==
    /\ pc[w] = "claim"
    /\ IsFile(pending[job[w]])
    /\ processing' = [processing EXCEPT ![job[w]] = pending[job[w]]]
    /\ Goto(w, "read")
    /\ UNCHANGED <<pending, completed, failed, job, payload, todo, history, budget>>

(* ... renames the first file, which raises if it is gone by now; claim_next *)
(* is outside the try of run_forever, so the worker dies, ...                 *)
ClaimRename(w) ==
    LET j == job[w]
    IN  /\ pc[w] = "claim"
        /\ IF IsFile(pending[j])
           THEN /\ processing' = [processing EXCEPT ![j] = pending[j]]
                /\ pending' = [pending EXCEPT ![j] = NoFile]
                /\ Goto(w, "read")
           ELSE Goto(w, "down") /\ UNCHANGED <<pending, processing>>
        /\ UNCHANGED <<completed, failed, job, payload, todo, history, budget>>

(* ... reads it ... *)
ClaimRead(w) ==
    LET content == processing[job[w]]
    IN  /\ pc[w] = "read"
        /\ IF Readable(content)
           THEN payload' = [payload EXCEPT ![w] = content] /\ Goto(w, "stamp")
           ELSE Goto(w, "down") /\ UNCHANGED payload
        /\ UNCHANGED <<files, job, todo, history, budget>>

(* ... and writes it again with its new status. *)
ClaimStamp(w) == /\ pc[w] = "stamp"
                 /\ processing' = [processing EXCEPT ![job[w]] = payload[w]]
                 /\ Goto(w, "work")
                 /\ UNCHANGED <<pending, completed, failed, job, payload, todo,
                                history, budget>>

(* JobProcessor.process returns ... *)
ProcessReturns(w) == /\ pc[w] = "work"
                     /\ runs' = [runs EXCEPT ![job[w]] = @ + 1]
                     /\ Goto(w, "complete")
                     /\ UNCHANGED <<files, job, payload, todo, submitted, errors, budget>>

(* ... or it, or writing the completed file, raises. *)
ProcessRaises(w) == /\ pc[w] = "work"
                    /\ runs' = [runs EXCEPT ![job[w]] = @ + 1]
                    /\ errors' = [errors EXCEPT ![job[w]] = @ + 1]
                    /\ Goto(w, "fail")
                    /\ UNCHANGED <<files, job, payload, todo, submitted, budget>>

(* Variant: the file in processing/ is unlinked before the other is written. *)
CompleteUnlinksFirst(w) ==
    /\ pc[w] = "complete"
    /\ processing' = [processing EXCEPT ![job[w]] = NoFile]
    /\ Goto(w, "complete_unlink")
    /\ UNCHANGED <<pending, completed, failed, job, payload, todo, history, budget>>

(* mark_completed writes the completed file, then unlinks the other. *)
CompleteWrite(w) == /\ pc[w] = "complete"
                    /\ completed' = completed \cup {job[w]}
                    /\ Goto(w, "complete_unlink")
                    /\ UNCHANGED <<pending, processing, failed, job, payload, todo,
                                   history, budget>>

CompleteUnlink(w) == /\ pc[w] = "complete_unlink"
                     /\ processing' = [processing EXCEPT ![job[w]] = NoFile]
                     /\ Goto(w, "state")
                     /\ UNCHANGED <<pending, completed, failed, job, payload, todo,
                                    history, budget>>

(* _write_state is inside the same try: if it raises, the completed job *)
(* goes through mark_failed as well.                                     *)
WriteState(w) ==
    /\ pc[w] = "state"
    /\ \/ Goto(w, "ready") /\ UNCHANGED <<errors, budget>>
       \/ /\ Fault("late_error")
          /\ errors' = [errors EXCEPT ![job[w]] = @ + 1]
          /\ Goto(w, "fail")
    /\ UNCHANGED <<files, job, payload, todo, submitted, runs>>

(* Variants: the limit is met one failure early, or one late. *)
MayRetryEarly(attempts) == attempts + 1 < RetryLimit
MayRetryLate(attempts)  == attempts <= RetryLimit
MayRetry(attempts) == attempts < RetryLimit

(* mark_failed writes the job to pending/ or failed/ with one more attempt, *)
(* then unlinks the file in processing/.                                     *)
FailWrite(w) ==
    LET j == job[w]
    IN  /\ pc[w] = "fail"
        /\ IF MayRetry(payload[w])
           THEN pending' = [pending EXCEPT ![j] = payload[w] + 1] /\ UNCHANGED failed
           ELSE failed' = failed \cup {j} /\ UNCHANGED pending
        /\ Goto(w, "fail_unlink")
        /\ UNCHANGED <<processing, completed, job, payload, todo, history, budget>>

FailUnlink(w) == /\ pc[w] = "fail_unlink"
                 /\ processing' = [processing EXCEPT ![job[w]] = NoFile]
                 /\ Goto(w, "ready")
                 /\ UNCHANGED <<pending, completed, failed, job, payload, todo,
                                history, budget>>

----------------------------------------------------------------------------
(* A process dies; a file it was writing may be cut short. *)
Torn(p) == \/ /\ pc[p] = "enqueue"      \* the file stays empty
              /\ UNCHANGED <<pending, processing>>
           \/ /\ pc[p] = "stamp"
              /\ processing' = [processing EXCEPT ![job[p]] = Corrupt]
              /\ UNCHANGED pending
           \/ /\ pc[p] = "requeue" \/ (pc[p] = "fail" /\ MayRetry(payload[p]))
              /\ pending' = [pending EXCEPT ![job[p]] = Corrupt]
              /\ UNCHANGED processing

Crash(p) == /\ Fault("crash")
            /\ pc[p] # "down"
            /\ \/ pc[p] # "enqueue" /\ UNCHANGED <<pending, processing>>
               \/ "torn" \in Faults /\ Torn(p)
            /\ Goto(p, "down")
            /\ todo' = [todo EXCEPT ![p] = {}]
            /\ UNCHANGED <<completed, failed, job, payload, history>>

Startup(p) == Start(p) \/ RecoverRead(p) \/ RecoverWrite(p) \/ RecoverUnlink(p)
              \/ RecoverDone(p)

Claim(w)  == ClaimList(w) \/ ClaimRename(w) \/ ClaimRead(w) \/ ClaimStamp(w)
Finish(w) == \/ ProcessReturns(w) \/ CompleteWrite(w) \/ CompleteUnlink(w)
             \/ WriteState(w)
             \/ ProcessRaises(w) \/ FailWrite(w) \/ FailUnlink(w)

Next == \/ \E p \in Processes : Startup(p) \/ Crash(p)
        \/ \E j \in Jobs : EnqueueOpen(j)
        \/ EnqueueWrite
        \/ \E w \in Workers : Claim(w) \/ Finish(w)

Spec == Init /\ [][Next]_vars

(* systemd restarts every process (Restart=always), a worker polls for ever. *)
Fairness == /\ \A p \in Processes : SF_vars(Startup(p))
            /\ WF_vars(EnqueueWrite)
            /\ \A w \in Workers : WF_vars(Claim(w) \/ Finish(w))

FairSpec == Spec /\ Fairness

----------------------------------------------------------------------------
(* Properties. *)

(* Every variable keeps its shape. *)
TypeOK ==
    /\ pending \in [Jobs -> {NoFile, Corrupt} \cup Nat]
    /\ processing \in [Jobs -> {NoFile, Corrupt} \cup Nat]
    /\ completed \subseteq Jobs /\ failed \subseteq Jobs /\ submitted \subseteq Jobs
    /\ pc \in [Processes -> {"down", "recover", "requeue", "unlink", "ready", "enqueue",
                             "claim", "read", "stamp", "work", "complete", "complete_unlink",
                             "state", "fail", "fail_unlink"}]
    /\ job \in [Processes -> Jobs \cup {NoJob}]
    /\ payload \in [Processes -> Nat]
    /\ todo \in [Processes -> SUBSET Jobs]
    /\ runs \in [Jobs -> Nat] /\ errors \in [Jobs -> Nat]
    /\ budget \in 0..MaxFaults

Queued  == {j \in Jobs : IsFile(pending[j]) \/ IsFile(processing[j])}
Settled == completed \cup failed

(* An enqueued job is in some directory at every instant: no order of the   *)
(* renames, writes and unlinks of the processes loses it.                   *)
NoJobLost == submitted \subseteq Queued \cup Settled

(* The stronger form: the queue lets go of a job only once its completed or *)
(* failed file is there; every step is a step of Custody or none of it.     *)
Ledger == INSTANCE Custody WITH Items <- Jobs, held <- Queued, settled <- Settled
QueueKeepsCustody == Ledger!Spec

(* While a worker processes a job no other process can claim it: its only   *)
(* file is the one in processing/.                                          *)
ClaimIsExclusive ==
    \A w \in Workers : pc[w] \in {"stamp", "work", "complete", "fail"} =>
        \/ /\ IsFile(processing[job[w]]) /\ ~IsFile(pending[job[w]])
           /\ \A v \in Workers \ {w} : pc[v] = "work" => job[v] # job[w]
        \/ pc[w] = "fail" /\ job[w] \in completed   \* after a late error

(* A job is given up only after it raised more often than the retry limit,  *)
(* although attempts travels through files that recovery copies and a crash *)
(* may leave twice.                                                         *)
GivenUpOnlyAfterRetries == \A j \in failed : errors[j] > RetryLimit

(* Every run beyond the retry limit is owed to a crash or a late error.     *)
RunsAreBounded ==
    \A j \in Jobs : runs[j] <= RetryLimit + 1 + (MaxFaults - budget)

(* Every enqueued job is completed or given up in the end, unless a file    *)
(* cut short by a crash blocks claim and recovery for good.                 *)
Blocked == \E j \in Jobs : Corrupt \in {pending[j], processing[j]}
EveryJobSettles ==
    \A j \in Jobs : (j \in submitted ~> j \in Settled) \/ <>[]Blocked
=============================================================================
