----------------------------- MODULE RedisQueue -----------------------------
(***************************************************************************)
(* The job queue on Redis (server/queue.py, RedisQueue) and the worker     *)
(* loop on top of it (worker/service.py).  Every Redis command is atomic   *)
(* and a step of its own; an operation of the queue is two to four of      *)
(* them, and nothing ties them together.  A saved payload is abstracted to *)
(* its attempts field, the lists of finished jobs to sets.                 *)
(***************************************************************************)
EXTENDS Integers, FiniteSets, SequencesExt

CONSTANTS Jobs,         \* job ids
          NoJob,        \* what a process that has no job has instead
          Workers,      \* worker processes
          Server,       \* the upload server process
          RetryLimit    \* the 3 in WorkerService.run_forever

ASSUME QueueAssumption == /\ Server \notin Workers
                          /\ NoJob \notin Jobs
                          /\ RetryLimit \in Nat

Processes == Workers \cup {Server}
NoPayload == -1         \* the key is not set: _load_payload returns {}

VARIABLES pending, processing,      \* Redis lists of job ids
          completed, failed,        \* ... whose order nothing reads
          saved,                    \* attempts in every job's saved payload
          pc, job, attempts, ids,   \* memory of every process
          pushed, runs, adrift      \* history: jobs enqueued, their runs, jobs
                                    \* whose id died with a process

lists     == <<pending, processing, completed, failed>>
memory    == <<pc, job, attempts, ids>>
history   == <<pushed, runs, adrift>>
queueVars == <<lists, saved, memory, history>>

QueueInit == /\ pending = <<>> /\ processing = <<>>
             /\ completed = {} /\ failed = {}
             /\ saved = [j \in Jobs |-> NoPayload]
             /\ pc = [p \in Processes |-> "ready"]
             /\ job = [p \in Processes |-> NoJob]
             /\ attempts = [p \in Processes |-> 0]
             /\ ids = [p \in Processes |-> <<>>]
             /\ pushed = {} /\ adrift = {}
             /\ runs = [j \in Jobs |-> 0]

Labels == {"down", "recover", "recover_save", "recover_remove", "recover_push", "ready",
           "popped", "load", "stamp", "work", "complete", "complete_remove",
           "complete_push", "state", "fail", "copy", "fail_save",
           "fail_remove", "fail_save_again", "fail_push"}

Goto(p, to)   == pc' = [pc EXCEPT ![p] = to]
Move(p, from, to) == pc[p] = from /\ Goto(p, to)
SavePayload(p) == saved' = [saved EXCEPT ![job[p]] = attempts[p]]
Forget(p)     == /\ job' = [job EXCEPT ![p] = NoJob]
                 /\ attempts' = [attempts EXCEPT ![p] = 0]
LRem(p)       == processing' = RemoveFirst(processing, job[p])
Settled       == completed \cup failed
Listed        == ToSet(pending) \cup ToSet(processing)

(* The ids that a process holds after it took them out of one list, or may *)
(* have, and before it pushes them to another.                             *)
Carries(p) == pc[p] \in {"popped", "recover_push", "complete_push", "fail", "copy",
                         "fail_save", "fail_remove", "fail_save_again", "fail_push"}

(* A process dies; an id that it alone had is in no list from here on. *)
Die(p) == /\ pc[p] # "down"
          /\ Goto(p, "down")
          /\ ids' = [ids EXCEPT ![p] = <<>>]
          /\ adrift' = IF Carries(p) THEN adrift \cup ({job[p]} \ (Listed \cup Settled))
                       ELSE adrift
          /\ Forget(p)
          /\ UNCHANGED <<lists, saved, pushed, runs>>

----------------------------------------------------------------------------
(* The constructor, in every process: recover_processing_jobs requeues     *)
(* whatever processing holds, the jobs of live workers as well.            *)

RecoverList(p) == /\ Move(p, "down", "recover")
                  /\ ids' = [ids EXCEPT ![p] = processing]
                  /\ UNCHANGED <<lists, saved, job, attempts, history>>

RecoverLoad(p) == /\ ids[p] # <<>>
                  /\ Move(p, "recover", "recover_save")
                  /\ job' = [job EXCEPT ![p] = Head(ids[p])]
                  /\ attempts' = [attempts EXCEPT ![p] = saved[Head(ids[p])]]
                  /\ ids' = [ids EXCEPT ![p] = Tail(@)]
                  /\ UNCHANGED <<lists, saved, history>>

RecoverSave(p) == /\ Move(p, "recover_save", "recover_remove")
                  /\ SavePayload(p)
                  /\ UNCHANGED <<lists, job, attempts, ids, history>>

RecoverRemove(p) == /\ Move(p, "recover_remove", "recover_push")
                    /\ LRem(p)
                    /\ UNCHANGED <<pending, completed, failed, saved, job, attempts, ids,
                                   history>>

RecoverPush(p) == /\ Move(p, "recover_push", "recover")
                  /\ pending' = Append(pending, job[p])
                  /\ Forget(p)
                  /\ UNCHANGED <<processing, completed, failed, saved, ids, history>>

RecoverDone(p) == /\ ids[p] = <<>>
                  /\ Move(p, "recover", "ready")
                  /\ UNCHANGED <<lists, saved, job, attempts, ids, history>>

Recover(p) == \/ RecoverList(p) \/ RecoverLoad(p) \/ RecoverSave(p)
              \/ RecoverRemove(p) \/ RecoverPush(p)

----------------------------------------------------------------------------
(* enqueue, called by save_upload: the payload, then the id. *)

EnqueueSave(j) == /\ saved' = [saved EXCEPT ![j] = 0]
                  /\ UNCHANGED <<lists, memory, history>>

EnqueuePush(j) == /\ pending' = Append(pending, j)
                  /\ pushed' = pushed \cup {j}
                  /\ UNCHANGED <<processing, completed, failed, saved, memory, runs, adrift>>

----------------------------------------------------------------------------
(* claim_next: the id is in no list between lpop and rpush. *)

ClaimPop(w) == /\ pending # <<>>
               /\ Move(w, "ready", "popped")
               /\ job' = [job EXCEPT ![w] = Head(pending)]
               /\ pending' = Tail(pending)
               /\ UNCHANGED <<processing, completed, failed, saved, attempts, ids, history>>

ClaimPush(w) == /\ Move(w, "popped", "load")
                /\ processing' = Append(processing, job[w])
                /\ UNCHANGED <<pending, completed, failed, saved, job, attempts, ids, history>>

ClaimLoad(w) == /\ Move(w, "load", "stamp")
                /\ attempts' = [attempts EXCEPT ![w] = saved[job[w]]]
                /\ UNCHANGED <<lists, saved, job, ids, history>>

ClaimSave(w) == /\ Move(w, "stamp", "work")
                /\ SavePayload(w)
                /\ UNCHANGED <<lists, job, attempts, ids, history>>

Claim(w) == ClaimPop(w) \/ ClaimPush(w) \/ ClaimLoad(w) \/ ClaimSave(w)

----------------------------------------------------------------------------
(* process, and what follows its return or its exception. *)

ProcessEnds(w, to) == /\ Move(w, "work", to)
                      /\ runs' = [runs EXCEPT ![job[w]] = @ + 1]
                      /\ UNCHANGED <<lists, saved, job, attempts, ids, pushed, adrift>>

(* handle_failure reads the payload: one without its fields ends the worker.*)
FailureHandled(w, to) == /\ attempts[w] # NoPayload
                         /\ Move(w, "fail", to)
                         /\ UNCHANGED <<lists, saved, job, attempts, ids, history>>

FailureRaises(w) == pc[w] = "fail" /\ attempts[w] = NoPayload /\ Die(w)

FileCopied(w) == /\ Move(w, "copy", "fail_save")
                 /\ UNCHANGED <<lists, saved, job, attempts, ids, history>>

(* mark_completed *)
CompleteSave(w) == /\ Move(w, "complete", "complete_remove")
                   /\ SavePayload(w)
                   /\ UNCHANGED <<lists, job, attempts, ids, history>>

CompleteRemove(w) == /\ Move(w, "complete_remove", "complete_push")
                     /\ LRem(w)
                     /\ UNCHANGED <<pending, completed, failed, saved, job, attempts, ids,
                                    history>>

CompletePush(w) == /\ Move(w, "complete_push", "state")
                   /\ completed' = completed \cup {job[w]}
                   /\ UNCHANGED <<pending, processing, failed, saved, job, attempts, ids,
                                  history>>

(* _write_state *)
StateWritten(w) == /\ Move(w, "state", "ready")
                   /\ Forget(w)
                   /\ UNCHANGED <<lists, saved, ids, history>>

(* mark_completed and _write_state are inside the try, after process. *)
CompletionRaises(w) == /\ pc[w] \in {"complete", "complete_remove", "complete_push", "state"}
                       /\ Goto(w, "fail")
                       /\ UNCHANGED <<lists, saved, job, attempts, ids, history>>

(* Variant: the limit is met one failure late. *)
MayRetryLate(n) == n <= RetryLimit
MayRetry(n) == n < RetryLimit

(* mark_failed saves the new count, and again with the new status. *)
FailSave(w, from, to) == /\ Move(w, from, to)
                         /\ saved' = [saved EXCEPT ![job[w]] = attempts[w] + 1]
                         /\ UNCHANGED <<lists, job, attempts, ids, history>>

FailRemove(w) == /\ Move(w, "fail_remove", "fail_save_again")
                 /\ LRem(w)
                 /\ UNCHANGED <<pending, completed, failed, saved, job, attempts, ids, history>>

(* Variant: a job that may be retried is only saved, not pushed. *)
FailPushForgets(w) ==
    /\ Move(w, "fail_push", "ready")
    /\ failed' = IF MayRetry(attempts[w]) THEN failed ELSE failed \cup {job[w]}
    /\ Forget(w)
    /\ UNCHANGED <<pending, processing, completed, saved, ids, history>>

FailPush(w) == /\ Move(w, "fail_push", "ready")
               /\ IF MayRetry(attempts[w])
                  THEN pending' = Append(pending, job[w]) /\ UNCHANGED failed
                  ELSE failed' = failed \cup {job[w]} /\ UNCHANGED pending
               /\ Forget(w)
               /\ UNCHANGED <<processing, completed, saved, ids, history>>

Finish(w) == \/ CompleteSave(w) \/ CompleteRemove(w) \/ CompletePush(w)
             \/ FailSave(w, "fail_save", "fail_remove") \/ FailRemove(w)
             \/ FailSave(w, "fail_save_again", "fail_push") \/ FailPush(w)

----------------------------------------------------------------------------
(* Properties. *)

Carried == {job[p] : p \in {q \in Processes : Carries(q)}}

(* Every variable keeps its shape. *)
QueueTypeOK ==
    /\ pending \in Seq(Jobs) /\ processing \in Seq(Jobs)
    /\ completed \subseteq Jobs /\ failed \subseteq Jobs
    /\ saved \in [Jobs -> Nat \cup {NoPayload}]
    /\ pc \in [Processes -> Labels]
    /\ job \in [Processes -> Jobs \cup {NoJob}]
    /\ attempts \in [Processes -> Nat \cup {NoPayload}]
    /\ ids \in [Processes -> Seq(Jobs)]
    /\ pushed \subseteq Jobs /\ adrift \subseteq Jobs
    /\ runs \in [Jobs -> Nat]

(* However the commands of a worker and of recoveries in other processes   *)
(* mix, an enqueued job is in a list, in the hands of a live process or    *)
(* settled, unless a process died between taking its id out of one list    *)
(* and pushing it to the next.                                             *)
NoJobLost == pushed \subseteq Listed \cup Carried \cup Settled \cup adrift
=============================================================================
