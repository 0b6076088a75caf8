------------------------------ MODULE Pipeline ------------------------------
(***************************************************************************)
(* Upload clients, the upload server and workers over one Redis queue: a   *)
(* request that stores its batch enqueues a job under its own id, since    *)
(* the id is made of the machine and the time of the request.  A job reads *)
(* the raw file of its request (worker/processor.py).                      *)
(***************************************************************************)
EXTENDS UploadStorage, RedisQueue

CONSTANTS Empty,        \* batches without a supported image, as the one that
                        \* test_connection uploads
          Faults,       \* the faults that may happen
          MaxFaults     \* bound: faults in a behaviour

FaultKinds == { "crash",        \* a process dies, of itself or of an exception
                "timeout",      \* a client gives up waiting
                "garbled",      \* a body does not match its checksum
                "raises",       \* a write of the upload handler or its Redis
                                \* command raises: the client gets a 500
                "error",        \* converting an image raises
                "late_error",   \* mark_completed or write_state raises
                "expiry" }      \* every raw file gets older than its retention

ASSUME PipelineAssumption == /\ Jobs = Requests
                             /\ Empty \subseteq Batches
                             /\ Faults \subseteq FaultKinds
                             /\ MaxFaults \in Nat

VARIABLES converted,    \* batches whose images are all in processed_root
          copied,       \* raw files with a whole copy in failed_root
          half,         \* ... with a copy that lacks bytes, now or for good
          budget,       \* faults that may still happen
          spoiled       \* history: jobs that lost their file before they failed

copies == <<copied, half>>
rest   == <<converted, copies, spoiled>>
vars   == <<storageVars, queueVars, rest, budget>>

Init == /\ StorageInit /\ QueueInit
        /\ converted = {} /\ copied = {} /\ half = {} /\ spoiled = {}
        /\ budget = MaxFaults

Fault(f) == f \in Faults /\ budget > 0 /\ budget' = budget - 1

----------------------------------------------------------------------------
(* The server. *)

Up == pc[Server] = "ready"

StorageStep(r) == \/ Lookup(r) \/ OpenRaw(r) \/ WriteRaw(r) \/ AppendMetadata(r)
                  \/ Remember(r) \/ Answer(r)

(* Variant: the key is remembered before the job is enqueued. *)
HandleRemembersFirst(r) ==
    /\ Up
    /\ \/ (Lookup(r) \/ OpenRaw(r) \/ WriteRaw(r) \/ Answer(r)) /\ UNCHANGED queueVars
       \/ /\ phase[r] = "append"
          /\ index' = [index EXCEPT ![BatchOf(r)] = r]
          /\ log' = log \cup {r}
          /\ phase' = [phase EXCEPT ![r] = "save"]
          /\ UNCHANGED <<client, slot, raw, short, beside, keyless, queueVars>>
       \/ Enqueue(r, "save", "push") /\ EnqueueSave(r)
       \/ Enqueue(r, "push", "stored") /\ EnqueuePush(r)
    /\ UNCHANGED <<rest, budget>>

(* Variant: the id is pushed before the payload is saved. *)
HandlePushesFirst(r) ==
    /\ Up
    /\ \/ StorageStep(r) /\ UNCHANGED queueVars
       \/ Enqueue(r, "save", "push") /\ EnqueuePush(r)
       \/ Enqueue(r, "push", "remember") /\ EnqueueSave(r)
    /\ UNCHANGED <<rest, budget>>

Handle(r) ==
    /\ Up
    /\ \/ StorageStep(r) /\ UNCHANGED queueVars
       \/ Enqueue(r, "save", "push") /\ EnqueueSave(r)
       \/ Enqueue(r, "push", "remember") /\ EnqueuePush(r)
    /\ UNCHANGED <<rest, budget>>

HandleGarbled(r) == /\ Up /\ Fault("garbled")
                    /\ Refuse(r)
                    /\ UNCHANGED <<queueVars, rest>>

HandleRaises(r) == /\ Up /\ Fault("raises")
                   /\ Raise(r)
                   /\ UNCHANGED <<queueVars, rest>>

(* Maintenance, at the end of create_app or by itself (maintenance_main):  *)
(* a pending job does not protect its file.                                *)
Expire == /\ Clean(raw)
          /\ spoiled' = spoiled \cup {r \in log : PathOf(r) \in raw /\ saved[r] <= 0}
          /\ UNCHANGED <<converted, copies>>

ServerReady == /\ RecoverDone(Server)
               /\ \/ UNCHANGED <<storageVars, rest, budget>>
                  \/ Fault("expiry") /\ Expire

Maintenance == /\ LoopFree /\ Fault("expiry")
               /\ Expire
               /\ UNCHANGED queueVars

----------------------------------------------------------------------------
(* The worker: process and handle_failure between the queue's commands. *)

Convertible(j) == PathOf(j) \in raw \ short /\ BatchOf(j) \notin Empty

(* Variant: a batch without images counts as processed. *)
ProcessAcceptsEmpty(w) ==
    /\ pc[w] = "work"
    /\ UNCHANGED <<storageVars, copies, spoiled>>
    /\ IF PathOf(job[w]) \in raw \ short
       THEN /\ ProcessEnds(w, "complete")
            /\ converted' = IF BatchOf(job[w]) \in Empty THEN converted
                            ELSE converted \cup {BatchOf(job[w])}
       ELSE ProcessEnds(w, "fail") /\ UNCHANGED converted
    /\ UNCHANGED budget

Process(w) ==
    /\ pc[w] = "work"
    /\ UNCHANGED <<storageVars, copies, spoiled>>
    /\ \/ /\ Convertible(job[w])
          /\ ProcessEnds(w, "complete")
          /\ converted' = converted \cup {BatchOf(job[w])}
          /\ UNCHANGED budget
       \/ /\ ProcessEnds(w, "fail")
          /\ UNCHANGED converted
          /\ IF Convertible(job[w]) THEN Fault("error") ELSE UNCHANGED budget

(* copy2, unless a copy is there: it creates the copy and then fills it    *)
(* with the bytes that the raw file has.                                   *)
CopyNeeded(j) == PathOf(j) \in raw \ (copied \cup half)

BeginCopy(w) == /\ FailureHandled(w, "copy")
                /\ CopyNeeded(job[w])
                /\ half' = half \cup {PathOf(job[w])}
                /\ UNCHANGED copied

EndCopy(w) == /\ FileCopied(w)
              /\ IF PathOf(job[w]) \in short THEN UNCHANGED copies
                 ELSE /\ copied' = copied \cup {PathOf(job[w])}
                      /\ half' = half \ {PathOf(job[w])}

(* Variant: the raw file is kept only once the job is given up. *)
HandleFailureAtTheEnd(w) ==
    /\ \/ BeginCopy(w) /\ ~MayRetry(attempts[w])
       \/ EndCopy(w)
       \/ /\ FailureHandled(w, "fail_save") /\ UNCHANGED copies
          /\ MayRetry(attempts[w]) \/ ~CopyNeeded(job[w])
    /\ UNCHANGED <<storageVars, converted, budget, spoiled>>

HandleFailure(w) ==
    /\ \/ BeginCopy(w) \/ EndCopy(w)
       \/ FailureHandled(w, "fail_save") /\ ~CopyNeeded(job[w]) /\ UNCHANGED copies
       \/ FailureRaises(w) /\ UNCHANGED copies
    /\ UNCHANGED <<storageVars, converted, budget, spoiled>>

Complete(w) == /\ \/ StateWritten(w) /\ UNCHANGED budget
                  \/ CompletionRaises(w) /\ Fault("late_error")
               /\ UNCHANGED <<storageVars, rest>>

QueueStep(w) == /\ Recover(w) \/ RecoverDone(w) \/ Claim(w) \/ Finish(w)
                /\ UNCHANGED <<storageVars, rest, budget>>

Work(w) == QueueStep(w) \/ Process(w) \/ HandleFailure(w) \/ Complete(w)

----------------------------------------------------------------------------
Client(b) == /\ \/ Send(b) /\ UNCHANGED budget
                \/ TimeOut(b) /\ Fault("timeout")
             /\ UNCHANGED <<queueVars, rest>>

ServerStarts == \/ Recover(Server) /\ UNCHANGED <<storageVars, rest, budget>>
                \/ ServerReady

Crash(p) == /\ Fault("crash")
            /\ Die(p)
            /\ IF p = Server THEN StorageCrash ELSE UNCHANGED storageVars
            /\ UNCHANGED rest

Next == \/ \E b \in Batches : Client(b)
        \/ \E r \in Requests : Handle(r) \/ HandleGarbled(r) \/ HandleRaises(r)
        \/ ServerStarts \/ Maintenance
        \/ \E w \in Workers : Work(w)
        \/ \E p \in Processes : Crash(p)

Spec == Init /\ [][Next]_vars

----------------------------------------------------------------------------
(* Properties. *)

(* Every variable keeps its shape. *)
TypeOK == /\ StorageTypeOK /\ QueueTypeOK
          /\ converted \subseteq Batches /\ spoiled \subseteq Requests
          /\ copied \subseteq RawFiles /\ half \subseteq RawFiles
          /\ budget \in 0..MaxFaults

(* A batch that the client deletes on the server's word has a job in the   *)
(* queue, even when that word is "duplicate": the key is never remembered  *)
(* before the job is there, wherever the server dies.                      *)
AckedHasJob == \A b \in acked : \E r \in pushed : BatchOf(r) = b

(* Two jobs come from one batch only if both requests were reading their   *)
(* body at once, or the key of one was lost: the server died or raised     *)
(* between its job and its key, or in the rewrite of the index, which      *)
(* loses every key.                                                        *)
DuplicatesOverlap ==
    \A r, s \in pushed : BatchOf(r) = BatchOf(s) =>
        \/ r = s \/ r \in beside[s] \/ s \in beside[r]
        \/ {r, s} \cap keyless # {}

(* A completed job has left all images of its batch in processed_root; an  *)
(* empty batch never counts as completed.                                  *)
CompletedIsConverted == \A j \in completed : BatchOf(j) \in converted

(* A job is not given up without a copy of its raw file, unless the file   *)
(* was gone before the job first failed (retention may remove it between   *)
(* two attempts) or a copy that lacks bytes is in the place of the whole   *)
(* one, which handle_failure never overwrites.                             *)
GivenUpKeepsCopy ==
    \A j \in failed : PathOf(j) \in copied \cup half \/ j \in spoiled

(* Every payload that a process loads is there: enqueue saves it before it *)
(* pushes the id.  Otherwise handle_failure would raise a KeyError outside *)
(* the try of run_forever and end the worker, and a recovery would save a  *)
(* payload without fields in its place.                                    *)
PayloadsAreThere == \A p \in Processes : attempts[p] # NoPayload

(* One worker: a recovery puts a job that it has into pending a second time,*)
(* and may write a stale count back, so every fault may cost a job all its *)
(* runs once more, and nothing costs it more than that.  (With two workers *)
(* it may cost more: each puts its stale count in place of the other's.)   *)
RunsAreBounded ==
    \A j \in Jobs : runs[j] <= (RetryLimit + 1) * (1 + MaxFaults - budget)
=============================================================================
