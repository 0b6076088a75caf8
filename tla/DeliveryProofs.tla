--------------------------- MODULE DeliveryProofs ---------------------------
(***************************************************************************)
(* What both ends of the pipeline may rely on, for any number of workers:  *)
(* a client that deletes a batch on the server's word, where the batch is  *)
(* then and when it has one job; a worker, that its job has a payload.     *)
(***************************************************************************)
EXTENDS PipelineProofs

USE PipelineAssumption, StorageAssumption, QueueAssumption

----------------------------------------------------------------------------
(* Payloads. *)

(* The jobs with a payload.  None is ever taken back, so it is enough that *)
(* every id in the queue or in a process is one of them.                   *)
Counted == {j \in Jobs : saved[j] \in Nat}

PayloadInv ==
    /\ pending \in Seq(Counted) /\ processing \in Seq(Counted)
    /\ ids \in [Processes -> Seq(Counted)]
    /\ job \in [Processes -> Counted \cup {NoJob}]
    /\ attempts \in [Processes -> Nat]
    /\ \A r \in Requests : phase[r] = "push" => r \in Counted

(* No id is anywhere. *)
LEMMA PayloadsInitially == Init => PayloadInv
<1> SUFFICES ASSUME Init PROVE PayloadInv
  OBVIOUS
<1>1. <<>> \in Seq(Counted)
  BY EmptySeq
<1> QED
  BY <1>1 DEF Init, QueueInit, StorageInit, PayloadInv

(* What the queue holds may be given in terms of the payloads before. *)
LEMMA PayloadsKept ==
    ASSUME Counted \subseteq Counted',
           pending' \in Seq(Counted), processing' \in Seq(Counted),
           ids' \in [Processes -> Seq(Counted)],
           job' \in [Processes -> Counted \cup {NoJob}],
           attempts' \in [Processes -> Nat],
           \A r \in Requests : phase'[r] = "push" => r \in Counted'
    PROVE  PayloadInv'
<1>1. \A s \in Seq(Counted) : s \in Seq(Counted')
  BY SeqMonotonic
<1> QED
  BY <1>1 DEF PayloadInv

(* A save adds a payload or puts another in its place. *)
LEMMA SavesAddPayloads ==
    ASSUME NEW j \in Jobs, NEW n \in Nat, saved \in [Jobs -> Nat \cup {NoPayload}],
           saved' = [saved EXCEPT ![j] = n]
    PROVE  Counted \subseteq Counted' /\ j \in Counted'
  BY DEF Counted

(* A process that is at a job has one with a payload. *)
LEMMA JobHasPayload ==
    ASSUME Inv, PayloadInv, NEW p \in Processes, pc[p] \notin {"down", "ready", "recover"}
    PROVE  job[p] \in Counted /\ job[p] \in Jobs
<1>1. job[p] \in Jobs
  BY PipelineAssumption DEF Inv, QueueInv, QueueShape, StorageInv, StorageTypeOK
<1> QED
  BY <1>1, QueueAssumption DEF PayloadInv

(* The steps of a process that move no id between lists. *)
LEMMA QuietKeepsPayloads ==
    ASSUME Inv, PayloadInv, NEW p \in Processes, Quiet(p) \/ CompletePush(p),
           UNCHANGED phase
    PROVE  PayloadInv'
<1>1. /\ saved \in [Jobs -> Nat \cup {NoPayload}] /\ attempts \in [Processes -> Nat]
      /\ job \in [Processes -> Counted \cup {NoJob}] /\ ids \in [Processes -> Seq(Counted)]
      /\ processing \in Seq(Counted) /\ attempts[p] \in Nat /\ attempts[p] + 1 \in Nat
      /\ UNCHANGED phase
  BY DEF PayloadInv, Inv, QueueInv, QueueShape
<1>2. UNCHANGED <<pending, processing>>
  BY DEF Quiet, RecoverList, RecoverLoad, RecoverSave, RecoverDone, ClaimLoad, ClaimSave,
     ProcessEnds, FailureHandled, FileCopied, CompleteSave, StateWritten, CompletionRaises,
     FailSave, CompletePush, lists
<1>3. CASE RecoverLoad(p)
  <2>1. /\ ids[p] # <<>> /\ UNCHANGED saved
        /\ job' = [job EXCEPT ![p] = Head(ids[p])]
        /\ attempts' = [attempts EXCEPT ![p] = saved[Head(ids[p])]]
        /\ ids' = [ids EXCEPT ![p] = Tail(ids[p])]
    BY <1>3 DEF RecoverLoad
  <2>2. Head(ids[p]) \in Counted /\ Tail(ids[p]) \in Seq(Counted)
    BY <1>1, <2>1, HeadLeaves
  <2>3. saved[Head(ids[p])] \in Nat /\ UNCHANGED Counted
    BY <2>1, <2>2 DEF Counted
  <2>4. /\ job' \in [Processes -> Counted \cup {NoJob}] /\ attempts' \in [Processes -> Nat]
        /\ ids' \in [Processes -> Seq(Counted)]
    BY <1>1, <2>1, <2>2, <2>3
  <2> QED
    BY <1>1, <1>2, <2>3, <2>4, PayloadsKept DEF PayloadInv
<1>4. CASE ClaimLoad(p)
  <2>1. /\ attempts' = [attempts EXCEPT ![p] = saved[job[p]]] /\ UNCHANGED <<saved, job, ids>>
        /\ pc[p] = "load"
    BY <1>4 DEF ClaimLoad, Move
  <2>2. job[p] \in Counted
    BY <2>1, JobHasPayload
  <2>3. saved[job[p]] \in Nat /\ UNCHANGED Counted
    BY <2>1, <2>2 DEF Counted
  <2>4. attempts' \in [Processes -> Nat]
    BY <1>1, <2>1, <2>3
  <2> QED
    BY <1>1, <1>2, <2>1, <2>3, <2>4, PayloadsKept DEF PayloadInv
<1>5. CASE \/ RecoverSave(p) \/ ClaimSave(p) \/ CompleteSave(p)
           \/ FailSave(p, "fail_save", "fail_remove") \/ FailSave(p, "fail_save_again", "fail_push")
  <2>1. /\ UNCHANGED <<job, attempts, ids>>
        /\ pc[p] \notin {"down", "ready", "recover"}
        /\ \/ saved' = [saved EXCEPT ![job[p]] = attempts[p]]
           \/ saved' = [saved EXCEPT ![job[p]] = attempts[p] + 1]
    BY <1>5 DEF RecoverSave, ClaimSave, CompleteSave, FailSave, Move, SavePayload
  <2>2. Counted \subseteq Counted'
    BY <1>1, <2>1, JobHasPayload, SavesAddPayloads
  <2> QED
    BY <1>1, <1>2, <2>1, <2>2, PayloadsKept DEF PayloadInv
<1>6. CASE \/ RecoverList(p) \/ RecoverDone(p) \/ ProcessEnds(p, "complete")
           \/ ProcessEnds(p, "fail") \/ FailureHandled(p, "copy")
           \/ FailureHandled(p, "fail_save") \/ FileCopied(p) \/ StateWritten(p)
           \/ CompletionRaises(p) \/ CompletePush(p)
  <2>1. /\ UNCHANGED saved
        /\ job' \in {job, [job EXCEPT ![p] = NoJob]}
        /\ attempts' \in {attempts, [attempts EXCEPT ![p] = 0]}
        /\ ids' \in {ids, [ids EXCEPT ![p] = processing]}
    BY <1>6 DEF RecoverList, RecoverDone, ProcessEnds, FailureHandled, FileCopied,
       StateWritten, CompletionRaises, CompletePush, Forget, lists
  <2>2. UNCHANGED Counted
    BY <2>1 DEF Counted
  <2>3. job' \in [Processes -> Counted \cup {NoJob}]
    BY <1>1, <2>1
  <2>4. attempts' \in [Processes -> Nat]
    <3>1. [attempts EXCEPT ![p] = 0] \in [Processes -> Nat]
      BY <1>1
    <3> QED
      BY <1>1, <2>1, <3>1
  <2>5. ids' \in [Processes -> Seq(Counted)]
    BY <1>1, <2>1
  <2> QED
    BY <1>1, <1>2, <2>2, <2>3, <2>4, <2>5, PayloadsKept DEF PayloadInv
<1> QED
  BY <1>3, <1>4, <1>5, <1>6 DEF Quiet

(* The steps that move an id. *)
LEMMA IdsKeepPayloads ==
    ASSUME Inv, PayloadInv, NEW p \in Processes, UNCHANGED <<saved, phase>>,
           \/ RecoverRemove(p) \/ CompleteRemove(p) \/ FailRemove(p)
           \/ RecoverPush(p) \/ FailPush(p) \/ ClaimPop(p) \/ ClaimPush(p)
    PROVE  PayloadInv'
<1>1. /\ pending \in Seq(Counted) /\ processing \in Seq(Counted)
      /\ attempts \in [Processes -> Nat] /\ ids \in [Processes -> Seq(Counted)]
      /\ job \in [Processes -> Counted \cup {NoJob}] /\ UNCHANGED <<Counted, phase>>
  BY DEF PayloadInv, Counted
<1>2. CASE RecoverRemove(p) \/ CompleteRemove(p) \/ FailRemove(p)
  <2>1. processing' \in Seq(Counted) /\ UNCHANGED <<pending, job, attempts, ids>>
    BY <1>1, <1>2, RemoveFirstKeepsOthers DEF RecoverRemove, CompleteRemove, FailRemove, LRem
  <2> QED
    BY <1>1, <2>1, PayloadsKept DEF PayloadInv
<1>3. CASE RecoverPush(p) \/ FailPush(p)
  <2>1. /\ pc[p] \in {"recover_push", "fail_push"} /\ UNCHANGED <<processing, ids>>
        /\ pending' \in {pending, Append(pending, job[p])}
        /\ job' = [job EXCEPT ![p] = NoJob] /\ attempts' = [attempts EXCEPT ![p] = 0]
    BY <1>3 DEF RecoverPush, FailPush, Move, Forget
  <2>2. pending' \in Seq(Counted)
    <3>1. job[p] \in Counted
      BY <2>1, JobHasPayload
    <3>2. Append(pending, job[p]) \in Seq(Counted)
      BY <1>1, <3>1, AppendAdds
    <3> QED
      BY <1>1, <2>1, <3>2
  <2>3. job' \in [Processes -> Counted \cup {NoJob}] /\ attempts' \in [Processes -> Nat]
    BY <1>1, <2>1
  <2> QED
    BY <1>1, <2>1, <2>2, <2>3, PayloadsKept DEF PayloadInv
<1>4. CASE ClaimPop(p)
  <2>1. /\ pending # <<>> /\ pending' = Tail(pending) /\ UNCHANGED <<processing, attempts, ids>>
        /\ job' = [job EXCEPT ![p] = Head(pending)]
    BY <1>4 DEF ClaimPop
  <2>2. Head(pending) \in Counted /\ Tail(pending) \in Seq(Counted)
    BY <1>1, <2>1, HeadLeaves
  <2>3. job' \in [Processes -> Counted \cup {NoJob}]
    BY <1>1, <2>1, <2>2
  <2> QED
    BY <1>1, <2>1, <2>2, <2>3, PayloadsKept DEF PayloadInv
<1>5. CASE ClaimPush(p)
  <2>1. /\ pc[p] = "popped" /\ UNCHANGED <<pending, job, attempts, ids>>
        /\ processing' = Append(processing, job[p])
    BY <1>5 DEF ClaimPush, Move
  <2>2. processing' \in Seq(Counted)
    BY <1>1, <2>1, JobHasPayload, AppendAdds
  <2> QED
    BY <1>1, <2>1, <2>2, PayloadsKept DEF PayloadInv
<1> QED
  BY <1>2, <1>3, <1>4, <1>5

(* A request saves its payload before it pushes its id. *)
LEMMA HandleKeepsPayloads ==
    ASSUME Inv, PayloadInv, NEW r \in Requests, Handle(r) \/ HandleGarbled(r) \/ HandleRaises(r)
    PROVE  PayloadInv'
<1>1. /\ r \in Jobs /\ saved \in [Jobs -> Nat \cup {NoPayload}]
      /\ phase \in [Requests -> Open \cup {"unsent", "over"}]
  BY DEF Inv, QueueInv, QueueShape, StorageInv, StorageTypeOK
<1>2. CASE UNCHANGED queueVars
  <2>1. UNCHANGED <<pending, processing, ids, job, attempts, saved, Counted>>
    BY <1>2 DEF queueVars, lists, memory, Counted
  <2>2. \A q \in Requests : phase'[q] = "push" => phase[q] = "push" \/ q \in Counted'
    <3>1. CASE StorageStep(r) \/ Refuse(r) \/ Raise(r)
      BY <1>1, <3>1 DEF StorageStep, Lookup, OpenRaw, WriteRaw, AppendMetadata, Remember, Answer,
         Refuse, Raise, Advance
    <3>2. CASE Enqueue(r, "save", "push") /\ EnqueueSave(r)
      <4>1. saved'[r] = 0 /\ phase' = [phase EXCEPT ![r] = "push"]
        BY <1>1, <3>2 DEF Enqueue, Advance, EnqueueSave
      <4>2. r \in Counted'
        BY <1>1, <4>1 DEF Counted
      <4> QED
        BY <1>1, <4>1, <4>2
    <3>3. CASE Enqueue(r, "push", "remember")
      BY <1>1, <3>3 DEF Enqueue, Advance
    <3> QED
      BY <3>1, <3>2, <3>3 DEF Handle, HandleGarbled, HandleRaises
  <2> QED
    BY <2>1, <2>2, PayloadsKept DEF PayloadInv
<1>3. CASE Enqueue(r, "save", "push") /\ EnqueueSave(r)
  <2>1. /\ saved' = [saved EXCEPT ![r] = 0] /\ phase' = [phase EXCEPT ![r] = "push"]
        /\ UNCHANGED <<pending, processing, ids, job, attempts>>
    BY <1>3 DEF Enqueue, Advance, EnqueueSave, lists, memory
  <2>2. Counted \subseteq Counted' /\ r \in Counted'
    BY <1>1, <2>1, SavesAddPayloads
  <2> QED
    BY <1>1, <2>1, <2>2, PayloadsKept DEF PayloadInv
<1>4. CASE Enqueue(r, "push", "remember") /\ EnqueuePush(r)
  <2>1. /\ phase[r] = "push" /\ phase' = [phase EXCEPT ![r] = "remember"]
        /\ pending' = Append(pending, r) /\ UNCHANGED <<processing, saved, ids, job, attempts>>
    BY <1>4 DEF Enqueue, Advance, EnqueuePush, memory
  <2>2. r \in Counted /\ UNCHANGED Counted
    BY <2>1 DEF PayloadInv, Counted
  <2>3. pending' \in Seq(Counted)
    BY <2>1, <2>2, AppendAdds DEF PayloadInv
  <2> QED
    BY <1>1, <2>1, <2>2, <2>3, PayloadsKept DEF PayloadInv
<1> QED
  BY <1>2, <1>3, <1>4 DEF Handle, HandleGarbled, HandleRaises

(* A process forgets; with the server, its requests end. *)
LEMMA DeathKeepsPayloads ==
    ASSUME Inv, PayloadInv, NEW p \in Processes, Die(p), StorageCrash \/ UNCHANGED storageVars
    PROVE  PayloadInv'
<1>1. /\ UNCHANGED <<pending, processing, saved, Counted>>
      /\ ids' = [ids EXCEPT ![p] = <<>>] /\ job' = [job EXCEPT ![p] = NoJob]
      /\ attempts' = [attempts EXCEPT ![p] = 0]
  BY DEF Die, Forget, lists, Counted
<1>2. \A r \in Requests : phase'[r] = "push" => phase[r] = "push"
  BY DEF StorageCrash, storageVars, Open
<1>3. <<>> \in Seq(Counted)
  BY EmptySeq
<1> QED
  BY <1>1, <1>2, <1>3, PayloadsKept DEF PayloadInv

(* Every step keeps the payloads. *)
LEMMA PayloadsInductive == ASSUME Inv, PayloadInv, [Next]_vars PROVE PayloadInv'
<1>1. CASE /\ UNCHANGED queueVars
           /\ \A r \in Requests : phase'[r] = "push" => phase[r] = "push"
  <2>1. UNCHANGED <<pending, processing, ids, job, attempts, saved, Counted>>
    BY <1>1 DEF queueVars, lists, memory, Counted
  <2> QED
    BY <1>1, <2>1, PayloadsKept DEF PayloadInv
<1>2. CASE \E b \in Batches : Client(b)
  BY <1>1, <1>2 DEF Client, Send, TimeOut, Inv, StorageInv, StorageTypeOK
<1>3. CASE \E r \in Requests : Handle(r) \/ HandleGarbled(r) \/ HandleRaises(r)
  BY <1>3, HandleKeepsPayloads
<1>4. CASE \E p \in Processes : Crash(p)
  BY <1>4, DeathKeepsPayloads DEF Crash
<1>5. CASE Maintenance \/ UNCHANGED vars
  BY <1>1, <1>5 DEF Maintenance, Expire, Clean, vars, storageVars
<1>6. CASE ServerStarts
  <2>1. UNCHANGED phase
    BY <1>6 DEF ServerStarts, ServerReady, Expire, Clean, storageVars
  <2>2. Recover(Server) \/ RecoverDone(Server)
    BY <1>6 DEF ServerStarts, ServerReady
  <2>3. Server \in Processes
    BY DEF Processes
  <2> QED
    BY <2>1, <2>2, <2>3, QuietKeepsPayloads, IdsKeepPayloads
    DEF Recover, RecoverRemove, RecoverPush, Quiet
<1>7. CASE \E w \in Workers : Work(w)
  <2>1. PICK w \in Workers : Work(w)
    BY <1>7
  <2>2. w \in Processes /\ UNCHANGED <<phase, storageVars>>
    BY <2>1 DEF Processes, Work, QueueStep, Process, HandleFailure, Complete, storageVars
  <2>3. \/ Quiet(w) \/ CompletePush(w) \/ FailureRaises(w)
        \/ /\ UNCHANGED saved
           /\ \/ RecoverRemove(w) \/ CompleteRemove(w) \/ FailRemove(w)
              \/ RecoverPush(w) \/ FailPush(w) \/ ClaimPop(w) \/ ClaimPush(w)
    BY <2>1 DEF Work, QueueStep, Process, HandleFailure, BeginCopy, EndCopy, Complete, Recover,
       Claim, Finish, Quiet, RecoverRemove, CompleteRemove, FailRemove, RecoverPush, FailPush, ClaimPop, ClaimPush
  <2> QED
    BY <2>2, <2>3, QuietKeepsPayloads, IdsKeepPayloads, DeathKeepsPayloads DEF FailureRaises
<1> QED
  BY <1>2, <1>3, <1>4, <1>5, <1>6, <1>7 DEF Next

(* Every loaded payload has its fields, in every behaviour. *)
LEMMA Payloads == Spec => []PayloadInv
<1>1. Inv /\ PayloadInv /\ [Next]_vars => PayloadInv'
  BY PayloadsInductive
<1> QED
  BY <1>1, PayloadsInitially, Invariant, PTL DEF Spec

(* With any number of workers every payload that is loaded is there: no    *)
(* worker ever dies of a job without fields (processor.handle_failure).    *)
THEOREM PayloadsAreAlwaysThere == Spec => []PayloadsAreThere
<1>1. PayloadInv => PayloadsAreThere
  BY DEF PayloadInv, PayloadsAreThere, NoPayload
<1> QED
  BY <1>1, Payloads, PTL

----------------------------------------------------------------------------
(* What was lost, and to which fault.  *)

(* Only a death leaves an id in no list, and a worker never dies of a      *)
(* payload; only retention leaves a job without its file, and only a       *)
(* handler that is cut off a job without its key.                          *)
LossesHaveCauses == /\ adrift # {} => "crash" \in Faults
                    /\ spoiled # {} => "expiry" \in Faults
                    /\ keyless # {} => {"crash", "raises"} \cap Faults # {}

(* Every other step leaves them alone. *)
LEMMA StepsHaveCauses ==
    ASSUME PayloadInv, LossesHaveCauses, [Next]_vars PROVE LossesHaveCauses'
<1>1. adrift' = adrift \/ "crash" \in Faults
  <2>1. \A w \in Workers : ~FailureRaises(w)
    BY DEF PayloadInv, FailureRaises, NoPayload, Processes
  <2> QED
    BY <2>1 DEF Next, vars, Client, Handle, HandleGarbled, HandleRaises, ServerStarts,
     ServerReady, Maintenance, Work, Crash, Fault, QueueStep, Process, HandleFailure, BeginCopy,
     EndCopy, Complete, Recover, RecoverList, RecoverLoad, RecoverSave, RecoverRemove,
     RecoverPush, RecoverDone, EnqueueSave, EnqueuePush, Claim, ClaimPop, ClaimPush, ClaimLoad,
     ClaimSave, ProcessEnds, FailureHandled, FileCopied, Finish, CompleteSave, CompleteRemove,
     CompletePush, StateWritten, CompletionRaises, FailSave, FailRemove, FailPush, queueVars,
     history
<1>2. spoiled' = spoiled \/ "expiry" \in Faults
  BY DEF Next, vars, Client, Handle, HandleGarbled, HandleRaises, ServerStarts, ServerReady,
     Maintenance, Work, Crash, Fault, QueueStep, Process, HandleFailure, Complete, rest
<1>3. keyless' = keyless \/ {"crash", "raises"} \cap Faults # {}
  BY DEF Next, vars, storageVars, Client, Send, TimeOut, Handle, StorageStep, Lookup, OpenRaw,
     WriteRaw, AppendMetadata, Remember, Answer, Enqueue, HandleGarbled, Refuse, HandleRaises,
     ServerStarts, ServerReady, Maintenance, Expire, Clean, Work, Crash, Fault, QueueStep,
     Process, HandleFailure, Complete
<1> QED
  BY <1>1, <1>2, <1>3 DEF LossesHaveCauses

(* Nothing was lost before the first fault. *)
LEMMA Causes == Spec => []LossesHaveCauses
<1>1. Init => LossesHaveCauses
  BY DEF Init, QueueInit, StorageInit, LossesHaveCauses
<1> QED
  BY <1>1, StepsHaveCauses, Payloads, PTL DEF Spec

----------------------------------------------------------------------------
(* When a batch has one job. *)

(* A client that never gives up waiting has one request open at most.      *)
OpenIsAwaited == \A r \in Requests :
                     phase[r] \in Open => awaiting[BatchOf(r)] /\ tried[BatchOf(r)] = r[2]
NoneBeside    == \A r \in Requests : beside[r] = {}

PatientInv == OpenIsAwaited /\ NoneBeside

(* Nothing was sent. *)
LEMMA PatientInitially == Init => PatientInv
  BY DEF Init, StorageInit, PatientInv, OpenIsAwaited, NoneBeside, Open, OnLoop

(* Two open requests of a batch are the same one. *)
LEMMA OneOpen ==
    ASSUME OpenIsAwaited, NEW r \in Requests, NEW s \in Requests, BatchOf(r) = BatchOf(s),
           phase[r] \in Open, phase[s] \in Open
    PROVE  r = s
<1>1. r[2] = s[2]
  BY DEF OpenIsAwaited
<1> QED
  BY <1>1, RequestIs

(* A step within an open request. *)
LEMMA OpenStepKeeps ==
    ASSUME StorageInv, PatientInv, NEW r \in Requests, phase[r] \in Open, NEW to,
           to \in Open, phase' = [phase EXCEPT ![r] = to], UNCHANGED <<tried, awaiting>>,
           NoneBeside'
    PROVE  PatientInv'
<1>1. \A q \in Requests : phase'[q] = IF q = r THEN to ELSE phase[q]
  BY DEF StorageInv, StorageTypeOK
<1>2. OpenIsAwaited'
  BY <1>1 DEF PatientInv, OpenIsAwaited
<1> QED
  BY <1>2 DEF PatientInv

(* A client sends only when it waits for nothing. *)
LEMMA SendKeepsPatient ==
    ASSUME StorageInv, PatientInv, NEW b \in Batches, Send(b)
    PROVE  PatientInv'
<1> DEFINE new == <<b, tried[b] + 1>>
<1>1. /\ ~awaiting[b] /\ phase' = [phase EXCEPT ![new] = "sent"]
      /\ tried' = [tried EXCEPT ![b] = tried[b] + 1]
      /\ awaiting' = [awaiting EXCEPT ![b] = TRUE] /\ UNCHANGED beside
      /\ tried \in [Batches -> Nat] /\ awaiting \in [Batches -> BOOLEAN]
      /\ phase \in [Requests -> Open \cup {"unsent", "over"}]
  BY DEF Send, StorageInv, StorageTypeOK
<1>2. \A q \in Requests : q = new \/ phase'[q] = phase[q]
  BY <1>1
<1>3. ASSUME NEW q \in Requests, phase'[q] \in Open
      PROVE  awaiting'[BatchOf(q)] /\ tried'[BatchOf(q)] = q[2]
  <2>1. BatchOf(q) \in Batches
    BY RequestIs
  <2>2. CASE q = new
    BY <1>1, <2>1, <2>2 DEF BatchOf
  <2>3. CASE q # new
    <3>1. awaiting[BatchOf(q)] /\ tried[BatchOf(q)] = q[2]
      BY <1>2, <1>3, <2>3 DEF PatientInv, OpenIsAwaited
    <3> QED
      BY <1>1, <2>1, <3>1
  <2> QED
    BY <2>2, <2>3
<1>4. NoneBeside'
  BY <1>1 DEF PatientInv, NoneBeside
<1> QED
  BY <1>3, <1>4 DEF PatientInv, OpenIsAwaited

(* The answer to the one open request. *)
LEMMA AnswerKeepsPatient ==
    ASSUME StorageInv, PatientInv, NEW r \in Requests, Answer(r)
    PROVE  PatientInv'
<1>1. /\ phase[r] \in Open /\ phase' = [phase EXCEPT ![r] = "over"]
      /\ awaiting' \in {awaiting, [awaiting EXCEPT ![BatchOf(r)] = FALSE]}
      /\ UNCHANGED <<tried, beside>>
      /\ awaiting \in [Batches -> BOOLEAN] /\ BatchOf(r) \in Batches
      /\ phase \in [Requests -> Open \cup {"unsent", "over"}]
  BY RequestIs DEF Answer, Open, OnLoop, StorageInv, StorageTypeOK
<1>2. ASSUME NEW q \in Requests, phase'[q] \in Open
      PROVE  awaiting'[BatchOf(q)] /\ tried'[BatchOf(q)] = q[2]
  <2>1. q # r /\ phase[q] \in Open
    BY <1>1, <1>2 DEF Open, OnLoop
  <2>2. BatchOf(q) # BatchOf(r) /\ BatchOf(q) \in Batches
    BY <1>1, <2>1, OneOpen, RequestIs DEF PatientInv
  <2>3. awaiting[BatchOf(q)] /\ tried[BatchOf(q)] = q[2]
    BY <2>1 DEF PatientInv, OpenIsAwaited
  <2> QED
    BY <1>1, <2>2, <2>3
<1>3. NoneBeside'
  BY <1>1 DEF PatientInv, NoneBeside
<1> QED
  BY <1>2, <1>3 DEF PatientInv, OpenIsAwaited

(* A lookup meets no other request of its batch. *)
LEMMA LookupKeepsPatient ==
    ASSUME StorageInv, PatientInv, NEW r \in Requests, Lookup(r)
    PROVE  PatientInv'
<1>1. /\ phase[r] = "sent" /\ UNCHANGED <<tried, awaiting>>
      /\ beside \in [Requests -> SUBSET Requests]
  BY DEF Lookup, client, StorageInv, StorageTypeOK
<1>2. CASE index[BatchOf(r)] # None
  <2>1. phase' = [phase EXCEPT ![r] = "duplicate"] /\ UNCHANGED beside
    BY <1>2 DEF Lookup
  <2>2. NoneBeside'
    BY <2>1 DEF PatientInv, NoneBeside
  <2> QED
    BY <1>1, <2>1, <2>2, OpenStepKeeps DEF Open
<1>3. CASE index[BatchOf(r)] = None
  <2> DEFINE met == {s \in Requests : BatchOf(s) = BatchOf(r) /\ phase[s] = "reading"}
  <2>1. phase' = [phase EXCEPT ![r] = "reading"] /\ beside' = [beside EXCEPT ![r] = met]
    BY <1>3 DEF Lookup
  <2>2. met = {}
    <3> SUFFICES ASSUME NEW s \in Requests, BatchOf(s) = BatchOf(r), phase[s] = "reading"
                 PROVE  FALSE
      OBVIOUS
    <3>1. s = r
      BY <1>1, OneOpen DEF PatientInv, Open
    <3> QED
      BY <1>1, <3>1
  <2>3. NoneBeside'
    BY <1>1, <2>1, <2>2 DEF PatientInv, NoneBeside
  <2> QED
    BY <1>1, <2>1, <2>3, OpenStepKeeps DEF Open
<1> QED
  BY <1>2, <1>3

(* The request is stored step by step, by itself or refused. *)
LEMMA HandleKeepsPatient ==
    ASSUME StorageInv, PatientInv, NEW r \in Requests, Handle(r) \/ HandleGarbled(r) \/ HandleRaises(r)
    PROVE  PatientInv'
<1>1. CASE Lookup(r) \/ Answer(r)
  BY <1>1, LookupKeepsPatient, AnswerKeepsPatient
<1>2. CASE \/ OpenRaw(r) \/ WriteRaw(r) \/ AppendMetadata(r) \/ Remember(r)
           \/ Refuse(r) \/ Raise(r)
           \/ Enqueue(r, "save", "push") \/ Enqueue(r, "push", "remember")
  <2>1. /\ UNCHANGED <<tried, awaiting, beside>> /\ phase[r] \in Open
        /\ \E to \in Open : phase' = [phase EXCEPT ![r] = to]
    BY <1>2 DEF OpenRaw, WriteRaw, AppendMetadata, Remember, Refuse, Raise, Enqueue, Advance,
       client, Open, OnLoop
  <2>2. NoneBeside'
    BY <2>1 DEF PatientInv, NoneBeside
  <2> QED
    BY <2>1, <2>2, OpenStepKeeps
<1> QED
  BY <1>1, <1>2 DEF Handle, HandleGarbled, HandleRaises, StorageStep

(* The server dies: no request stays open, and no client waits. *)
LEMMA CrashKeepsPatient ==
    ASSUME StorageInv, PatientInv, StorageCrash
    PROVE  PatientInv'
<1>1. /\ \A r \in Requests : phase'[r] \notin Open
      /\ UNCHANGED beside
  BY DEF StorageCrash, Open, OnLoop, StorageInv, StorageTypeOK
<1> QED
  BY <1>1 DEF PatientInv, OpenIsAwaited, NoneBeside

(* Every step keeps it, when no client gives up waiting. *)
LEMMA PatientInductive ==
    ASSUME "timeout" \notin Faults, StorageInv, PatientInv, [Next]_vars
    PROVE  PatientInv'
<1>1. CASE UNCHANGED <<tried, awaiting, phase, beside>>
  BY <1>1 DEF PatientInv, OpenIsAwaited, NoneBeside
<1>2. CASE \E b \in Batches : Client(b)
  BY <1>2, SendKeepsPatient DEF Client, Fault
<1>3. CASE \E r \in Requests : Handle(r) \/ HandleGarbled(r) \/ HandleRaises(r)
  BY <1>3, HandleKeepsPatient
<1>4. CASE \E p \in Processes : Crash(p)
  BY <1>1, <1>4, CrashKeepsPatient DEF Crash, storageVars, client
<1>5. CASE ServerStarts \/ Maintenance \/ \E w \in Workers : Work(w)
  BY <1>1, <1>5 DEF ServerStarts, ServerReady, Maintenance, Expire, Clean, Work, QueueStep,
     Process, HandleFailure, Complete, storageVars, client
<1>6. CASE UNCHANGED vars
  BY <1>1, <1>6 DEF vars, storageVars, client
<1> QED
  BY <1>2, <1>3, <1>4, <1>5, <1>6 DEF Next

(* While no client gives up waiting, the invariant holds. *)
LEMMA Patient == ASSUME "timeout" \notin Faults PROVE Spec => []PatientInv
<1>1. Inv /\ PatientInv /\ [Next]_vars => PatientInv'
  BY PatientInductive DEF Inv
<1> QED
  BY <1>1, PatientInitially, Invariant, PTL DEF Spec

(* If clients wait for their answers, a second job of a batch comes only   *)
(* from a key that was lost: the server died or raised between the job and *)
(* its key, or while it rewrote the index (storage.save_upload).           *)
THEOREM SecondJobsComeFromLostKeys ==
    ASSUME "timeout" \notin Faults
    PROVE  Spec => [](\A r, s \in pushed : BatchOf(r) = BatchOf(s) =>
                          r = s \/ {r, s} \cap keyless # {})
<1>1. Inv => DuplicatesOverlap /\ pushed \subseteq Requests
  BY DEF Inv, StorageInv, StorageTypeOK, LogFollows, ActiveOverlap, Active, DuplicatesOverlap
<1>2. Inv /\ PatientInv => \A r, s \in pushed : BatchOf(r) = BatchOf(s) =>
          r = s \/ {r, s} \cap keyless # {}
  BY <1>1 DEF PatientInv, NoneBeside, DuplicatesOverlap
<1> QED
  BY <1>2, Patient, Invariant, PTL

(* If besides nothing cuts the handler off, every batch has one job,       *)
(* through refused bodies, retries, retention and whatever fails in the    *)
(* workers short of their death.                                           *)
THEOREM OneJobPerBatch ==
    ASSUME {"timeout", "crash", "raises"} \cap Faults = {}
    PROVE  Spec => [](\A r, s \in pushed : BatchOf(r) = BatchOf(s) => r = s)
<1>1. Inv => DuplicatesOverlap /\ pushed \subseteq Requests
  BY DEF Inv, StorageInv, StorageTypeOK, LogFollows, ActiveOverlap, Active, DuplicatesOverlap
<1>2. Inv /\ PatientInv /\ LossesHaveCauses =>
          \A r, s \in pushed : BatchOf(r) = BatchOf(s) => r = s
  BY <1>1 DEF PatientInv, NoneBeside, LossesHaveCauses, DuplicatesOverlap
<1>3. Spec => []PatientInv
  BY Patient
<1> QED
  BY <1>2, <1>3, Causes, Invariant, PTL

----------------------------------------------------------------------------
(* Where an acknowledged batch is. *)

Outcome(j) == \/ j \in Listed \cup Carried
              \/ BatchOf(j) \in converted
              \/ PathOf(j) \in copied

(* An acknowledged batch waits in the queue, is in processed_root or in    *)
(* failed_root; or it fell to a process that died with its id, to retention*)
(* or to a copy that lacks bytes.                                          *)
AckedIsAccountedFor ==
    \A b \in acked : \E j \in pushed :
        /\ BatchOf(j) = b
        /\ Outcome(j) \/ j \in adrift \/ j \in spoiled \/ PathOf(j) \in half

(* An acknowledged batch has a job, and every job is somewhere. *)
LEMMA AckedIsAccounted == Inv => AckedIsAccountedFor
<1> SUFFICES ASSUME Inv, NEW b \in acked
             PROVE  \E j \in pushed :
                        /\ BatchOf(j) = b
                        /\ Outcome(j) \/ j \in adrift \/ j \in spoiled \/ PathOf(j) \in half
  BY DEF AckedIsAccountedFor
<1>1. PICK j \in pushed : BatchOf(j) = b
  BY DEF Inv, StorageInv, AckedHasJob
<1>2. j \in Listed \cup Carried \cup completed \cup failed \cup adrift
  BY DEF Inv, QueueInv, NoJobLost, Settled
<1> QED
  BY <1>1, <1>2 DEF Inv, WorkInv, CompletedIsConverted, GivenUpKeepsCopy, Outcome

(* A batch that the client deleted is accounted for, whatever happens:     *)
(* the agent calls mark_uploaded on the answer of save_upload.             *)
THEOREM AcknowledgedBatchesAreSafe == Spec => []AckedIsAccountedFor
  BY AckedIsAccounted, Invariant, PTL

----------------------------------------------------------------------------
(* When it can only be in the queue, in processed_root or in failed_root.  *)

(* Without crashes, retention and impatient clients a raw file belongs to  *)
(* one request, is whole from its metadata line on, and is copied whole.   *)
HasFile(r) == r \in log \/ phase[r] \in {"write", "append"}

NamesAreFree  == \A r \in Requests : phase[r] = "reading" => PathOf(r) \notin raw
FilesAreThere == \A r \in Requests : HasFile(r) => PathOf(r) \in raw
FilesAreOwn   == \A r, s \in Requests :
                     HasFile(r) /\ HasFile(s) /\ PathOf(r) = PathOf(s) => r = s
FilesAreWhole == \A r \in Requests :
                     r \in log \/ phase[r] = "append" => PathOf(r) \notin short
CopiesGetDone == \A f \in half :
                     \E w \in Workers : pc[w] = "copy" /\ PathOf(job[w]) = f

FilesInv == NamesAreFree /\ FilesAreThere /\ FilesAreOwn /\ FilesAreWhole

(* Nothing was written or copied. *)
LEMMA SafeInitially == Init => FilesInv /\ CopiesGetDone
  BY DEF Init, StorageInit, FilesInv, NamesAreFree, FilesAreThere, FilesAreOwn, FilesAreWhole,
     CopiesGetDone, HasFile

(* A request that gets no further than its neighbours: it takes no name,   *)
(* no file and no line.                                                    *)
LEMMA OthersKeepFiles ==
    ASSUME FilesInv, UNCHANGED <<slot, raw, log, short>>,
           \A q \in Requests : \/ phase'[q] = phase[q]
                               \/ phase'[q] \notin {"reading", "write", "append"}
    PROVE  FilesInv'
<1>1. \A q \in Requests : /\ PathOf(q)' = PathOf(q)
                          /\ HasFile(q)' => HasFile(q)
                          /\ phase'[q] \in {"reading", "write", "append"} => phase'[q] = phase[q]
  BY DEF PathOf, HasFile
<1>2. NamesAreFree' /\ FilesAreThere'
  BY <1>1 DEF FilesInv, NamesAreFree, FilesAreThere
<1>3. FilesAreOwn'
  BY <1>1 DEF FilesInv, FilesAreOwn
<1>4. FilesAreWhole'
  BY <1>1 DEF FilesInv, FilesAreWhole
<1> QED
  BY <1>2, <1>3, <1>4 DEF FilesInv

(* A name is chosen that no file has. *)
LEMMA LookupKeepsFiles ==
    ASSUME StorageInv, FilesInv, NEW r \in Requests, Lookup(r)
    PROVE  FilesInv'
<1>1. /\ phase[r] = "sent" /\ BatchOf(r) \in Batches /\ UNCHANGED <<raw, log, short>>
      /\ phase \in [Requests -> Open \cup {"unsent", "over"}] /\ slot \in [Requests -> Nat]
  BY RequestIs DEF Lookup, StorageInv, StorageTypeOK
<1>2. CASE index[BatchOf(r)] # None
  <2>1. phase' = [phase EXCEPT ![r] = "duplicate"] /\ UNCHANGED slot
    BY <1>2 DEF Lookup
  <2> QED
    BY <1>1, <2>1, OthersKeepFiles
<1>3. CASE index[BatchOf(r)] = None
  <2>1. /\ phase' = [phase EXCEPT ![r] = "reading"]
        /\ slot' = [slot EXCEPT ![r] = FreeSlot(BatchOf(r))]
        /\ <<BatchOf(r), FreeSlot(BatchOf(r))>> \notin raw
    BY <1>1, <1>3, FreeSlotIsFree DEF Lookup
  <2>2. r \notin log
    BY <1>1 DEF StorageInv, LogFollows, Logged
  <2>3. /\ PathOf(r)' \notin raw
        /\ \A q \in Requests : q # r => PathOf(q)' = PathOf(q) /\ phase'[q] = phase[q]
        /\ phase'[r] = "reading"
    BY <1>1, <2>1 DEF PathOf
  <2>4. ~HasFile(r)' /\ \A q \in Requests : HasFile(q)' => HasFile(q) /\ q # r
    BY <1>1, <2>2, <2>3 DEF HasFile
  <2>5. NamesAreFree'
    BY <1>1, <2>3 DEF FilesInv, NamesAreFree
  <2>6. FilesAreThere' /\ FilesAreOwn'
    BY <1>1, <2>3, <2>4 DEF FilesInv, FilesAreThere, FilesAreOwn
  <2>7. FilesAreWhole'
    BY <1>1, <2>2, <2>3 DEF FilesInv, FilesAreWhole
  <2> QED
    BY <2>5, <2>6, <2>7 DEF FilesInv
<1> QED
  BY <1>2, <1>3

(* The file is new, and nobody else of the batch is after a name. *)
LEMMA OpenKeepsFiles ==
    ASSUME StorageInv, PatientInv, FilesInv, NEW r \in Requests, OpenRaw(r)
    PROVE  FilesInv'
<1>1. /\ phase[r] = "reading" /\ phase' = [phase EXCEPT ![r] = "write"]
      /\ raw' = raw \cup {PathOf(r)} /\ short' = short \cup {PathOf(r)}
      /\ UNCHANGED <<slot, log>>
      /\ phase \in [Requests -> Open \cup {"unsent", "over"}]
  BY DEF OpenRaw, Advance, StorageInv, StorageTypeOK
<1>2. \A q \in Requests : /\ PathOf(q)' = PathOf(q)
                          /\ phase'[q] = IF q = r THEN "write" ELSE phase[q]
  BY <1>1 DEF PathOf
<1>3. PathOf(r) \notin raw
  BY <1>1 DEF FilesInv, NamesAreFree
<1>4. \A q \in Requests : HasFile(q)' => q = r \/ HasFile(q)
  BY <1>1, <1>2 DEF HasFile
<1>5. r \notin log /\ \A q \in Requests : HasFile(q) => PathOf(q) # PathOf(r)
  BY <1>1, <1>3 DEF FilesInv, FilesAreThere, StorageInv, LogFollows, Logged
<1>6. ASSUME NEW q \in Requests, phase'[q] = "reading" PROVE PathOf(q)' \notin raw'
  <2>1. q # r /\ phase[q] = "reading"
    BY <1>2, <1>6
  <2>2. BatchOf(q) # BatchOf(r)
    BY <1>1, <2>1, OneOpen DEF PatientInv, Open
  <2>3. PathOf(q) # PathOf(r)
    BY <2>2 DEF PathOf
  <2> QED
    BY <1>1, <1>2, <2>1, <2>3 DEF FilesInv, NamesAreFree
<1>7. NamesAreFree' /\ FilesAreThere'
  BY <1>1, <1>2, <1>4, <1>6 DEF FilesInv, NamesAreFree, FilesAreThere
<1>8. FilesAreOwn'
  BY <1>2, <1>4, <1>5 DEF FilesInv, FilesAreOwn
<1>9. FilesAreWhole'
  BY <1>1, <1>2, <1>5 DEF FilesInv, FilesAreWhole, HasFile
<1> QED
  BY <1>7, <1>8, <1>9 DEF FilesInv

(* It gets its bytes. *)
LEMMA WriteKeepsFiles ==
    ASSUME StorageInv, FilesInv, NEW r \in Requests, WriteRaw(r)
    PROVE  FilesInv'
<1>1. /\ phase[r] = "write" /\ phase' = [phase EXCEPT ![r] = "append"]
      /\ short' = short \ {PathOf(r)} /\ UNCHANGED <<slot, raw, log>>
      /\ phase \in [Requests -> Open \cup {"unsent", "over"}]
  BY DEF WriteRaw, Advance, StorageInv, StorageTypeOK
<1>2. \A q \in Requests : /\ PathOf(q)' = PathOf(q)
                          /\ phase'[q] = IF q = r THEN "append" ELSE phase[q]
                          /\ HasFile(q)' => HasFile(q)
  BY <1>1 DEF PathOf, HasFile
<1>3. NamesAreFree' /\ FilesAreThere'
  BY <1>1, <1>2 DEF FilesInv, NamesAreFree, FilesAreThere
<1>4. FilesAreOwn' /\ FilesAreWhole'
  BY <1>1, <1>2 DEF FilesInv, FilesAreOwn, FilesAreWhole
<1> QED
  BY <1>3, <1>4 DEF FilesInv

(* It gets its line. *)
LEMMA AppendKeepsFiles ==
    ASSUME StorageInv, FilesInv, NEW r \in Requests, AppendMetadata(r)
    PROVE  FilesInv'
<1>1. /\ phase[r] = "append" /\ phase' = [phase EXCEPT ![r] = "save"]
      /\ log' = log \cup {r} /\ UNCHANGED <<slot, raw, short>>
      /\ phase \in [Requests -> Open \cup {"unsent", "over"}]
  BY DEF AppendMetadata, Advance, StorageInv, StorageTypeOK
<1>2. \A q \in Requests : /\ PathOf(q)' = PathOf(q)
                          /\ phase'[q] = IF q = r THEN "save" ELSE phase[q]
                          /\ HasFile(q)' => HasFile(q)
  BY <1>1 DEF PathOf, HasFile
<1>3. NamesAreFree' /\ FilesAreThere'
  BY <1>1, <1>2 DEF FilesInv, NamesAreFree, FilesAreThere
<1>4. FilesAreOwn' /\ FilesAreWhole'
  BY <1>1, <1>2 DEF FilesInv, FilesAreOwn, FilesAreWhole
<1> QED
  BY <1>3, <1>4 DEF FilesInv

(* Every step of a request. *)
LEMMA HandleKeepsFiles ==
    ASSUME StorageInv, PatientInv, FilesInv, NEW r \in Requests,
           Handle(r) \/ HandleGarbled(r) \/ HandleRaises(r)
    PROVE  FilesInv'
<1>1. CASE Lookup(r) \/ OpenRaw(r) \/ WriteRaw(r) \/ AppendMetadata(r)
  BY <1>1, LookupKeepsFiles, OpenKeepsFiles, WriteKeepsFiles, AppendKeepsFiles
<1>2. CASE \/ Remember(r) \/ Answer(r) \/ Refuse(r) \/ Raise(r)
           \/ Enqueue(r, "save", "push") \/ Enqueue(r, "push", "remember")
  <2>1. /\ UNCHANGED <<slot, raw, log, short>>
        /\ phase \in [Requests -> Open \cup {"unsent", "over"}]
        /\ \E to \in {"stored", "over", "refused", "push", "remember"} :
              phase' = [phase EXCEPT ![r] = to]
    BY <1>2 DEF Remember, Answer, Refuse, Raise, Enqueue, Advance, StorageInv, StorageTypeOK
  <2> QED
    BY <2>1, OthersKeepFiles
<1> QED
  BY <1>1, <1>2 DEF Handle, HandleGarbled, HandleRaises, StorageStep

(* A copy is begun by the worker that ends it, and ended whole. *)
LEMMA WorkKeepsCopies ==
    ASSUME Inv, PayloadInv, FilesInv, CopiesGetDone, NEW w \in Workers, Work(w)
    PROVE  CopiesGetDone'
<1>1. w \in Processes /\ Workers \subseteq Processes
  BY DEF Processes
<1>2. \A v \in Workers : v # w => pc'[v] = pc[v] /\ job'[v] = job[v]
  BY <1>1 DEF Inv, QueueInv, QueueShape, Work, QueueStep, Process, HandleFailure, BeginCopy,
     EndCopy, Complete, Recover, RecoverList, RecoverLoad, RecoverSave, RecoverRemove,
     RecoverPush, RecoverDone, Claim, ClaimPop, ClaimPush, ClaimLoad, ClaimSave, ProcessEnds,
     FailureHandled, FailureRaises, Die, FileCopied, Finish, CompleteSave, CompleteRemove,
     CompletePush, StateWritten, CompletionRaises, FailSave, FailRemove, FailPush, Goto, Move,
     Forget, memory
<1>3. UNCHANGED <<slot, raw, log, short>> /\ \A q : PathOf(q)' = PathOf(q)
  BY DEF Work, QueueStep, Process, HandleFailure, Complete, storageVars, PathOf
<1>4. CASE BeginCopy(w)
  <2>1. /\ half' = half \cup {PathOf(job[w])} /\ pc'[w] = "copy" /\ job'[w] = job[w]
        /\ pc[w] = "fail"
    BY <1>1, <1>4 DEF BeginCopy, FailureHandled, Move, Goto, Inv, QueueInv, QueueShape
  <2> QED
    BY <1>2, <1>3, <2>1 DEF CopiesGetDone
<1>5. CASE EndCopy(w)
  <2>1. pc[w] = "copy" /\ job[w] \in log /\ job[w] \in Requests
    BY <1>1, <1>5 DEF EndCopy, FileCopied, Move, Inv, QueueInv, QueueShape, StorageInv,
       StorageTypeOK
  <2>2. PathOf(job[w]) \notin short
    BY <2>1 DEF FilesInv, FilesAreWhole
  <2>3. half' = half \ {PathOf(job[w])}
    BY <1>5, <2>2 DEF EndCopy
  <2> QED
    BY <1>2, <1>3, <2>3 DEF CopiesGetDone
<1>6. CASE ~BeginCopy(w) /\ ~EndCopy(w)
  <2>1. UNCHANGED half /\ pc[w] # "copy"
    BY <1>6, Work(w) DEF Work, QueueStep, Process, HandleFailure, Complete, Recover, RecoverList,
     RecoverLoad, RecoverSave, RecoverRemove, RecoverPush, RecoverDone, Claim, ClaimPop,
     ClaimPush, ClaimLoad, ClaimSave, ProcessEnds, FailureHandled, FailureRaises, Finish,
     CompleteSave, CompleteRemove, CompletePush, StateWritten, CompletionRaises, FailSave,
     FailRemove, FailPush, Move, rest, copies
  <2> QED
    BY <1>2, <1>3, <2>1 DEF CopiesGetDone
<1> QED
  BY <1>4, <1>5, <1>6

(* Every step keeps both, when nothing else goes wrong. *)
LEMMA SafeInductive ==
    ASSUME {"crash", "expiry", "timeout"} \cap Faults = {},
           Inv, PatientInv, PayloadInv, FilesInv, CopiesGetDone, [Next]_vars
    PROVE  FilesInv' /\ CopiesGetDone'
<1>0. Server \notin Workers
  BY DEF Processes
<1>1. CASE UNCHANGED vars
  <2>1. UNCHANGED <<slot, raw, log, short, phase, half, pc, job>> /\ \A q : PathOf(q)' = PathOf(q)
    BY <1>1 DEF vars, storageVars, queueVars, memory, rest, copies, PathOf
  <2> QED
    BY <2>1, OthersKeepFiles DEF CopiesGetDone
<1>2. CASE \E b \in Batches : Client(b)
  <2>1. PICK b \in Batches : Send(b)
    BY <1>2 DEF Client, Fault
  <2>2. /\ UNCHANGED <<slot, raw, log, short, half, pc, job>> /\ \A q : PathOf(q)' = PathOf(q)
        /\ \A q \in Requests : phase'[q] = phase[q] \/ phase'[q] = "sent"
    BY <1>2, <2>1 DEF Client, Send, queueVars, memory, rest, copies, PathOf, Inv, StorageInv,
       StorageTypeOK
  <2> QED
    BY <2>2, OthersKeepFiles DEF CopiesGetDone
<1>3. CASE \E r \in Requests : Handle(r) \/ HandleGarbled(r) \/ HandleRaises(r)
  <2>1. PICK r \in Requests : Handle(r) \/ HandleGarbled(r) \/ HandleRaises(r)
    BY <1>3
  <2>2. UNCHANGED <<half, pc, job>>
    BY <2>1 DEF Handle, HandleGarbled, HandleRaises, EnqueueSave, EnqueuePush, queueVars,
       memory, rest, copies
  <2>3. \A j \in log : j \in log /\ PathOf(j)' = PathOf(j)
    <3>1. phase[r] = "sent" => r \notin log
      BY DEF Inv, StorageInv, LogFollows, Logged
    <3>2. \/ slot' = slot
          \/ (phase[r] = "sent" /\ \A q \in Requests \ {r} : slot'[q] = slot[q])
      BY <2>1 DEF Handle, HandleGarbled, HandleRaises, StorageStep, Lookup, OpenRaw, WriteRaw,
         AppendMetadata, Remember, Answer, Refuse, Raise, Enqueue, Inv, StorageInv, StorageTypeOK
    <3> QED
      BY <3>1, <3>2 DEF PathOf, Inv, StorageInv, StorageTypeOK
  <2>4. CopiesGetDone'
    <3> SUFFICES ASSUME NEW f \in half
                 PROVE  \E w \in Workers : pc[w] = "copy" /\ PathOf(job[w])' = f
      BY <2>2 DEF CopiesGetDone
    <3>1. PICK w \in Workers : pc[w] = "copy" /\ PathOf(job[w]) = f
      BY DEF CopiesGetDone
    <3>2. job[w] \in log
      BY <3>1 DEF Inv, QueueInv, QueueShape, Processes
    <3> QED
      BY <2>2, <2>3, <3>1, <3>2 DEF PathOf
  <2> QED
    BY <2>1, <2>4, HandleKeepsFiles DEF Inv
<1>4. CASE ServerStarts
  <2>1. /\ UNCHANGED <<storageVars, rest>> /\ (Recover(Server) \/ RecoverDone(Server))
    BY <1>4 DEF ServerStarts, ServerReady, Fault
  <2>2. \A w \in Workers : pc'[w] = pc[w] /\ job'[w] = job[w]
    BY <1>0, <2>1 DEF Recover, RecoverList, RecoverLoad, RecoverSave, RecoverRemove, RecoverPush,
       RecoverDone, Move, Goto, Forget, Inv, QueueInv, QueueShape, Processes
  <2>3. UNCHANGED <<slot, raw, log, short, phase, half>> /\ \A q : PathOf(q)' = PathOf(q)
    BY <2>1 DEF storageVars, rest, copies, PathOf
  <2> QED
    BY <2>2, <2>3, OthersKeepFiles DEF CopiesGetDone
<1>5. CASE \E w \in Workers : Work(w)
  <2>1. UNCHANGED <<slot, raw, log, short, phase>>
    BY <1>5 DEF Work, QueueStep, Process, HandleFailure, Complete, storageVars
  <2> QED
    BY <1>5, <2>1, OthersKeepFiles, WorkKeepsCopies
<1>6. ~Maintenance /\ ~(\E p \in Processes : Crash(p))
  BY DEF Maintenance, Crash, Fault
<1> QED
  BY <1>1, <1>2, <1>3, <1>4, <1>5, <1>6 DEF Next

(* Without a crash, without retention and without impatience every batch   *)
(* that a client deleted is in the queue, in processed_root or in          *)
(* failed_root: refused bodies, handlers and conversions that raise, and a *)
(* mark_completed or a heartbeat that does, lose nothing.                  *)
THEOREM NothingElseLosesABatch ==
    ASSUME {"crash", "expiry", "timeout"} \cap Faults = {}
    PROVE  Spec => [](\A b \in acked : \E j \in pushed : BatchOf(j) = b /\ Outcome(j))
<1>1. Inv /\ PatientInv /\ PayloadInv /\ FilesInv /\ CopiesGetDone /\ [Next]_vars =>
          (FilesInv /\ CopiesGetDone)'
  BY SafeInductive
<1>2. Spec => []PatientInv
  BY Patient
<1>3. Spec => [](FilesInv /\ CopiesGetDone)
  BY <1>1, <1>2, SafeInitially, Invariant, Payloads, PTL DEF Spec
<1>4. Inv /\ FilesInv /\ CopiesGetDone /\ LossesHaveCauses =>
          \A b \in acked : \E j \in pushed : BatchOf(j) = b /\ Outcome(j)
  <2> SUFFICES ASSUME Inv, FilesInv, CopiesGetDone, LossesHaveCauses, NEW b \in acked
               PROVE  \E j \in pushed : BatchOf(j) = b /\ Outcome(j)
    OBVIOUS
  <2>1. PICK j \in pushed : /\ BatchOf(j) = b
                            /\ Outcome(j) \/ PathOf(j) \in half
    BY AckedIsAccounted DEF AckedIsAccountedFor, LossesHaveCauses
  <2>2. CASE PathOf(j) \in half
    <3>1. PICK w \in Workers : pc[w] = "copy" /\ PathOf(job[w]) = PathOf(j)
      BY <2>2 DEF CopiesGetDone
    <3>2. w \in Processes /\ job[w] \in log /\ j \in log /\ log \subseteq Requests
      BY <3>1 DEF Processes, Inv, QueueInv, QueueShape, StorageInv, StorageTypeOK
    <3>3. job[w] = j
      BY <3>1, <3>2 DEF FilesInv, FilesAreOwn, HasFile
    <3>4. j \in Carried
      BY <3>1, <3>2, <3>3 DEF Carried, Carries
    <3> QED
      BY <2>1, <3>4 DEF Outcome
  <2> QED
    BY <2>1, <2>2
<1> QED
  BY <1>3, <1>4, Causes, Invariant, PTL

=============================================================================
