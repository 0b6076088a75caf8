----------------------------- MODULE RunsProofs -----------------------------
(***************************************************************************)
(* How often a job of the Redis queue runs when there is one worker, for   *)
(* any batches, attempts, retry limit and faults.                          *)
(***************************************************************************)
EXTENDS PipelineProofs

Worker    == CHOOSE w \in Workers : TRUE
OneWorker == Workers = {Worker}

----------------------------------------------------------------------------
(* Counting in a list. *)

Positions(s, e) == {i \in 1..Len(s) : s[i] = e}

(* There are finitely many positions. *)
LEMMA PositionsFinite ==
    ASSUME NEW S, NEW s \in Seq(S), NEW e
    PROVE  IsFiniteSet(Positions(s, e)) /\ Cardinality(Positions(s, e)) \in Nat
<1>1. Len(s) \in Nat
  BY LenProperties
<1>2. IsFiniteSet(1..Len(s))
  BY <1>1, FS_Interval, 1 \in Int
<1> QED
  BY <1>2, FS_Subset, FS_CardinalityType DEF Positions

(* RPUSH adds one occurrence. *)
LEMMA AppendCounts ==
    ASSUME NEW S, NEW s \in Seq(S), NEW e \in S, NEW x
    PROVE  Cardinality(Positions(Append(s, e), x)) =
              Cardinality(Positions(s, x)) + (IF e = x THEN 1 ELSE 0)
<1>1. /\ Len(s) \in Nat /\ Len(Append(s, e)) = Len(s) + 1
      /\ \A i \in 1..Len(s) : Append(s, e)[i] = s[i]
      /\ Append(s, e)[Len(s) + 1] = e
  BY AppendProperties, LenProperties
<1>2. IsFiniteSet(Positions(s, x)) /\ Cardinality(Positions(s, x)) \in Nat
  BY PositionsFinite
<1>3. CASE e = x
  <2>1. Positions(Append(s, e), x) = Positions(s, x) \cup {Len(s) + 1}
    BY <1>1, <1>3 DEF Positions
  <2>2. Len(s) + 1 \notin Positions(s, x)
    BY <1>1 DEF Positions
  <2> QED
    BY <1>2, <1>3, <2>1, <2>2, FS_AddElement
<1>4. CASE e # x
  <2>1. Positions(Append(s, e), x) = Positions(s, x)
    BY <1>1, <1>4 DEF Positions
  <2> QED
    BY <1>2, <1>4, <2>1
<1> QED
  BY <1>3, <1>4

(* LPOP takes the one at the head. *)
LEMMA TailCounts ==
    ASSUME NEW S, NEW s \in Seq(S), s # <<>>, NEW x
    PROVE  Cardinality(Positions(s, x)) =
              Cardinality(Positions(Tail(s), x)) + (IF Head(s) = x THEN 1 ELSE 0)
<1> DEFINE later == {i \in 2..Len(s) : s[i] = x}
<1>1. /\ Len(s) \in Nat \ {0} /\ Tail(s) \in Seq(S) /\ Len(Tail(s)) = Len(s) - 1
      /\ \A i \in 1..Len(Tail(s)) : Tail(s)[i] = s[i + 1]
      /\ s[1] = Head(s)
  BY HeadTailProperties, EmptySeq, LenProperties
<1>2. /\ IsFiniteSet(Positions(Tail(s), x)) /\ Cardinality(Positions(Tail(s), x)) \in Nat
      /\ IsFiniteSet(Positions(s, x))
  BY <1>1, PositionsFinite
<1>3. IsFiniteSet(later) /\ Cardinality(later) = Cardinality(Positions(Tail(s), x))
  <2> DEFINE next == [i \in Positions(Tail(s), x) |-> i + 1]
  <2>1. next \in [Positions(Tail(s), x) -> later]
    BY <1>1 DEF Positions
  <2>2. \A i, k \in Positions(Tail(s), x) : next[i] = next[k] => i = k
    BY <1>1 DEF Positions
  <2>3. \A k \in later : \E i \in Positions(Tail(s), x) : next[i] = k
    <3> SUFFICES ASSUME NEW k \in later PROVE \E i \in Positions(Tail(s), x) : next[i] = k
      OBVIOUS
    <3>1. k - 1 \in Positions(Tail(s), x) /\ (k - 1) + 1 = k
      BY <1>1 DEF Positions
    <3> QED
      BY <3>1
  <2> HIDE DEF next, later
  <2>4. next \in Bijection(Positions(Tail(s), x), later)
    BY <2>1, <2>2, <2>3 DEF Bijection, Injection, IsInjective, Surjection
  <2> QED
    BY <1>2, <2>4, FS_Bijection DEF ExistsBijection
<1>4. 1 \notin later
  OBVIOUS
<1>5. CASE Head(s) = x
  <2>1. Positions(s, x) = later \cup {1}
    BY <1>1, <1>5 DEF Positions
  <2> QED
    BY <1>2, <1>3, <1>4, <1>5, <2>1, FS_AddElement
<1>6. CASE Head(s) # x
  <2>1. Positions(s, x) = later
    BY <1>1, <1>6 DEF Positions
  <2> QED
    BY <1>2, <1>3, <1>6, <2>1
<1> QED
  BY <1>5, <1>6

(* LREM on a list of one id at most. *)
LEMMA RemoveFromSingle ==
    ASSUME NEW e
    PROVE  /\ RemoveFirst(<<>>, e) = <<>>
           /\ RemoveFirst(<<e>>, e) = <<>>
           /\ \A x : x # e => RemoveFirst(<<x>>, e) = <<x>>
<1>1. RemoveFirst(<<>>, e) = <<>>
  BY DEF RemoveFirst
<1>2. ASSUME NEW x, x # e PROVE RemoveFirst(<<x>>, e) = <<x>>
  <2>1. \A i \in 1..Len(<<x>>) : <<x>>[i] # e
    BY <1>2
  <2> QED
    BY <2>1 DEF RemoveFirst
<1>3. RemoveFirst(<<e>>, e) = <<>>
  <2> DEFINE I == {i \in 1..Len(<<e>>) : <<e>>[i] = e}
  <2>1. I = {1}
    OBVIOUS
  <2>2. Min(I) = 1
    BY <2>1, LeastMember
  <2>3. SelectInSeq(<<e>>, LAMBDA v : v = e) = 1
    BY <2>1, <2>2 DEF SelectInSeq
  <2>4. RemoveAt(<<e>>, 1) = <<>>
    BY DEF RemoveAt
  <2> QED
    BY <2>3, <2>4 DEF RemoveFirst
<1> QED
  BY <1>1, <1>2, <1>3

----------------------------------------------------------------------------
(* The worker's job is the only one in processing: its own recovery empties *)
(* the list before it claims, and nobody else adds to it.                   *)
Single(list) == list = <<>> \/ \E j \in pushed : list = <<j>>

WithJob == {"load", "stamp", "work", "complete", "complete_remove", "fail", "copy",
            "fail_save", "fail_remove", "recover_save", "recover_remove"}
OneClaim ==
    /\ Single(processing)
    /\ pc[Worker] \in WithJob => processing \in {<<>>, <<job[Worker]>>}
    /\ pc[Worker] = "recover" => processing \in {<<>>, ids[Worker]}
    /\ pc[Worker] \notin WithJob \cup {"recover", "down"} => processing = <<>>
    /\ \A p \in Processes : /\ Single(ids[p])
                            /\ pc[p] # "recover" => ids[p] = <<>>

(* Only a pushed job is in the queue or in a process, with a payload.       *)
OnlyPushed ==
    /\ pending \in Seq(pushed)
    /\ job \in [Processes -> pushed \cup {NoJob}]
    /\ attempts \in [Processes -> Nat]
    /\ \A j \in Jobs \ pushed : runs[j] = 0
    /\ \A j \in pushed : saved[j] \in Nat

(* A job is pushed once, and enqueue is the first to save its payload.      *)
Early == {"unsent", "sent", "reading", "write", "append", "save", "push"}
PushedOnce ==
    \A r \in Requests :
       /\ phase[r] \in Early => r \notin pushed
       /\ phase[r] = "push" => saved[r] \in Nat

----------------------------------------------------------------------------
(* The runs that a job may still have: as many as its count leaves, one for *)
(* every copy of its id, and what a recovery of the server may add.         *)

Copies(j) == Cardinality(Positions(pending, j))

(* The worker has an id that it will push, or that will be a run. *)
InHand(j) ==
    \/ /\ job[Worker] = j
       /\ \/ pc[Worker] \in {"popped", "load", "stamp", "work", "recover_save",
                             "recover_remove", "recover_push"}
          \/ /\ pc[Worker] \in {"fail", "copy", "fail_save", "fail_remove",
                                "fail_save_again", "fail_push"}
             /\ MayRetry(attempts[Worker])
    \/ pc[Worker] = "recover" /\ ids[Worker] = <<j>>
    \/ pc[Worker] = "down" /\ processing = <<j>>
Held(j) == IF InHand(j) THEN 1 ELSE 0

(* The count that is saved, or that the worker is about to save. *)
Count(j) ==
    IF job[Worker] = j /\ pc[Worker] \in {"stamp", "work", "complete", "recover_save"}
    THEN attempts[Worker]
    ELSE IF job[Worker] = j
            /\ pc[Worker] \in {"fail", "copy", "fail_save", "fail_remove", "fail_save_again"}
    THEN attempts[Worker] + 1
    ELSE saved[j]
Left(n) == IF n < RetryLimit THEN RetryLimit - n ELSE 0

(* A recovery may write back an old count and push one copy more. *)
Credit(j) ==
    IF \/ pc[Server] = "down"
       \/ pc[Server] = "recover" /\ ids[Server] = <<j>>
       \/ pc[Server] = "recover_save" /\ job[Server] = j
    THEN RetryLimit + 1
    ELSE IF pc[Server] \in {"recover_remove", "recover_push"} /\ job[Server] = j THEN 1
    ELSE 0

Running(j) == runs[j] + Left(Count(j)) + Held(j)

Cost(j) == Running(j) + Copies(j) + Credit(j)

Allowance == (RetryLimit + 1) * (1 + MaxFaults - budget)

Affordable == \A j \in pushed : Cost(j) <= Allowance

RunInv == OneClaim /\ OnlyPushed /\ PushedOnce /\ Affordable


(* Lists of one id. *)
LEMMA SingleList ==
    \A x : /\ <<x>> # <<>> /\ Append(<<>>, x) = <<x>>
           /\ Head(<<x>>) = x /\ Tail(<<x>>) = <<>>
  OBVIOUS

(* What is known of the processes and of the parts of the cost. *)
LEMMA Facts ==
    ASSUME OneWorker, Inv, RunInv
    PROVE  /\ Worker \in Processes /\ Server \in Processes /\ Worker # Server
           /\ Processes = {Worker, Server} /\ Workers = {Worker}
           /\ RetryLimit \in Nat /\ NoJob \notin pushed /\ pushed \subseteq Jobs
           /\ pc \in [Processes -> Labels]
           /\ job \in [Processes -> pushed \cup {NoJob}]
           /\ attempts \in [Processes -> Nat]
           /\ ids \in [Processes -> Seq(log)]
           /\ saved \in [Jobs -> Nat \cup {NoPayload}]
           /\ runs \in [Jobs -> Nat]
           /\ \A p \in Processes :
                 pc[p] \notin {"down", "ready", "recover"} => job[p] \in pushed
<1>1. /\ Worker \in Workers /\ Workers = {Worker} /\ Server \notin Workers
      /\ RetryLimit \in Nat /\ NoJob \notin Jobs
  BY QueueAssumption DEF OneWorker
<1>2. QueueShape /\ pushed \subseteq Jobs /\ log \subseteq Jobs
  BY PipelineAssumption DEF Inv, QueueInv, QueueShape, StorageInv, StorageTypeOK
<1> QED
  BY <1>1, <1>2 DEF Processes, QueueShape, RunInv, OnlyPushed

(* The parts of the cost are numbers, and a count leaves no more than the   *)
(* limit.                                                                   *)
LEMMA CostParts ==
    ASSUME OneWorker, Inv, RunInv, NEW j \in pushed
    PROVE  /\ runs[j] \in Nat /\ Left(Count(j)) \in 0..RetryLimit
           /\ Copies(j) \in Nat /\ Held(j) \in 0..1 /\ Credit(j) \in 0..(RetryLimit + 1)
           /\ Running(j) \in Nat /\ Cost(j) \in Nat
<1>1. Copies(j) \in Nat
  BY PositionsFinite DEF Copies, RunInv, OnlyPushed
<1>2. Count(j) \in Nat
  BY Facts DEF Count, RunInv, OnlyPushed
<1>3. RetryLimit \in Nat /\ runs[j] \in Nat
  BY Facts
<1>4. Left(Count(j)) \in 0..RetryLimit
  BY <1>2, <1>3 DEF Left
<1>5. Held(j) \in 0..1 /\ Credit(j) \in 0..(RetryLimit + 1)
  BY <1>3 DEF Held, Credit
<1>6. Running(j) \in Nat
  BY <1>3, <1>4, <1>5 DEF Running
<1>7. Cost(j) \in Nat
  BY <1>1, <1>3, <1>5, <1>6 DEF Cost
<1> QED
  BY <1>1, <1>3, <1>4, <1>5, <1>6, <1>7

Paid(n) == \A j \in pushed : Cost(j)' <= Cost(j) + n

(* The worker's recovery takes the list as its own. *)
LEMMA RecoverListRuns ==
    ASSUME OneWorker, Inv, RunInv, RecoverList(Worker)
    PROVE  OneClaim' /\ OnlyPushed' /\ Paid(0)
<1>1. /\ pc[Worker] = "down" /\ pc' = [pc EXCEPT ![Worker] = "recover"]
      /\ ids' = [ids EXCEPT ![Worker] = processing]
      /\ UNCHANGED <<pending, processing, saved, job, attempts, pushed, runs>>
  BY DEF RecoverList, Move, Goto, lists, history
<1>2. OneClaim'
  BY <1>1, Facts DEF RunInv, OneClaim, Single, WithJob
<1>3. OnlyPushed'
  BY <1>1, Facts DEF RunInv, OnlyPushed
<1>4. ASSUME NEW j \in pushed PROVE Cost(j)' <= Cost(j) + 0
  <2>1. /\ runs[j] \in Nat /\ Left(Count(j)) \in Nat /\ Held(j) \in 0..1
        /\ Copies(j) \in Nat /\ Credit(j) \in Nat
    BY CostParts, Facts
  <2>2. Copies(j)' = Copies(j) /\ Credit(j)' = Credit(j) /\ Running(j)' = Running(j)
    BY <1>1, Facts DEF Copies, Credit, Running, Count, Left, Held, InHand, MayRetry
  <2> QED
    BY <2>1, <2>2 DEF Cost, Running
<1> QED
  BY <1>2, <1>3, <1>4 DEF Paid

(* Its one id becomes the job. *)
LEMMA RecoverLoadRuns ==
    ASSUME OneWorker, Inv, RunInv, RecoverLoad(Worker)
    PROVE  OneClaim' /\ OnlyPushed' /\ Paid(0)
<1>0. PICK x \in pushed : ids[Worker] = <<x>>
  BY Facts DEF RunInv, OneClaim, Single, RecoverLoad
<1>1. /\ pc[Worker] = "recover" /\ pc' = [pc EXCEPT ![Worker] = "recover_save"]
      /\ job' = [job EXCEPT ![Worker] = x]
      /\ attempts' = [attempts EXCEPT ![Worker] = saved[x]]
      /\ ids' = [ids EXCEPT ![Worker] = <<>>]
      /\ UNCHANGED <<pending, processing, saved, pushed, runs>>
  BY <1>0, Facts, SingleList DEF RecoverLoad, Move, Goto, lists, history
<1>2. OneClaim'
  <2>1. \A p \in Processes : ids'[p] = IF p = Worker THEN <<>> ELSE ids[p]
    BY <1>1, Facts
  <2>2. Single(processing)' /\ \A p \in Processes : Single(ids[p])'
    BY <1>1, <2>1 DEF RunInv, OneClaim, Single
  <2>3. \A p \in Processes : pc'[p] # "recover" => ids'[p] = <<>>
    BY <1>1, <2>1, Facts DEF RunInv, OneClaim
  <2>4. processing' \in {<<>>, <<x>>} /\ pc'[Worker] = "recover_save" /\ job'[Worker] = x
    BY <1>0, <1>1, Facts DEF RunInv, OneClaim
  <2> QED
    BY <2>2, <2>3, <2>4 DEF OneClaim, WithJob
<1>3. OnlyPushed'
  BY <1>1, Facts DEF RunInv, OnlyPushed
<1>4. ASSUME NEW j \in pushed PROVE Cost(j)' <= Cost(j) + 0
  <2>1. /\ runs[j] \in Nat /\ Left(Count(j)) \in Nat /\ Held(j) \in 0..1
        /\ Copies(j) \in Nat /\ Credit(j) \in Nat
    BY CostParts, Facts
  <2>2. Copies(j)' = Copies(j) /\ Credit(j)' = Credit(j) /\ runs'[j] = runs[j]
    BY <1>1, Facts DEF Copies, Credit
  <2>3. Count(j)' = Count(j)
    BY <1>1, Facts DEF Count
  <2>4. Held(j)' = Held(j)
    <3>1. <<x>> = <<j>> <=> x = j
      OBVIOUS
    <3> QED
      BY <1>0, <1>1, <3>1, Facts DEF Held, InHand
  <2> QED
    BY <2>1, <2>2, <2>3, <2>4 DEF Cost, Running, Left
<1> QED
  BY <1>2, <1>3, <1>4 DEF Paid

(* The count that was loaded is saved. *)
LEMMA RecoverSaveRuns ==
    ASSUME OneWorker, Inv, RunInv, RecoverSave(Worker)
    PROVE  OneClaim' /\ OnlyPushed' /\ Paid(0)
<1>1. /\ pc[Worker] = "recover_save" /\ pc' = [pc EXCEPT ![Worker] = "recover_remove"]
      /\ job[Worker] \in pushed /\ attempts[Worker] \in Nat
      /\ saved' = [saved EXCEPT ![job[Worker]] = attempts[Worker]]
      /\ UNCHANGED <<pending, processing, job, attempts, ids, pushed, runs>>
  BY Facts DEF RecoverSave, SavePayload, Move, Goto, lists, history
<1>2. OneClaim'
  BY <1>1, Facts DEF RunInv, OneClaim, Single, WithJob
<1>3. OnlyPushed'
  BY <1>1, Facts DEF RunInv, OnlyPushed
<1>4. ASSUME NEW j \in pushed PROVE Cost(j)' <= Cost(j) + 0
  <2>1. /\ runs[j] \in Nat /\ Left(Count(j)) \in Nat /\ Held(j) \in 0..1
        /\ Copies(j) \in Nat /\ Credit(j) \in Nat
    BY CostParts, Facts
  <2>2. Copies(j)' = Copies(j) /\ Credit(j)' = Credit(j) /\ Running(j)' = Running(j)
    BY <1>1, Facts DEF Copies, Credit, Running, Count, Left, Held, InHand, MayRetry
  <2> QED
    BY <2>1, <2>2 DEF Cost, Running
<1> QED
  BY <1>2, <1>3, <1>4 DEF Paid

(* The id leaves processing for the hands of the worker. *)
LEMMA RecoverRemoveRuns ==
    ASSUME OneWorker, Inv, RunInv, RecoverRemove(Worker)
    PROVE  OneClaim' /\ OnlyPushed' /\ Paid(0)
<1>1. /\ pc[Worker] = "recover_remove" /\ pc' = [pc EXCEPT ![Worker] = "recover_push"]
      /\ processing' = <<>>
      /\ UNCHANGED <<pending, saved, job, attempts, ids, pushed, runs>>
  <2>1. processing \in {<<>>, <<job[Worker]>>}
    BY DEF RecoverRemove, Move, RunInv, OneClaim, WithJob
  <2> QED
    BY <2>1, RemoveFromSingle DEF RecoverRemove, LRem, Move, Goto, lists, history
<1>2. OneClaim'
  BY <1>1, Facts DEF RunInv, OneClaim, Single, WithJob
<1>3. OnlyPushed'
  BY <1>1, Facts DEF RunInv, OnlyPushed
<1>4. ASSUME NEW j \in pushed PROVE Cost(j)' <= Cost(j) + 0
  <2>1. /\ runs[j] \in Nat /\ Left(Count(j)) \in Nat /\ Held(j) \in 0..1
        /\ Copies(j) \in Nat /\ Credit(j) \in Nat
    BY CostParts, Facts
  <2>2. Copies(j)' = Copies(j) /\ Credit(j)' = Credit(j) /\ Running(j)' = Running(j)
    BY <1>1, Facts DEF Copies, Credit, Running, Count, Left, Held, InHand, MayRetry
  <2> QED
    BY <2>1, <2>2 DEF Cost, Running
<1> QED
  BY <1>2, <1>3, <1>4 DEF Paid

(* It goes back to pending. *)
LEMMA RecoverPushRuns ==
    ASSUME OneWorker, Inv, RunInv, RecoverPush(Worker)
    PROVE  OneClaim' /\ OnlyPushed' /\ Paid(0)
<1>1. /\ pc[Worker] = "recover_push" /\ pc' = [pc EXCEPT ![Worker] = "recover"]
      /\ job[Worker] \in pushed /\ pending \in Seq(pushed)
      /\ pending' = Append(pending, job[Worker])
      /\ job' = [job EXCEPT ![Worker] = NoJob]
      /\ attempts' = [attempts EXCEPT ![Worker] = 0]
      /\ processing = <<>> /\ ids[Worker] = <<>>
      /\ UNCHANGED <<processing, saved, ids, pushed, runs>>
  BY Facts DEF RecoverPush, Move, Goto, Forget, history, RunInv, OnlyPushed, OneClaim,
     WithJob
<1>2. OneClaim'
  BY <1>1, Facts DEF RunInv, OneClaim, Single, WithJob
<1>3. OnlyPushed'
  <2>1. pending' \in Seq(pushed)
    BY <1>1, AppendProperties
  <2> QED
    BY <1>1, <2>1, Facts DEF RunInv, OnlyPushed
<1>4. ASSUME NEW j \in pushed PROVE Cost(j)' <= Cost(j) + 0
  <2>1. /\ runs[j] \in Nat /\ Left(Count(j)) \in Nat /\ Held(j) \in 0..1
        /\ Copies(j) \in Nat /\ Credit(j) \in Nat
    BY CostParts, Facts
  <2>2. Copies(j)' = Copies(j) + (IF job[Worker] = j THEN 1 ELSE 0)
    BY <1>1, AppendCounts DEF Copies
  <2>3. Credit(j)' = Credit(j) /\ Count(j)' = Count(j) /\ runs'[j] = runs[j]
    BY <1>1, Facts DEF Credit, Count
  <2>4. Held(j) = (IF job[Worker] = j THEN 1 ELSE 0) /\ Held(j)' = 0
    <3>1. <<>> # <<j>>
      OBVIOUS
    <3> QED
      BY <1>1, <3>1, Facts DEF Held, InHand
  <2> QED
    BY <2>1, <2>2, <2>3, <2>4 DEF Cost, Running, Left
<1> QED
  BY <1>2, <1>3, <1>4 DEF Paid

(* Nothing is left in processing. *)
LEMMA RecoverDoneRuns ==
    ASSUME OneWorker, Inv, RunInv, RecoverDone(Worker)
    PROVE  OneClaim' /\ OnlyPushed' /\ Paid(0)
<1>1. /\ pc[Worker] = "recover" /\ pc' = [pc EXCEPT ![Worker] = "ready"]
      /\ ids[Worker] = <<>> /\ processing = <<>>
      /\ UNCHANGED <<pending, processing, saved, job, attempts, ids, pushed, runs>>
  BY DEF RecoverDone, Move, Goto, lists, history, RunInv, OneClaim
<1>2. OneClaim'
  BY <1>1, Facts DEF RunInv, OneClaim, Single, WithJob
<1>3. OnlyPushed'
  BY <1>1, Facts DEF RunInv, OnlyPushed
<1>4. ASSUME NEW j \in pushed PROVE Cost(j)' <= Cost(j) + 0
  <2>1. /\ runs[j] \in Nat /\ Left(Count(j)) \in Nat /\ Held(j) \in 0..1
        /\ Copies(j) \in Nat /\ Credit(j) \in Nat
    BY CostParts, Facts
  <2>2. Copies(j)' = Copies(j) /\ Credit(j)' = Credit(j) /\ runs'[j] = runs[j]
    BY <1>1, Facts DEF Copies, Credit
  <2>3. <<>> # <<j>>
    OBVIOUS
  <2>4. Count(j)' = Count(j) /\ Held(j)' = Held(j)
    BY <1>1, <2>3, Facts DEF Count, Held, InHand
  <2> QED
    BY <2>1, <2>2, <2>4 DEF Cost, Running, Left
<1> QED
  BY <1>2, <1>3, <1>4 DEF Paid

(* A copy of the id leaves pending. *)
LEMMA ClaimPopRuns ==
    ASSUME OneWorker, Inv, RunInv, ClaimPop(Worker)
    PROVE  OneClaim' /\ OnlyPushed' /\ Paid(0)
<1>1. /\ pc[Worker] = "ready" /\ pc' = [pc EXCEPT ![Worker] = "popped"]
      /\ pending \in Seq(pushed) /\ pending # <<>> /\ pending' = Tail(pending)
      /\ job' = [job EXCEPT ![Worker] = Head(pending)]
      /\ UNCHANGED <<processing, saved, attempts, ids, pushed, runs>>
  BY DEF ClaimPop, Move, Goto, history, RunInv, OnlyPushed
<1>5. Head(pending) \in pushed /\ Tail(pending) \in Seq(pushed)
  BY <1>1, HeadTailProperties
<1>2. OneClaim'
  BY <1>1, Facts DEF RunInv, OneClaim, Single, WithJob
<1>3. OnlyPushed'
  BY <1>1, <1>5, Facts DEF RunInv, OnlyPushed
<1>4. ASSUME NEW j \in pushed PROVE Cost(j)' <= Cost(j) + 0
  <2>1. /\ runs[j] \in Nat /\ Left(Count(j)) \in Nat /\ Held(j) \in 0..1
        /\ Copies(j) \in Nat /\ Credit(j) \in Nat
    BY CostParts, Facts
  <2>2. /\ Copies(j) = Copies(j)' + (IF Head(pending) = j THEN 1 ELSE 0)
        /\ Copies(j)' \in Nat
    BY <1>1, <1>5, TailCounts, PositionsFinite DEF Copies
  <2>3. Credit(j)' = Credit(j) /\ Count(j)' = Count(j) /\ runs'[j] = runs[j]
    BY <1>1, Facts DEF Credit, Count
  <2>4. Held(j) = 0 /\ Held(j)' = (IF Head(pending) = j THEN 1 ELSE 0)
    BY <1>1, Facts DEF Held, InHand
  <2> QED
    BY <2>1, <2>2, <2>3, <2>4 DEF Cost, Running, Left
<1> QED
  BY <1>2, <1>3, <1>4 DEF Paid

(* It is the only one in processing. *)
LEMMA ClaimPushRuns ==
    ASSUME OneWorker, Inv, RunInv, ClaimPush(Worker)
    PROVE  OneClaim' /\ OnlyPushed' /\ Paid(0)
<1>1. /\ pc[Worker] = "popped" /\ pc' = [pc EXCEPT ![Worker] = "load"]
      /\ job[Worker] \in pushed /\ processing' = <<job[Worker]>>
      /\ UNCHANGED <<pending, saved, job, attempts, ids, pushed, runs>>
  <2>1. processing = <<>>
    BY DEF ClaimPush, Move, RunInv, OneClaim, WithJob
  <2> QED
    BY <2>1, Facts, SingleList DEF ClaimPush, Move, Goto, history
<1>2. OneClaim'
  BY <1>1, Facts DEF RunInv, OneClaim, Single, WithJob
<1>3. OnlyPushed'
  BY <1>1, Facts DEF RunInv, OnlyPushed
<1>4. ASSUME NEW j \in pushed PROVE Cost(j)' <= Cost(j) + 0
  <2>1. /\ runs[j] \in Nat /\ Left(Count(j)) \in Nat /\ Held(j) \in 0..1
        /\ Copies(j) \in Nat /\ Credit(j) \in Nat
    BY CostParts, Facts
  <2>2. Copies(j)' = Copies(j) /\ Credit(j)' = Credit(j) /\ Running(j)' = Running(j)
    BY <1>1, Facts DEF Copies, Credit, Running, Count, Left, Held, InHand, MayRetry
  <2> QED
    BY <2>1, <2>2 DEF Cost, Running
<1> QED
  BY <1>2, <1>3, <1>4 DEF Paid

(* The count is loaded. *)
LEMMA ClaimLoadRuns ==
    ASSUME OneWorker, Inv, RunInv, ClaimLoad(Worker)
    PROVE  OneClaim' /\ OnlyPushed' /\ Paid(0)
<1>1. /\ pc[Worker] = "load" /\ pc' = [pc EXCEPT ![Worker] = "stamp"]
      /\ job[Worker] \in pushed
      /\ attempts' = [attempts EXCEPT ![Worker] = saved[job[Worker]]]
      /\ UNCHANGED <<pending, processing, saved, job, ids, pushed, runs>>
  BY Facts DEF ClaimLoad, Move, Goto, lists, history
<1>2. OneClaim'
  BY <1>1, Facts DEF RunInv, OneClaim, Single, WithJob
<1>3. OnlyPushed'
  BY <1>1, Facts DEF RunInv, OnlyPushed
<1>4. ASSUME NEW j \in pushed PROVE Cost(j)' <= Cost(j) + 0
  <2>1. /\ runs[j] \in Nat /\ Left(Count(j)) \in Nat /\ Held(j) \in 0..1
        /\ Copies(j) \in Nat /\ Credit(j) \in Nat
    BY CostParts, Facts
  <2>2. Copies(j)' = Copies(j) /\ Credit(j)' = Credit(j) /\ Running(j)' = Running(j)
    BY <1>1, Facts DEF Copies, Credit, Running, Count, Left, Held, InHand, MayRetry
  <2> QED
    BY <2>1, <2>2 DEF Cost, Running
<1> QED
  BY <1>2, <1>3, <1>4 DEF Paid

(* And saved as it was. *)
LEMMA ClaimSaveRuns ==
    ASSUME OneWorker, Inv, RunInv, ClaimSave(Worker)
    PROVE  OneClaim' /\ OnlyPushed' /\ Paid(0)
<1>1. /\ pc[Worker] = "stamp" /\ pc' = [pc EXCEPT ![Worker] = "work"]
      /\ job[Worker] \in pushed /\ attempts[Worker] \in Nat
      /\ saved' = [saved EXCEPT ![job[Worker]] = attempts[Worker]]
      /\ UNCHANGED <<pending, processing, job, attempts, ids, pushed, runs>>
  BY Facts DEF ClaimSave, SavePayload, Move, Goto, lists, history
<1>2. OneClaim'
  BY <1>1, Facts DEF RunInv, OneClaim, Single, WithJob
<1>3. OnlyPushed'
  BY <1>1, Facts DEF RunInv, OnlyPushed
<1>4. ASSUME NEW j \in pushed PROVE Cost(j)' <= Cost(j) + 0
  <2>1. /\ runs[j] \in Nat /\ Left(Count(j)) \in Nat /\ Held(j) \in 0..1
        /\ Copies(j) \in Nat /\ Credit(j) \in Nat
    BY CostParts, Facts
  <2>2. Copies(j)' = Copies(j) /\ Credit(j)' = Credit(j) /\ Running(j)' = Running(j)
    BY <1>1, Facts DEF Copies, Credit, Running, Count, Left, Held, InHand, MayRetry
  <2> QED
    BY <2>1, <2>2 DEF Cost, Running
<1> QED
  BY <1>2, <1>3, <1>4 DEF Paid

(* The run is over; its count is saved. *)
LEMMA CompleteSaveRuns ==
    ASSUME OneWorker, Inv, RunInv, CompleteSave(Worker)
    PROVE  OneClaim' /\ OnlyPushed' /\ Paid(0)
<1>1. /\ pc[Worker] = "complete" /\ pc' = [pc EXCEPT ![Worker] = "complete_remove"]
      /\ job[Worker] \in pushed /\ attempts[Worker] \in Nat
      /\ saved' = [saved EXCEPT ![job[Worker]] = attempts[Worker]]
      /\ UNCHANGED <<pending, processing, job, attempts, ids, pushed, runs>>
  BY Facts DEF CompleteSave, SavePayload, Move, Goto, lists, history
<1>2. OneClaim'
  BY <1>1, Facts DEF RunInv, OneClaim, Single, WithJob
<1>3. OnlyPushed'
  BY <1>1, Facts DEF RunInv, OnlyPushed
<1>4. ASSUME NEW j \in pushed PROVE Cost(j)' <= Cost(j) + 0
  <2>1. /\ runs[j] \in Nat /\ Left(Count(j)) \in Nat /\ Held(j) \in 0..1
        /\ Copies(j) \in Nat /\ Credit(j) \in Nat
    BY CostParts, Facts
  <2>2. Copies(j)' = Copies(j) /\ Credit(j)' = Credit(j) /\ Running(j)' = Running(j)
    BY <1>1, Facts DEF Copies, Credit, Running, Count, Left, Held, InHand, MayRetry
  <2> QED
    BY <2>1, <2>2 DEF Cost, Running
<1> QED
  BY <1>2, <1>3, <1>4 DEF Paid

(* The id leaves processing. *)
LEMMA CompleteRemoveRuns ==
    ASSUME OneWorker, Inv, RunInv, CompleteRemove(Worker)
    PROVE  OneClaim' /\ OnlyPushed' /\ Paid(0)
<1>1. /\ pc[Worker] = "complete_remove" /\ pc' = [pc EXCEPT ![Worker] = "complete_push"]
      /\ processing' = <<>>
      /\ UNCHANGED <<pending, saved, job, attempts, ids, pushed, runs>>
  <2>1. processing \in {<<>>, <<job[Worker]>>}
    BY DEF CompleteRemove, Move, RunInv, OneClaim, WithJob
  <2> QED
    BY <2>1, RemoveFromSingle DEF CompleteRemove, LRem, Move, Goto, lists, history
<1>2. OneClaim'
  BY <1>1, Facts DEF RunInv, OneClaim, Single, WithJob
<1>3. OnlyPushed'
  BY <1>1, Facts DEF RunInv, OnlyPushed
<1>4. ASSUME NEW j \in pushed PROVE Cost(j)' <= Cost(j) + 0
  <2>1. /\ runs[j] \in Nat /\ Left(Count(j)) \in Nat /\ Held(j) \in 0..1
        /\ Copies(j) \in Nat /\ Credit(j) \in Nat
    BY CostParts, Facts
  <2>2. Copies(j)' = Copies(j) /\ Credit(j)' = Credit(j) /\ Running(j)' = Running(j)
    BY <1>1, Facts DEF Copies, Credit, Running, Count, Left, Held, InHand, MayRetry
  <2> QED
    BY <2>1, <2>2 DEF Cost, Running
<1> QED
  BY <1>2, <1>3, <1>4 DEF Paid

(* And is settled. *)
LEMMA CompletePushRuns ==
    ASSUME OneWorker, Inv, RunInv, CompletePush(Worker)
    PROVE  OneClaim' /\ OnlyPushed' /\ Paid(0)
<1>1. /\ pc[Worker] = "complete_push" /\ pc' = [pc EXCEPT ![Worker] = "state"]
      /\ UNCHANGED <<pending, processing, saved, job, attempts, ids, pushed, runs>>
  BY DEF CompletePush, Move, Goto, history
<1>2. OneClaim'
  BY <1>1, Facts DEF RunInv, OneClaim, Single, WithJob
<1>3. OnlyPushed'
  BY <1>1, Facts DEF RunInv, OnlyPushed
<1>4. ASSUME NEW j \in pushed PROVE Cost(j)' <= Cost(j) + 0
  <2>1. /\ runs[j] \in Nat /\ Left(Count(j)) \in Nat /\ Held(j) \in 0..1
        /\ Copies(j) \in Nat /\ Credit(j) \in Nat
    BY CostParts, Facts
  <2>2. Copies(j)' = Copies(j) /\ Credit(j)' = Credit(j) /\ Running(j)' = Running(j)
    BY <1>1, Facts DEF Copies, Credit, Running, Count, Left, Held, InHand, MayRetry
  <2> QED
    BY <2>1, <2>2 DEF Cost, Running
<1> QED
  BY <1>2, <1>3, <1>4 DEF Paid

(* A failed job leaves processing. *)
LEMMA FailRemoveRuns ==
    ASSUME OneWorker, Inv, RunInv, FailRemove(Worker)
    PROVE  OneClaim' /\ OnlyPushed' /\ Paid(0)
<1>1. /\ pc[Worker] = "fail_remove" /\ pc' = [pc EXCEPT ![Worker] = "fail_save_again"]
      /\ processing' = <<>>
      /\ UNCHANGED <<pending, saved, job, attempts, ids, pushed, runs>>
  <2>1. processing \in {<<>>, <<job[Worker]>>}
    BY DEF FailRemove, Move, RunInv, OneClaim, WithJob
  <2> QED
    BY <2>1, RemoveFromSingle DEF FailRemove, LRem, Move, Goto, lists, history
<1>2. OneClaim'
  BY <1>1, Facts DEF RunInv, OneClaim, Single, WithJob
<1>3. OnlyPushed'
  BY <1>1, Facts DEF RunInv, OnlyPushed
<1>4. ASSUME NEW j \in pushed PROVE Cost(j)' <= Cost(j) + 0
  <2>1. /\ runs[j] \in Nat /\ Left(Count(j)) \in Nat /\ Held(j) \in 0..1
        /\ Copies(j) \in Nat /\ Credit(j) \in Nat
    BY CostParts, Facts
  <2>2. Copies(j)' = Copies(j) /\ Credit(j)' = Credit(j) /\ Running(j)' = Running(j)
    BY <1>1, Facts DEF Copies, Credit, Running, Count, Left, Held, InHand, MayRetry
  <2> QED
    BY <2>1, <2>2 DEF Cost, Running
<1> QED
  BY <1>2, <1>3, <1>4 DEF Paid

(* A run is over: the count leaves one run less, or the job is done. *)
LEMMA ProcessRuns ==
    ASSUME OneWorker, Inv, RunInv,
           ProcessEnds(Worker, "complete") \/ ProcessEnds(Worker, "fail")
    PROVE  OneClaim' /\ OnlyPushed' /\ Paid(0)
<1>1. /\ pc[Worker] = "work" /\ job[Worker] \in pushed
      /\ pc' = [pc EXCEPT ![Worker] = "complete"] \/ pc' = [pc EXCEPT ![Worker] = "fail"]
      /\ runs' = [runs EXCEPT ![job[Worker]] = @ + 1]
      /\ UNCHANGED <<pending, processing, saved, job, attempts, ids, pushed>>
  BY Facts DEF ProcessEnds, Move, Goto, lists
<1>2. OneClaim'
  BY <1>1, Facts DEF RunInv, OneClaim, Single, WithJob
<1>3. OnlyPushed'
  BY <1>1, Facts DEF RunInv, OnlyPushed
<1>4. ASSUME NEW j \in pushed PROVE Cost(j)' <= Cost(j) + 0
  <2>1. /\ runs[j] \in Nat /\ Left(Count(j)) \in Nat /\ Held(j) \in 0..1
        /\ Copies(j) \in Nat /\ Credit(j) \in Nat
    BY CostParts, Facts
  <2>2. Copies(j)' = Copies(j) /\ Credit(j)' = Credit(j)
    BY <1>1, Facts DEF Copies, Credit
  <2>3. CASE job[Worker] # j
    <3>1. runs'[j] = runs[j] /\ Count(j)' = Count(j) /\ Held(j)' = Held(j)
      BY <1>1, <2>3, Facts DEF Count, Held, InHand
    <3> QED
      BY <2>1, <2>2, <3>1 DEF Cost, Running, Left
  <2>4. CASE job[Worker] = j
    <3>1. /\ runs'[j] = runs[j] + 1 /\ Count(j) = attempts[Worker] /\ Held(j) = 1
          /\ attempts[Worker] \in Nat /\ RetryLimit \in Nat
      BY <1>1, <2>4, Facts DEF Count, Held, InHand
    <3>2. CASE pc'[Worker] = "complete"
      <4>1. Count(j)' = attempts[Worker] /\ Held(j)' = 0
        BY <1>1, <2>4, <3>2, Facts DEF Count, Held, InHand
      <4> QED
        BY <2>1, <2>2, <3>1, <4>1 DEF Cost, Running, Left
    <3>3. CASE pc'[Worker] = "fail"
      <4>1. Count(j)' = attempts[Worker] + 1
        BY <1>1, <2>4, <3>3, Facts DEF Count
      <4>2. Held(j)' = IF attempts[Worker] < RetryLimit THEN 1 ELSE 0
        BY <1>1, <2>4, <3>3, Facts DEF Held, InHand, MayRetry
      <4>3. Left(Count(j))' = Left(attempts[Worker] + 1)
        BY <4>1 DEF Left
      <4> QED
        BY <2>1, <2>2, <3>1, <4>2, <4>3 DEF Cost, Running, Left
    <3> QED
      BY <1>1, <3>2, <3>3, Facts
  <2> QED
    BY <2>3, <2>4
<1> QED
  BY <1>2, <1>3, <1>4 DEF Paid

(* handle_failure of a job with a payload, which every pushed job has.     *)
LEMMA FailureRuns ==
    ASSUME OneWorker, Inv, RunInv,
           \/ FailureHandled(Worker, "copy") \/ FailureHandled(Worker, "fail_save")
           \/ FileCopied(Worker)
    PROVE  OneClaim' /\ OnlyPushed' /\ Paid(0)
<1>1. /\ pc[Worker] \in {"fail", "copy"} /\ job[Worker] \in pushed
      /\ attempts[Worker] \in Nat
      /\ pc' = [pc EXCEPT ![Worker] = "copy"] \/ pc' = [pc EXCEPT ![Worker] = "fail_save"]
      /\ UNCHANGED <<pending, processing, saved, job, attempts, ids, pushed, runs>>
  BY Facts DEF FailureHandled, FileCopied, Move, Goto, lists, history
<1>2. OneClaim'
  BY <1>1, Facts DEF RunInv, OneClaim, Single, WithJob
<1>3. OnlyPushed'
  BY <1>1, Facts DEF RunInv, OnlyPushed
<1>4. ASSUME NEW j \in pushed PROVE Cost(j)' <= Cost(j) + 0
  <2>1. /\ runs[j] \in Nat /\ Left(Count(j)) \in Nat /\ Held(j) \in 0..1
        /\ Copies(j) \in Nat /\ Credit(j) \in Nat
    BY CostParts, Facts
  <2>2. Copies(j)' = Copies(j) /\ Credit(j)' = Credit(j) /\ Running(j)' = Running(j)
    BY <1>1, Facts DEF Copies, Credit, Running, Count, Left, Held, InHand, MayRetry
  <2> QED
    BY <2>1, <2>2 DEF Cost, Running
<1> QED
  BY <1>2, <1>3, <1>4 DEF Paid

(* mark_failed saves the count that was owed since the run. *)
LEMMA FailSaveRuns ==
    ASSUME OneWorker, Inv, RunInv,
           \/ FailSave(Worker, "fail_save", "fail_remove")
           \/ FailSave(Worker, "fail_save_again", "fail_push")
    PROVE  OneClaim' /\ OnlyPushed' /\ Paid(0)
<1>1. /\ \/ pc[Worker] = "fail_save" /\ pc' = [pc EXCEPT ![Worker] = "fail_remove"]
         \/ pc[Worker] = "fail_save_again" /\ pc' = [pc EXCEPT ![Worker] = "fail_push"]
      /\ job[Worker] \in pushed /\ attempts[Worker] \in Nat
      /\ saved' = [saved EXCEPT ![job[Worker]] = attempts[Worker] + 1]
      /\ UNCHANGED <<pending, processing, job, attempts, ids, pushed, runs>>
  BY Facts DEF FailSave, Move, Goto, lists, history
<1>2. OneClaim'
  BY <1>1, Facts DEF RunInv, OneClaim, Single, WithJob
<1>3. OnlyPushed'
  BY <1>1, Facts DEF RunInv, OnlyPushed
<1>4. ASSUME NEW j \in pushed PROVE Cost(j)' <= Cost(j) + 0
  <2>1. /\ runs[j] \in Nat /\ Left(Count(j)) \in Nat /\ Held(j) \in 0..1
        /\ Copies(j) \in Nat /\ Credit(j) \in Nat
    BY CostParts, Facts
  <2>2. Copies(j)' = Copies(j) /\ Credit(j)' = Credit(j) /\ Running(j)' = Running(j)
    BY <1>1, Facts DEF Copies, Credit, Running, Count, Left, Held, InHand, MayRetry
  <2> QED
    BY <2>1, <2>2 DEF Cost, Running
<1> QED
  BY <1>2, <1>3, <1>4 DEF Paid

(* A job that may be retried is pushed again by the worker that held it.   *)
LEMMA FailPushRuns ==
    ASSUME OneWorker, Inv, RunInv, FailPush(Worker)
    PROVE  OneClaim' /\ OnlyPushed' /\ Paid(0)
<1>1. /\ pc[Worker] = "fail_push" /\ pc' = [pc EXCEPT ![Worker] = "ready"]
      /\ job[Worker] \in pushed /\ job' = [job EXCEPT ![Worker] = NoJob]
      /\ attempts' = [attempts EXCEPT ![Worker] = 0]
      /\ pending' = IF MayRetry(attempts[Worker]) THEN Append(pending, job[Worker])
                    ELSE pending
      /\ pending \in Seq(pushed)
      /\ UNCHANGED <<processing, saved, ids, pushed, runs>>
  BY Facts DEF FailPush, Move, Goto, Forget, history, RunInv, OnlyPushed
<1>2. OneClaim'
  BY <1>1, Facts DEF RunInv, OneClaim, Single, WithJob
<1>3. OnlyPushed'
  <2>1. pending' \in Seq(pushed)
    BY <1>1, AppendProperties
  <2> QED
    BY <1>1, <2>1, Facts DEF RunInv, OnlyPushed
<1>4. ASSUME NEW j \in pushed PROVE Cost(j)' <= Cost(j) + 0
  <2>1. /\ runs[j] \in Nat /\ Left(Count(j)) \in Nat /\ Held(j) \in 0..1
        /\ Copies(j) \in Nat /\ Credit(j) \in Nat
    BY CostParts, Facts
  <2>2. /\ runs'[j] = runs[j] /\ Credit(j)' = Credit(j) /\ Count(j)' = Count(j)
        /\ Held(j)' = 0
    BY <1>1, Facts DEF Credit, Count, Held, InHand
  <2>3. Left(Count(j))' = Left(Count(j))
    BY <2>2 DEF Left
  <2>4. CASE job[Worker] = j /\ MayRetry(attempts[Worker])
    <3>1. Copies(j)' = Copies(j) + 1
      BY <1>1, <2>4, AppendCounts DEF Copies
    <3>2. Held(j) = 1
      BY <1>1, <2>4 DEF Held, InHand
    <3> QED
      BY <2>1, <2>2, <2>3, <3>1, <3>2 DEF Cost, Running
  <2>5. CASE ~(job[Worker] = j /\ MayRetry(attempts[Worker]))
    <3>1. Copies(j)' = Copies(j)
      <4>1. CASE MayRetry(attempts[Worker])
        <5>1. /\ pending' = Append(pending, job[Worker]) /\ job[Worker] # j
              /\ Copies(j) \in Nat
          BY <1>1, <2>1, <2>5, <4>1
        <5> QED
          BY <1>1, <5>1, AppendCounts DEF Copies
      <4> QED
        BY <1>1, <4>1 DEF Copies
    <3> QED
      BY <2>1, <2>2, <2>3, <3>1 DEF Cost, Running
  <2> QED
    BY <2>4, <2>5
<1> QED
  BY <1>2, <1>3, <1>4 DEF Paid

(* The heartbeat is written: the job was settled before. *)
LEMMA StateWrittenRuns ==
    ASSUME OneWorker, Inv, RunInv, StateWritten(Worker)
    PROVE  OneClaim' /\ OnlyPushed' /\ Paid(0)
<1>1. /\ pc[Worker] = "state" /\ pc' = [pc EXCEPT ![Worker] = "ready"]
      /\ job' = [job EXCEPT ![Worker] = NoJob]
      /\ attempts' = [attempts EXCEPT ![Worker] = 0]
      /\ UNCHANGED <<pending, processing, saved, ids, pushed, runs>>
  BY Facts DEF StateWritten, Move, Goto, Forget, lists, history
<1>2. OneClaim'
  BY <1>1, Facts DEF RunInv, OneClaim, Single, WithJob
<1>3. OnlyPushed'
  BY <1>1, Facts DEF RunInv, OnlyPushed
<1>4. ASSUME NEW j \in pushed PROVE Cost(j)' <= Cost(j) + 0
  <2>1. /\ runs[j] \in Nat /\ Left(Count(j)) \in Nat /\ Held(j) \in 0..1
        /\ Copies(j) \in Nat /\ Credit(j) \in Nat
    BY CostParts, Facts
  <2>2. Copies(j)' = Copies(j) /\ Credit(j)' = Credit(j) /\ Running(j)' = Running(j)
    BY <1>1, Facts DEF Copies, Credit, Running, Count, Left, Held, InHand, MayRetry
  <2> QED
    BY <2>1, <2>2 DEF Cost, Running
<1> QED
  BY <1>2, <1>3, <1>4 DEF Paid

(* Whatever happens to the worker alone, it changes only what its count    *)
(* leaves and what it holds, and the two are at most RetryLimit + 1.       *)
LEMMA WorkerFault ==
    ASSUME OneWorker, Inv, RunInv,
           UNCHANGED <<pending, runs, saved, pushed>>,
           pc'[Server] = pc[Server], ids'[Server] = ids[Server],
           job'[Server] = job[Server],
           attempts'[Worker] \in Nat
    PROVE  Paid(RetryLimit + 1)
<1> SUFFICES ASSUME NEW j \in pushed PROVE Cost(j)' <= Cost(j) + (RetryLimit + 1)
  BY DEF Paid
<1>1. /\ runs[j] \in Nat /\ Left(Count(j)) \in Nat /\ Held(j) \in 0..1
      /\ Copies(j) \in Nat /\ Credit(j) \in Nat /\ RetryLimit \in Nat
  BY CostParts, Facts
<1>2. Copies(j)' = Copies(j) /\ Credit(j)' = Credit(j) /\ runs'[j] = runs[j]
  BY Facts DEF Copies, Credit
<1>3. Count(j)' \in Nat
  BY Facts DEF Count, RunInv, OnlyPushed
<1>4. Left(Count(j))' \in 0..RetryLimit
  BY <1>1, <1>3 DEF Left
<1>5. Held(j)' \in 0..1
  BY DEF Held
<1> QED
  BY <1>1, <1>2, <1>4, <1>5 DEF Cost, Running

(* mark_completed or write_state raises, and the job fails after all.      *)
LEMMA CompletionRaisesRuns ==
    ASSUME OneWorker, Inv, RunInv, CompletionRaises(Worker)
    PROVE  OneClaim' /\ OnlyPushed' /\ Paid(RetryLimit + 1)
<1>1. /\ pc[Worker] \in {"complete", "complete_remove", "complete_push", "state"}
      /\ pc' = [pc EXCEPT ![Worker] = "fail"] /\ job[Worker] \in pushed
      /\ UNCHANGED <<pending, processing, saved, job, attempts, ids, pushed, runs>>
  BY Facts DEF CompletionRaises, Move, Goto, lists, history
<1>2. OneClaim'
  BY <1>1, Facts DEF RunInv, OneClaim, Single, WithJob
<1>3. OnlyPushed'
  BY <1>1, Facts DEF RunInv, OnlyPushed
<1>4. Paid(RetryLimit + 1)
  BY <1>1, WorkerFault, Facts
<1> QED
  BY <1>2, <1>3, <1>4

(* The worker dies: its next recovery finds the id in processing, if it is *)
(* anywhere.                                                               *)
LEMMA WorkerCrashRuns ==
    ASSUME OneWorker, Inv, RunInv, Die(Worker)
    PROVE  OneClaim' /\ OnlyPushed' /\ Paid(RetryLimit + 1)
<1>1. /\ pc' = [pc EXCEPT ![Worker] = "down"] /\ ids' = [ids EXCEPT ![Worker] = <<>>]
      /\ job' = [job EXCEPT ![Worker] = NoJob]
      /\ attempts' = [attempts EXCEPT ![Worker] = 0]
      /\ UNCHANGED <<pending, processing, saved, pushed, runs>>
  BY DEF Die, Goto, Forget, lists
<1>2. OneClaim'
  BY <1>1, Facts DEF RunInv, OneClaim, Single, WithJob
<1>3. OnlyPushed'
  BY <1>1, Facts DEF RunInv, OnlyPushed
<1>4. Paid(RetryLimit + 1)
  BY <1>1, WorkerFault, Facts
<1> QED
  BY <1>2, <1>3, <1>4

----------------------------------------------------------------------------
(* The server: its recovery may disturb the worker's job. *)

(* It dies: its recovery may cost a job all its runs once more. *)
LEMMA ServerCrashRuns ==
    ASSUME OneWorker, Inv, RunInv, Die(Server)
    PROVE  OneClaim' /\ OnlyPushed' /\ Paid(RetryLimit + 1)
<1>1. /\ pc' = [pc EXCEPT ![Server] = "down"] /\ ids' = [ids EXCEPT ![Server] = <<>>]
      /\ job' = [job EXCEPT ![Server] = NoJob]
      /\ attempts' = [attempts EXCEPT ![Server] = 0]
      /\ UNCHANGED <<pending, processing, saved, pushed, runs>>
  BY DEF Die, Goto, Forget, lists
<1>2. OneClaim'
  BY <1>1, Facts DEF RunInv, OneClaim, Single, WithJob
<1>3. OnlyPushed'
  BY <1>1, Facts DEF RunInv, OnlyPushed
<1>4. ASSUME NEW j \in pushed PROVE Cost(j)' <= Cost(j) + (RetryLimit + 1)
  <2>1. /\ runs[j] \in Nat /\ Left(Count(j)) \in Nat /\ Held(j) \in 0..1
        /\ Copies(j) \in Nat /\ Credit(j) \in Nat /\ RetryLimit \in Nat
    BY CostParts, Facts
  <2>2. Copies(j)' = Copies(j) /\ Credit(j)' = RetryLimit + 1 /\ Running(j)' = Running(j)
    BY <1>1, Facts DEF Copies, Credit, Running, Count, Left, Held, InHand, MayRetry
  <2> QED
    BY <2>1, <2>2 DEF Cost, Running
<1> QED
  BY <1>2, <1>3, <1>4 DEF Paid

(* The server's recovery reads the list. *)
LEMMA ServerListRuns ==
    ASSUME OneWorker, Inv, RunInv, RecoverList(Server)
    PROVE  OneClaim' /\ OnlyPushed' /\ Paid(0)
<1>1. /\ pc[Server] = "down" /\ pc' = [pc EXCEPT ![Server] = "recover"]
      /\ ids' = [ids EXCEPT ![Server] = processing]
      /\ UNCHANGED <<pending, processing, saved, job, attempts, pushed, runs>>
  BY DEF RecoverList, Move, Goto, lists, history
<1>2. OneClaim'
  BY <1>1, Facts DEF RunInv, OneClaim, Single, WithJob
<1>3. OnlyPushed'
  BY <1>1, Facts DEF RunInv, OnlyPushed
<1>4. ASSUME NEW j \in pushed PROVE Cost(j)' <= Cost(j) + 0
  <2>1. /\ runs[j] \in Nat /\ Left(Count(j)) \in Nat /\ Held(j) \in 0..1
        /\ Copies(j) \in Nat /\ Credit(j) \in Nat /\ RetryLimit \in Nat
    BY CostParts, Facts
  <2>2. Copies(j)' = Copies(j) /\ Running(j)' = Running(j)
    BY <1>1, Facts DEF Copies, Running, Count, Left, Held, InHand, MayRetry
  <2>3. Credit(j) = RetryLimit + 1 /\ Credit(j)' \in {0, RetryLimit + 1}
    BY <1>1, Facts DEF Credit
  <2> QED
    BY <2>1, <2>2, <2>3 DEF Cost, Running
<1> QED
  BY <1>2, <1>3, <1>4 DEF Paid

(* It loads the payload of the id. *)
LEMMA ServerLoadRuns ==
    ASSUME OneWorker, Inv, RunInv, RecoverLoad(Server)
    PROVE  OneClaim' /\ OnlyPushed' /\ Paid(0)
<1>1. PICK x \in pushed : ids[Server] = <<x>>
  BY Facts DEF RunInv, OneClaim, Single, RecoverLoad
<1>2. /\ pc[Server] = "recover" /\ pc' = [pc EXCEPT ![Server] = "recover_save"]
      /\ job' = [job EXCEPT ![Server] = x]
      /\ attempts' = [attempts EXCEPT ![Server] = saved[x]]
      /\ ids' = [ids EXCEPT ![Server] = <<>>]
      /\ UNCHANGED <<pending, processing, saved, pushed, runs>>
  BY <1>1, Facts, SingleList DEF RecoverLoad, Move, Goto, lists, history
<1>3. OneClaim'
  <2>1. \A p \in Processes : ids'[p] = IF p = Server THEN <<>> ELSE ids[p]
    BY <1>2, Facts
  <2>2. \A p \in Processes : Single(ids[p])'
    BY <1>2, <2>1 DEF RunInv, OneClaim, Single
  <2>3. \A p \in Processes : pc'[p] # "recover" => ids'[p] = <<>>
    BY <1>2, <2>1, Facts DEF RunInv, OneClaim
  <2>4. /\ pc'[Worker] = pc[Worker] /\ job'[Worker] = job[Worker]
        /\ ids'[Worker] = ids[Worker]
    BY <1>2, Facts
  <2> QED
    BY <1>2, <2>2, <2>3, <2>4 DEF RunInv, OneClaim, Single
<1>4. OnlyPushed'
  BY <1>2, Facts DEF RunInv, OnlyPushed
<1>5. ASSUME NEW j \in pushed PROVE Cost(j)' <= Cost(j) + 0
  <2>1. /\ runs[j] \in Nat /\ Left(Count(j)) \in Nat /\ Held(j) \in 0..1
        /\ Copies(j) \in Nat /\ Credit(j) \in Nat /\ RetryLimit \in Nat
    BY CostParts, Facts
  <2>2. Copies(j)' = Copies(j) /\ Running(j)' = Running(j)
    BY <1>2, Facts DEF Copies, Running, Count, Left, Held, InHand, MayRetry
  <2>3. Credit(j)' = Credit(j)
    <3>1. <<x>> = <<j>> <=> x = j
      OBVIOUS
    <3> QED
      BY <1>1, <1>2, <3>1, Facts DEF Credit
  <2> QED
    BY <2>1, <2>2, <2>3 DEF Cost, Running
<1> QED
  BY <1>3, <1>4, <1>5 DEF Paid

(* It writes back a count that may be stale by now. *)
LEMMA ServerSaveRuns ==
    ASSUME OneWorker, Inv, RunInv, RecoverSave(Server)
    PROVE  OneClaim' /\ OnlyPushed' /\ Paid(0)
<1>1. /\ pc[Server] = "recover_save" /\ pc' = [pc EXCEPT ![Server] = "recover_remove"]
      /\ job[Server] \in pushed /\ attempts[Server] \in Nat
      /\ saved' = [saved EXCEPT ![job[Server]] = attempts[Server]]
      /\ UNCHANGED <<pending, processing, job, attempts, ids, pushed, runs>>
  BY Facts DEF RecoverSave, SavePayload, Move, Goto, lists, history
<1>2. OneClaim'
  BY <1>1, Facts DEF RunInv, OneClaim, Single, WithJob
<1>3. OnlyPushed'
  BY <1>1, Facts DEF RunInv, OnlyPushed
<1>4. ASSUME NEW j \in pushed PROVE Cost(j)' <= Cost(j) + 0
  <2>1. /\ runs[j] \in Nat /\ Left(Count(j)) \in Nat /\ Held(j) \in 0..1
        /\ Copies(j) \in Nat /\ Credit(j) \in Nat /\ RetryLimit \in Nat
    BY CostParts, Facts
  <2>2. Copies(j)' = Copies(j) /\ runs'[j] = runs[j] /\ Held(j)' = Held(j)
    BY <1>1, Facts DEF Copies, Held, InHand, MayRetry
  <2>3. CASE job[Server] = j
    <3>1. Credit(j) = RetryLimit + 1 /\ Credit(j)' = 1
      BY <1>1, <2>3, Facts DEF Credit
    <3>2. Count(j)' \in Nat
      BY <1>1, <1>3, Facts DEF Count, OnlyPushed
    <3>3. Left(Count(j))' \in 0..RetryLimit
      BY <2>1, <3>2 DEF Left
    <3> QED
      BY <2>1, <2>2, <3>1, <3>3 DEF Cost, Running
  <2>4. CASE job[Server] # j
    <3>1. Credit(j)' = Credit(j) /\ Count(j)' = Count(j)
      BY <1>1, <2>4, Facts DEF Credit, Count
    <3>2. Left(Count(j))' = Left(Count(j))
      BY <3>1 DEF Left
    <3> QED
      BY <2>1, <2>2, <3>1, <3>2 DEF Cost, Running
  <2> QED
    BY <2>3, <2>4
<1> QED
  BY <1>2, <1>3, <1>4 DEF Paid

(* LREM on processing: the id is gone, or another one is there. *)
LEMMA ServerRemoveRuns ==
    ASSUME OneWorker, Inv, RunInv, RecoverRemove(Server)
    PROVE  OneClaim' /\ OnlyPushed' /\ Paid(0)
<1>1. /\ pc[Server] = "recover_remove" /\ pc' = [pc EXCEPT ![Server] = "recover_push"]
      /\ processing' = RemoveFirst(processing, job[Server])
      /\ UNCHANGED <<pending, saved, job, attempts, ids, pushed, runs>>
  BY DEF RecoverRemove, LRem, Move, Goto, lists, history
<1>2. processing' \in {<<>>, processing}
  BY <1>1, RemoveFromSingle DEF RunInv, OneClaim, Single
<1>3. OneClaim'
  BY <1>1, <1>2, Facts DEF RunInv, OneClaim, Single, WithJob
<1>4. OnlyPushed'
  BY <1>1, Facts DEF RunInv, OnlyPushed
<1>5. ASSUME NEW j \in pushed PROVE Cost(j)' <= Cost(j) + 0
  <2>1. /\ runs[j] \in Nat /\ Left(Count(j)) \in Nat /\ Held(j) \in 0..1
        /\ Copies(j) \in Nat /\ Credit(j) \in Nat /\ RetryLimit \in Nat
    BY CostParts, Facts
  <2>2. Copies(j)' = Copies(j) /\ Credit(j)' = Credit(j) /\ runs'[j] = runs[j]
    BY <1>1, Facts DEF Copies, Credit
  <2>3. Left(Count(j))' = Left(Count(j))
    BY <1>1, Facts DEF Count, Left
  <2>4. Held(j)' \in {0, Held(j)}
    <3>1. <<>> # <<j>>
      OBVIOUS
    <3>2. InHand(j)' => InHand(j)
      BY <1>1, <1>2, <3>1, Facts DEF InHand, MayRetry
    <3> QED
      BY <3>2 DEF Held
  <2> QED
    BY <2>1, <2>2, <2>3, <2>4 DEF Cost, Running
<1> QED
  BY <1>3, <1>4, <1>5 DEF Paid

(* The id goes to pending, whether the worker still runs the job or not.   *)
LEMMA ServerPushRuns ==
    ASSUME OneWorker, Inv, RunInv, RecoverPush(Server)
    PROVE  OneClaim' /\ OnlyPushed' /\ Paid(0)
<1>1. /\ pc[Server] = "recover_push" /\ pc' = [pc EXCEPT ![Server] = "recover"]
      /\ job[Server] \in pushed /\ pending \in Seq(pushed)
      /\ pending' = Append(pending, job[Server])
      /\ job' = [job EXCEPT ![Server] = NoJob]
      /\ attempts' = [attempts EXCEPT ![Server] = 0]
      /\ ids[Server] = <<>>
      /\ UNCHANGED <<processing, saved, ids, pushed, runs>>
  BY Facts DEF RecoverPush, Move, Goto, Forget, history, RunInv, OnlyPushed, OneClaim
<1>2. OneClaim'
  BY <1>1, Facts DEF RunInv, OneClaim, Single, WithJob
<1>3. OnlyPushed'
  <2>1. pending' \in Seq(pushed)
    BY <1>1, AppendProperties
  <2> QED
    BY <1>1, <2>1, Facts DEF RunInv, OnlyPushed
<1>4. ASSUME NEW j \in pushed PROVE Cost(j)' <= Cost(j) + 0
  <2>1. /\ runs[j] \in Nat /\ Left(Count(j)) \in Nat /\ Held(j) \in 0..1
        /\ Copies(j) \in Nat /\ Credit(j) \in Nat /\ RetryLimit \in Nat
    BY CostParts, Facts
  <2>2. Copies(j)' = Copies(j) + (IF job[Server] = j THEN 1 ELSE 0)
    BY <1>1, AppendCounts DEF Copies
  <2>3. Running(j)' = Running(j)
    BY <1>1, Facts DEF Running, Count, Left, Held, InHand, MayRetry
  <2>4. <<>> # <<j>>
    OBVIOUS
  <2>5. Credit(j) = (IF job[Server] = j THEN 1 ELSE 0) /\ Credit(j)' = 0
    BY <1>1, <2>4, Facts DEF Credit
  <2> QED
    BY <2>1, <2>2, <2>3, <2>5 DEF Cost, Running
<1> QED
  BY <1>2, <1>3, <1>4 DEF Paid

(* The server is up. *)
LEMMA ServerDoneRuns ==
    ASSUME OneWorker, Inv, RunInv, RecoverDone(Server)
    PROVE  OneClaim' /\ OnlyPushed' /\ Paid(0)
<1>1. /\ pc[Server] = "recover" /\ pc' = [pc EXCEPT ![Server] = "ready"]
      /\ ids[Server] = <<>>
      /\ UNCHANGED <<pending, processing, saved, job, attempts, ids, pushed, runs>>
  BY DEF RecoverDone, Move, Goto, lists, history
<1>2. OneClaim'
  BY <1>1, Facts DEF RunInv, OneClaim, Single, WithJob
<1>3. OnlyPushed'
  BY <1>1, Facts DEF RunInv, OnlyPushed
<1>4. ASSUME NEW j \in pushed PROVE Cost(j)' <= Cost(j) + 0
  <2>1. /\ runs[j] \in Nat /\ Left(Count(j)) \in Nat /\ Held(j) \in 0..1
        /\ Copies(j) \in Nat /\ Credit(j) \in Nat /\ RetryLimit \in Nat
    BY CostParts, Facts
  <2>2. Copies(j)' = Copies(j) /\ Running(j)' = Running(j)
    BY <1>1, Facts DEF Copies, Running, Count, Left, Held, InHand, MayRetry
  <2>3. <<>> # <<j>>
    OBVIOUS
  <2>4. Credit(j)' = Credit(j)
    BY <1>1, <2>3, Facts DEF Credit
  <2> QED
    BY <2>1, <2>2, <2>4 DEF Cost, Running
<1> QED
  BY <1>2, <1>3, <1>4 DEF Paid

----------------------------------------------------------------------------
(* Uploads. *)

(* Who saves a count saves that of a job that was pushed. *)
LEMMA SavesOfPushed ==
    ASSUME OneWorker, Inv, RunInv, NEW p \in Processes,
           QueueMove(p) \/ Process(p) \/ HandleFailure(p) \/ Complete(p)
    PROVE  UNCHANGED pushed /\ \A j \in Jobs \ pushed : saved'[j] = saved[j]
<1>1. pc[p] \notin {"down", "ready", "recover"} => job[p] \in pushed
  BY Facts
<1>2. saved \in [Jobs -> Nat \cup {NoPayload}]
  BY Facts
<1>3. CASE Recover(p) \/ RecoverDone(p)
  BY <1>1, <1>2, <1>3
  DEF Recover, RecoverList, RecoverLoad, RecoverSave, RecoverRemove, RecoverPush,
      RecoverDone, SavePayload, Move, history
<1>4. CASE Claim(p)
  BY <1>1, <1>2, <1>4
  DEF Claim, ClaimPop, ClaimPush, ClaimLoad, ClaimSave, SavePayload, Move, history
<1>5. CASE Finish(p)
  BY <1>1, <1>2, <1>5
  DEF Finish, CompleteSave, CompleteRemove, CompletePush, FailSave, FailRemove, FailPush,
      SavePayload, Move, history
<1>6. CASE Process(p) \/ HandleFailure(p) \/ Complete(p)
  BY <1>6 DEF Process, ProcessEnds, HandleFailure, BeginCopy, EndCopy, FailureHandled,
     FileCopied, FailureRaises, Die, Complete, StateWritten, CompletionRaises, history
<1> QED
  BY <1>3, <1>4, <1>5, <1>6 DEF QueueMove

(* As long as no request comes to its push, nothing changes for its job.   *)
LEMMA PushedOnceKept ==
    ASSUME OneWorker, Inv, RunInv, UNCHANGED pushed,
           \A j \in Jobs \ pushed : saved'[j] = saved[j],
           \A r \in Requests : /\ phase'[r] \in Early => phase[r] \in Early
                               /\ phase'[r] = "push" => phase[r] = "push"
    PROVE  PushedOnce'
  BY PipelineAssumption DEF RunInv, PushedOnce, Early

(* A request that is handled, up to its push, goes on by one step.         *)
LEMMA StoragePhases ==
    ASSUME Inv, NEW q \in Requests, StorageStep(q) \/ Refuse(q) \/ Raise(q)
    PROVE  \A r \in Requests : /\ phase'[r] \in Early => phase[r] \in Early
                               /\ phase'[r] = "push" => phase[r] = "push"
<1>1. phase \in [Requests -> Open \cup {"unsent", "over"}]
  BY DEF Inv, StorageInv, StorageTypeOK
<1> QED
  BY <1>1 DEF StorageStep, Lookup, OpenRaw, WriteRaw, AppendMetadata, Remember, Answer,
     Refuse, Raise, Advance, Early, Open, OnLoop

(* Where the queue and its processes do not change, neither does the cost. *)
LEMMA QueueStays ==
    ASSUME OneWorker, Inv, RunInv, UNCHANGED queueVars
    PROVE  OneClaim' /\ OnlyPushed' /\ Paid(0)
<1>1. UNCHANGED <<pending, processing, saved, pc, job, attempts, ids, pushed, runs>>
  BY DEF queueVars, lists, memory, history
<1>2. OneClaim' /\ OnlyPushed'
  BY <1>1 DEF RunInv, OneClaim, Single, OnlyPushed
<1>3. ASSUME NEW j \in pushed PROVE Cost(j)' <= Cost(j) + 0
  <2>1. Cost(j) \in Nat
    BY CostParts
  <2>2. Cost(j)' = Cost(j)
    BY <1>1 DEF Cost, Running, Count, Left, Held, InHand, MayRetry, Copies, Credit
  <2> QED
    BY <2>1, <2>2
<1> QED
  BY <1>2, <1>3 DEF Paid

(* enqueue saves the first payload of a job that is nowhere yet.           *)
LEMMA EnqueueSaveRuns ==
    ASSUME OneWorker, Inv, RunInv, NEW r \in Requests,
           Enqueue(r, "save", "push"), EnqueueSave(r)
    PROVE  OneClaim' /\ OnlyPushed' /\ PushedOnce' /\ Paid(0)
<1>1. /\ saved' = [saved EXCEPT ![r] = 0]
      /\ phase[r] = "save" /\ phase' = [phase EXCEPT ![r] = "push"]
      /\ UNCHANGED <<pending, processing, pc, job, attempts, ids, pushed, runs>>
  BY DEF Enqueue, EnqueueSave, Advance, lists, memory, history
<1>2. /\ r \notin pushed /\ r \in Jobs
      /\ phase \in [Requests -> Open \cup {"unsent", "over"}]
  BY <1>1, PipelineAssumption DEF RunInv, PushedOnce, Early, Inv, StorageInv, StorageTypeOK
<1>3. \A j \in Jobs : saved'[j] = IF j = r THEN 0 ELSE saved[j]
  BY <1>1, Facts
<1>4. OneClaim'
  BY <1>1 DEF RunInv, OneClaim, Single
<1>5. OnlyPushed'
  BY <1>1, <1>2, <1>3, Facts DEF RunInv, OnlyPushed
<1>6. PushedOnce'
  BY <1>1, <1>2, <1>3, PipelineAssumption DEF RunInv, PushedOnce, Early
<1>7. ASSUME NEW j \in pushed PROVE Cost(j)' <= Cost(j) + 0
  <2>1. Cost(j) \in Nat
    BY CostParts
  <2>2. saved'[j] = saved[j]
    BY <1>2, <1>3, Facts
  <2>3. Cost(j)' = Cost(j)
    BY <1>1, <2>2 DEF Cost, Running, Count, Left, Held, InHand, MayRetry, Copies, Credit
  <2> QED
    BY <2>1, <2>3
<1> QED
  BY <1>4, <1>5, <1>6, <1>7 DEF Paid

(* What happened so far pays for the first runs of a job. *)
LEMMA AllowanceIsEnough ==
    ASSUME Inv, QueueAssumption
    PROVE  Allowance \in Nat /\ RetryLimit + 1 <= Allowance
<1>1. RetryLimit \in Nat /\ budget \in 0..MaxFaults /\ MaxFaults \in Nat
  BY PipelineAssumption, QueueAssumption DEF Inv, WorkInv
<1>2. PICK n \in Nat : MaxFaults - budget = n
  BY <1>1
<1>3. Allowance = (RetryLimit + 1) * (1 + n)
  BY <1>1, <1>2 DEF Allowance
<1>4. (RetryLimit + 1) * (1 + n) = RetryLimit + 1 + (RetryLimit + 1) * n
  BY <1>1, <1>2
<1>5. (RetryLimit + 1) * n \in Nat
  BY <1>1, <1>2
<1> QED
  BY <1>1, <1>3, <1>4, <1>5

(* Every fault allows a job all its runs once more. *)
LEMMA FaultAllows ==
    ASSUME Inv, QueueAssumption
    PROVE  /\ UNCHANGED budget => Allowance' = Allowance
           /\ budget' = budget - 1 => Allowance' = Allowance + (RetryLimit + 1)
<1>1. RetryLimit \in Nat /\ budget \in 0..MaxFaults /\ MaxFaults \in Nat
  BY PipelineAssumption, QueueAssumption DEF Inv, WorkInv
<1>2. PICK n \in Nat : MaxFaults - budget = n
  BY <1>1
<1>3. Allowance = (RetryLimit + 1) * (1 + n)
  BY <1>1, <1>2 DEF Allowance
<1>4. ASSUME budget' = budget - 1 PROVE Allowance' = (RetryLimit + 1) * (2 + n)
  <2>1. 1 + MaxFaults - budget' = 2 + n
    BY <1>1, <1>2, <1>4
  <2> QED
    BY <2>1 DEF Allowance
<1>5. (RetryLimit + 1) * (2 + n) = (RetryLimit + 1) * (1 + n) + (RetryLimit + 1)
  BY <1>1, <1>2
<1> QED
  BY <1>3, <1>4, <1>5 DEF Allowance

(* The id of a job comes to pending for the first time. *)
LEMMA EnqueuePushRuns ==
    ASSUME OneWorker, Inv, RunInv, NEW r \in Requests, pc[Server] = "ready",
           Enqueue(r, "push", "remember"), EnqueuePush(r), UNCHANGED budget
    PROVE  RunInv'
<1>1. /\ pending' = Append(pending, r) /\ pushed' = pushed \cup {r}
      /\ phase[r] = "push" /\ phase' = [phase EXCEPT ![r] = "remember"]
      /\ UNCHANGED <<processing, saved, pc, job, attempts, ids, runs>>
  BY DEF Enqueue, EnqueuePush, Advance, memory
<1>2. /\ r \notin pushed /\ r \in Jobs /\ saved[r] \in Nat /\ runs[r] = 0
      /\ phase \in [Requests -> Open \cup {"unsent", "over"}]
      /\ pending \in Seq(pushed)
  BY <1>1, PipelineAssumption DEF RunInv, PushedOnce, Early, OnlyPushed, Inv, StorageInv,
     StorageTypeOK
<1>3. OneClaim'
  <2>1. \A list : Single(list) => Single(list)'
    BY <1>1 DEF Single
  <2>2. Single(processing)' /\ \A p \in Processes : Single(ids[p])'
    BY <1>1 DEF RunInv, OneClaim, Single
  <2> QED
    BY <1>1, <2>2 DEF RunInv, OneClaim
<1>4. OnlyPushed'
  <2>1. pending' \in Seq(pushed')
    <3>1. pushed \subseteq pushed'
      BY <1>1
    <3>2. pending \in Seq(pushed')
      BY <1>2, <3>1, SeqMonotonic
    <3> QED
      BY <1>1, <3>2, AppendProperties
  <2> QED
    BY <1>1, <1>2, <2>1, Facts DEF RunInv, OnlyPushed
<1>5. PushedOnce'
  BY <1>1, <1>2 DEF RunInv, PushedOnce, Early
<1>6. /\ RetryLimit \in Nat /\ Allowance \in Nat /\ RetryLimit + 1 <= Allowance
      /\ Allowance' = Allowance
  BY Facts, QueueAssumption, AllowanceIsEnough, FaultAllows
<1>7. ASSUME NEW j \in pushed PROVE Cost(j)' <= Allowance
  <2>1. Cost(j) \in Nat /\ Cost(j) <= Allowance
    BY CostParts DEF RunInv, Affordable
  <2>2. Copies(j)' = Copies(j) /\ Copies(j) \in Nat
    <3>1. pending \in Seq(pushed \cup {r}) /\ r # j
      BY <1>2, SeqMonotonic
    <3>2. Copies(j) \in Nat
      BY CostParts
    <3> QED
      BY <1>1, <3>1, <3>2, AppendCounts DEF Copies
  <2>3. Running(j)' = Running(j) /\ Credit(j)' = Credit(j)
    BY <1>1 DEF Running, Count, Left, Held, InHand, MayRetry, Credit
  <2> QED
    BY <2>1, <2>2, <2>3 DEF Cost
<1>8. Cost(r)' <= Allowance
  <2>1. Copies(r)' = 1
    <3>1. Positions(pending, r) = {}
      BY <1>2, ElementOfSeq DEF Positions
    <3>2. Cardinality(Positions(pending, r)) = 0
      BY <3>1, FS_EmptySet
    <3>3. pending \in Seq(pushed \cup {r})
      BY <1>2, SeqMonotonic
    <3> QED
      BY <1>1, <3>2, <3>3, AppendCounts DEF Copies
  <2>2. Credit(r)' = 0
    BY <1>1 DEF Credit
  <2>3. Held(r)' = 0
    <3>1. job[Worker] # r
      BY <1>2, Facts, QueueAssumption
    <3>2. ids[Worker] # <<r>> /\ processing # <<r>>
      <4>1. <<r>> # <<>> /\ \A x : <<x>> = <<r>> => x = r
        OBVIOUS
      <4> QED
        BY <1>2, <4>1, Facts DEF RunInv, OneClaim, Single
    <3> QED
      BY <1>1, <3>1, <3>2 DEF Held, InHand
  <2>4. Left(Count(r))' \in 0..RetryLimit
    <3>1. Count(r)' \in Nat
      BY <1>1, <1>2, Facts DEF Count
    <3> QED
      BY <1>6, <3>1 DEF Left
  <2> QED
    BY <1>1, <1>2, <1>6, <2>1, <2>2, <2>3, <2>4 DEF Cost, Running
<1>9. Affordable'
  BY <1>1, <1>6, <1>7, <1>8 DEF Affordable
<1> QED
  BY <1>3, <1>4, <1>5, <1>9 DEF RunInv

----------------------------------------------------------------------------
(* Every step. *)

(* A step that costs no more than it allows keeps the invariant.           *)
LEMMA PaidFor ==
    ASSUME OneWorker, Inv, Inv', RunInv, OneClaim', OnlyPushed', PushedOnce',
           UNCHANGED pushed,
           \/ Paid(0) /\ (budget' = budget \/ budget' = budget - 1)
           \/ Paid(RetryLimit + 1) /\ budget' = budget - 1
    PROVE  RunInv'
<1>1. /\ RetryLimit \in Nat /\ Allowance \in Nat
      /\ budget' = budget => Allowance' = Allowance
      /\ budget' = budget - 1 => Allowance' = Allowance + (RetryLimit + 1)
  BY Facts, QueueAssumption, AllowanceIsEnough, FaultAllows
<1>2. ASSUME NEW j \in pushed PROVE Cost(j)' <= Allowance'
  <2>1. Cost(j) \in Nat /\ Cost(j) <= Allowance
    BY CostParts DEF RunInv, Affordable
  <2>2. Cost(j)' \in Int
    <3>1. Copies(j)' \in Nat
      BY PositionsFinite DEF Copies, OnlyPushed
    <3>2. runs'[j] \in Nat /\ j \in Jobs /\ Worker \in Processes
      BY Facts DEF Inv, QueueInv, QueueShape
    <3>3. Count(j)' \in Nat
      BY <3>2, Facts DEF Count, OnlyPushed
    <3>4. Left(Count(j))' \in Nat
      BY <1>1, <3>3 DEF Left
    <3>5. Held(j)' \in Nat /\ Credit(j)' \in Nat
      BY <1>1 DEF Held, Credit
    <3> QED
      BY <3>1, <3>2, <3>4, <3>5 DEF Cost, Running
  <2> QED
    BY <1>1, <2>1, <2>2 DEF Paid
<1> QED
  BY <1>2 DEF RunInv, Affordable

(* The worker. *)
LEMMA WorkRuns == ASSUME OneWorker, Inv, Inv', RunInv, Work(Worker) PROVE RunInv'
<1>1. Worker \in Processes /\ Worker # Server
  BY Facts
<1>2. /\ UNCHANGED phase /\ UNCHANGED pushed
      /\ \A j \in Jobs \ pushed : saved'[j] = saved[j]
  BY <1>1, SavesOfPushed
  DEF Work, QueueStep, QueueMove, Process, HandleFailure, Complete, storageVars
<1>3. PushedOnce'
  BY <1>2, PushedOnceKept
<1>4. CASE QueueStep(Worker)
  <2>1. budget' = budget
    BY <1>4 DEF QueueStep
  <2>2. OneClaim' /\ OnlyPushed' /\ Paid(0)
    BY <1>4, RecoverListRuns, RecoverLoadRuns, RecoverSaveRuns, RecoverRemoveRuns,
       RecoverPushRuns, RecoverDoneRuns, ClaimPopRuns, ClaimPushRuns, ClaimLoadRuns,
       ClaimSaveRuns, CompleteSaveRuns, CompleteRemoveRuns, CompletePushRuns,
       FailSaveRuns, FailRemoveRuns, FailPushRuns DEF QueueStep, Recover, Claim, Finish
  <2> QED
    BY <1>2, <1>3, <2>1, <2>2, PaidFor
<1>5. CASE Process(Worker)
  <2>1. budget' = budget \/ budget' = budget - 1
    BY <1>5 DEF Process, Fault
  <2>2. OneClaim' /\ OnlyPushed' /\ Paid(0)
    BY <1>5, ProcessRuns DEF Process
  <2> QED
    BY <1>2, <1>3, <2>1, <2>2, PaidFor
<1>6. CASE HandleFailure(Worker)
  <2>1. ~FailureRaises(Worker)
    BY <1>1, Facts DEF FailureRaises, NoPayload
  <2>2. /\ budget' = budget
        /\ \/ FailureHandled(Worker, "copy") \/ FailureHandled(Worker, "fail_save")
           \/ FileCopied(Worker)
    BY <1>6, <2>1 DEF HandleFailure, BeginCopy, EndCopy
  <2> QED
    BY <1>2, <1>3, <2>2, FailureRuns, PaidFor
<1>7. CASE StateWritten(Worker) /\ UNCHANGED budget
  BY <1>2, <1>3, <1>7, StateWrittenRuns, PaidFor
<1>8. CASE CompletionRaises(Worker) /\ Fault("late_error")
  BY <1>2, <1>3, <1>8, CompletionRaisesRuns, PaidFor DEF Fault
<1> QED
  BY <1>4, <1>5, <1>6, <1>7, <1>8 DEF Work, Complete

(* The server's recovery. *)
LEMMA ServerStartsRuns == ASSUME OneWorker, Inv, Inv', RunInv, ServerStarts PROVE RunInv'
<1>1. Server \in Processes /\ (Recover(Server) \/ RecoverDone(Server))
  BY Facts DEF ServerStarts, ServerReady
<1>2. UNCHANGED pushed /\ \A j \in Jobs \ pushed : saved'[j] = saved[j]
  BY <1>1, SavesOfPushed DEF QueueMove
<1>3. UNCHANGED phase /\ (budget' = budget \/ budget' = budget - 1)
  BY DEF ServerStarts, ServerReady, storageVars, Expire, Clean, Fault
<1>4. PushedOnce'
  BY <1>2, <1>3, PushedOnceKept
<1>5. OneClaim' /\ OnlyPushed' /\ Paid(0)
  BY <1>1, ServerListRuns, ServerLoadRuns, ServerSaveRuns, ServerRemoveRuns,
     ServerPushRuns, ServerDoneRuns DEF Recover
<1> QED
  BY <1>2, <1>3, <1>4, <1>5, PaidFor

(* A process dies. *)
LEMMA CrashRuns ==
    ASSUME OneWorker, Inv, Inv', RunInv, NEW p \in Processes, Crash(p)
    PROVE  RunInv'
<1>1. /\ Die(p) /\ budget' = budget - 1 /\ UNCHANGED <<pushed, saved>>
      /\ p \in {Worker, Server}
  BY Facts DEF Crash, Fault, Die
<1>2. \A r \in Requests : /\ phase'[r] \in Early => phase[r] \in Early
                          /\ phase'[r] = "push" => phase[r] = "push"
  BY DEF Crash, StorageCrash, storageVars, Open, OnLoop, Early
<1>3. PushedOnce'
  BY <1>1, <1>2, PushedOnceKept
<1>4. OneClaim' /\ OnlyPushed' /\ Paid(RetryLimit + 1)
  BY <1>1, WorkerCrashRuns, ServerCrashRuns
<1> QED
  BY <1>1, <1>3, <1>4, PaidFor

(* save_upload. *)
LEMMA HandleRuns ==
    ASSUME OneWorker, Inv, Inv', RunInv, NEW r \in Requests, Handle(r)
    PROVE  RunInv'
<1>1. pc[Server] = "ready" /\ budget' = budget
  BY DEF Handle, Up
<1>2. CASE StorageStep(r) /\ UNCHANGED queueVars
  <2>1. UNCHANGED <<pushed, saved>>
    BY <1>2 DEF queueVars, history
  <2>2. PushedOnce'
    BY <1>2, <2>1, StoragePhases, PushedOnceKept
  <2> QED
    BY <1>1, <1>2, <2>1, <2>2, QueueStays, PaidFor
<1>3. CASE Enqueue(r, "save", "push") /\ EnqueueSave(r)
  <2>1. UNCHANGED pushed
    BY <1>3 DEF EnqueueSave, history
  <2> QED
    BY <1>1, <1>3, <2>1, EnqueueSaveRuns, PaidFor
<1>4. CASE Enqueue(r, "push", "remember") /\ EnqueuePush(r)
  BY <1>1, <1>4, EnqueuePushRuns
<1> QED
  BY <1>2, <1>3, <1>4 DEF Handle

(* Clients, failed requests and retention leave the queue alone. *)
LEMMA OthersRun ==
    ASSUME OneWorker, Inv, Inv', RunInv,
           \/ \E b \in Batches : Client(b)
           \/ \E r \in Requests : HandleGarbled(r) \/ HandleRaises(r)
           \/ Maintenance
           \/ UNCHANGED vars
    PROVE  RunInv'
<1>1. UNCHANGED queueVars /\ (budget' = budget \/ budget' = budget - 1)
  BY DEF Client, HandleGarbled, HandleRaises, Maintenance, vars, Fault
<1>2. UNCHANGED <<pushed, saved>>
  BY <1>1 DEF queueVars, history
<1>3. \A r \in Requests : /\ phase'[r] \in Early => phase[r] \in Early
                          /\ phase'[r] = "push" => phase[r] = "push"
  <2>1. CASE \E b \in Batches : Client(b)
    <3>1. PICK b \in Batches : Client(b)
      BY <2>1
    <3>2. CASE Send(b)
      <4>1. phase[<<b, tried[b] + 1>>] = "unsent"
        <5>1. <<b, tried[b] + 1>> \in Requests /\ BatchOf(<<b, tried[b] + 1>>) = b
          <6>1. tried[b] + 1 \in 1..MaxAttempts[b]
            <7>1. tried[b] \in Nat /\ MaxAttempts[b] \in Nat
              BY StorageAssumption DEF Inv, StorageInv, StorageTypeOK
            <7>2. tried[b] < MaxAttempts[b]
              BY <3>2 DEF Send
            <7> QED
              BY <7>1, <7>2
          <6> QED
            BY <6>1, NumberedRequest
        <5>2. tried[b] + 1 > tried[b]
          BY DEF Inv, StorageInv, StorageTypeOK
        <5> QED
          BY <5>1, <5>2 DEF Inv, StorageInv, UnsentFollow
      <4> QED
        BY <3>2, <4>1 DEF Send, Early, Inv, StorageInv, StorageTypeOK
    <3> QED
      BY <3>1, <3>2 DEF Client, TimeOut
  <2>2. CASE \E r \in Requests : HandleGarbled(r) \/ HandleRaises(r)
    BY <2>2, StoragePhases DEF HandleGarbled, HandleRaises
  <2>3. CASE Maintenance \/ UNCHANGED vars
    BY <2>3 DEF Maintenance, Expire, Clean, vars, storageVars
  <2> QED
    BY <2>1, <2>2, <2>3
<1>4. PushedOnce'
  BY <1>2, <1>3, PushedOnceKept
<1> QED
  BY <1>1, <1>2, <1>4, QueueStays, PaidFor

(* Nothing is enqueued and no process holds anything. *)
LEMMA RunsInitially == ASSUME OneWorker, Init PROVE RunInv
<1>1. OneClaim
  BY QueueAssumption DEF Init, QueueInit, OneClaim, Single, WithJob, OneWorker,
     Processes
<1>2. OnlyPushed
  BY DEF Init, QueueInit, OnlyPushed
<1>3. PushedOnce
  BY DEF Init, QueueInit, StorageInit, PushedOnce, Early
<1>4. Affordable
  BY DEF Init, QueueInit, Affordable
<1> QED
  BY <1>1, <1>2, <1>3, <1>4 DEF RunInv

(* Every step keeps the invariant. *)
LEMMA RunsInductive == ASSUME OneWorker, Inv, Inv', RunInv, [Next]_vars PROVE RunInv'
<1>1. Workers = {Worker}
  BY DEF OneWorker
<1> QED
  BY <1>1, WorkRuns, ServerStartsRuns, CrashRuns, HandleRuns, OthersRun DEF Next

(* With one worker a job runs RetryLimit + 1 times, and as often again for *)
(* every fault: a crash, a late error, or any other.                       *)
THEOREM RunsStayBounded == ASSUME OneWorker PROVE Spec => []RunsAreBounded
<1>1. Init => RunInv
  BY RunsInitially
<1>2. Inv /\ Inv' /\ RunInv /\ [Next]_vars => RunInv'
  BY RunsInductive
<1>3. Inv /\ RunInv => RunsAreBounded
  <2> SUFFICES ASSUME Inv, RunInv, NEW j \in Jobs PROVE runs[j] <= Allowance
    BY DEF RunsAreBounded, Allowance
  <2>1. Allowance \in Nat /\ RetryLimit \in Nat
    BY AllowanceIsEnough, QueueAssumption
  <2>2. CASE j \notin pushed
    BY <2>1, <2>2 DEF RunInv, OnlyPushed
  <2>3. CASE j \in pushed
    <3>1. /\ runs[j] \in Nat /\ Left(Count(j)) \in 0..RetryLimit
          /\ Copies(j) \in Nat /\ Held(j) \in 0..1 /\ Credit(j) \in 0..(RetryLimit + 1)
      BY <2>3, CostParts
    <3>2. runs[j] + Left(Count(j)) + Held(j) + Copies(j) + Credit(j) <= Allowance
      BY <2>3 DEF RunInv, Affordable, Cost, Running
    <3> QED
      BY <2>1, <3>1, <3>2
  <2> QED
    BY <2>2, <2>3
<1> QED
  BY <1>1, <1>2, <1>3, Invariant, PTL DEF Spec
=============================================================================
