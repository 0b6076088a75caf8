--------------------------- MODULE PipelineProofs ---------------------------
(***************************************************************************)
(* Theorems about upload, queue and workers, for any batches, attempts,    *)
(* workers, retry limit and any number of faults of any kind.              *)
(***************************************************************************)
EXTENDS Pipeline, FiniteSetTheorems, SequenceTheorems, WellFoundedInduction, TLAPS

----------------------------------------------------------------------------
(* Numbers and sequences. *)

(* A set of naturals has a least member, and Min chooses it. *)
LEMMA LeastMember ==
    ASSUME NEW I \in SUBSET Nat, I # {}
    PROVE  Min(I) \in I
<1> DEFINE less == OpToRel(<, Nat)
<1>1. PICK x \in I : \A y \in I : <<y, x>> \notin less
  BY NatLessThanWellFounded, WFMin
<1>2. \A k, m \in Nat : <<m, k>> \notin less => k <= m
  BY DEF OpToRel
<1>3. \A y \in I : x <= y
  BY <1>1, <1>2, x \in Nat
<1> QED
  BY <1>3 DEF Min

(* RemoveFirst drops no other element (the Redis command LREM key 1 id). *)
LEMMA RemoveFirstKeepsOthers ==
    ASSUME NEW S, NEW s \in Seq(S), NEW e
    PROVE  /\ RemoveFirst(s, e) \in Seq(S)
           /\ ToSet(s) \ {e} \subseteq ToSet(RemoveFirst(s, e))
<1>1. CASE ~ \E i \in 1..Len(s) : s[i] = e
  BY <1>1 DEF RemoveFirst
<1>2. CASE \E i \in 1..Len(s) : s[i] = e
  <2> DEFINE I == {i \in 1..Len(s) : s[i] = e}
             k == Min(I)
             before == SubSeq(s, 1, k - 1)
             after  == SubSeq(s, k + 1, Len(s))
  <2>1. I # {} /\ I \in SUBSET Nat
    BY <1>2, LenProperties
  <2>2. k \in 1..Len(s) /\ s[k] = e
    <3>1. k \in I
      BY <2>1, LeastMember
    <3> QED
      BY <3>1
  <2>3. RemoveFirst(s, e) = before \o after
    <3>1. SelectInSeq(s, LAMBDA v : v = e) = k
      BY <2>1 DEF SelectInSeq
    <3> QED
      BY <1>2, <3>1 DEF RemoveFirst, RemoveAt
  <2> HIDE DEF k
  <2>4. \A i \in 1..Len(s) : s[i] \in S
    BY ElementOfSeq
  <2>5. k \in Int /\ Len(s) \in Nat
    BY <2>2, LenProperties
  <2>6. /\ before \in Seq(S) /\ Len(before) = k - 1
        /\ \A i \in 1..(k - 1) : before[i] = s[i]
    BY <2>2, <2>4, <2>5, SubSeqProperties, 1 \in Int, k - 1 \in Int
  <2>7. /\ after \in Seq(S) /\ Len(after) = Len(s) - k
        /\ \A i \in 1..(Len(s) - k) : after[i] = s[k + i]
    BY <2>2, <2>4, <2>5, SubSeqProperties, k + 1 \in Int
  <2>8. before \o after \in Seq(S)
    BY <2>6, <2>7, ConcatProperties
  <2>9. Range(before \o after) = Range(before) \cup Range(after)
    BY <2>6, <2>7, RangeConcatenation
  <2>10. ASSUME NEW i \in 1..Len(s), s[i] # e
         PROVE  s[i] \in Range(before \o after)
    <3>1. CASE i < k
      <4>1. i \in 1..Len(before) /\ before[i] = s[i]
        BY <2>2, <2>5, <2>6, <3>1
      <4> QED
        BY <2>6, <2>9, <4>1, RangeEquality
    <3>2. CASE i > k
      <4>1. i - k \in 1..Len(after) /\ after[i - k] = s[i]
        BY <2>2, <2>5, <2>7, <3>2
      <4> QED
        BY <2>7, <2>9, <4>1, RangeEquality
    <3> QED
      BY <2>2, <2>5, <2>10, <3>1, <3>2
  <2> QED
    BY <2>3, <2>8, <2>10, LenProperties DEF ToSet, Range
<1> QED
  BY <1>1, <1>2

(* What a list holds after RPUSH, and what LPOP takes from it. *)
LEMMA AppendAdds ==
    ASSUME NEW S, NEW s \in Seq(S), NEW e \in S
    PROVE  Append(s, e) \in Seq(S) /\ ToSet(Append(s, e)) = ToSet(s) \cup {e}
<1>1. /\ Append(s, e) \in Seq(S) /\ Len(Append(s, e)) = Len(s) + 1
      /\ \A i \in 1..Len(s) : Append(s, e)[i] = s[i]
      /\ Append(s, e)[Len(s) + 1] = e
  BY AppendProperties
<1>2. /\ DOMAIN s = 1..Len(s) /\ Len(s) \in Nat
      /\ DOMAIN Append(s, e) = 1..(Len(s) + 1)
  BY <1>1, LenProperties
<1>3. 1..(Len(s) + 1) = (1..Len(s)) \cup {Len(s) + 1}
  BY <1>2
<1> QED
  BY <1>1, <1>2, <1>3 DEF ToSet

(* What LPOP takes and leaves. *)
LEMMA HeadLeaves ==
    ASSUME NEW S, NEW s \in Seq(S), s # <<>>
    PROVE  /\ Head(s) \in S /\ Tail(s) \in Seq(S)
           /\ ToSet(s) = {Head(s)} \cup ToSet(Tail(s))
<1>1. /\ Head(s) \in S /\ Tail(s) \in Seq(S) /\ Len(Tail(s)) = Len(s) - 1
      /\ \A i \in 1..Len(Tail(s)) : Tail(s)[i] = s[i + 1]
  BY HeadTailProperties
<1>2. Len(s) \in Nat \ {0} /\ DOMAIN s = 1..Len(s)
  BY EmptySeq, LenProperties
<1>3. DOMAIN Tail(s) = 1..(Len(s) - 1)
  BY <1>1, LenProperties
<1>4. s[1] = Head(s)
  BY <1>2
<1>5. ASSUME NEW i \in 1..Len(s)
      PROVE  s[i] = Head(s) \/ s[i] \in ToSet(Tail(s))
  <2>1. CASE i = 1
    BY <1>4, <2>1
  <2>2. CASE i # 1
    <3>1. i - 1 \in 1..(Len(s) - 1) /\ (i - 1) + 1 = i
      BY <1>2, <2>2
    <3>2. Tail(s)[i - 1] = s[i]
      BY <1>1, <3>1
    <3> QED
      BY <1>3, <3>1, <3>2 DEF ToSet
  <2> QED
    BY <2>1, <2>2
<1>6. ASSUME NEW i \in 1..(Len(s) - 1)
      PROVE  Tail(s)[i] \in ToSet(s)
  <2>1. i + 1 \in 1..Len(s) /\ Tail(s)[i] = s[i + 1]
    BY <1>1, <1>2
  <2> QED
    BY <1>2, <2>1 DEF ToSet
<1>7. Head(s) \in ToSet(s)
  BY <1>2, <1>4 DEF ToSet
<1>8. ToSet(s) = {s[i] : i \in 1..Len(s)}
  BY <1>2 DEF ToSet
<1>9. ToSet(Tail(s)) = {Tail(s)[i] : i \in 1..(Len(s) - 1)}
  BY <1>3 DEF ToSet
<1> QED
  BY <1>1, <1>5, <1>6, <1>7, <1>8, <1>9

(* A file name is free: n requests cannot have used n + 1 of them. *)
LEMMA NumbersLeft ==
    ASSUME NEW n \in Nat, NEW used \in [1..n -> Nat]
    PROVE  \E k \in 0..n : \A i \in 1..n : used[i] # k
<1> SUFFICES ASSUME \A k \in 0..n : \E i \in 1..n : used[i] = k
             PROVE  FALSE
  OBVIOUS
<1> DEFINE f == [i \in 1..n |-> IF used[i] <= n THEN used[i] ELSE 0]
<1>1. f \in Surjection(1..n, 0..n)
  <2>1. f \in [1..n -> 0..n]
    OBVIOUS
  <2>2. ASSUME NEW k \in 0..n PROVE \E i \in 1..n : f[i] = k
    <3>1. PICK i \in 1..n : used[i] = k
      OBVIOUS
    <3>2. f[i] = k
      BY <3>1
    <3> QED
      BY <3>2
  <2> QED
    BY <2>1, <2>2 DEF Surjection
<1>2. /\ IsFiniteSet(1..n) /\ Cardinality(1..n) = n
      /\ Cardinality(0..n) = n + 1
  BY FS_Interval
<1> HIDE DEF f
<1>3. Cardinality(0..n) <= Cardinality(1..n)
  BY <1>1, <1>2, FS_Surjection
<1> QED
  BY <1>2, <1>3
----------------------------------------------------------------------------
(* Requests and keys. *)

(* The requests of a batch are numbered from one. *)
LEMMA RequestIs ==
    ASSUME PipelineAssumption, StorageAssumption, NEW r \in Requests
    PROVE  /\ BatchOf(r) \in Batches
           /\ r[2] \in 1..MaxAttempts[BatchOf(r)]
           /\ r = <<BatchOf(r), r[2]>>
           /\ r # None
  BY DEF Requests, BatchOf, None

(* A number within the bound is a request of its batch. *)
LEMMA NumberedRequest ==
    ASSUME NEW b \in Batches, NEW n \in 1..MaxAttempts[b]
    PROVE  <<b, n>> \in Requests /\ BatchOf(<<b, n>>) = b
  BY DEF Requests, BatchOf

Written == {"write", "append", "save", "push", "remember"}
Logged  == {"save", "push", "remember", "stored", "refused", "over"}

(* A request that has a job or is on its way to one. *)
Active(r) == r \in pushed \/ phase[r] \in Written \cup {"reading"}

(* A key is remembered only after its job is in the queue. *)
KeysFollowJobs ==
    /\ \A r \in Requests : phase[r] \in {"remember", "stored"} => r \in pushed
    /\ \A b \in Batches : index[b] # None => index[b] \in pushed /\ BatchOf(index[b]) = b
    /\ \A r \in Requests : phase[r] = "duplicate" =>
          \E s \in pushed : BatchOf(s) = BatchOf(r)

(* A job without a key has a request that is about to write it, or lost it. *)
JobsGetKeys ==
    \A r \in pushed : index[BatchOf(r)] # None \/ phase[r] = "remember" \/ r \in keyless

ActiveOverlap ==
    \A r, s \in Requests :
        Active(r) /\ Active(s) /\ BatchOf(r) = BatchOf(s) =>
            \/ r = s \/ r \in beside[s] \/ s \in beside[r]
            \/ {r, s} \cap keyless # {}

(* A raw file was written by the request that found its name free. *)
FilesHaveWriters ==
    \A f \in raw : \E r \in Requests : PathOf(r) = f /\ phase[r] \notin {"unsent", "sent"}

LogFollows == /\ pushed \subseteq log
              /\ \A r \in log : phase[r] \in Logged
              /\ \A r \in Requests :
                    phase[r] \in {"save", "push", "remember", "stored"} => r \in log

(* Requests are sent in the order of their numbers. *)
UnsentFollow ==
    \A r \in Requests : phase[r] = "unsent" <=> r[2] > tried[BatchOf(r)]

SlotsAreNumbers == \A r \in Requests : slot[r] \in 0..MaxAttempts[BatchOf(r)]

StorageInv == /\ StorageTypeOK /\ SlotsAreNumbers /\ UnsentFollow
              /\ KeysFollowJobs /\ AckedHasJob
              /\ JobsGetKeys /\ ActiveOverlap
              /\ FilesHaveWriters
              /\ LogFollows

USE PipelineAssumption, StorageAssumption

(* Nothing was sent, stored or enqueued. *)
LEMMA StorageInitially == Init => StorageInv
<1> SUFFICES ASSUME Init PROVE StorageInv
  OBVIOUS
<1>1. StorageTypeOK /\ SlotsAreNumbers
  BY RequestIs DEF Init, StorageInit, StorageTypeOK, SlotsAreNumbers
<1> QED
  BY <1>1, RequestIs DEF Init, StorageInit, QueueInit, StorageInv, UnsentFollow, KeysFollowJobs,
     AckedHasJob,
     JobsGetKeys, ActiveOverlap, Active, Written, FilesHaveWriters, LogFollows

(* The client's steps touch neither keys, jobs nor files. *)
LEMMA SendKeepsStorage ==
    ASSUME StorageInv, NEW b \in Batches, Send(b), UNCHANGED pushed
    PROVE  StorageInv'
<1> DEFINE r == <<b, tried[b] + 1>>
<1>1. r \in Requests /\ BatchOf(r) = b /\ phase[r] = "unsent"
  BY NumberedRequest DEF StorageInv, StorageTypeOK, UnsentFollow, Send
<1> HIDE DEF r
<1>2. /\ phase' = [phase EXCEPT ![r] = "sent"]
      /\ UNCHANGED <<acked, slot, raw, log, index, short, beside, keyless, pushed>>
  BY DEF Send, r
<1>8. StorageTypeOK' /\ SlotsAreNumbers'
  BY <1>1, <1>2 DEF StorageInv, StorageTypeOK, SlotsAreNumbers, Open, OnLoop, Send
<1>9. UnsentFollow'
  <2> SUFFICES ASSUME NEW q \in Requests
               PROVE  phase'[q] = "unsent" <=> q[2] > tried'[BatchOf(q)]
    BY DEF UnsentFollow
  <2>1. /\ phase[q] = "unsent" <=> q[2] > tried[BatchOf(q)]
        /\ q[2] \in Nat /\ tried[BatchOf(q)] \in Nat /\ tried[b] \in Nat
    BY RequestIs DEF StorageInv, StorageTypeOK, UnsentFollow
  <2>2. CASE q = r
    BY <1>1, <1>2, <2>1, <2>2 DEF StorageInv, StorageTypeOK, Send, r
  <2>3. CASE q # r /\ BatchOf(q) = b
    <3>1. q[2] # tried[b] + 1
      BY <2>3, RequestIs DEF r
    <3>2. tried'[b] = tried[b] + 1 /\ phase'[q] = phase[q]
      BY <1>1, <1>2, <2>3 DEF StorageInv, StorageTypeOK, Send
    <3> QED
      BY <2>1, <2>3, <3>1, <3>2
  <2>4. CASE BatchOf(q) # b
    BY <1>1, <1>2, <2>1, <2>4 DEF StorageInv, StorageTypeOK, Send
  <2> QED
    BY <2>2, <2>3, <2>4
<1>3. KeysFollowJobs' /\ AckedHasJob'
  BY <1>1, <1>2, RequestIs DEF StorageInv, StorageTypeOK, KeysFollowJobs, AckedHasJob
<1>4. JobsGetKeys'
  BY <1>1, <1>2, RequestIs DEF StorageInv, StorageTypeOK, KeysFollowJobs, JobsGetKeys
<1>5. ActiveOverlap'
  BY <1>1, <1>2, RequestIs DEF StorageInv, StorageTypeOK, KeysFollowJobs, ActiveOverlap, Active,
     Written
<1>6. FilesHaveWriters'
  BY <1>1, <1>2, RequestIs DEF StorageInv, StorageTypeOK, FilesHaveWriters, PathOf
<1>7. LogFollows'
  BY <1>1, <1>2, RequestIs DEF StorageInv, StorageTypeOK, LogFollows, Logged
<1> QED
  BY <1>8, <1>9, <1>3, <1>4, <1>5, <1>6, <1>7 DEF StorageInv

(* A request moves on without touching a file, a key or its job. *)
LEMMA MoveKeepsStorage ==
    ASSUME StorageInv, NEW r \in Requests,
           \/ phase[r] = "reading" /\ phase' = [phase EXCEPT ![r] = "refused"]
           \/ phase[r] = "save" /\ phase' = [phase EXCEPT ![r] = "push"],
           UNCHANGED <<tried, awaiting, acked, slot, raw, log, index, short, beside, keyless,
                     pushed>>
    PROVE  StorageInv'
<1>1. /\ \/ phase[r] = "reading" /\ phase' = [phase EXCEPT ![r] = "refused"]
         \/ phase[r] = "save" /\ phase' = [phase EXCEPT ![r] = "push"]
      /\ UNCHANGED <<tried, awaiting, acked, slot, raw, log, index, short, beside, keyless,
                     pushed>>
  OBVIOUS
<1>2. StorageTypeOK' /\ SlotsAreNumbers' /\ UnsentFollow'
  BY <1>1, RequestIs DEF StorageInv, StorageTypeOK, SlotsAreNumbers, UnsentFollow, Open, OnLoop
<1>3. KeysFollowJobs' /\ AckedHasJob'
  BY <1>1, RequestIs DEF StorageInv, StorageTypeOK, KeysFollowJobs, AckedHasJob
<1>4. JobsGetKeys'
  BY <1>1, RequestIs DEF StorageInv, StorageTypeOK, KeysFollowJobs, JobsGetKeys,
     LogFollows
<1>5. ActiveOverlap'
  BY <1>1, RequestIs DEF StorageInv, StorageTypeOK, KeysFollowJobs, ActiveOverlap, Active,
     Written
<1>6. FilesHaveWriters'
  BY <1>1, RequestIs DEF StorageInv, StorageTypeOK, FilesHaveWriters, PathOf
<1>7. LogFollows'
  BY <1>1, RequestIs DEF StorageInv, StorageTypeOK, LogFollows, Logged
<1> QED
  BY <1>2, <1>3, <1>4, <1>5, <1>6, <1>7 DEF StorageInv

(* The raw file is opened. *)
LEMMA OpenKeepsStorage ==
    ASSUME StorageInv, NEW r \in Requests, OpenRaw(r), UNCHANGED pushed
    PROVE  StorageInv'
<1>1. /\ phase[r] = "reading"
      /\ phase' = [phase EXCEPT ![r] = "write"]
      /\ raw' = raw \cup {<<BatchOf(r), slot[r]>>}
      /\ short' = short \cup {<<BatchOf(r), slot[r]>>}
      /\ <<BatchOf(r), slot[r]>> \in RawFiles
      /\ UNCHANGED <<tried, awaiting, acked, slot, log, index, beside, keyless, pushed>>
  BY RequestIs DEF OpenRaw, Advance, PathOf, StorageInv, SlotsAreNumbers, RawFiles, client
<1>2. StorageTypeOK' /\ SlotsAreNumbers' /\ UnsentFollow'
  BY <1>1, RequestIs DEF StorageInv, StorageTypeOK, SlotsAreNumbers, UnsentFollow, Open, OnLoop
<1>3. KeysFollowJobs' /\ AckedHasJob'
  BY <1>1, RequestIs DEF StorageInv, StorageTypeOK, KeysFollowJobs, AckedHasJob
<1>4. JobsGetKeys'
  BY <1>1, RequestIs DEF StorageInv, StorageTypeOK, KeysFollowJobs, JobsGetKeys,
     LogFollows
<1>5. ActiveOverlap'
  BY <1>1, RequestIs DEF StorageInv, StorageTypeOK, KeysFollowJobs, ActiveOverlap, Active,
     Written
<1>6. FilesHaveWriters'
  BY <1>1, RequestIs DEF StorageInv, StorageTypeOK, FilesHaveWriters, PathOf
<1>7. LogFollows'
  BY <1>1, RequestIs DEF StorageInv, StorageTypeOK, LogFollows, Logged
<1> QED
  BY <1>2, <1>3, <1>4, <1>5, <1>6, <1>7 DEF StorageInv

(* Its bytes are written. *)
LEMMA WriteKeepsStorage ==
    ASSUME StorageInv, NEW r \in Requests, WriteRaw(r), UNCHANGED pushed
    PROVE  StorageInv'
<1>1. /\ phase[r] = "write"
      /\ phase' = [phase EXCEPT ![r] = "append"]
      /\ short' \subseteq short
      /\ UNCHANGED <<tried, awaiting, acked, slot, raw, log, index, beside, keyless, pushed>>
  BY DEF WriteRaw, Advance, client
<1>2. StorageTypeOK' /\ SlotsAreNumbers' /\ UnsentFollow'
  BY <1>1, RequestIs DEF StorageInv, StorageTypeOK, SlotsAreNumbers, UnsentFollow, Open, OnLoop
<1>3. KeysFollowJobs' /\ AckedHasJob'
  BY <1>1, RequestIs DEF StorageInv, StorageTypeOK, KeysFollowJobs, AckedHasJob
<1>4. JobsGetKeys'
  BY <1>1, RequestIs DEF StorageInv, StorageTypeOK, KeysFollowJobs, JobsGetKeys,
     LogFollows
<1>5. ActiveOverlap'
  BY <1>1, RequestIs DEF StorageInv, StorageTypeOK, KeysFollowJobs, ActiveOverlap, Active,
     Written
<1>6. FilesHaveWriters'
  BY <1>1, RequestIs DEF StorageInv, StorageTypeOK, FilesHaveWriters, PathOf
<1>7. LogFollows'
  BY <1>1, RequestIs DEF StorageInv, StorageTypeOK, LogFollows, Logged
<1> QED
  BY <1>2, <1>3, <1>4, <1>5, <1>6, <1>7 DEF StorageInv

(* Its metadata are appended. *)
LEMMA AppendKeepsStorage ==
    ASSUME StorageInv, NEW r \in Requests, AppendMetadata(r), UNCHANGED pushed
    PROVE  StorageInv'
<1>1. /\ phase[r] = "append"
      /\ phase' = [phase EXCEPT ![r] = "save"]
      /\ log' = log \cup {r}
      /\ UNCHANGED <<tried, awaiting, acked, slot, raw, index, short, beside, keyless, pushed>>
  BY DEF AppendMetadata, Advance, client
<1>2. StorageTypeOK' /\ SlotsAreNumbers' /\ UnsentFollow'
  BY <1>1, RequestIs DEF StorageInv, StorageTypeOK, SlotsAreNumbers, UnsentFollow, Open, OnLoop
<1>3. KeysFollowJobs' /\ AckedHasJob'
  BY <1>1, RequestIs DEF StorageInv, StorageTypeOK, KeysFollowJobs, AckedHasJob
<1>4. JobsGetKeys'
  BY <1>1, RequestIs DEF StorageInv, StorageTypeOK, KeysFollowJobs, JobsGetKeys,
     LogFollows
<1>5. ActiveOverlap'
  BY <1>1, RequestIs DEF StorageInv, StorageTypeOK, KeysFollowJobs, ActiveOverlap, Active,
     Written
<1>6. FilesHaveWriters'
  BY <1>1, RequestIs DEF StorageInv, StorageTypeOK, FilesHaveWriters, PathOf
<1>7. LogFollows'
  BY <1>1, RequestIs DEF StorageInv, StorageTypeOK, LogFollows, Logged
<1> QED
  BY <1>2, <1>3, <1>4, <1>5, <1>6, <1>7 DEF StorageInv

(* Its job is in the queue from here on. *)
LEMMA EnqueueKeepsStorage ==
    ASSUME StorageInv, NEW r \in Requests, Enqueue(r, "push", "remember"),
           pushed' = pushed \cup {r}
    PROVE  StorageInv'
<1>1. /\ phase[r] = "push"
      /\ phase' = [phase EXCEPT ![r] = "remember"]
      /\ pushed' = pushed \cup {r}
      /\ UNCHANGED <<tried, awaiting, acked, slot, raw, log, index, short, beside, keyless>>
  BY DEF Enqueue, Advance, client
<1>2. StorageTypeOK' /\ SlotsAreNumbers' /\ UnsentFollow'
  BY <1>1, RequestIs DEF StorageInv, StorageTypeOK, SlotsAreNumbers, UnsentFollow, Open, OnLoop
<1>3. KeysFollowJobs' /\ AckedHasJob'
  BY <1>1, RequestIs DEF StorageInv, StorageTypeOK, KeysFollowJobs, AckedHasJob
<1>4. JobsGetKeys'
  BY <1>1, RequestIs DEF StorageInv, StorageTypeOK, KeysFollowJobs, JobsGetKeys,
     LogFollows
<1>5. ActiveOverlap'
  BY <1>1, RequestIs DEF StorageInv, StorageTypeOK, KeysFollowJobs, ActiveOverlap, Active,
     Written
<1>6. FilesHaveWriters'
  BY <1>1, RequestIs DEF StorageInv, StorageTypeOK, FilesHaveWriters, PathOf
<1>7. LogFollows'
  BY <1>1, RequestIs DEF StorageInv, StorageTypeOK, LogFollows, Logged
<1> QED
  BY <1>2, <1>3, <1>4, <1>5, <1>6, <1>7 DEF StorageInv

(* Its key is remembered. *)
LEMMA RememberKeepsStorage ==
    ASSUME StorageInv, NEW r \in Requests, Remember(r), UNCHANGED pushed
    PROVE  StorageInv'
<1>1. /\ phase[r] = "remember"
      /\ phase' = [phase EXCEPT ![r] = "stored"]
      /\ index' = [index EXCEPT ![BatchOf(r)] = r]
      /\ UNCHANGED <<tried, awaiting, acked, slot, raw, log, short, beside, keyless, pushed>>
  BY DEF Remember, Advance, client
<1>2. StorageTypeOK' /\ SlotsAreNumbers' /\ UnsentFollow'
  BY <1>1, RequestIs DEF StorageInv, StorageTypeOK, SlotsAreNumbers, UnsentFollow, Open, OnLoop
<1>3. KeysFollowJobs' /\ AckedHasJob'
  BY <1>1, RequestIs DEF StorageInv, StorageTypeOK, KeysFollowJobs, AckedHasJob
<1>4. JobsGetKeys'
  BY <1>1, RequestIs DEF StorageInv, StorageTypeOK, KeysFollowJobs, JobsGetKeys,
     LogFollows
<1>5. ActiveOverlap'
  BY <1>1, RequestIs DEF StorageInv, StorageTypeOK, KeysFollowJobs, ActiveOverlap, Active,
     Written
<1>6. FilesHaveWriters'
  BY <1>1, RequestIs DEF StorageInv, StorageTypeOK, FilesHaveWriters, PathOf
<1>7. LogFollows'
  BY <1>1, RequestIs DEF StorageInv, StorageTypeOK, LogFollows, Logged
<1> QED
  BY <1>2, <1>3, <1>4, <1>5, <1>6, <1>7 DEF StorageInv

(* A client that hears stored or duplicate has a job in the queue. *)
LEMMA AnswerKeepsStorage ==
    ASSUME StorageInv, NEW r \in Requests, Answer(r), UNCHANGED pushed
    PROVE  StorageInv'
<1> DEFINE b == BatchOf(r)
<1>1. /\ phase[r] \in {"stored", "duplicate", "refused"}
      /\ phase' = [phase EXCEPT ![r] = "over"]
      /\ awaiting' \in {awaiting, [awaiting EXCEPT ![b] = FALSE]}
      /\ \/ acked' = acked
         \/ phase[r] # "refused" /\ acked' = acked \cup {b}
      /\ UNCHANGED <<tried, slot, raw, log, index, short, beside, keyless, pushed>>
  BY Zenon DEF Answer
<1>2. StorageTypeOK' /\ SlotsAreNumbers' /\ UnsentFollow'
  BY <1>1, RequestIs DEF StorageInv, StorageTypeOK, SlotsAreNumbers, UnsentFollow, Open, OnLoop
<1>3. KeysFollowJobs' /\ AckedHasJob'
  BY <1>1, RequestIs DEF StorageInv, StorageTypeOK, KeysFollowJobs, AckedHasJob
<1>4. JobsGetKeys'
  BY <1>1, RequestIs DEF StorageInv, StorageTypeOK, KeysFollowJobs, JobsGetKeys,
     LogFollows
<1>5. ActiveOverlap'
  BY <1>1, RequestIs DEF StorageInv, StorageTypeOK, KeysFollowJobs, ActiveOverlap, Active,
     Written
<1>6. FilesHaveWriters'
  BY <1>1, RequestIs DEF StorageInv, StorageTypeOK, FilesHaveWriters, PathOf
<1>7. LogFollows'
  BY <1>1, RequestIs DEF StorageInv, StorageTypeOK, LogFollows, Logged
<1> QED
  BY <1>2, <1>3, <1>4, <1>5, <1>6, <1>7 DEF StorageInv

(* Files that are too old go. *)
LEMMA CleanKeepsStorage ==
    ASSUME StorageInv, NEW old, Clean(old), UNCHANGED pushed
    PROVE  StorageInv'
<1>1. /\ raw' \subseteq raw
      /\ UNCHANGED <<tried, awaiting, acked, phase, slot, log, index, short, beside, keyless,
                     pushed>>
  BY DEF Clean, client
<1>2. StorageTypeOK' /\ SlotsAreNumbers' /\ UnsentFollow'
  BY <1>1, RequestIs DEF StorageInv, StorageTypeOK, SlotsAreNumbers, UnsentFollow, Open, OnLoop
<1>3. KeysFollowJobs' /\ AckedHasJob'
  BY <1>1, RequestIs DEF StorageInv, StorageTypeOK, KeysFollowJobs, AckedHasJob
<1>4. JobsGetKeys'
  BY <1>1, RequestIs DEF StorageInv, StorageTypeOK, KeysFollowJobs, JobsGetKeys,
     LogFollows
<1>5. ActiveOverlap'
  BY <1>1, RequestIs DEF StorageInv, StorageTypeOK, KeysFollowJobs, ActiveOverlap, Active,
     Written
<1>6. FilesHaveWriters'
  BY <1>1, RequestIs DEF StorageInv, StorageTypeOK, FilesHaveWriters, PathOf
<1>7. LogFollows'
  BY <1>1, RequestIs DEF StorageInv, StorageTypeOK, LogFollows, Logged
<1> QED
  BY <1>2, <1>3, <1>4, <1>5, <1>6, <1>7 DEF StorageInv

(* Keys are lost: either the one that was to be written, or every key; the *)
(* jobs that had one are then keyless.                                     *)
LEMMA LosingKeepsStorage ==
    ASSUME StorageInv, LoseKeys,
           phase' \in [Requests -> Open \cup {"unsent", "over"}],
           \A q \in Requests : \/ (phase'[q] = phase[q] /\ phase[q] # "remember")
                              \/ (phase'[q] = phase[q] /\ q \in keyless')
                              \/ (phase'[q] \in {"refused", "over"} /\ phase[q] # "unsent"),
           awaiting' \in [Batches -> BOOLEAN],
           UNCHANGED <<tried, acked, slot, raw, log, short, beside, pushed>>
    PROVE  StorageInv'
<1> DEFINE none == [b \in Batches |-> None]
<1>1. /\ index' = index \/ index' = none
      /\ keyless' = keyless \cup Unremembered
                    \cup {s \in log : index'[BatchOf(s)] # index[BatchOf(s)]}
      /\ UNCHANGED <<tried, acked, slot, raw, log, short, beside, pushed>>
  BY DEF LoseKeys
<1>2. /\ keyless \subseteq keyless' /\ keyless' \subseteq Requests
      /\ \A q \in Requests : phase[q] = "remember" => q \in keyless'
      /\ \A q \in log : index[BatchOf(q)] # None => index'[BatchOf(q)] # None \/ q \in keyless'
      /\ \A b \in Batches : index'[b] # None => index'[b] = index[b]
      /\ \A b \in Batches : index'[b] \in Requests \cup {None}
  BY <1>1, RequestIs DEF Unremembered, StorageInv, StorageTypeOK
<1>3. index' \in [Batches -> Requests \cup {None}]
  BY <1>1 DEF StorageInv, StorageTypeOK
<1>4. StorageTypeOK' /\ SlotsAreNumbers'
  BY <1>1, <1>2, <1>3 DEF StorageInv, StorageTypeOK, SlotsAreNumbers
<1>5. UnsentFollow'
  BY <1>1 DEF StorageInv, UnsentFollow
<1>6. KeysFollowJobs' /\ AckedHasJob'
  BY <1>1, <1>2 DEF StorageInv, KeysFollowJobs, AckedHasJob
<1>7. JobsGetKeys'
  BY <1>1, <1>2 DEF StorageInv, StorageTypeOK, JobsGetKeys, LogFollows
<1>8. ActiveOverlap'
  <2>1. \A q \in Requests : Active(q)' => Active(q)
    BY <1>1 DEF Active, Written
  <2> QED
    BY <1>1, <1>2, <2>1 DEF StorageInv, ActiveOverlap
<1>9. FilesHaveWriters' /\ LogFollows'
  <2>1. \A q \in Requests : /\ PathOf(q)' = PathOf(q)
                            /\ phase'[q] = phase[q]
                               \/ (phase'[q] \in {"refused", "over"} /\ phase[q] # "unsent")
    BY <1>1 DEF PathOf
  <2>2. FilesHaveWriters'
    BY <1>1, <2>1 DEF StorageInv, FilesHaveWriters
  <2>3. LogFollows'
    BY <1>1, <2>1 DEF StorageInv, StorageTypeOK, LogFollows, Logged
  <2> QED
    BY <2>2, <2>3
<1> QED
  BY <1>4, <1>5, <1>6, <1>7, <1>8, <1>9 DEF StorageInv

(* A request ends in an exception. *)
LEMMA RaiseKeepsStorage ==
    ASSUME StorageInv, NEW r \in Requests, Raise(r), UNCHANGED pushed
    PROVE  StorageInv'
<1>1. /\ phase[r] \in OnLoop /\ phase' = [phase EXCEPT ![r] = "refused"] /\ LoseKeys
      /\ UNCHANGED <<tried, awaiting, acked, slot, raw, log, short, beside, pushed>>
  BY DEF Raise, client
<1>2. /\ phase' \in [Requests -> Open \cup {"unsent", "over"}]
      /\ \A q \in Requests : phase'[q] = IF q = r THEN "refused" ELSE phase[q]
      /\ awaiting' \in [Batches -> BOOLEAN]
  BY <1>1 DEF StorageInv, StorageTypeOK, Open
<1>3. phase[r] # "unsent" /\ \A q \in Requests : phase[q] = "remember" => q \in keyless'
  BY <1>1 DEF OnLoop, LoseKeys, Unremembered
<1> QED
  BY <1>1, <1>2, <1>3, LosingKeepsStorage

(* The server dies. *)
LEMMA CrashKeepsStorage ==
    ASSUME StorageInv, StorageCrash, UNCHANGED pushed
    PROVE  StorageInv'
<1>1. /\ phase' = [r \in Requests |-> IF phase[r] \in Open THEN "over" ELSE phase[r]]
      /\ awaiting' = [b \in Batches |-> FALSE] /\ LoseKeys
      /\ UNCHANGED <<tried, acked, slot, raw, log, short, beside, pushed>>
  BY DEF StorageCrash
<1>2. /\ phase' \in [Requests -> Open \cup {"unsent", "over"}]
      /\ awaiting' \in [Batches -> BOOLEAN]
      /\ "unsent" \notin Open /\ "remember" \in Open
  BY <1>1 DEF StorageInv, StorageTypeOK, Open, OnLoop
<1> QED
  BY <1>1, <1>2, LosingKeepsStorage

(* A client gives up waiting. *)
LEMMA TimeOutKeepsStorage ==
    ASSUME StorageInv, NEW b \in Batches, TimeOut(b), UNCHANGED pushed
    PROVE  StorageInv'
<1>1. /\ awaiting' = [awaiting EXCEPT ![b] = FALSE]
      /\ UNCHANGED <<tried, acked, phase, slot, raw, log, index, short, beside, keyless, pushed>>
  BY DEF TimeOut
<1>2. StorageTypeOK' /\ SlotsAreNumbers' /\ UnsentFollow'
  BY <1>1, RequestIs DEF StorageInv, StorageTypeOK, SlotsAreNumbers, UnsentFollow, Open, OnLoop
<1>3. KeysFollowJobs' /\ AckedHasJob'
  BY <1>1, RequestIs DEF StorageInv, StorageTypeOK, KeysFollowJobs, AckedHasJob
<1>4. JobsGetKeys'
  BY <1>1, RequestIs DEF StorageInv, StorageTypeOK, KeysFollowJobs, JobsGetKeys,
     LogFollows
<1>5. ActiveOverlap'
  BY <1>1, RequestIs DEF StorageInv, StorageTypeOK, KeysFollowJobs, ActiveOverlap, Active,
     Written
<1>6. FilesHaveWriters'
  BY <1>1, RequestIs DEF StorageInv, StorageTypeOK, FilesHaveWriters, PathOf
<1>7. LogFollows'
  BY <1>1, RequestIs DEF StorageInv, StorageTypeOK, LogFollows, Logged
<1> QED
  BY <1>2, <1>3, <1>4, <1>5, <1>6, <1>7 DEF StorageInv

(* No other step concerns the requests. *)
LEMMA OthersKeepStorage ==
    ASSUME StorageInv, UNCHANGED <<storageVars, pushed>>
    PROVE  StorageInv'
<1>1. UNCHANGED <<tried, awaiting, acked, phase, slot, raw, log, index, short, beside, keyless,
                   pushed>>
  BY DEF storageVars, client
<1>2. StorageTypeOK' /\ SlotsAreNumbers' /\ UnsentFollow'
  BY <1>1, RequestIs DEF StorageInv, StorageTypeOK, SlotsAreNumbers, UnsentFollow, Open, OnLoop
<1>3. KeysFollowJobs' /\ AckedHasJob'
  BY <1>1, RequestIs DEF StorageInv, StorageTypeOK, KeysFollowJobs, AckedHasJob
<1>4. JobsGetKeys'
  BY <1>1, RequestIs DEF StorageInv, StorageTypeOK, KeysFollowJobs, JobsGetKeys,
     LogFollows
<1>5. ActiveOverlap'
  BY <1>1, RequestIs DEF StorageInv, StorageTypeOK, KeysFollowJobs, ActiveOverlap, Active,
     Written
<1>6. FilesHaveWriters'
  BY <1>1, RequestIs DEF StorageInv, StorageTypeOK, FilesHaveWriters, PathOf
<1>7. LogFollows'
  BY <1>1, RequestIs DEF StorageInv, StorageTypeOK, LogFollows, Logged
<1> QED
  BY <1>2, <1>3, <1>4, <1>5, <1>6, <1>7 DEF StorageInv

(* save_upload finds a name that no raw file has. *)
LEMMA FreeSlotIsFree ==
    ASSUME StorageInv, NEW b \in Batches
    PROVE  FreeSlot(b) \in 0..MaxAttempts[b] /\ <<b, FreeSlot(b)>> \notin raw
<1> DEFINE n == MaxAttempts[b]
           used == [i \in 1..n |-> slot[<<b, i>>]]
           free == {k \in 0..n : <<b, k>> \notin raw}
<1>1. used \in [1..n -> Nat] /\ n \in Nat
  BY NumberedRequest DEF StorageInv, StorageTypeOK
<1>2. PICK k \in 0..n : \A i \in 1..n : used[i] # k
  <2> HIDE DEF used, n
  <2> QED
    BY <1>1, NumbersLeft
<1>3. ASSUME <<b, k>> \in raw PROVE FALSE
  <2>1. PICK r \in Requests : PathOf(r) = <<b, k>>
    BY <1>3 DEF StorageInv, FilesHaveWriters
  <2>2. BatchOf(r) = b /\ slot[r] = k
    BY <2>1 DEF PathOf
  <2>3. r[2] \in 1..n /\ r = <<b, r[2]>>
    BY <2>2, RequestIs
  <2> QED
    BY <1>2, <2>2, <2>3
<1>4. free # {} /\ free \in SUBSET Nat
  BY <1>1, <1>2, <1>3
<1>5. Min(free) \in free
  BY <1>4, LeastMember
<1> QED
  BY <1>5 DEF FreeSlot

(* The key is looked up: known, or a name is chosen, with other requests   *)
(* of the batch perhaps reading their bodies.                              *)
LEMMA LookupKeepsStorage ==
    ASSUME StorageInv, NEW r \in Requests, Lookup(r), UNCHANGED pushed
    PROVE  StorageInv'
<1> DEFINE b == BatchOf(r)
<1>1. /\ phase[r] = "sent" /\ b \in Batches
      /\ \A q \in Requests : phase[q] \notin Written
      /\ UNCHANGED <<tried, awaiting, acked, raw, log, index, short, keyless, pushed>>
  BY RequestIs DEF Lookup, LoopFree, OnLoop, Written, client
<1>2. CASE index[b] # None
  <2>1. /\ phase' = [phase EXCEPT ![r] = "duplicate"]
        /\ UNCHANGED <<slot, beside>>
    BY <1>2 DEF Lookup
  <2>2. StorageTypeOK' /\ SlotsAreNumbers' /\ UnsentFollow'
    BY <1>1, <2>1 DEF StorageInv, StorageTypeOK, SlotsAreNumbers, UnsentFollow, Open, OnLoop
  <2>3. KeysFollowJobs' /\ AckedHasJob'
    BY <1>1, <1>2, <2>1 DEF StorageInv, StorageTypeOK, KeysFollowJobs, AckedHasJob
  <2>4. JobsGetKeys'
    BY <1>1, <2>1 DEF StorageInv, StorageTypeOK, JobsGetKeys, LogFollows, Logged
  <2>5. ActiveOverlap'
    BY <1>1, <2>1 DEF StorageInv, StorageTypeOK, ActiveOverlap, Active, Written
  <2>6. FilesHaveWriters' /\ LogFollows'
    BY <1>1, <2>1 DEF StorageInv, StorageTypeOK, FilesHaveWriters, PathOf, LogFollows, Logged
  <2> QED
    BY <2>2, <2>3, <2>4, <2>5, <2>6 DEF StorageInv
<1>3. CASE index[b] = None
  <2> DEFINE met == {s \in Requests : BatchOf(s) = b /\ phase[s] = "reading"}
  <2>1. /\ phase' = [phase EXCEPT ![r] = "reading"]
        /\ slot' = [slot EXCEPT ![r] = FreeSlot(b)]
        /\ beside' = [beside EXCEPT ![r] = met]
        /\ FreeSlot(b) \in 0..MaxAttempts[b] /\ MaxAttempts[b] \in Nat
    BY <1>1, <1>3, FreeSlotIsFree DEF Lookup
  <2>2. StorageTypeOK' /\ SlotsAreNumbers' /\ UnsentFollow'
    BY <1>1, <2>1 DEF StorageInv, StorageTypeOK, SlotsAreNumbers, UnsentFollow, Open, OnLoop
  <2>3. KeysFollowJobs' /\ AckedHasJob'
    BY <1>1, <2>1 DEF StorageInv, StorageTypeOK, KeysFollowJobs, AckedHasJob
  <2>4. JobsGetKeys'
    BY <1>1, <2>1 DEF StorageInv, StorageTypeOK, JobsGetKeys, LogFollows, Logged
  <2>5. ActiveOverlap'
    <3>1. r \notin pushed
      BY <1>1 DEF StorageInv, LogFollows, Logged
    <3>2. \A q \in Requests : q # r => Active(q)' = Active(q)
      BY <1>1, <2>1 DEF StorageInv, StorageTypeOK, Active
    <3>3. ASSUME NEW q \in Requests, q # r, Active(q), BatchOf(q) = b
          PROVE  q \in met \/ q \in keyless
      BY <1>1, <1>3, <3>3 DEF StorageInv, JobsGetKeys, Active, Written
    <3>4. beside'[r] = met /\ \A q \in Requests : q # r => beside'[q] = beside[q]
      BY <1>1, <2>1 DEF StorageInv, StorageTypeOK
    <3>5. \A q \in Requests : q # r => phase'[q] = phase[q]
      BY <1>1, <2>1 DEF StorageInv, StorageTypeOK
    <3> QED
      BY <1>1, <3>2, <3>3, <3>4, <3>5 DEF StorageInv, ActiveOverlap
  <2>6. FilesHaveWriters' /\ LogFollows'
    BY <1>1, <2>1 DEF StorageInv, StorageTypeOK, FilesHaveWriters, PathOf, LogFollows, Logged
  <2> QED
    BY <2>2, <2>3, <2>4, <2>5, <2>6 DEF StorageInv
<1> QED
  BY <1>2, <1>3

----------------------------------------------------------------------------
(* The queue. *)

(* Every id in the queue or in a process was logged by its request. *)
QueueShape ==
    /\ pending \in Seq(log) /\ processing \in Seq(log)
    /\ completed \subseteq log /\ failed \subseteq log
    /\ pushed \subseteq log /\ adrift \subseteq log
    /\ saved \in [Jobs -> Nat \cup {NoPayload}]
    /\ runs \in [Jobs -> Nat]
    /\ pc \in [Processes -> Labels]
    /\ job \in [Processes -> log \cup {NoJob}]
    /\ attempts \in [Processes -> Nat \cup {NoPayload}]
    /\ ids \in [Processes -> Seq(log)]
    /\ \A p \in Processes : pc[p] \notin {"down", "ready", "recover"} => job[p] \in log

QueueInv == QueueShape /\ NoJobLost

USE QueueAssumption

(* The queue is empty and every process ready. *)
LEMMA QueueInitially == Init => QueueInv
  BY EmptySeq DEF Init, StorageInit, QueueInit, QueueInv, QueueShape, NoJobLost, Labels, NoPayload

(* Ids of logged requests are ids of jobs. *)
LEMMA QueueShapeIsType == StorageTypeOK /\ QueueShape => QueueTypeOK
<1> SUFFICES ASSUME StorageTypeOK, QueueShape PROVE QueueTypeOK
  OBVIOUS
<1>1. log \subseteq Jobs
  BY DEF StorageTypeOK
<1>2. \A x \in Seq(log) : x \in Seq(Jobs)
  BY <1>1, SeqMonotonic
<1> QED
  BY <1>1, <1>2 DEF QueueShape, QueueTypeOK

(* A request that is logged makes the log longer, nothing else. *)
LEMMA LogKeepsQueue ==
    ASSUME QueueInv, log \subseteq log', UNCHANGED queueVars PROVE QueueInv'
<1>1. UNCHANGED <<pending, processing, completed, failed, saved, pc, job, attempts, ids,
                  pushed, runs, adrift>>
  BY DEF queueVars, lists, memory, history
<1>2. \A x \in Seq(log) : x \in Seq(log')
  BY SeqMonotonic
<1>3. QueueShape'
  BY <1>1, <1>2 DEF QueueInv, QueueShape
<1> QED
  BY <1>1, <1>3 DEF QueueInv, NoJobLost, Listed, Carried, Settled, Carries

(* A step of one process keeps every job if what leaves the lists is in    *)
(* the process's hands, and what leaves its hands is listed, settled or    *)
(* known to be lost.                                                       *)
LEMMA CustodyKept ==
    ASSUME NoJobLost, NEW p \in Processes, UNCHANGED pushed,
           \A q \in Processes \ {p} : pc'[q] = pc[q] /\ job'[q] = job[q],
           Settled \subseteq Settled', adrift \subseteq adrift',
           \A j \in Listed : j \in Listed' \/ (Carries(p)' /\ job'[p] = j),
           Carries(p) => \/ job[p] \in Listed' \cup Settled' \cup adrift'
                         \/ Carries(p)' /\ job'[p] = job[p]
    PROVE  NoJobLost'
<1>1. \A q \in Processes \ {p} : Carries(q)' = Carries(q)
  BY DEF Carries
<1>2. Carried \subseteq Listed' \cup Carried' \cup Settled' \cup adrift'
  <2>1. \A q \in Processes : Carries(q) =>
           \/ job[q] \in Listed' \cup Settled' \cup adrift'
           \/ Carries(q)' /\ job'[q] = job[q]
    BY <1>1
  <2> QED
    BY <2>1 DEF Carried
<1>3. Listed \subseteq Listed' \cup Carried'
  BY DEF Carried
<1> QED
  BY <1>2, <1>3 DEF NoJobLost

(* Its job leaves processing for the hands of the process. *)
LEMMA RecoverRemoveKeeps ==
    ASSUME QueueInv, log \subseteq Jobs, UNCHANGED log, NEW p \in Processes, RecoverRemove(p)
    PROVE  QueueInv'
<1>0. /\ processing' \in Seq(log)
      /\ ToSet(processing) \ {job[p]} \subseteq ToSet(processing')
  BY RemoveFirstKeepsOthers DEF RecoverRemove, LRem, QueueInv, QueueShape
<1>1. QueueShape'
  BY <1>0 DEF RecoverRemove, QueueInv, QueueShape, Labels, NoPayload, Move, Goto, lists,
     history, memory
<1>2. /\ UNCHANGED pushed /\ Settled \subseteq Settled' /\ adrift \subseteq adrift'
      /\ \A q \in Processes \ {p} : pc'[q] = pc[q] /\ job'[q] = job[q]
  BY DEF RecoverRemove, QueueInv, QueueShape, Settled, Move, Goto, lists, history, memory
<1>3. /\ pc[p] = "recover_remove" /\ pc'[p] = "recover_push"
      /\ job'[p] = job[p] /\ UNCHANGED pending
  BY DEF RecoverRemove, QueueInv, QueueShape, Move, Goto, lists, history, memory
<1>4. \A j \in Listed : j \in Listed' \/ (Carries(p)' /\ job'[p] = j)
  BY <1>0, <1>3 DEF Listed, Carries
<1>5. Carries(p) => \/ job[p] \in Listed' \cup Settled' \cup adrift'
                    \/ Carries(p)' /\ job'[p] = job[p]
  BY <1>0, <1>3 DEF Listed, Settled, Carries
<1> QED
  BY <1>1, <1>2, <1>4, <1>5, CustodyKept DEF QueueInv

(* So does a completed one. *)
LEMMA CompleteRemoveKeeps ==
    ASSUME QueueInv, log \subseteq Jobs, UNCHANGED log, NEW p \in Processes, CompleteRemove(p)
    PROVE  QueueInv'
<1>0. /\ processing' \in Seq(log)
      /\ ToSet(processing) \ {job[p]} \subseteq ToSet(processing')
  BY RemoveFirstKeepsOthers DEF CompleteRemove, LRem, QueueInv, QueueShape
<1>1. QueueShape'
  BY <1>0 DEF CompleteRemove, QueueInv, QueueShape, Labels, NoPayload, Move, Goto, lists,
     history, memory
<1>2. /\ UNCHANGED pushed /\ Settled \subseteq Settled' /\ adrift \subseteq adrift'
      /\ \A q \in Processes \ {p} : pc'[q] = pc[q] /\ job'[q] = job[q]
  BY DEF CompleteRemove, QueueInv, QueueShape, Settled, Move, Goto, lists, history, memory
<1>3. /\ pc[p] = "complete_remove" /\ pc'[p] = "complete_push"
      /\ job'[p] = job[p] /\ UNCHANGED pending
  BY DEF CompleteRemove, QueueInv, QueueShape, Move, Goto, lists, history, memory
<1>4. \A j \in Listed : j \in Listed' \/ (Carries(p)' /\ job'[p] = j)
  BY <1>0, <1>3 DEF Listed, Carries
<1>5. Carries(p) => \/ job[p] \in Listed' \cup Settled' \cup adrift'
                    \/ Carries(p)' /\ job'[p] = job[p]
  BY <1>0, <1>3 DEF Listed, Settled, Carries
<1> QED
  BY <1>1, <1>2, <1>4, <1>5, CustodyKept DEF QueueInv

(* And a failed one. *)
LEMMA FailRemoveKeeps ==
    ASSUME QueueInv, log \subseteq Jobs, UNCHANGED log, NEW p \in Processes, FailRemove(p)
    PROVE  QueueInv'
<1>0. /\ processing' \in Seq(log)
      /\ ToSet(processing) \ {job[p]} \subseteq ToSet(processing')
  BY RemoveFirstKeepsOthers DEF FailRemove, LRem, QueueInv, QueueShape
<1>1. QueueShape'
  BY <1>0 DEF FailRemove, QueueInv, QueueShape, Labels, NoPayload, Move, Goto, lists, history,
     memory
<1>2. /\ UNCHANGED pushed /\ Settled \subseteq Settled' /\ adrift \subseteq adrift'
      /\ \A q \in Processes \ {p} : pc'[q] = pc[q] /\ job'[q] = job[q]
  BY DEF FailRemove, QueueInv, QueueShape, Settled, Move, Goto, lists, history, memory
<1>3. /\ pc[p] = "fail_remove" /\ pc'[p] = "fail_save_again"
      /\ job'[p] = job[p] /\ UNCHANGED pending
  BY DEF FailRemove, QueueInv, QueueShape, Move, Goto, lists, history, memory
<1>4. \A j \in Listed : j \in Listed' \/ (Carries(p)' /\ job'[p] = j)
  BY <1>0, <1>3 DEF Listed, Carries
<1>5. Carries(p) => \/ job[p] \in Listed' \cup Settled' \cup adrift'
                    \/ Carries(p)' /\ job'[p] = job[p]
  BY <1>0, <1>3 DEF Listed, Settled, Carries
<1> QED
  BY <1>1, <1>2, <1>4, <1>5, CustodyKept DEF QueueInv

(* A recovered job is pending again. *)
LEMMA RecoverPushKeeps ==
    ASSUME QueueInv, log \subseteq Jobs, UNCHANGED log, NEW p \in Processes, RecoverPush(p)
    PROVE  QueueInv'
<1>6. job[p] \in log
  BY DEF RecoverPush, Move, QueueInv, QueueShape
<1>0. /\ Append(pending, job[p]) \in Seq(log)
      /\ ToSet(Append(pending, job[p])) = ToSet(pending) \cup {job[p]}
  BY <1>6, AppendAdds DEF QueueInv, QueueShape
<1>1. QueueShape'
  BY <1>0 DEF RecoverPush, QueueInv, QueueShape, Labels, NoPayload, Move, Goto, lists, history,
     memory, Forget
<1>2. /\ UNCHANGED pushed /\ Settled \subseteq Settled' /\ adrift \subseteq adrift'
      /\ \A q \in Processes \ {p} : pc'[q] = pc[q] /\ job'[q] = job[q]
  BY DEF RecoverPush, QueueInv, QueueShape, Settled, Move, Goto, lists, history, memory, Forget
<1>3. /\ pc[p] = "recover_push" /\ pc'[p] = "recover"
      /\ pending' = Append(pending, job[p]) /\ UNCHANGED processing
  BY DEF RecoverPush, QueueInv, QueueShape, Move, Goto, lists, history, memory, Forget
<1>4. \A j \in Listed : j \in Listed' \/ (Carries(p)' /\ job'[p] = j)
  BY <1>0, <1>3 DEF Listed, Carries
<1>5. Carries(p) => \/ job[p] \in Listed' \cup Settled' \cup adrift'
                    \/ Carries(p)' /\ job'[p] = job[p]
  BY <1>0, <1>3 DEF Listed, Settled, Carries
<1> QED
  BY <1>1, <1>2, <1>4, <1>5, CustodyKept DEF QueueInv

(* A claimed job is processing. *)
LEMMA ClaimPushKeeps ==
    ASSUME QueueInv, log \subseteq Jobs, UNCHANGED log, NEW p \in Processes, ClaimPush(p)
    PROVE  QueueInv'
<1>6. job[p] \in log
  BY DEF ClaimPush, Move, QueueInv, QueueShape
<1>0. /\ Append(processing, job[p]) \in Seq(log)
      /\ ToSet(Append(processing, job[p])) = ToSet(processing) \cup {job[p]}
  BY <1>6, AppendAdds DEF QueueInv, QueueShape
<1>1. QueueShape'
  BY <1>0 DEF ClaimPush, QueueInv, QueueShape, Labels, NoPayload, Move, Goto, lists, history,
     memory, Forget
<1>2. /\ UNCHANGED pushed /\ Settled \subseteq Settled' /\ adrift \subseteq adrift'
      /\ \A q \in Processes \ {p} : pc'[q] = pc[q] /\ job'[q] = job[q]
  BY DEF ClaimPush, QueueInv, QueueShape, Settled, Move, Goto, lists, history, memory, Forget
<1>3. /\ pc[p] = "popped" /\ pc'[p] = "load"
      /\ processing' = Append(processing, job[p]) /\ UNCHANGED pending
  BY DEF ClaimPush, QueueInv, QueueShape, Move, Goto, lists, history, memory, Forget
<1>4. \A j \in Listed : j \in Listed' \/ (Carries(p)' /\ job'[p] = j)
  BY <1>0, <1>3 DEF Listed, Carries
<1>5. Carries(p) => \/ job[p] \in Listed' \cup Settled' \cup adrift'
                    \/ Carries(p)' /\ job'[p] = job[p]
  BY <1>0, <1>3 DEF Listed, Settled, Carries
<1> QED
  BY <1>1, <1>2, <1>4, <1>5, CustodyKept DEF QueueInv

(* The head of pending is in the worker's hands. *)
LEMMA ClaimPopKeeps ==
    ASSUME QueueInv, log \subseteq Jobs, UNCHANGED log, NEW p \in Processes, ClaimPop(p)
    PROVE  QueueInv'
<1>0. /\ Head(pending) \in log /\ pending' \in Seq(log)
      /\ ToSet(pending) = {Head(pending)} \cup ToSet(pending')
  BY HeadLeaves DEF ClaimPop, QueueInv, QueueShape
<1>1. QueueShape'
  BY <1>0 DEF ClaimPop, QueueInv, QueueShape, Labels, NoPayload, Move, Goto, lists, history,
     memory
<1>2. /\ UNCHANGED pushed /\ Settled \subseteq Settled' /\ adrift \subseteq adrift'
      /\ \A q \in Processes \ {p} : pc'[q] = pc[q] /\ job'[q] = job[q]
  BY DEF ClaimPop, QueueInv, QueueShape, Settled, Move, Goto, lists, history, memory
<1>3. /\ pc[p] = "ready" /\ pc'[p] = "popped"
      /\ job'[p] = Head(pending) /\ UNCHANGED processing
  BY DEF ClaimPop, QueueInv, QueueShape, Move, Goto, lists, history, memory
<1>4. \A j \in Listed : j \in Listed' \/ (Carries(p)' /\ job'[p] = j)
  BY <1>0, <1>3 DEF Listed, Carries
<1>5. Carries(p) => \/ job[p] \in Listed' \cup Settled' \cup adrift'
                    \/ Carries(p)' /\ job'[p] = job[p]
  BY <1>0, <1>3 DEF Listed, Settled, Carries
<1> QED
  BY <1>1, <1>2, <1>4, <1>5, CustodyKept DEF QueueInv

(* A completed job is settled. *)
LEMMA CompletePushKeeps ==
    ASSUME QueueInv, log \subseteq Jobs, UNCHANGED log, NEW p \in Processes, CompletePush(p)
    PROVE  QueueInv'
<1>1. QueueShape'
  BY DEF CompletePush, QueueInv, QueueShape, Labels, NoPayload, Move, Goto, lists, history, memory
<1>2. /\ UNCHANGED pushed /\ Settled \subseteq Settled' /\ adrift \subseteq adrift'
      /\ \A q \in Processes \ {p} : pc'[q] = pc[q] /\ job'[q] = job[q]
  BY DEF CompletePush, QueueInv, QueueShape, Settled, Move, Goto, lists, history, memory
<1>3. /\ pc[p] = "complete_push" /\ pc'[p] = "state" /\ job'[p] = job[p]
      /\ completed' = completed \cup {job[p]} /\ UNCHANGED <<pending, processing>>
  BY DEF CompletePush, QueueInv, QueueShape, Move, Goto, lists, history, memory
<1>4. \A j \in Listed : j \in Listed' \/ (Carries(p)' /\ job'[p] = j)
  BY <1>3 DEF Listed, Carries
<1>5. Carries(p) => \/ job[p] \in Listed' \cup Settled' \cup adrift'
                    \/ Carries(p)' /\ job'[p] = job[p]
  BY <1>3 DEF Listed, Settled, Carries
<1> QED
  BY <1>1, <1>2, <1>4, <1>5, CustodyKept DEF QueueInv

(* A failed job is pending again, or settled. *)
LEMMA FailPushKeeps ==
    ASSUME QueueInv, log \subseteq Jobs, UNCHANGED log, NEW p \in Processes, FailPush(p)
    PROVE  QueueInv'
<1>6. job[p] \in log
  BY DEF FailPush, Move, QueueInv, QueueShape
<1>0. /\ Append(pending, job[p]) \in Seq(log)
      /\ ToSet(Append(pending, job[p])) = ToSet(pending) \cup {job[p]}
  BY <1>6, AppendAdds DEF QueueInv, QueueShape
<1>1. QueueShape'
  <2>1. /\ pending' \in {pending, Append(pending, job[p])}
        /\ failed' \in {failed, failed \cup {job[p]}}
        /\ pc' = [pc EXCEPT ![p] = "ready"] /\ job' = [job EXCEPT ![p] = NoJob]
        /\ attempts' = [attempts EXCEPT ![p] = 0]
        /\ UNCHANGED <<processing, completed, saved, ids, pushed, runs, adrift>>
    BY DEF FailPush, Move, Goto, Forget, history
  <2> QED
    BY <1>0, <1>6, <2>1 DEF QueueInv, QueueShape, Labels
<1>2. /\ UNCHANGED pushed /\ Settled \subseteq Settled' /\ adrift \subseteq adrift'
      /\ \A q \in Processes \ {p} : pc'[q] = pc[q] /\ job'[q] = job[q]
  BY DEF FailPush, QueueInv, QueueShape, Settled, Move, Goto, lists, history, memory, Forget
<1>3. /\ pc[p] = "fail_push" /\ pc'[p] = "ready"
      /\ \/ pending' = Append(pending, job[p])
         \/ pending' = pending /\ failed' = failed \cup {job[p]}
      /\ UNCHANGED processing
  BY DEF FailPush, QueueInv, QueueShape, Move, Goto, lists, history, memory, Forget
<1>4. \A j \in Listed : j \in Listed' \/ (Carries(p)' /\ job'[p] = j)
  BY <1>0, <1>3 DEF Listed, Carries
<1>5. Carries(p) => \/ job[p] \in Listed' \cup Settled' \cup adrift'
                    \/ Carries(p)' /\ job'[p] = job[p]
  BY <1>0, <1>3 DEF Listed, Settled, Carries
<1> QED
  BY <1>1, <1>2, <1>4, <1>5, CustodyKept DEF QueueInv

(* What only a dying process has is lost, and known to be. *)
LEMMA DieKeeps ==
    ASSUME QueueInv, log \subseteq Jobs, UNCHANGED log, NEW p \in Processes, Die(p)
    PROVE  QueueInv'
<1>0. /\ pc' = [pc EXCEPT ![p] = "down"] /\ job' = [job EXCEPT ![p] = NoJob]
      /\ attempts' = [attempts EXCEPT ![p] = 0] /\ ids' = [ids EXCEPT ![p] = <<>>]
      /\ adrift' = IF Carries(p) THEN adrift \cup ({job[p]} \ (Listed \cup Settled)) ELSE adrift
      /\ UNCHANGED <<pending, processing, completed, failed, saved, pushed, runs>>
  BY DEF Die, Goto, Forget, lists
<1>1. QueueShape'
  <2>1. Carries(p) => job[p] \in log
    BY DEF QueueInv, QueueShape, Carries
  <2>2. adrift' \subseteq log
    BY <1>0, <2>1 DEF QueueInv, QueueShape
  <2> QED
    BY <1>0, <2>2, EmptySeq DEF QueueInv, QueueShape, Labels
<1>2. \A q \in Processes \ {p} : pc'[q] = pc[q] /\ job'[q] = job[q]
  BY <1>0 DEF QueueInv, QueueShape
<1>3. Listed' = Listed /\ Settled' = Settled /\ adrift \subseteq adrift'
  BY <1>0 DEF Listed, Settled
<1>5. Carries(p) => job[p] \in Listed' \cup Settled' \cup adrift'
  BY <1>0, <1>3
<1> QED
  BY <1>0, <1>1, <1>2, <1>3, <1>5, CustodyKept DEF QueueInv

(* The steps that move no id. *)
Quiet(p) == \/ RecoverList(p) \/ RecoverLoad(p) \/ RecoverSave(p) \/ RecoverDone(p)
            \/ ClaimLoad(p) \/ ClaimSave(p)
            \/ ProcessEnds(p, "complete") \/ ProcessEnds(p, "fail")
            \/ FailureHandled(p, "copy") \/ FailureHandled(p, "fail_save") \/ FileCopied(p)
            \/ CompleteSave(p) \/ StateWritten(p) \/ CompletionRaises(p)
            \/ FailSave(p, "fail_save", "fail_remove")
            \/ FailSave(p, "fail_save_again", "fail_push")

(* They leave every list as it is, and no hand is empty that was full. *)
LEMMA QuietKeeps ==
    ASSUME QueueInv, log \subseteq Jobs, UNCHANGED log, NEW p \in Processes, Quiet(p)
    PROVE  QueueInv'
<1>1. QueueShape'
  <2>1. CASE RecoverList(p)
    BY <2>1 DEF RecoverList, QueueInv, QueueShape, Labels, NoPayload, Move, Goto, Forget,
       SavePayload, lists, history, memory
  <2>2. CASE RecoverLoad(p)
    BY HeadLeaves, <2>2 DEF RecoverLoad, QueueInv, QueueShape, Labels, NoPayload, Move, Goto,
       Forget,
       SavePayload, lists, history, memory
  <2>3. CASE RecoverSave(p)
    BY <2>3 DEF RecoverSave, QueueInv, QueueShape, Labels, NoPayload, Move, Goto, Forget,
       SavePayload, lists, history, memory
  <2>4. CASE RecoverDone(p)
    BY <2>4 DEF RecoverDone, QueueInv, QueueShape, Labels, NoPayload, Move, Goto, Forget,
       SavePayload, lists, history, memory
  <2>5. CASE ClaimLoad(p)
    BY <2>5 DEF ClaimLoad, QueueInv, QueueShape, Labels, NoPayload, Move, Goto, Forget,
       SavePayload, lists, history, memory
  <2>6. CASE ClaimSave(p)
    BY <2>6 DEF ClaimSave, QueueInv, QueueShape, Labels, NoPayload, Move, Goto, Forget,
       SavePayload, lists, history, memory
  <2>7. CASE ProcessEnds(p, "complete")
    <3>0. job[p] \in log /\ runs[job[p]] \in Nat
      BY <2>7 DEF ProcessEnds, Move, QueueInv, QueueShape
    <3>1. runs[job[p]] + 1 \in Nat
      BY <3>0
    <3>2. /\ runs' = [runs EXCEPT ![job[p]] = runs[job[p]] + 1]
          /\ pc' = [pc EXCEPT ![p] = "complete"]
      BY <2>7 DEF ProcessEnds, Move, Goto
    <3> QED
      BY <2>7, <3>0, <3>1, <3>2 DEF ProcessEnds, QueueInv, QueueShape, Labels, lists
  <2>8. CASE ProcessEnds(p, "fail")
    <3>0. job[p] \in log /\ runs[job[p]] \in Nat
      BY <2>8 DEF ProcessEnds, Move, QueueInv, QueueShape
    <3>1. runs[job[p]] + 1 \in Nat
      BY <3>0
    <3>2. /\ runs' = [runs EXCEPT ![job[p]] = runs[job[p]] + 1]
          /\ pc' = [pc EXCEPT ![p] = "fail"]
      BY <2>8 DEF ProcessEnds, Move, Goto
    <3> QED
      BY <2>8, <3>0, <3>1, <3>2 DEF ProcessEnds, QueueInv, QueueShape, Labels, lists
  <2>9. CASE FailureHandled(p, "copy")
    BY <2>9 DEF FailureHandled, QueueInv, QueueShape, Labels, NoPayload, Move, Goto, lists, history,
       memory
  <2>15. CASE FailureHandled(p, "fail_save")
    BY <2>15 DEF FailureHandled, QueueInv, QueueShape, Labels, NoPayload, Move, Goto, lists, history,
       memory
  <2>16. CASE FileCopied(p)
    BY <2>16 DEF FileCopied, QueueInv, QueueShape, Labels, NoPayload, Move, Goto, lists, history,
       memory
  <2>10. CASE CompleteSave(p)
    BY <2>10 DEF CompleteSave, QueueInv, QueueShape, Labels, NoPayload, Move, Goto, Forget,
       SavePayload, lists, history, memory
  <2>11. CASE StateWritten(p)
    BY <2>11 DEF StateWritten, QueueInv, QueueShape, Labels, NoPayload, Move, Goto, Forget,
       SavePayload, lists, history, memory
  <2>12. CASE CompletionRaises(p)
    BY <2>12 DEF CompletionRaises, QueueInv, QueueShape, Labels, NoPayload, Move, Goto, Forget,
       SavePayload, lists, history, memory
  <2>13. CASE FailSave(p, "fail_save", "fail_remove")
    <3>0. job[p] \in log /\ attempts[p] \in Nat \cup {NoPayload}
      BY <2>13 DEF FailSave, Move, QueueInv, QueueShape
    <3>1. attempts[p] + 1 \in Nat
      BY <3>0 DEF NoPayload
    <3>2. pc' = [pc EXCEPT ![p] = "fail_remove"]
      BY <2>13 DEF FailSave, Move, Goto
    <3> QED
      BY <2>13, <3>0, <3>1, <3>2 DEF FailSave, QueueInv, QueueShape, Labels, lists, history
  <2>14. CASE FailSave(p, "fail_save_again", "fail_push")
    <3>0. job[p] \in log /\ attempts[p] \in Nat \cup {NoPayload}
      BY <2>14 DEF FailSave, Move, QueueInv, QueueShape
    <3>1. attempts[p] + 1 \in Nat
      BY <3>0 DEF NoPayload
    <3>2. pc' = [pc EXCEPT ![p] = "fail_push"]
      BY <2>14 DEF FailSave, Move, Goto
    <3> QED
      BY <2>14, <3>0, <3>1, <3>2 DEF FailSave, QueueInv, QueueShape, Labels, lists, history
  <2> QED
    BY <2>1, <2>2, <2>3, <2>4, <2>5, <2>6, <2>7, <2>8, <2>9, <2>10, <2>11, <2>12, <2>13,
       <2>14, <2>15, <2>16 DEF Quiet
<1>2. /\ UNCHANGED <<pending, processing, completed, failed, pushed, adrift>>
      /\ \A q \in Processes \ {p} : pc'[q] = pc[q] /\ job'[q] = job[q]
      /\ pc[p] \in {"complete_push", "fail", "copy", "fail_save", "fail_save_again"} =>
            pc'[p] \in {"fail", "copy", "fail_save", "fail_remove", "fail_push"} /\ job'[p] = job[p]
      /\ pc[p] \in {"down", "recover", "recover_save", "load", "stamp", "work", "complete",
                   "complete_remove", "complete_push", "state", "fail", "copy", "fail_save",
                   "fail_save_again"}
  <2>1. CASE RecoverList(p)
    BY <2>1 DEF RecoverList, QueueInv, QueueShape, Move, Goto, Forget, SavePayload, lists,
       history, memory
  <2>2. CASE RecoverLoad(p)
    BY <2>2 DEF RecoverLoad, QueueInv, QueueShape, Move, Goto, Forget, SavePayload, lists,
       history, memory
  <2>3. CASE RecoverSave(p)
    BY <2>3 DEF RecoverSave, QueueInv, QueueShape, Move, Goto, Forget, SavePayload, lists,
       history, memory
  <2>4. CASE RecoverDone(p)
    BY <2>4 DEF RecoverDone, QueueInv, QueueShape, Move, Goto, Forget, SavePayload, lists,
       history, memory
  <2>5. CASE ClaimLoad(p)
    BY <2>5 DEF ClaimLoad, QueueInv, QueueShape, Move, Goto, Forget, SavePayload, lists,
       history, memory
  <2>6. CASE ClaimSave(p)
    BY <2>6 DEF ClaimSave, QueueInv, QueueShape, Move, Goto, Forget, SavePayload, lists,
       history, memory
  <2>7. CASE ProcessEnds(p, "complete")
    BY <2>7 DEF ProcessEnds, QueueInv, QueueShape, Move, Goto, Forget, SavePayload, lists,
       history, memory
  <2>8. CASE ProcessEnds(p, "fail")
    BY <2>8 DEF ProcessEnds, QueueInv, QueueShape, Move, Goto, Forget, SavePayload, lists,
       history, memory
  <2>9. CASE FailureHandled(p, "copy")
    BY <2>9 DEF FailureHandled, QueueInv, QueueShape, Move, Goto, lists, history, memory
  <2>15. CASE FailureHandled(p, "fail_save")
    BY <2>15 DEF FailureHandled, QueueInv, QueueShape, Move, Goto, lists, history, memory
  <2>16. CASE FileCopied(p)
    BY <2>16 DEF FileCopied, QueueInv, QueueShape, Move, Goto, lists, history, memory
  <2>10. CASE CompleteSave(p)
    BY <2>10 DEF CompleteSave, QueueInv, QueueShape, Move, Goto, Forget, SavePayload, lists,
       history, memory
  <2>11. CASE StateWritten(p)
    BY <2>11 DEF StateWritten, QueueInv, QueueShape, Move, Goto, Forget, SavePayload, lists,
       history, memory
  <2>12. CASE CompletionRaises(p)
    BY <2>12 DEF CompletionRaises, QueueInv, QueueShape, Move, Goto, Forget, SavePayload, lists,
       history, memory
  <2>13. CASE FailSave(p, "fail_save", "fail_remove")
    BY <2>13 DEF FailSave, QueueInv, QueueShape, Move, Goto, Forget, SavePayload, lists,
       history, memory
  <2>14. CASE FailSave(p, "fail_save_again", "fail_push")
    BY <2>14 DEF FailSave, QueueInv, QueueShape, Move, Goto, Forget, SavePayload, lists,
       history, memory
  <2> QED
    BY <2>1, <2>2, <2>3, <2>4, <2>5, <2>6, <2>7, <2>8, <2>9, <2>10, <2>11, <2>12, <2>13,
       <2>14, <2>15, <2>16 DEF Quiet
<1>3. Listed' = Listed /\ Settled' = Settled
  BY <1>2 DEF Listed, Settled
<1>4. Carries(p) => Carries(p)' /\ job'[p] = job[p]
  BY <1>2 DEF Carries
<1> QED
  BY <1>1, <1>2, <1>3, <1>4, CustodyKept DEF QueueInv

(* A request enqueues: the payload, then the id. *)
LEMMA EnqueueSaveKeeps ==
    ASSUME QueueInv, UNCHANGED log, NEW j \in Jobs, EnqueueSave(j)
    PROVE  QueueInv'
<1>1. /\ UNCHANGED <<pending, processing, completed, failed, pc, job, attempts, ids,
                     pushed, runs, adrift>>
      /\ saved' = [saved EXCEPT ![j] = 0]
  BY DEF EnqueueSave, lists, memory, history
<1>2. QueueShape'
  BY <1>1 DEF QueueInv, QueueShape
<1> QED
  BY <1>1, <1>2 DEF QueueInv, NoJobLost, Listed, Carried, Settled, Carries

(* What is pushed is pending. *)
LEMMA EnqueuePushKeeps ==
    ASSUME QueueInv, UNCHANGED log, NEW j \in log, EnqueuePush(j)
    PROVE  QueueInv'
<1>1. /\ UNCHANGED <<processing, completed, failed, saved, pc, job, attempts, ids, runs,
                     adrift>>
      /\ pending' = Append(pending, j) /\ pushed' = pushed \cup {j}
  BY DEF EnqueuePush, memory
<1>2. Append(pending, j) \in Seq(log) /\ ToSet(Append(pending, j)) = ToSet(pending) \cup {j}
  BY AppendAdds DEF QueueInv, QueueShape
<1>3. QueueShape'
  BY <1>1, <1>2 DEF QueueInv, QueueShape
<1>4. Carried' = Carried /\ Settled' = Settled
  BY <1>1 DEF Carried, Carries, Settled
<1> QED
  BY <1>1, <1>2, <1>3, <1>4 DEF QueueInv, NoJobLost, Listed

----------------------------------------------------------------------------
(* Files, counts and results. *)

Covered(j) == PathOf(j) \in copied \cup half \/ j \in spoiled

Completing == {"complete", "complete_remove", "complete_push"}
Failing    == {"copy", "fail_save", "fail_remove", "fail_save_again", "fail_push"}

(* A worker completes what it has converted. *)
CompletingIsConverted ==
    \A p \in Processes : pc[p] \in Completing => BatchOf(job[p]) \in converted

(* Once a job has failed, its count says so wherever it is kept, and its   *)
(* file is covered; a job that never failed has its file, or lost it.      *)
FilesCovered   == \A j \in log : PathOf(j) \in raw \/ Covered(j)
CountsCovered  == \A j \in Jobs : saved[j] > 0 => j \in log /\ Covered(j)
MemoryCovered  == \A p \in Processes :
                     /\ attempts[p] > 0 => job[p] \in log /\ Covered(job[p])
                     /\ pc[p] \in Failing => Covered(job[p])
                     /\ pc[p] \in {"down", "recover", "ready"} => attempts[p] = 0

(* Retention never meets a request between its file and its metadata. *)
FilesAwaitLog == \A r \in Requests : phase[r] \in {"write", "append"} => PathOf(r) \in raw
DownIsQuiet   == pc[Server] # "ready" => LoopFree

WorkInv == /\ converted \subseteq Batches /\ spoiled \subseteq Requests
           /\ copied \subseteq RawFiles /\ half \subseteq RawFiles /\ budget \in 0..MaxFaults
           /\ CompletedIsConverted /\ CompletingIsConverted
           /\ GivenUpKeepsCopy
           /\ FilesCovered /\ CountsCovered /\ MemoryCovered
           /\ FilesAwaitLog /\ DownIsQuiet

Inv == StorageInv /\ QueueInv /\ WorkInv

(* No job has run. *)
LEMMA WorkInitially == Init => WorkInv
<1> SUFFICES ASSUME Init PROVE WorkInv
  OBVIOUS
<1>1. /\ converted = {} /\ copied = {} /\ half = {} /\ spoiled = {} /\ budget \in 0..MaxFaults
      /\ completed = {} /\ failed = {} /\ log = {}
      /\ \A j \in Jobs : saved[j] = -1
      /\ \A p \in Processes : pc[p] = "ready" /\ attempts[p] = 0
      /\ \A r \in Requests : phase[r] = "unsent"
  BY DEF Init, StorageInit, QueueInit, NoPayload, rest
<1>2. Server \in Processes
  BY DEF Processes
<1>3. CountsCovered
  BY <1>1 DEF CountsCovered
<1> QED
  BY <1>1, <1>2, <1>3 DEF WorkInv, CompletedIsConverted, CompletingIsConverted, Completing,
     GivenUpKeepsCopy, FilesCovered, MemoryCovered, Failing, FilesAwaitLog, DownIsQuiet

(* The steps of a process that moves ids and counts. *)
QueueMove(p) == Recover(p) \/ RecoverDone(p) \/ Claim(p) \/ Finish(p)

(* Counts move between memory and Redis; results only follow their cause. *)
LEMMA QueueMoveKeepsWork ==
    ASSUME Inv, NEW p \in Processes, p = Server => Recover(p) \/ RecoverDone(p),
           QueueMove(p), UNCHANGED <<storageVars, rest>>, budget' \in 0..MaxFaults
    PROVE  WorkInv'
<1>1. /\ UNCHANGED <<phase, slot, raw, log, converted, copied, half, spoiled>>
      /\ \A j : Covered(j)' = Covered(j) /\ PathOf(j)' = PathOf(j)
  BY DEF storageVars, rest, copies, Covered, PathOf
<1>2. log \subseteq Jobs
  BY DEF Inv, StorageInv, StorageTypeOK
<1>3. /\ CompletedIsConverted' /\ CompletingIsConverted' /\ GivenUpKeepsCopy'
      /\ CountsCovered' /\ MemoryCovered'
  <2>1. CASE RecoverList(p)
    BY <1>1, <1>2, <2>1 DEF RecoverList, Inv, QueueInv, QueueShape, WorkInv,
       CompletedIsConverted, CompletingIsConverted,
       Completing, GivenUpKeepsCopy, Covered, CountsCovered, MemoryCovered, Failing, NoPayload,
       Move, Goto, Forget, SavePayload, lists, history, memory
  <2>2. CASE RecoverLoad(p)
    BY <1>1, <1>2, <2>2, HeadLeaves DEF RecoverLoad, Inv, QueueInv, QueueShape, WorkInv,
       CompletedIsConverted, CompletingIsConverted,
       Completing, GivenUpKeepsCopy, Covered, CountsCovered, MemoryCovered, Failing, NoPayload,
       Move, Goto, Forget, SavePayload, lists, history, memory
  <2>3. CASE RecoverSave(p)
    BY <1>1, <1>2, <2>3 DEF RecoverSave, Inv, QueueInv, QueueShape, WorkInv,
       CompletedIsConverted, CompletingIsConverted,
       Completing, GivenUpKeepsCopy, Covered, CountsCovered, MemoryCovered, Failing, NoPayload,
       Move, Goto, Forget, SavePayload, lists, history, memory
  <2>4. CASE RecoverRemove(p)
    BY <1>1, <1>2, <2>4 DEF RecoverRemove, Inv, QueueInv, QueueShape, WorkInv,
       CompletedIsConverted, CompletingIsConverted,
       Completing, GivenUpKeepsCopy, Covered, CountsCovered, MemoryCovered, Failing, NoPayload,
       Move, Goto, Forget, SavePayload, lists, history, memory
  <2>5. CASE RecoverPush(p)
    BY <1>1, <1>2, <2>5 DEF RecoverPush, Inv, QueueInv, QueueShape, WorkInv,
       CompletedIsConverted, CompletingIsConverted,
       Completing, GivenUpKeepsCopy, Covered, CountsCovered, MemoryCovered, Failing, NoPayload,
       Move, Goto, Forget, SavePayload, lists, history, memory
  <2>6. CASE RecoverDone(p)
    BY <1>1, <1>2, <2>6 DEF RecoverDone, Inv, QueueInv, QueueShape, WorkInv,
       CompletedIsConverted, CompletingIsConverted,
       Completing, GivenUpKeepsCopy, Covered, CountsCovered, MemoryCovered, Failing, NoPayload,
       Move, Goto, Forget, SavePayload, lists, history, memory
  <2>7. CASE ClaimPop(p)
    BY <1>1, <1>2, <2>7, HeadLeaves DEF ClaimPop, Inv, QueueInv, QueueShape, WorkInv,
       CompletedIsConverted, CompletingIsConverted,
       Completing, GivenUpKeepsCopy, Covered, CountsCovered, MemoryCovered, Failing, NoPayload,
       Move, Goto, Forget, SavePayload, lists, history, memory
  <2>8. CASE ClaimPush(p)
    BY <1>1, <1>2, <2>8 DEF ClaimPush, Inv, QueueInv, QueueShape, WorkInv, CompletedIsConverted,
       CompletingIsConverted,
       Completing, GivenUpKeepsCopy, Covered, CountsCovered, MemoryCovered, Failing, NoPayload,
       Move, Goto, Forget, SavePayload, lists, history, memory
  <2>9. CASE ClaimLoad(p)
    BY <1>1, <1>2, <2>9 DEF ClaimLoad, Inv, QueueInv, QueueShape, WorkInv, CompletedIsConverted,
       CompletingIsConverted,
       Completing, GivenUpKeepsCopy, Covered, CountsCovered, MemoryCovered, Failing, NoPayload,
       Move, Goto, Forget, SavePayload, lists, history, memory
  <2>10. CASE ClaimSave(p)
    BY <1>1, <1>2, <2>10 DEF ClaimSave, Inv, QueueInv, QueueShape, WorkInv,
       CompletedIsConverted, CompletingIsConverted,
       Completing, GivenUpKeepsCopy, Covered, CountsCovered, MemoryCovered, Failing, NoPayload,
       Move, Goto, Forget, SavePayload, lists, history, memory
  <2>11. CASE CompleteSave(p)
    BY <1>1, <1>2, <2>11 DEF CompleteSave, Inv, QueueInv, QueueShape, WorkInv,
       CompletedIsConverted, CompletingIsConverted,
       Completing, GivenUpKeepsCopy, Covered, CountsCovered, MemoryCovered, Failing, NoPayload,
       Move, Goto, Forget, SavePayload, lists, history, memory
  <2>12. CASE CompleteRemove(p)
    BY <1>1, <1>2, <2>12 DEF CompleteRemove, Inv, QueueInv, QueueShape, WorkInv,
       CompletedIsConverted, CompletingIsConverted,
       Completing, GivenUpKeepsCopy, Covered, CountsCovered, MemoryCovered, Failing, NoPayload,
       Move, Goto, Forget, SavePayload, lists, history, memory
  <2>13. CASE CompletePush(p)
    BY <1>1, <1>2, <2>13 DEF CompletePush, Inv, QueueInv, QueueShape, WorkInv,
       CompletedIsConverted, CompletingIsConverted,
       Completing, GivenUpKeepsCopy, Covered, CountsCovered, MemoryCovered, Failing, NoPayload,
       Move, Goto, Forget, SavePayload, lists, history, memory
  <2>14. CASE FailSave(p, "fail_save", "fail_remove")
    BY <1>1, <1>2, <2>14 DEF FailSave, Inv, QueueInv, QueueShape, WorkInv, CompletedIsConverted,
       CompletingIsConverted,
       Completing, GivenUpKeepsCopy, Covered, CountsCovered, MemoryCovered, Failing, NoPayload,
       Move, Goto, Forget, SavePayload, lists, history, memory
  <2>15. CASE FailRemove(p)
    BY <1>1, <1>2, <2>15 DEF FailRemove, Inv, QueueInv, QueueShape, WorkInv,
       CompletedIsConverted, CompletingIsConverted,
       Completing, GivenUpKeepsCopy, Covered, CountsCovered, MemoryCovered, Failing, NoPayload,
       Move, Goto, Forget, SavePayload, lists, history, memory
  <2>16. CASE FailSave(p, "fail_save_again", "fail_push")
    BY <1>1, <1>2, <2>16 DEF FailSave, Inv, QueueInv, QueueShape, WorkInv, CompletedIsConverted,
       CompletingIsConverted,
       Completing, GivenUpKeepsCopy, Covered, CountsCovered, MemoryCovered, Failing, NoPayload,
       Move, Goto, Forget, SavePayload, lists, history, memory
  <2>17. CASE FailPush(p)
    BY <1>1, <1>2, <2>17 DEF FailPush, Inv, QueueInv, QueueShape, WorkInv, CompletedIsConverted,
       CompletingIsConverted,
       Completing, GivenUpKeepsCopy, Covered, CountsCovered, MemoryCovered, Failing, NoPayload,
       Move, Goto, Forget, SavePayload, lists, history, memory
  <2> QED
    BY <2>1, <2>2, <2>3, <2>4, <2>5, <2>6, <2>7, <2>8, <2>9, <2>10, <2>11, <2>12, <2>13, <2>14,
       <2>15, <2>16, <2>17
       DEF QueueMove, Recover, Claim, Finish
<1>6. DownIsQuiet'
  <2>1. pc'[Server] # "ready" => pc[Server] # "ready"
    <3>1. CASE p = Server
      BY <3>1 DEF Recover, RecoverList, RecoverLoad, RecoverSave, RecoverRemove, RecoverPush,
         RecoverDone, Move
    <3>2. CASE p # Server
      BY <3>2 DEF QueueMove, Recover, RecoverList, RecoverLoad, RecoverSave, RecoverRemove,
         RecoverPush, RecoverDone, Claim, ClaimPop, ClaimPush, ClaimLoad, ClaimSave, Finish,
         CompleteSave, CompleteRemove, CompletePush, FailSave, FailRemove, FailPush, Move,
         Goto, Processes, Inv, QueueInv, QueueShape
    <3> QED
      BY <3>1, <3>2
  <2> QED
    BY <1>1, <2>1 DEF Inv, WorkInv, DownIsQuiet, LoopFree
<1>7. FilesCovered' /\ FilesAwaitLog'
  BY <1>1 DEF Inv, WorkInv, FilesCovered, FilesAwaitLog
<1> QED
  BY <1>1, <1>3, <1>6, <1>7 DEF Inv, WorkInv

(* A request's step: no file goes, and what is logged has its file.        *)
LEMMA RequestKeepsWork ==
    ASSUME Inv, budget' \in 0..MaxFaults,
           UNCHANGED <<completed, failed, pc, job, attempts, rest>>,
           raw \subseteq raw', log \subseteq log',
           \A j \in log : PathOf(j)' = PathOf(j),
           \A j \in log' \ log : PathOf(j)' \in raw',
           \A j \in Jobs : saved'[j] > 0 => saved'[j] = saved[j],
           FilesAwaitLog', DownIsQuiet'
    PROVE  WorkInv'
<1>1. UNCHANGED <<completed, failed, pc, job, attempts, converted, copied, half, spoiled>>
  BY DEF rest, copies
<1>2. \A j \in log : Covered(j)' = Covered(j)
  BY <1>1 DEF Covered
<1>3. \A p \in Processes : pc[p] \in Failing => job[p] \in log
  BY DEF Inv, QueueInv, QueueShape, Failing
<1>4. failed \subseteq log /\ job \in [Processes -> log \cup {NoJob}]
  BY DEF Inv, QueueInv, QueueShape
<1>5. CompletedIsConverted' /\ CompletingIsConverted'
  BY <1>1 DEF Inv, WorkInv, CompletedIsConverted, CompletingIsConverted
<1>6. GivenUpKeepsCopy'
  BY <1>1, <1>2, <1>4 DEF Inv, WorkInv, GivenUpKeepsCopy, Covered
<1>7. FilesCovered'
  BY <1>2 DEF Inv, WorkInv, FilesCovered
<1>8. CountsCovered'
  BY <1>2 DEF Inv, WorkInv, CountsCovered
<1>9. MemoryCovered'
  BY <1>1, <1>2, <1>3 DEF Inv, WorkInv, MemoryCovered
<1> QED
  BY <1>1, <1>5, <1>6, <1>7, <1>8, <1>9 DEF Inv, WorkInv

(* A client that sends, or gives up waiting. *)
LEMMA ClientKeeps == ASSUME Inv, NEW b \in Batches, Client(b) PROVE Inv'
<1>1. /\ UNCHANGED <<queueVars, rest>> /\ budget' \in 0..MaxFaults
      /\ Send(b) \/ TimeOut(b)
  BY DEF Client, Fault, Inv, WorkInv
<1>2. UNCHANGED <<slot, raw, log, saved, completed, failed, pc, job, attempts, pushed>>
  BY <1>1 DEF queueVars, lists, memory, history, Send, TimeOut, client
<1>3. StorageInv' /\ QueueInv'
  BY <1>1, <1>2, SendKeepsStorage, TimeOutKeepsStorage, LogKeepsQueue DEF Inv
<1>4. \A r \in Requests : phase'[r] \in Written => phase'[r] = phase[r]
  BY <1>1 DEF Send, TimeOut, Inv, StorageInv, StorageTypeOK, Written
<1>5. FilesAwaitLog' /\ DownIsQuiet'
  BY <1>2, <1>4 DEF Inv, WorkInv, FilesAwaitLog, DownIsQuiet, LoopFree, OnLoop, Written,
     PathOf
<1>6. WorkInv'
  BY <1>1, <1>2, <1>5, RequestKeepsWork DEF PathOf
<1> QED
  BY <1>3, <1>6 DEF Inv

(* A step of save_upload while the server is up. *)
LEMMA HandleKeeps == ASSUME Inv, NEW r \in Requests, Handle(r) PROVE Inv'
<1>1. /\ pc[Server] = "ready" /\ UNCHANGED <<rest, budget>> /\ budget \in 0..MaxFaults
      /\ r \in Jobs
  BY DEF Handle, Up, Inv, WorkInv
<1>2. CASE StorageStep(r) /\ UNCHANGED queueVars
  <2>1. UNCHANGED <<saved, completed, failed, pc, job, attempts, pushed>>
    BY <1>2 DEF queueVars, lists, memory, history
  <2>2. StorageInv'
    BY <1>2, <2>1, LookupKeepsStorage, OpenKeepsStorage, WriteKeepsStorage, AppendKeepsStorage,
       RememberKeepsStorage, AnswerKeepsStorage DEF StorageStep, Inv
  <2>3. /\ raw \subseteq raw' /\ log \subseteq log'
        /\ \A j \in log : PathOf(j)' = PathOf(j)
        /\ \A j \in log' \ log : PathOf(j)' \in raw'
        /\ FilesAwaitLog'
    <3>1. CASE Lookup(r)
      <4>1. r \notin log /\ UNCHANGED <<raw, log>>
        BY <3>1 DEF Lookup, Inv, StorageInv, LogFollows, Logged
      <4>2. \A q \in Requests : q # r => slot'[q] = slot[q] /\ phase'[q] = phase[q]
        BY <3>1 DEF Lookup, Inv, StorageInv, StorageTypeOK
      <4>3. phase'[r] \notin {"write", "append"}
        BY <3>1 DEF Lookup, Inv, StorageInv, StorageTypeOK
      <4> QED
        BY <4>1, <4>2, <4>3 DEF Inv, StorageInv, StorageTypeOK, WorkInv, FilesAwaitLog, PathOf
    <3>6. CASE OpenRaw(r)
      BY <3>6 DEF OpenRaw, Advance, Inv, StorageInv, StorageTypeOK, WorkInv, FilesAwaitLog,
         PathOf
    <3>2. CASE WriteRaw(r)
      BY <3>2 DEF WriteRaw, Advance, Inv, StorageInv, StorageTypeOK, WorkInv, FilesAwaitLog,
         PathOf
    <3>3. CASE AppendMetadata(r)
      BY <3>3 DEF AppendMetadata, Advance, Inv, StorageInv, StorageTypeOK, WorkInv,
         FilesAwaitLog, PathOf
    <3>4. CASE Remember(r)
      BY <3>4 DEF Remember, Advance, Inv, StorageInv, StorageTypeOK, WorkInv, FilesAwaitLog,
         PathOf
    <3>5. CASE Answer(r)
      BY <3>5 DEF Answer, Inv, StorageInv, StorageTypeOK, WorkInv, FilesAwaitLog, PathOf
    <3> QED
      BY <1>2, <3>1, <3>2, <3>3, <3>4, <3>5, <3>6 DEF StorageStep
  <2>4. QueueInv'
    BY <1>2, <2>3, LogKeepsQueue DEF Inv
  <2>5. WorkInv'
    BY <1>1, <2>1, <2>3, RequestKeepsWork DEF DownIsQuiet
  <2> QED
    BY <2>2, <2>4, <2>5 DEF Inv
<1>3. CASE Enqueue(r, "save", "push") /\ EnqueueSave(r)
  <2>1. /\ UNCHANGED <<tried, awaiting, acked, slot, raw, log, index, short, beside, keyless,
                       completed, failed, pc, job, attempts, pushed>>
        /\ phase[r] = "save" /\ phase' = [phase EXCEPT ![r] = "push"]
        /\ saved' = [saved EXCEPT ![r] = 0]
    BY <1>3 DEF Enqueue, Advance, EnqueueSave, lists, memory, history, client
  <2>2. StorageInv'
    BY <2>1, MoveKeepsStorage DEF Inv
  <2>3. QueueInv'
    BY <1>1, <1>3, <2>1, EnqueueSaveKeeps DEF Inv
  <2>4. FilesAwaitLog'
    BY <2>1 DEF Inv, StorageInv, StorageTypeOK, WorkInv, FilesAwaitLog, PathOf
  <2>5. \A j \in Jobs : saved'[j] > 0 => saved'[j] = saved[j]
    BY <1>1, <2>1 DEF Inv, QueueInv, QueueShape
  <2>6. WorkInv'
    BY <1>1, <2>1, <2>4, <2>5, RequestKeepsWork DEF DownIsQuiet, PathOf
  <2> QED
    BY <2>2, <2>3, <2>6 DEF Inv
<1>4. CASE Enqueue(r, "push", "remember") /\ EnqueuePush(r)
  <2>1. /\ UNCHANGED <<tried, awaiting, acked, slot, raw, log, index, short, beside, keyless,
                       completed, failed, saved, pc, job, attempts>>
        /\ phase[r] = "push" /\ phase' = [phase EXCEPT ![r] = "remember"]
        /\ pushed' = pushed \cup {r}
    BY <1>4 DEF Enqueue, Advance, EnqueuePush, memory, client
  <2>2. StorageInv'
    BY <1>4, <2>1, EnqueueKeepsStorage DEF Inv
  <2>3. r \in log
    BY <2>1 DEF Inv, StorageInv, LogFollows
  <2>4. QueueInv'
    BY <1>4, <2>1, <2>3, EnqueuePushKeeps DEF Inv
  <2>5. FilesAwaitLog'
    BY <2>1 DEF Inv, StorageInv, StorageTypeOK, WorkInv, FilesAwaitLog, PathOf
  <2>6. WorkInv'
    BY <1>1, <2>1, <2>5, RequestKeepsWork DEF DownIsQuiet, PathOf
  <2> QED
    BY <2>2, <2>4, <2>6 DEF Inv
<1> QED
  BY <1>2, <1>3, <1>4 DEF Handle

(* A body that is refused leaves nothing behind. *)
LEMMA GarbledKeeps == ASSUME Inv, NEW r \in Requests, HandleGarbled(r) PROVE Inv'
<1>1. /\ UNCHANGED <<tried, awaiting, acked, slot, raw, log, index, short, beside, keyless,
                     completed, failed, saved, pc, job, attempts, pushed>>
      /\ phase[r] = "reading" /\ phase' = [phase EXCEPT ![r] = "refused"]
      /\ pc[Server] = "ready" /\ budget' \in 0..MaxFaults
      /\ UNCHANGED <<queueVars, rest>>
  BY DEF HandleGarbled, Refuse, Advance, client, queueVars, lists, memory, history, Up, Fault, Inv,
     WorkInv
<1>2. StorageInv' /\ QueueInv'
  BY <1>1, MoveKeepsStorage, LogKeepsQueue DEF Inv
<1>3. FilesAwaitLog'
  BY <1>1 DEF Inv, StorageInv, StorageTypeOK, WorkInv, FilesAwaitLog, PathOf
<1>4. WorkInv'
  BY <1>1, <1>3, RequestKeepsWork DEF DownIsQuiet, PathOf
<1> QED
  BY <1>2, <1>4 DEF Inv

(* A request that raises ends, with its file and its job as they are. *)
LEMMA RaisesKeeps == ASSUME Inv, NEW r \in Requests, HandleRaises(r) PROVE Inv'
<1>1. /\ UNCHANGED <<slot, raw, log, completed, failed, saved, pc, job, attempts, pushed>>
      /\ phase' = [phase EXCEPT ![r] = "refused"]
      /\ pc[Server] = "ready" /\ budget' \in 0..MaxFaults
      /\ Raise(r) /\ UNCHANGED <<queueVars, rest>>
  BY DEF HandleRaises, Raise, queueVars, lists, memory, history, Up, Fault, Inv, WorkInv
<1>2. StorageInv' /\ QueueInv'
  BY <1>1, RaiseKeepsStorage, LogKeepsQueue DEF Inv
<1>3. FilesAwaitLog'
  BY <1>1 DEF Inv, StorageInv, StorageTypeOK, WorkInv, FilesAwaitLog, PathOf
<1>4. WorkInv'
  BY <1>1, <1>3, RequestKeepsWork DEF DownIsQuiet, PathOf
<1> QED
  BY <1>2, <1>4 DEF Inv

(* Retention takes files, never a count: what it takes of a job that never *)
(* failed is known to be spoiled.                                          *)
LEMMA ExpireKeepsWork ==
    ASSUME Inv, budget' \in 0..MaxFaults, Expire, LoopFree,
           UNCHANGED <<completed, failed, saved, job, attempts>>,
           pc' = pc \/ (pc[Server] = "recover" /\ pc' = [pc EXCEPT ![Server] = "ready"])
    PROVE  WorkInv'
<1>1. /\ raw' = raw \ raw
      /\ spoiled' = spoiled \cup {r \in log : PathOf(r) \in raw /\ saved[r] <= 0}
      /\ UNCHANGED <<phase, slot, log, converted, copied, half>>
  BY DEF Expire, Clean, copies
<1>2. log \subseteq Requests /\ \A j \in log : saved[j] \in Int
  BY DEF Inv, StorageInv, StorageTypeOK, QueueInv, QueueShape, NoPayload
<1>3. \A j : PathOf(j)' = PathOf(j) /\ (Covered(j) => Covered(j)')
  BY <1>1 DEF Covered, PathOf
<1>4. FilesCovered'
  <2> SUFFICES ASSUME NEW j \in log PROVE Covered(j)'
    BY <1>1 DEF FilesCovered
  <2>1. CASE PathOf(j) \in raw /\ saved[j] <= 0
    BY <1>1, <2>1 DEF Covered
  <2>2. CASE saved[j] > 0
    BY <1>2, <1>3, <2>2 DEF Inv, WorkInv, CountsCovered
  <2>3. CASE PathOf(j) \notin raw
    BY <1>3, <2>3 DEF Inv, WorkInv, FilesCovered
  <2> QED
    BY <1>2, <2>1, <2>2, <2>3
<1>5. \A p \in Processes : pc'[p] = pc[p] \/ (pc[p] = "recover" /\ pc'[p] = "ready")
  BY DEF Inv, QueueInv, QueueShape
<1>6. CompletedIsConverted' /\ CompletingIsConverted'
  BY <1>1, <1>5
  DEF Inv, WorkInv, CompletedIsConverted, CompletingIsConverted, Completing
<1>7. GivenUpKeepsCopy'
  BY <1>1, <1>3 DEF Inv, WorkInv, GivenUpKeepsCopy, Covered
<1>8. CountsCovered'
  BY <1>1, <1>3 DEF Inv, WorkInv, CountsCovered
<1>9. MemoryCovered'
  BY <1>1, <1>3, <1>5 DEF Inv, WorkInv, MemoryCovered, Failing
<1>10. FilesAwaitLog' /\ DownIsQuiet'
  BY <1>1 DEF LoopFree, OnLoop, FilesAwaitLog, DownIsQuiet
<1>11. spoiled' \subseteq Requests
  BY <1>1, <1>2 DEF Inv, WorkInv
<1> QED
  BY <1>1, <1>4, <1>6, <1>7, <1>8, <1>9, <1>10, <1>11 DEF Inv, WorkInv

(* Retention runs while no request is between its file and its answer. *)
LEMMA MaintenanceKeeps == ASSUME Inv, Maintenance PROVE Inv'
<1>1. /\ LoopFree /\ Expire /\ budget' \in 0..MaxFaults
      /\ UNCHANGED <<log, queueVars>>
      /\ UNCHANGED <<completed, failed, saved, job, attempts, pc, pushed>>
  BY DEF Maintenance, Fault, Expire, Clean, queueVars, lists, memory, history, Inv, WorkInv
<1>2. StorageInv' /\ QueueInv'
  BY <1>1, CleanKeepsStorage, LogKeepsQueue DEF Inv, Expire
<1> QED
  BY <1>1, <1>2, ExpireKeepsWork DEF Inv

(* A process of the queue moves ids and counts, and nothing else. *)
LEMMA QueueMoveKeeps ==
    ASSUME Inv, NEW p \in Processes, p = Server => Recover(p) \/ RecoverDone(p),
           QueueMove(p), UNCHANGED <<storageVars, rest, budget>>
    PROVE  Inv'
<1>1. /\ UNCHANGED <<log, pushed>> /\ log \subseteq Jobs /\ budget' \in 0..MaxFaults
  BY DEF storageVars, QueueMove, Recover, RecoverList, RecoverLoad, RecoverSave,
     RecoverRemove, RecoverPush, RecoverDone, Claim, ClaimPop, ClaimPush, ClaimLoad,
     ClaimSave, Finish, CompleteSave, CompleteRemove, CompletePush, FailSave, FailRemove,
     FailPush, history, Inv, StorageInv, StorageTypeOK, WorkInv
<1>2. StorageInv'
  BY <1>1, OthersKeepStorage DEF Inv
<1>3. QueueInv'
  BY <1>1, QuietKeeps, RecoverRemoveKeeps, CompleteRemoveKeeps, FailRemoveKeeps,
     RecoverPushKeeps, ClaimPushKeeps, ClaimPopKeeps, CompletePushKeeps, FailPushKeeps
  DEF Inv, QueueMove, Recover, Claim, Finish, Quiet
<1>4. WorkInv'
  BY <1>1, QueueMoveKeepsWork
<1> QED
  BY <1>2, <1>3, <1>4 DEF Inv

(* The server recovers, and may clean up before it listens. *)
LEMMA ServerStartsKeeps == ASSUME Inv, ServerStarts PROVE Inv'
<1>1. Server \in Processes
  BY DEF Processes
<1>2. CASE (Recover(Server) \/ RecoverDone(Server)) /\ UNCHANGED <<storageVars, rest, budget>>
  BY <1>1, <1>2, QueueMoveKeeps DEF QueueMove
<1>3. CASE RecoverDone(Server) /\ Fault("expiry") /\ Expire
  <2>1. /\ UNCHANGED <<log, pushed, completed, failed, saved, job, attempts>>
        /\ pc[Server] = "recover" /\ pc' = [pc EXCEPT ![Server] = "ready"]
        /\ budget' \in 0..MaxFaults
    BY <1>3 DEF RecoverDone, Move, Goto, lists, history, Expire, Clean, Fault, Inv, WorkInv
  <2>2. LoopFree /\ log \subseteq Jobs
    BY <2>1 DEF Inv, WorkInv, DownIsQuiet, StorageInv, StorageTypeOK
  <2>3. StorageInv'
    BY <1>3, <2>1, CleanKeepsStorage DEF Inv, Expire
  <2>4. QueueInv'
    BY <1>1, <1>3, <2>1, <2>2, QuietKeeps DEF Inv, Quiet
  <2>5. WorkInv'
    BY <1>3, <2>1, <2>2, ExpireKeepsWork
  <2> QED
    BY <2>3, <2>4, <2>5 DEF Inv
<1> QED
  BY <1>2, <1>3 DEF ServerStarts, ServerReady

(* A process dies; with the server, its requests. *)
LEMMA DeathKeepsWork ==
    ASSUME Inv, NEW p \in Processes, Die(p), budget' \in 0..MaxFaults,
           IF p = Server THEN StorageCrash ELSE UNCHANGED storageVars,
           UNCHANGED rest
    PROVE  WorkInv'
<1>1. UNCHANGED <<slot, raw, log, converted, copied, half, spoiled, completed, failed, saved>>
  BY DEF Die, lists, rest, copies, StorageCrash, storageVars
<1>2. /\ pc' = [pc EXCEPT ![p] = "down"] /\ job' = [job EXCEPT ![p] = NoJob]
      /\ attempts' = [attempts EXCEPT ![p] = 0]
      /\ pc \in [Processes -> Labels] /\ job \in [Processes -> log \cup {NoJob}]
      /\ attempts \in [Processes -> Nat \cup {NoPayload}] /\ log \subseteq Jobs
  BY DEF Die, Goto, Forget, Inv, QueueInv, QueueShape, StorageInv, StorageTypeOK
<1>5. \A j : Covered(j)' = Covered(j) /\ PathOf(j)' = PathOf(j)
  BY <1>1 DEF Covered, PathOf
<1>6. \A r \in Requests : phase'[r] \in OnLoop => phase'[r] = phase[r] /\ p # Server
  BY DEF StorageCrash, storageVars, OnLoop, Open, Inv, StorageInv, StorageTypeOK
<1>7. CompletedIsConverted' /\ CompletingIsConverted'
  BY <1>1, <1>2 DEF Inv, WorkInv, CompletedIsConverted, CompletingIsConverted, Completing
<1>8. GivenUpKeepsCopy' /\ FilesCovered' /\ CountsCovered'
  BY <1>1, <1>5 DEF Inv, WorkInv, GivenUpKeepsCopy, Covered, FilesCovered, CountsCovered
<1>9. MemoryCovered'
  BY <1>1, <1>2, <1>5 DEF Inv, WorkInv, MemoryCovered, Failing
<1>10. FilesAwaitLog'
  BY <1>5, <1>6, <1>1 DEF Inv, WorkInv, FilesAwaitLog, OnLoop
<1>11. DownIsQuiet'
  BY <1>2, <1>6 DEF Inv, WorkInv, DownIsQuiet, LoopFree, Processes
<1> QED
  BY <1>1, <1>7, <1>8, <1>9, <1>10, <1>11 DEF Inv, WorkInv

(* The worker converts, or ends what follows. *)
LEMMA ProcessKeepsWork == ASSUME Inv, NEW w \in Workers, Process(w) PROVE WorkInv'
<1>1. /\ UNCHANGED <<phase, slot, raw, log, completed, failed, saved, spoiled, copied, half, job,
                     attempts>>
      /\ budget' \in 0..MaxFaults /\ w \in Processes /\ w # Server
      /\ \/ /\ pc' = [pc EXCEPT ![w] = "complete"]
            /\ converted' = converted \cup {BatchOf(job[w])}
         \/ pc' = [pc EXCEPT ![w] = "fail"] /\ converted' = converted
  BY DEF Process, ProcessEnds, Move, Goto, lists, storageVars, copies, Fault, Inv, WorkInv,
     Processes
<1>2. /\ pc \in [Processes -> Labels] /\ job \in [Processes -> log \cup {NoJob}]
      /\ Server \in Processes
      /\ \A j : PathOf(j)' = PathOf(j) /\ Covered(j)' = Covered(j)
  BY <1>1 DEF Inv, QueueInv, QueueShape, Processes, PathOf, Covered
<1>3. job[w] \in log /\ BatchOf(job[w]) \in Batches
  BY <1>1, RequestIs
  DEF Process, ProcessEnds, Move, Inv, StorageInv, StorageTypeOK, QueueInv, QueueShape
<1>4. CompletedIsConverted' /\ CompletingIsConverted' /\ converted' \subseteq Batches
  BY <1>1, <1>2, <1>3
  DEF Inv, WorkInv, CompletedIsConverted, CompletingIsConverted, Completing
<1>5. GivenUpKeepsCopy' /\ FilesCovered' /\ CountsCovered'
  BY <1>1, <1>2
  DEF Inv, WorkInv, GivenUpKeepsCopy, Covered, FilesCovered, CountsCovered
<1>6. MemoryCovered'
  BY <1>1, <1>2 DEF Inv, WorkInv, MemoryCovered, Failing
<1>7. FilesAwaitLog' /\ DownIsQuiet'
  BY <1>1, <1>2 DEF Inv, WorkInv, FilesAwaitLog, DownIsQuiet, LoopFree
<1> QED
  BY <1>1, <1>4, <1>5, <1>6, <1>7 DEF Inv, WorkInv

(* It copies the file, unless a copy is there. *)
LEMMA FailureKeepsWork ==
    ASSUME Inv, NEW w \in Workers, HandleFailure(w), ~FailureRaises(w) PROVE WorkInv'
<1>1. /\ UNCHANGED <<phase, slot, raw, log, completed, failed, saved, spoiled, converted, job,
                     attempts, budget>>
      /\ w \in Processes /\ w # Server /\ pc[w] \in {"fail", "copy"}
      /\ pc' = [pc EXCEPT ![w] = "copy"] \/ pc' = [pc EXCEPT ![w] = "fail_save"]
  BY DEF HandleFailure, BeginCopy, EndCopy, FailureHandled, FileCopied, Move, Goto, lists,
     storageVars, Processes
<1>2. /\ pc \in [Processes -> Labels] /\ job \in [Processes -> log \cup {NoJob}]
      /\ Server \in Processes /\ job[w] \in log /\ log \subseteq Requests
      /\ \A j : PathOf(j)' = PathOf(j)
  BY <1>1 DEF Inv, QueueInv, QueueShape, StorageInv, StorageTypeOK, Processes, PathOf
<1>3. /\ copied \cup half \subseteq copied' \cup half'
      /\ \/ copied' \cup half' = copied \cup half \cup {PathOf(job[w])}
         \/ /\ UNCHANGED copies
            /\ pc[w] = "copy" \/ PathOf(job[w]) \notin raw \/ PathOf(job[w]) \in copied \cup half
  BY DEF HandleFailure, BeginCopy, EndCopy, FailureHandled, FileCopied, Move, CopyNeeded, copies
<1>4. \A j : Covered(j) => Covered(j)'
  BY <1>1, <1>2, <1>3 DEF Covered
<1>5. \A j : j = job[w] => Covered(j)'
  <2>1. CASE copied' \cup half' = copied \cup half \cup {PathOf(job[w])}
    BY <1>2, <2>1 DEF Covered
  <2>2. CASE pc[w] = "copy"
    BY <1>1, <1>4, <2>2 DEF Inv, WorkInv, MemoryCovered, Failing
  <2>3. CASE PathOf(job[w]) \notin raw \/ PathOf(job[w]) \in copied \cup half
    BY <1>2, <1>4, <2>3 DEF Inv, WorkInv, FilesCovered, Covered
  <2> QED
    BY <1>3, <2>1, <2>2, <2>3
<1>6. copied' \subseteq RawFiles /\ half' \subseteq RawFiles
  <2>1. raw \subseteq RawFiles /\ copied \subseteq RawFiles /\ half \subseteq RawFiles
    BY DEF Inv, StorageInv, StorageTypeOK, WorkInv
  <2>2. PathOf(job[w]) \in RawFiles
    BY <1>2, RequestIs DEF PathOf, RawFiles, Inv, StorageInv, SlotsAreNumbers
  <2> QED
    BY <2>1, <2>2 DEF HandleFailure, BeginCopy, EndCopy, copies
<1>7. CompletedIsConverted' /\ CompletingIsConverted'
  BY <1>1, <1>2 DEF Inv, WorkInv, CompletedIsConverted, CompletingIsConverted, Completing
<1>8. GivenUpKeepsCopy' /\ FilesCovered' /\ CountsCovered'
  <2>1. \A j \in failed : Covered(j)
    BY DEF Inv, WorkInv, GivenUpKeepsCopy, Covered
  <2>2. GivenUpKeepsCopy'
    BY <1>1, <1>4, <2>1 DEF GivenUpKeepsCopy, Covered
  <2> QED
    BY <1>1, <1>2, <1>4, <2>2 DEF Inv, WorkInv, FilesCovered, CountsCovered
<1>9. MemoryCovered'
  BY <1>1, <1>2, <1>4, <1>5 DEF Inv, WorkInv, MemoryCovered, Failing
<1>10. FilesAwaitLog' /\ DownIsQuiet'
  BY <1>1, <1>2 DEF Inv, WorkInv, FilesAwaitLog, DownIsQuiet, LoopFree
<1> QED
  BY <1>1, <1>6, <1>7, <1>8, <1>9, <1>10 DEF Inv, WorkInv

(* It writes its heartbeat, or raises before that. *)
LEMMA CompleteKeepsWork == ASSUME Inv, NEW w \in Workers, Complete(w) PROVE WorkInv'
<1>1. /\ UNCHANGED <<phase, slot, raw, log, completed, failed, saved, spoiled, converted, copied,
                     half>>
      /\ budget' \in 0..MaxFaults /\ w \in Processes /\ w # Server
      /\ pc[w] \in {"complete", "complete_remove", "complete_push", "state"}
      /\ \/ /\ pc' = [pc EXCEPT ![w] = "ready"] /\ job' = [job EXCEPT ![w] = NoJob]
            /\ attempts' = [attempts EXCEPT ![w] = 0]
         \/ pc' = [pc EXCEPT ![w] = "fail"] /\ UNCHANGED <<job, attempts>>
  BY DEF Complete, StateWritten, CompletionRaises, Move, Goto, Forget, lists, storageVars, rest,
     copies, Fault, Inv, WorkInv, Processes
<1>2. /\ pc \in [Processes -> Labels] /\ job \in [Processes -> log \cup {NoJob}]
      /\ attempts \in [Processes -> Nat \cup {NoPayload}] /\ Server \in Processes
      /\ \A j : PathOf(j)' = PathOf(j) /\ Covered(j)' = Covered(j)
  BY <1>1 DEF Inv, QueueInv, QueueShape, Processes, PathOf, Covered
<1>3. CompletedIsConverted' /\ CompletingIsConverted'
  BY <1>1, <1>2
  DEF Inv, WorkInv, CompletedIsConverted, CompletingIsConverted, Completing
<1>4. GivenUpKeepsCopy' /\ FilesCovered' /\ CountsCovered'
  BY <1>1, <1>2
  DEF Inv, WorkInv, GivenUpKeepsCopy, Covered, FilesCovered, CountsCovered
<1>5. MemoryCovered'
  <2>1. /\ pc'[w] \in {"ready", "fail"} /\ (pc'[w] = "ready" => attempts'[w] = 0)
        /\ attempts'[w] = 0 \/ (attempts'[w] = attempts[w] /\ job'[w] = job[w])
        /\ \A p \in Processes \ {w} : /\ pc'[p] = pc[p] /\ job'[p] = job[p]
                                     /\ attempts'[p] = attempts[p]
    BY <1>1, <1>2
  <2> QED
    BY <1>1, <1>2, <2>1 DEF Inv, WorkInv, MemoryCovered, Failing
<1>6. FilesAwaitLog' /\ DownIsQuiet'
  BY <1>1, <1>2 DEF Inv, WorkInv, FilesAwaitLog, DownIsQuiet, LoopFree
<1> QED
  BY <1>1, <1>3, <1>4, <1>5, <1>6 DEF Inv, WorkInv

(* Every step of a worker. *)
LEMMA WorkKeeps == ASSUME Inv, NEW w \in Workers, Work(w) PROVE Inv'
<1>1. w \in Processes /\ w # Server /\ log \subseteq Jobs
  BY DEF Processes, Inv, StorageInv, StorageTypeOK
<1>2. CASE QueueStep(w)
  BY <1>1, <1>2, QueueMoveKeeps DEF QueueStep, QueueMove
<1>3. CASE Process(w) \/ (HandleFailure(w) /\ ~FailureRaises(w)) \/ Complete(w)
  <2>1. UNCHANGED <<storageVars, log, pushed>> /\ Quiet(w)
    BY <1>3 DEF Process, HandleFailure, BeginCopy, EndCopy, Complete, ProcessEnds,
       FailureHandled, FileCopied, StateWritten, CompletionRaises, history, storageVars, Quiet
  <2>2. StorageInv' /\ QueueInv'
    BY <1>1, <2>1, OthersKeepStorage, QuietKeeps DEF Inv
  <2> QED
    BY <1>3, <2>2, ProcessKeepsWork, FailureKeepsWork, CompleteKeepsWork DEF Inv
<1>4. CASE HandleFailure(w) /\ FailureRaises(w)
  <2>1. Die(w) /\ UNCHANGED <<storageVars, log, pushed, rest>> /\ budget' \in 0..MaxFaults
    BY <1>4 DEF HandleFailure, BeginCopy, EndCopy, FailureHandled, FileCopied, FailureRaises,
       Die, Move, storageVars, rest, copies, Inv, WorkInv
  <2>2. StorageInv' /\ QueueInv'
    BY <1>1, <2>1, OthersKeepStorage, DieKeeps DEF Inv
  <2> QED
    BY <1>1, <2>1, <2>2, DeathKeepsWork DEF Inv
<1> QED
  BY <1>2, <1>3, <1>4 DEF Work

(* Every death of a process. *)
LEMMA CrashKeepsAll == ASSUME Inv, NEW p \in Processes, Crash(p) PROVE Inv'
<1>1. /\ Die(p) /\ budget' \in 0..MaxFaults /\ log \subseteq Jobs
      /\ IF p = Server THEN StorageCrash ELSE UNCHANGED storageVars
      /\ UNCHANGED <<log, pushed, rest>>
  BY DEF Crash, Fault, Die, StorageCrash, storageVars, Inv, WorkInv, StorageInv, StorageTypeOK
<1>2. StorageInv'
  BY <1>1, CrashKeepsStorage, OthersKeepStorage DEF Inv
<1>3. QueueInv'
  BY <1>1, DieKeeps DEF Inv
<1> QED
  BY <1>1, <1>2, <1>3, DeathKeepsWork DEF Inv

----------------------------------------------------------------------------
(* The theorems. *)

(* Every step keeps the invariant. *)
LEMMA Inductive == Inv /\ [Next]_vars => Inv'
<1> SUFFICES ASSUME Inv, [Next]_vars PROVE Inv'
  OBVIOUS
<1>1. CASE UNCHANGED vars
  <2>1. /\ UNCHANGED <<storageVars, queueVars, pushed, log>>
        /\ UNCHANGED <<phase, slot, raw, saved, completed, failed, pc, job, attempts, rest,
                       budget>>
    BY <1>1 DEF vars, storageVars, queueVars, lists, memory, history, rest, copies
  <2>2. StorageInv' /\ QueueInv'
    BY <2>1, OthersKeepStorage, LogKeepsQueue DEF Inv
  <2>3. FilesAwaitLog' /\ DownIsQuiet' /\ budget' \in 0..MaxFaults
    BY <2>1 DEF Inv, WorkInv, FilesAwaitLog, DownIsQuiet, LoopFree, PathOf
  <2>4. WorkInv'
    BY <2>1, <2>3, RequestKeepsWork DEF PathOf
  <2> QED
    BY <2>2, <2>4 DEF Inv
<1>2. CASE Next
  BY <1>2, ClientKeeps, HandleKeeps, GarbledKeeps, RaisesKeeps, ServerStartsKeeps, MaintenanceKeeps,
     WorkKeeps, CrashKeepsAll DEF Next
<1> QED
  BY <1>1, <1>2

(* The invariant holds in every behaviour. *)
LEMMA Invariant == Spec => []Inv
<1>1. Init => Inv
  BY StorageInitially, QueueInitially, WorkInitially DEF Inv
<1> QED
  BY <1>1, Inductive, PTL DEF Spec

(* Every variable keeps its shape; in particular there is always a free    *)
(* name for a raw file.                                                    *)
THEOREM TypesAreCorrect == Spec => []TypeOK
<1>1. Inv => TypeOK
  BY QueueShapeIsType DEF Inv, StorageInv, QueueInv, WorkInv, TypeOK
<1> QED
  BY <1>1, Invariant, PTL

(* No interleaving of a worker with recoveries loses a job; only a process *)
(* that dies with an id in its hands does (queue.py, claim_next).          *)
THEOREM JobsAreNotLost == Spec => []NoJobLost
<1>1. Inv => NoJobLost
  BY DEF Inv, QueueInv
<1> QED
  BY <1>1, Invariant, PTL

(* A client never deletes a batch for which no job was enqueued.           *)
THEOREM AcknowledgedBatchesHaveJobs == Spec => []AckedHasJob
<1>1. Inv => AckedHasJob
  BY DEF Inv, StorageInv
<1> QED
  BY <1>1, Invariant, PTL

(* Two jobs of one batch come from requests that overlapped, or the key of *)
(* one was lost: to a crash or an error after its job was enqueued, or with*)
(* the index that _remember_idempotency was rewriting.                     *)
THEOREM DuplicatesDidOverlap == Spec => []DuplicatesOverlap
<1>1. Inv => DuplicatesOverlap
  BY DEF Inv, StorageInv, StorageTypeOK, LogFollows, ActiveOverlap, Active, DuplicatesOverlap
<1> QED
  BY <1>1, Invariant, PTL

(* A job is marked completed after its images are in processed_root.       *)
THEOREM ResultsComeFirst == Spec => []CompletedIsConverted
<1>1. Inv => CompletedIsConverted
  BY DEF Inv, WorkInv
<1> QED
  BY <1>1, Invariant, PTL

(* A job is given up after a copy of its raw file, after retention took    *)
(* the file before its first failure, or with a copy in place that lacks   *)
(* bytes (DeliveryProofs says when that can be).                           *)
THEOREM CopiesComeFirst == Spec => []GivenUpKeepsCopy
<1>1. Inv => GivenUpKeepsCopy
  BY DEF Inv, WorkInv
<1> QED
  BY <1>1, Invariant, PTL
=============================================================================
