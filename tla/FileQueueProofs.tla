-------------------------- MODULE FileQueueProofs --------------------------
(***************************************************************************)
(* Theorems about the file backed job queue.  Types and the retry limit    *)
(* hold for any number of workers and in any order of starts; that no job  *)
(* is lost needs one worker and ordered starts, and fq_scaled and          *)
(* fq_restart show what happens without them.                              *)
(***************************************************************************)
EXTENDS FileQueue, TLAPS

----------------------------------------------------------------------------
(* Types. *)

WithJob == {"requeue", "unlink", "enqueue", "claim", "read", "stamp", "work",
            "complete", "complete_unlink", "state", "fail", "fail_unlink"}

(* A process that is doing something does it to a job. *)
JobsKnown == \A p \in Processes : pc[p] \in WithJob => job[p] \in Jobs

TypeInv == TypeOK /\ JobsKnown

LEMMA TypeInitially == Init => TypeInv
<1> SUFFICES ASSUME Init PROVE TypeInv
  OBVIOUS
<1>1. 0 \in Nat /\ MaxFaults \in 0..MaxFaults
  BY ConstantsAssumption
<1>2. TypeOK
  BY <1>1 DEF Init, TypeOK
<1>3. JobsKnown
  BY DEF Init, JobsKnown, WithJob
<1> QED
  BY <1>2, <1>3 DEF TypeInv

LEMMA FaultsSpent ==
    ASSUME budget \in 0..MaxFaults, NEW f, Fault(f)
    PROVE  budget' \in 0..MaxFaults /\ budget' = budget - 1
  BY ConstantsAssumption DEF Fault

LEMMA StartupKeepsType ==
    ASSUME TypeInv, NEW p \in Processes, Startup(p)
    PROVE  TypeInv'
<1> USE DEF TypeInv, TypeOK, JobsKnown, WithJob, Goto, files, history
<1>1. CASE Start(p)
  BY <1>1 DEF Start
<1>2. CASE RecoverRead(p)
  BY <1>2 DEF RecoverRead, Readable, Corrupt, NoFile
<1>3. CASE RecoverWrite(p)
  BY <1>3 DEF RecoverWrite
<1>4. CASE RecoverUnlink(p)
  BY <1>4 DEF RecoverUnlink
<1>5. CASE RecoverDone(p)
  BY <1>5 DEF RecoverDone
<1> QED
  BY <1>1, <1>2, <1>3, <1>4, <1>5 DEF Startup

LEMMA EnqueueKeepsType ==
    ASSUME TypeInv, (\E j \in Jobs : EnqueueOpen(j)) \/ EnqueueWrite
    PROVE  TypeInv'
<1> USE DEF TypeInv, TypeOK, JobsKnown, WithJob, Goto, files, history
<1>0. Server \in Processes
  BY DEF Processes
<1>1. ASSUME NEW j \in Jobs, EnqueueOpen(j) PROVE TypeInv'
  BY <1>0, <1>1 DEF EnqueueOpen
<1>2. CASE EnqueueWrite
  BY <1>0, <1>2 DEF EnqueueWrite
<1> QED
  BY <1>1, <1>2

LEMMA ClaimKeepsType ==
    ASSUME TypeInv, NEW w \in Workers, Claim(w)
    PROVE  TypeInv'
<1> USE DEF TypeInv, TypeOK, JobsKnown, WithJob, Goto, files, history
<1>0. w \in Processes
  BY DEF Processes
<1>1. CASE ClaimList(w)
  BY <1>0, <1>1 DEF ClaimList
<1>2. CASE ClaimRename(w)
  BY <1>0, <1>2 DEF ClaimRename
<1>3. CASE ClaimRead(w)
  BY <1>0, <1>3 DEF ClaimRead, Readable, Corrupt, NoFile
<1>4. CASE ClaimStamp(w)
  BY <1>0, <1>4 DEF ClaimStamp
<1> QED
  BY <1>1, <1>2, <1>3, <1>4 DEF Claim

LEMMA FinishKeepsType ==
    ASSUME TypeInv, NEW w \in Workers, Finish(w)
    PROVE  TypeInv'
<1> USE DEF TypeInv, TypeOK, JobsKnown, WithJob, Goto, files, history
<1>0. w \in Processes
  BY DEF Processes
<1>1. CASE ProcessReturns(w)
  BY <1>0, <1>1 DEF ProcessReturns
<1>2. CASE CompleteWrite(w)
  BY <1>0, <1>2 DEF CompleteWrite
<1>3. CASE CompleteUnlink(w)
  BY <1>0, <1>3 DEF CompleteUnlink
<1>4. CASE WriteState(w)
  BY <1>0, <1>4, FaultsSpent DEF WriteState
<1>5. CASE ProcessRaises(w)
  BY <1>0, <1>5 DEF ProcessRaises
<1>6. CASE FailWrite(w)
  BY <1>0, <1>6 DEF FailWrite
<1>7. CASE FailUnlink(w)
  BY <1>0, <1>7 DEF FailUnlink
<1> QED
  BY <1>1, <1>2, <1>3, <1>4, <1>5, <1>6, <1>7 DEF Finish

LEMMA CrashKeepsType ==
    ASSUME TypeInv, NEW p \in Processes, Crash(p)
    PROVE  TypeInv'
<1> USE DEF TypeInv, TypeOK, JobsKnown, WithJob, Goto, history
<1>1. budget' \in 0..MaxFaults
  BY FaultsSpent DEF Crash
<1>2. /\ pending' \in [Jobs -> {NoFile, Corrupt} \cup Nat]
      /\ processing' \in [Jobs -> {NoFile, Corrupt} \cup Nat]
  BY DEF Crash, Torn
<1> QED
  BY <1>1, <1>2 DEF Crash

LEMMA TypeInductive == TypeInv /\ [Next]_vars => TypeInv'
<1> SUFFICES ASSUME TypeInv, [Next]_vars PROVE TypeInv'
  OBVIOUS
<1>1. CASE UNCHANGED vars
  BY <1>1 DEF vars, files, memory, history, TypeInv, TypeOK, JobsKnown
<1>2. CASE Next
  BY <1>2, StartupKeepsType, EnqueueKeepsType, ClaimKeepsType, FinishKeepsType,
     CrashKeepsType DEF Next
<1> QED
  BY <1>1, <1>2

LEMMA TypeInvariant == Spec => []TypeInv
  BY TypeInitially, TypeInductive, PTL DEF Spec

(* Directories, processes and counters keep the form of TypeOK. *)
THEOREM TypeCorrect == Spec => []TypeOK
<1>1. TypeInv => TypeOK
  BY DEF TypeInv
<1> QED
  BY <1>1, TypeInvariant, PTL

----------------------------------------------------------------------------
(* The retry limit, for any number of workers and any order of starts:     *)
(* however often files are copied, overwritten or left twice, no copy of   *)
(* attempts ever claims more errors than there were.                       *)

FilesAreHonest ==
    \A j \in Jobs : /\ Readable(pending[j]) => pending[j] <= errors[j]
                    /\ Readable(processing[j]) => processing[j] <= errors[j]

MemoryIsHonest ==
    \A p \in Processes :
       /\ pc[p] \in {"requeue", "stamp", "work", "complete", "complete_unlink", "state"}
             => payload[p] <= errors[job[p]]
       /\ pc[p] = "fail" => payload[p] < errors[job[p]]

RetryInv == /\ TypeInv
            /\ FilesAreHonest
            /\ MemoryIsHonest
            /\ GivenUpOnlyAfterRetries

LEMMA StartupKeepsRetry ==
    ASSUME RetryInv, NEW p \in Processes, Startup(p)
    PROVE  FilesAreHonest' /\ MemoryIsHonest' /\ GivenUpOnlyAfterRetries'
<1> USE DEF RetryInv, TypeInv, TypeOK, JobsKnown, WithJob, Goto, files, history,
            FilesAreHonest, MemoryIsHonest, GivenUpOnlyAfterRetries, Readable,
            NoFile, Corrupt
<1>1. CASE Start(p)
  BY <1>1 DEF Start
<1>2. CASE RecoverRead(p)
  BY <1>2 DEF RecoverRead
<1>3. CASE RecoverWrite(p)
  BY <1>3 DEF RecoverWrite
<1>4. CASE RecoverUnlink(p)
  BY <1>4 DEF RecoverUnlink
<1>5. CASE RecoverDone(p)
  BY <1>5 DEF RecoverDone
<1> QED
  BY <1>1, <1>2, <1>3, <1>4, <1>5 DEF Startup

LEMMA EnqueueKeepsRetry ==
    ASSUME RetryInv, (\E j \in Jobs : EnqueueOpen(j)) \/ EnqueueWrite
    PROVE  FilesAreHonest' /\ MemoryIsHonest' /\ GivenUpOnlyAfterRetries'
<1> USE DEF RetryInv, TypeInv, TypeOK, JobsKnown, WithJob, Goto, files, history,
            FilesAreHonest, MemoryIsHonest, GivenUpOnlyAfterRetries, Readable,
            NoFile, Corrupt
<1>0. Server \in Processes
  BY DEF Processes
<1>1. ASSUME NEW j \in Jobs, EnqueueOpen(j)
      PROVE  FilesAreHonest' /\ MemoryIsHonest' /\ GivenUpOnlyAfterRetries'
  BY <1>0, <1>1 DEF EnqueueOpen
<1>2. CASE EnqueueWrite
  BY <1>0, <1>2 DEF EnqueueWrite
<1> QED
  BY <1>1, <1>2

LEMMA ClaimKeepsRetry ==
    ASSUME RetryInv, NEW w \in Workers, Claim(w)
    PROVE  FilesAreHonest' /\ MemoryIsHonest' /\ GivenUpOnlyAfterRetries'
<1> USE DEF RetryInv, TypeInv, TypeOK, JobsKnown, WithJob, Goto, files, history,
            FilesAreHonest, MemoryIsHonest, GivenUpOnlyAfterRetries, Readable,
            NoFile, Corrupt
<1>0. w \in Processes
  BY DEF Processes
<1>1. CASE ClaimList(w)
  BY <1>0, <1>1 DEF ClaimList
<1>2. CASE ClaimRename(w)
  BY <1>0, <1>2 DEF ClaimRename
<1>3. CASE ClaimRead(w)
  BY <1>0, <1>3 DEF ClaimRead
<1>4. CASE ClaimStamp(w)
  BY <1>0, <1>4 DEF ClaimStamp
<1> QED
  BY <1>1, <1>2, <1>3, <1>4 DEF Claim

LEMMA FinishKeepsRetry ==
    ASSUME RetryInv, NEW w \in Workers, Finish(w)
    PROVE  FilesAreHonest' /\ MemoryIsHonest' /\ GivenUpOnlyAfterRetries'
<1> USE DEF RetryInv, TypeInv, TypeOK, JobsKnown, WithJob, Goto, files, history,
            FilesAreHonest, MemoryIsHonest, GivenUpOnlyAfterRetries, Readable,
            NoFile, Corrupt
<1>0. w \in Processes
  BY DEF Processes
<1>1. CASE ProcessReturns(w)
  BY <1>0, <1>1 DEF ProcessReturns
<1>2. CASE CompleteWrite(w)
  BY <1>0, <1>2 DEF CompleteWrite
<1>3. CASE CompleteUnlink(w)
  BY <1>0, <1>3 DEF CompleteUnlink
<1>4. ASSUME errors' = [errors EXCEPT ![job[w]] = @ + 1], pc[w] \in {"work", "state"},
             pc' = [pc EXCEPT ![w] = "fail"],
             UNCHANGED <<pending, processing, failed, payload, job>>
      PROVE  FilesAreHonest' /\ MemoryIsHonest' /\ GivenUpOnlyAfterRetries'
  <2>1. job[w] \in Jobs /\ payload[w] \in Nat /\ payload[w] <= errors[job[w]]
    BY <1>0, <1>4
  <2>2. /\ \A j \in Jobs : errors[j] \in Nat /\ errors'[j] \in Nat /\ errors[j] <= errors'[j]
        /\ errors'[job[w]] = errors[job[w]] + 1
    BY <2>1, <1>4
  <2>3. FilesAreHonest'
    BY <1>4, <2>2
  <2>4. ASSUME NEW p \in Processes, pc'[p] \in WithJob \ {"unlink", "enqueue", "claim",
                                                          "read", "fail_unlink"}
        PROVE  /\ pc'[p] # "fail" => payload'[p] <= errors'[job'[p]]
               /\ pc'[p] = "fail" => payload'[p] < errors'[job'[p]]
    <3>1. CASE p = w
      BY <1>0, <1>4, <2>1, <2>2, <3>1
    <3>2. CASE p # w
      <4>1. pc'[p] = pc[p] /\ job[p] \in Jobs /\ payload[p] \in Nat
        BY <1>4, <2>4, <3>2
      <4> QED
        BY <1>4, <2>2, <2>4, <4>1
    <3> QED
      BY <3>1, <3>2
  <2>5. GivenUpOnlyAfterRetries'
    BY <1>4, <2>2, ConstantsAssumption
  <2> QED
    BY <2>3, <2>4, <2>5
<1>5. CASE ProcessRaises(w)
  BY <1>4, <1>5 DEF ProcessRaises
<1>8. CASE WriteState(w)
  <2>1. CASE pc' = [pc EXCEPT ![w] = "ready"] /\ UNCHANGED errors
    BY <1>0, <1>8, <2>1 DEF WriteState
  <2>2. CASE pc' = [pc EXCEPT ![w] = "fail"]
                /\ errors' = [errors EXCEPT ![job[w]] = @ + 1]
    BY <1>4, <1>8, <2>2 DEF WriteState
  <2> QED
    BY <1>8, <2>1, <2>2 DEF WriteState
<1>6. CASE FailWrite(w)
  <2> DEFINE j == job[w]
  <2>0. /\ pc[w] = "fail" /\ pc' = [pc EXCEPT ![w] = "fail_unlink"]
        /\ UNCHANGED <<processing, job, payload, errors>>
        /\ \/ pending' = [pending EXCEPT ![j] = payload[w] + 1] /\ failed' = failed
           \/ /\ ~(payload[w] < RetryLimit)
              /\ failed' = failed \cup {j} /\ pending' = pending
    BY <1>6 DEF FailWrite, MayRetry
  <2>1. /\ j \in Jobs /\ payload[w] \in Nat /\ errors[j] \in Nat
        /\ payload[w] + 1 <= errors[j]
    BY <1>0, <2>0
  <2>2. FilesAreHonest'
    BY <2>0, <2>1
  <2>3. MemoryIsHonest'
    BY <1>0, <2>0
  <2>4. errors[j] > RetryLimit \/ failed' = failed
    BY <2>0, <2>1, ConstantsAssumption
  <2>5. GivenUpOnlyAfterRetries'
    BY <2>0, <2>4
  <2> QED
    BY <2>2, <2>3, <2>5
<1>7. CASE FailUnlink(w)
  BY <1>0, <1>7 DEF FailUnlink
<1> QED
  BY <1>1, <1>2, <1>3, <1>5, <1>6, <1>7, <1>8 DEF Finish

LEMMA CrashKeepsRetry ==
    ASSUME RetryInv, NEW p \in Processes, Crash(p)
    PROVE  FilesAreHonest' /\ MemoryIsHonest' /\ GivenUpOnlyAfterRetries'
<1> USE DEF RetryInv, TypeInv, TypeOK
<1>1. FilesAreHonest'
  BY DEF Crash, Torn, history, FilesAreHonest, Readable, NoFile, Corrupt
<1>2. MemoryIsHonest'
  BY DEF Crash, Goto, history, MemoryIsHonest
<1>3. GivenUpOnlyAfterRetries'
  BY DEF Crash, history, GivenUpOnlyAfterRetries
<1> QED
  BY <1>1, <1>2, <1>3

LEMMA RetryInductive == RetryInv /\ [Next]_vars => RetryInv'
<1> SUFFICES ASSUME RetryInv, [Next]_vars PROVE RetryInv'
  OBVIOUS
<1>1. TypeInv'
  BY TypeInductive DEF RetryInv
<1>2. CASE UNCHANGED vars
  BY <1>1, <1>2 DEF vars, files, memory, history, RetryInv, FilesAreHonest,
                    MemoryIsHonest, GivenUpOnlyAfterRetries
<1>3. CASE Next
  BY <1>1, <1>3, StartupKeepsRetry, EnqueueKeepsRetry, ClaimKeepsRetry,
     FinishKeepsRetry, CrashKeepsRetry DEF Next, RetryInv
<1> QED
  BY <1>2, <1>3

LEMMA RetryInvariant == Spec => []RetryInv
<1>1. Init => RetryInv
  <2>1. Init => FilesAreHonest
    BY DEF Init, FilesAreHonest, Readable, NoFile
  <2>2. Init => MemoryIsHonest /\ GivenUpOnlyAfterRetries
    BY DEF Init, MemoryIsHonest, GivenUpOnlyAfterRetries
  <2> QED
    BY <2>1, <2>2, TypeInitially DEF RetryInv
<1> QED
  BY <1>1, RetryInductive, PTL DEF Spec

(* No job is given up before it raised more often than the limit, whatever *)
(* the number of workers and the order in which processes start.           *)
THEOREM RetriesComeFirst == Spec => []GivenUpOnlyAfterRetries
<1>1. RetryInv => GivenUpOnlyAfterRetries
  BY DEF RetryInv
<1> QED
  BY <1>1, RetryInvariant, PTL

----------------------------------------------------------------------------
(* Custody, for one worker and ordered starts, the set-up of the runbook.  *)

Runbook == /\ Supervised
           /\ \A v, w \in Workers : v = w

(* The server has no part in claims, a worker none in enqueue.             *)
Roles == /\ pc[Server] \in {"down", "recover", "requeue", "unlink", "ready", "enqueue"}
         /\ \A w \in Workers : pc[w] # "enqueue"

(* While a worker is up, a server that starts finds nothing to requeue.    *)
ServerWaits ==
    \A w \in Workers : pc[w] # "down" =>
       /\ pc[Server] \notin {"requeue", "unlink"}
       /\ pc[Server] = "recover" => todo[Server] = {}

(* While a worker is up, processing/ holds no file it does not know of.    *)
WorkerOwns ==
    \A w \in Workers, j \in Jobs :
       pc[w] # "down" /\ IsFile(processing[j]) =>
          \/ pc[w] \in {"recover", "requeue", "unlink"} /\ j \in todo[w]
          \/ /\ pc[w] \in {"requeue", "unlink", "read", "stamp", "work", "complete",
                           "complete_unlink", "fail", "fail_unlink"}
             /\ j = job[w]

(* Nothing exists of a job before enqueue is called. *)
FreshIsNew ==
    /\ \A j \in Jobs : IsFile(pending[j]) \/ IsFile(processing[j]) => j \in submitted
    /\ \A p \in Processes : /\ todo[p] \subseteq submitted
                            /\ pc[p] \in WithJob => job[p] \in submitted

(* The file enqueue has opened is empty, in one place, and nobody has read *)
(* it for a job yet.                                                       *)
Reading == {"requeue", "unlink", "stamp", "work", "complete", "complete_unlink",
            "state", "fail", "fail_unlink"}
OpenFile ==
    pc[Server] = "enqueue" =>
       /\ \/ pending[job[Server]] = Corrupt /\ processing[job[Server]] = NoFile
          \/ pending[job[Server]] = NoFile /\ processing[job[Server]] = Corrupt
       /\ \A w \in Workers : /\ job[Server] \notin todo[w]
                             /\ pc[w] \in Reading => job[w] # job[Server]

(* Where the file of a job is while somebody works on it. *)
FileIsThere ==
    /\ \A w \in Workers :
          /\ pc[w] \in {"read", "stamp", "work", "complete"} => IsFile(processing[job[w]])
          /\ pc[w] \in {"read", "stamp", "work", "complete", "complete_unlink", "state",
                        "fail"} => ~IsFile(pending[job[w]])
          /\ pc[w] \in {"complete_unlink", "state"} => job[w] \in completed
          /\ pc[w] = "fail" => IsFile(processing[job[w]]) \/ job[w] \in completed
          /\ pc[w] = "fail_unlink" => IsFile(pending[job[w]]) \/ job[w] \in failed
    /\ \A p \in Processes : pc[p] = "unlink" => IsFile(pending[job[p]])

SafeParts == /\ Roles /\ ServerWaits
             /\ WorkerOwns /\ FreshIsNew /\ OpenFile /\ FileIsThere
             /\ NoJobLost

SafeInv == TypeInv /\ Roles /\ ServerWaits /\ WorkerOwns /\ FreshIsNew /\ OpenFile
                   /\ FileIsThere /\ NoJobLost

(* Each action against each part of the invariant; a leaf names the parts *)
(* beyond its own that it depends on.                                     *)
LEMMA StartupKeepsSafe ==
    ASSUME Runbook, SafeInv, NEW p \in Processes, Startup(p)
    PROVE  SafeParts'
<1> USE DEF SafeInv, TypeInv, TypeOK, JobsKnown, WithJob, Reading,
           IsFile, NoFile, Corrupt, Readable, Goto, Processes, history
<1>0. /\ Server \in Processes /\ Server \notin Workers /\ Workers \subseteq Processes
      /\ NoJob \notin Jobs
  BY ConstantsAssumption DEF NoJob
<1>1. CASE Start(p)
  <2> USE <1>1 DEF Start, MayStart, files
  <2>1. Roles'
    BY <1>0 DEF Roles
  <2>2. ServerWaits'
    BY <1>0 DEF ServerWaits, Runbook, WorkerOwns
  <2>3. WorkerOwns'
    BY <1>0 DEF WorkerOwns
  <2>4. FreshIsNew'
    BY <1>0 DEF FreshIsNew
  <2>5. OpenFile'
    BY <1>0 DEF OpenFile, Runbook
  <2>6. FileIsThere'
    BY <1>0 DEF FileIsThere
  <2>7. NoJobLost'
    BY <1>0 DEF NoJobLost, Queued, Settled
  <2> QED
    BY <2>1, <2>2, <2>3, <2>4, <2>5, <2>6, <2>7 DEF SafeParts
<1>2. CASE RecoverRead(p)
  <2> USE <1>2 DEF RecoverRead, files
  <2>1. Roles'
    BY <1>0 DEF Roles
  <2>2. ServerWaits'
    BY <1>0 DEF ServerWaits
  <2>3. WorkerOwns'
    BY <1>0 DEF WorkerOwns
  <2>4. FreshIsNew'
    BY <1>0 DEF FreshIsNew
  <2>5. OpenFile'
    BY <1>0 DEF OpenFile
  <2>6. FileIsThere'
    BY <1>0 DEF FileIsThere
  <2>7. NoJobLost'
    BY <1>0 DEF NoJobLost, Queued, Settled
  <2> QED
    BY <2>1, <2>2, <2>3, <2>4, <2>5, <2>6, <2>7 DEF SafeParts
<1>3. CASE RecoverWrite(p)
  <2> USE <1>3 DEF RecoverWrite
  <2>1. Roles'
    BY <1>0 DEF Roles
  <2>2. ServerWaits'
    BY <1>0 DEF ServerWaits
  <2>3. WorkerOwns'
    BY <1>0 DEF WorkerOwns
  <2>4. FreshIsNew'
    BY <1>0 DEF FreshIsNew
  <2>5. OpenFile'
    BY <1>0 DEF OpenFile
  <2>6. FileIsThere'
    BY <1>0 DEF FileIsThere, Runbook, ServerWaits
  <2>7. NoJobLost'
    BY <1>0 DEF NoJobLost, Queued, Settled
  <2> QED
    BY <2>1, <2>2, <2>3, <2>4, <2>5, <2>6, <2>7 DEF SafeParts
<1>4. CASE RecoverUnlink(p)
  <2> USE <1>4 DEF RecoverUnlink
  <2>1. Roles'
    BY <1>0 DEF Roles
  <2>2. ServerWaits'
    BY <1>0 DEF ServerWaits
  <2>3. WorkerOwns'
    BY <1>0 DEF WorkerOwns
  <2>4. FreshIsNew'
    BY <1>0 DEF FreshIsNew
  <2>5. OpenFile'
    BY <1>0 DEF OpenFile
  <2>6. FileIsThere'
    BY <1>0 DEF FileIsThere
  <2>7. NoJobLost'
    BY <1>0 DEF NoJobLost, Queued, Settled, FileIsThere
  <2> QED
    BY <2>1, <2>2, <2>3, <2>4, <2>5, <2>6, <2>7 DEF SafeParts
<1>5. CASE RecoverDone(p)
  <2> USE <1>5 DEF RecoverDone, files
  <2>1. Roles'
    BY <1>0 DEF Roles
  <2>2. ServerWaits'
    BY <1>0 DEF ServerWaits
  <2>3. WorkerOwns'
    BY <1>0 DEF WorkerOwns
  <2>4. FreshIsNew'
    BY <1>0 DEF FreshIsNew
  <2>5. OpenFile'
    BY <1>0 DEF OpenFile
  <2>6. FileIsThere'
    BY <1>0 DEF FileIsThere
  <2>7. NoJobLost'
    BY <1>0 DEF NoJobLost, Queued, Settled
  <2> QED
    BY <2>1, <2>2, <2>3, <2>4, <2>5, <2>6, <2>7 DEF SafeParts
<1> QED
  BY <1>1, <1>2, <1>3, <1>4, <1>5 DEF Startup

LEMMA EnqueueKeepsSafe ==
    ASSUME Runbook, SafeInv, (\E j \in Jobs : EnqueueOpen(j)) \/ EnqueueWrite
    PROVE  SafeParts'
<1> USE DEF SafeInv, TypeInv, TypeOK, JobsKnown, WithJob, Reading,
           IsFile, NoFile, Corrupt, Readable, Goto, Processes, history
<1>0. /\ Server \in Processes /\ Server \notin Workers /\ Workers \subseteq Processes
      /\ NoJob \notin Jobs
  BY ConstantsAssumption DEF NoJob
<1>1. ASSUME NEW j \in Jobs, EnqueueOpen(j) PROVE SafeParts'
  <2> USE <1>1 DEF EnqueueOpen
  <2>1. Roles'
    BY <1>0 DEF Roles
  <2>2. ServerWaits'
    BY <1>0 DEF ServerWaits
  <2>3. WorkerOwns'
    BY <1>0 DEF WorkerOwns
  <2>4. FreshIsNew'
    BY <1>0 DEF FreshIsNew
  <2>5. OpenFile'
    BY <1>0 DEF OpenFile, FreshIsNew
  <2>6. FileIsThere'
    BY <1>0 DEF FileIsThere, FreshIsNew
  <2>7. NoJobLost'
    BY <1>0 DEF NoJobLost, Queued, Settled
  <2> QED
    BY <2>1, <2>2, <2>3, <2>4, <2>5, <2>6, <2>7 DEF SafeParts
<1>2. CASE EnqueueWrite
  <2> USE <1>2 DEF EnqueueWrite
  <2>1. Roles'
    BY <1>0 DEF Roles
  <2>2. ServerWaits'
    BY <1>0 DEF ServerWaits
  <2>3. WorkerOwns'
    BY <1>0 DEF WorkerOwns, OpenFile
  <2>4. FreshIsNew'
    BY <1>0 DEF FreshIsNew
  <2>5. OpenFile'
    BY <1>0 DEF OpenFile
  <2>6. FileIsThere'
    BY <1>0 DEF FileIsThere
  <2>7. NoJobLost'
    BY <1>0 DEF NoJobLost, Queued, Settled
  <2> QED
    BY <2>1, <2>2, <2>3, <2>4, <2>5, <2>6, <2>7 DEF SafeParts
<1> QED
  BY <1>1, <1>2

LEMMA ClaimKeepsSafe ==
    ASSUME Runbook, SafeInv, NEW w \in Workers, Claim(w)
    PROVE  SafeParts'
<1> USE DEF SafeInv, TypeInv, TypeOK, JobsKnown, WithJob, Reading,
           IsFile, NoFile, Corrupt, Readable, Goto, Processes, history
<1>0. /\ Server \in Processes /\ Server \notin Workers /\ Workers \subseteq Processes
      /\ NoJob \notin Jobs
  BY ConstantsAssumption DEF NoJob
<1>1. CASE ClaimList(w)
  <2> USE <1>1 DEF ClaimList, files
  <2>1. Roles'
    BY <1>0 DEF Roles
  <2>2. ServerWaits'
    BY <1>0 DEF ServerWaits
  <2>3. WorkerOwns'
    BY <1>0 DEF WorkerOwns
  <2>4. FreshIsNew'
    BY <1>0 DEF FreshIsNew
  <2>5. OpenFile'
    BY <1>0 DEF OpenFile
  <2>6. FileIsThere'
    BY <1>0 DEF FileIsThere
  <2>7. NoJobLost'
    BY <1>0 DEF NoJobLost, Queued, Settled
  <2> QED
    BY <2>1, <2>2, <2>3, <2>4, <2>5, <2>6, <2>7 DEF SafeParts
<1>2. CASE ClaimRename(w)
  <2> USE <1>2 DEF ClaimRename
  <2>1. Roles'
    BY <1>0 DEF Roles
  <2>2. ServerWaits'
    BY <1>0 DEF ServerWaits
  <2>3. WorkerOwns'
    BY <1>0 DEF WorkerOwns, Runbook
  <2>4. FreshIsNew'
    BY <1>0 DEF FreshIsNew
  <2>5. OpenFile'
    BY <1>0 DEF OpenFile
  <2>6. FileIsThere'
    BY <1>0 DEF FileIsThere, Runbook, ServerWaits
  <2>7. NoJobLost'
    BY <1>0 DEF NoJobLost, Queued, Settled
  <2> QED
    BY <2>1, <2>2, <2>3, <2>4, <2>5, <2>6, <2>7 DEF SafeParts
<1>3. CASE ClaimRead(w)
  <2> USE <1>3 DEF ClaimRead, files
  <2>1. Roles'
    BY <1>0 DEF Roles
  <2>2. ServerWaits'
    BY <1>0 DEF ServerWaits
  <2>3. WorkerOwns'
    BY <1>0 DEF WorkerOwns
  <2>4. FreshIsNew'
    BY <1>0 DEF FreshIsNew
  <2>5. OpenFile'
    BY <1>0 DEF OpenFile
  <2>6. FileIsThere'
    BY <1>0 DEF FileIsThere
  <2>7. NoJobLost'
    BY <1>0 DEF NoJobLost, Queued, Settled
  <2> QED
    BY <2>1, <2>2, <2>3, <2>4, <2>5, <2>6, <2>7 DEF SafeParts
<1>4. CASE ClaimStamp(w)
  <2> USE <1>4 DEF ClaimStamp
  <2>1. Roles'
    BY <1>0 DEF Roles
  <2>2. ServerWaits'
    BY <1>0 DEF ServerWaits
  <2>3. WorkerOwns'
    BY <1>0 DEF WorkerOwns, Runbook
  <2>4. FreshIsNew'
    BY <1>0 DEF FreshIsNew
  <2>5. OpenFile'
    BY <1>0 DEF OpenFile
  <2>6. FileIsThere'
    BY <1>0 DEF FileIsThere
  <2>7. NoJobLost'
    BY <1>0 DEF NoJobLost, Queued, Settled
  <2> QED
    BY <2>1, <2>2, <2>3, <2>4, <2>5, <2>6, <2>7 DEF SafeParts
<1> QED
  BY <1>1, <1>2, <1>3, <1>4 DEF Claim

LEMMA FinishKeepsSafe ==
    ASSUME Runbook, SafeInv, NEW w \in Workers, Finish(w)
    PROVE  SafeParts'
<1> USE DEF SafeInv, TypeInv, TypeOK, JobsKnown, WithJob, Reading,
           IsFile, NoFile, Corrupt, Readable, Goto, Processes, history
<1>0. /\ Server \in Processes /\ Server \notin Workers /\ Workers \subseteq Processes
      /\ NoJob \notin Jobs
  BY ConstantsAssumption DEF NoJob
<1>1. CASE ProcessReturns(w)
  <2> USE <1>1 DEF ProcessReturns, files
  <2>1. Roles'
    BY <1>0 DEF Roles
  <2>2. ServerWaits'
    BY <1>0 DEF ServerWaits
  <2>3. WorkerOwns'
    BY <1>0 DEF WorkerOwns
  <2>4. FreshIsNew'
    BY <1>0 DEF FreshIsNew
  <2>5. OpenFile'
    BY <1>0 DEF OpenFile
  <2>6. FileIsThere'
    BY <1>0 DEF FileIsThere
  <2>7. NoJobLost'
    BY <1>0 DEF NoJobLost, Queued, Settled
  <2> QED
    BY <2>1, <2>2, <2>3, <2>4, <2>5, <2>6, <2>7 DEF SafeParts
<1>2. CASE CompleteWrite(w)
  <2> USE <1>2 DEF CompleteWrite
  <2>1. Roles'
    BY <1>0 DEF Roles
  <2>2. ServerWaits'
    BY <1>0 DEF ServerWaits
  <2>3. WorkerOwns'
    BY <1>0 DEF WorkerOwns
  <2>4. FreshIsNew'
    BY <1>0 DEF FreshIsNew
  <2>5. OpenFile'
    BY <1>0 DEF OpenFile
  <2>6. FileIsThere'
    BY <1>0 DEF FileIsThere
  <2>7. NoJobLost'
    BY <1>0 DEF NoJobLost, Queued, Settled
  <2> QED
    BY <2>1, <2>2, <2>3, <2>4, <2>5, <2>6, <2>7 DEF SafeParts
<1>3. CASE CompleteUnlink(w)
  <2> USE <1>3 DEF CompleteUnlink
  <2>1. Roles'
    BY <1>0 DEF Roles
  <2>2. ServerWaits'
    BY <1>0 DEF ServerWaits
  <2>3. WorkerOwns'
    BY <1>0 DEF WorkerOwns
  <2>4. FreshIsNew'
    BY <1>0 DEF FreshIsNew
  <2>5. OpenFile'
    BY <1>0 DEF OpenFile
  <2>6. FileIsThere'
    BY <1>0 DEF FileIsThere, Runbook
  <2>7. NoJobLost'
    BY <1>0 DEF NoJobLost, Queued, Settled, FileIsThere
  <2> QED
    BY <2>1, <2>2, <2>3, <2>4, <2>5, <2>6, <2>7 DEF SafeParts
<1>4. CASE WriteState(w)
  <2> USE <1>4 DEF WriteState, files
  <2>1. Roles'
    BY <1>0 DEF Roles
  <2>2. ServerWaits'
    BY <1>0 DEF ServerWaits
  <2>3. WorkerOwns'
    BY <1>0 DEF WorkerOwns
  <2>4. FreshIsNew'
    BY <1>0 DEF FreshIsNew
  <2>5. OpenFile'
    BY <1>0 DEF OpenFile
  <2>6. FileIsThere'
    BY <1>0 DEF FileIsThere
  <2>7. NoJobLost'
    BY <1>0 DEF NoJobLost, Queued, Settled
  <2> QED
    BY <2>1, <2>2, <2>3, <2>4, <2>5, <2>6, <2>7 DEF SafeParts
<1>5. CASE ProcessRaises(w)
  <2> USE <1>5 DEF ProcessRaises, files
  <2>1. Roles'
    BY <1>0 DEF Roles
  <2>2. ServerWaits'
    BY <1>0 DEF ServerWaits
  <2>3. WorkerOwns'
    BY <1>0 DEF WorkerOwns
  <2>4. FreshIsNew'
    BY <1>0 DEF FreshIsNew
  <2>5. OpenFile'
    BY <1>0 DEF OpenFile
  <2>6. FileIsThere'
    BY <1>0 DEF FileIsThere
  <2>7. NoJobLost'
    BY <1>0 DEF NoJobLost, Queued, Settled
  <2> QED
    BY <2>1, <2>2, <2>3, <2>4, <2>5, <2>6, <2>7 DEF SafeParts
<1>6. CASE FailWrite(w)
  <2> USE <1>6 DEF FailWrite, MayRetry
  <2>1. Roles'
    BY <1>0 DEF Roles
  <2>2. ServerWaits'
    BY <1>0 DEF ServerWaits
  <2>3. WorkerOwns'
    BY <1>0 DEF WorkerOwns
  <2>4. FreshIsNew'
    BY <1>0 DEF FreshIsNew
  <2>5. OpenFile'
    BY <1>0 DEF OpenFile
  <2>6. FileIsThere'
    BY <1>0 DEF FileIsThere, Runbook
  <2>7. NoJobLost'
    BY <1>0 DEF NoJobLost, Queued, Settled
  <2> QED
    BY <2>1, <2>2, <2>3, <2>4, <2>5, <2>6, <2>7 DEF SafeParts
<1>7. CASE FailUnlink(w)
  <2> USE <1>7 DEF FailUnlink
  <2>1. Roles'
    BY <1>0 DEF Roles
  <2>2. ServerWaits'
    BY <1>0 DEF ServerWaits
  <2>3. WorkerOwns'
    BY <1>0 DEF WorkerOwns
  <2>4. FreshIsNew'
    BY <1>0 DEF FreshIsNew
  <2>5. OpenFile'
    BY <1>0 DEF OpenFile
  <2>6. FileIsThere'
    BY <1>0 DEF FileIsThere, Runbook
  <2>7. NoJobLost'
    BY <1>0 DEF NoJobLost, Queued, Settled, FileIsThere
  <2> QED
    BY <2>1, <2>2, <2>3, <2>4, <2>5, <2>6, <2>7 DEF SafeParts
<1> QED
  BY <1>1, <1>2, <1>3, <1>4, <1>5, <1>6, <1>7 DEF Finish

LEMMA CrashKeepsSafe ==
    ASSUME Runbook, SafeInv, NEW p \in Processes, Crash(p)
    PROVE  SafeParts'
<1> USE DEF SafeInv, TypeInv, TypeOK, JobsKnown, WithJob, Reading,
           IsFile, NoFile, Corrupt, Readable, Goto, Processes, history
<1>0. /\ Server \in Processes /\ Server \notin Workers /\ Workers \subseteq Processes
      /\ NoJob \notin Jobs
  BY ConstantsAssumption DEF NoJob
<1>1. CASE Crash(p)
  <2> USE <1>1 DEF Crash, Torn
  <2>1. Roles'
    BY <1>0 DEF Roles
  <2>2. ServerWaits'
    BY <1>0 DEF ServerWaits
  <2>3. WorkerOwns'
    BY <1>0 DEF WorkerOwns, Runbook, Roles
  <2>4. FreshIsNew'
    BY <1>0 DEF FreshIsNew
  <2>5. OpenFile'
    BY <1>0 DEF OpenFile
  <2>6. FileIsThere'
    BY <1>0 DEF FileIsThere, Runbook, Roles, ServerWaits
  <2>7. NoJobLost'
    BY <1>0 DEF NoJobLost, Queued, Settled
  <2> QED
    BY <2>1, <2>2, <2>3, <2>4, <2>5, <2>6, <2>7 DEF SafeParts
<1> QED
  BY <1>1

LEMMA SafeInductive == ASSUME Runbook PROVE SafeInv /\ [Next]_vars => SafeInv'
<1> SUFFICES ASSUME SafeInv, [Next]_vars PROVE SafeInv'
  OBVIOUS
<1>1. TypeInv'
  BY TypeInductive DEF SafeInv
<1>2. CASE UNCHANGED vars
  BY <1>1, <1>2 DEF vars, files, memory, history, SafeInv, Roles, ServerWaits, WorkerOwns,
                    FreshIsNew, OpenFile, FileIsThere, NoJobLost, Queued, Settled
<1>3. CASE Next
  <2>1. SafeParts'
    BY <1>3, StartupKeepsSafe, EnqueueKeepsSafe, ClaimKeepsSafe, FinishKeepsSafe,
       CrashKeepsSafe DEF Next
  <2> QED
    BY <1>1, <2>1 DEF SafeInv, SafeParts
<1> QED
  BY <1>2, <1>3

LEMMA SafeInitially == Init => SafeInv
<1> SUFFICES ASSUME Init PROVE SafeInv
  OBVIOUS
<1>1. Server \in Processes /\ Workers \subseteq Processes
  BY DEF Processes
<1>2. Roles /\ ServerWaits /\ OpenFile /\ FileIsThere
  BY <1>1 DEF Init, Roles, ServerWaits, OpenFile, FileIsThere
<1>3. WorkerOwns /\ FreshIsNew /\ NoJobLost
  BY <1>1 DEF Init, WorkerOwns, FreshIsNew, NoJobLost, IsFile, WithJob
<1> QED
  BY <1>2, <1>3, TypeInitially DEF SafeInv

LEMMA SafeInvariant == ASSUME Runbook PROVE Spec => []SafeInv
  BY SafeInitially, SafeInductive, PTL DEF Spec

(* With one worker and ordered starts no job is lost, whatever dies when,  *)
(* files cut short included.                                               *)
THEOREM JobsAreNotLost == ASSUME Runbook PROVE Spec => []NoJobLost
<1>1. SafeInv => NoJobLost
  BY DEF SafeInv
<1> QED
  BY <1>1, SafeInvariant, PTL

(* Nor can a job be claimed while the worker processes it. *)
THEOREM ClaimsAreExclusive == ASSUME Runbook PROVE Spec => []ClaimIsExclusive
<1>1. SafeInv => ClaimIsExclusive
  BY DEF SafeInv, FileIsThere, Runbook, ClaimIsExclusive
<1> QED
  BY <1>1, SafeInvariant, PTL

----------------------------------------------------------------------------
(* Every step of the queue is a step of Custody, or none. *)
Transfer == Ledger!Next \/ UNCHANGED <<Queued, Settled>>

(* The three ways in which a write or an unlink is one. *)
LEMMA HoldIsTransfer ==
    ASSUME NEW j \in Jobs, Queued' = Queued \cup {j}, Settled' = Settled
    PROVE  Transfer
  BY DEF Transfer, Ledger!Next, Ledger!Hold

LEMMA SettleIsTransfer ==
    ASSUME NEW j \in Jobs, j \in Queued \cup Settled,
           Queued' = Queued, Settled' = Settled \cup {j}
    PROVE  Transfer
<1>1. {j} \in SUBSET Jobs /\ Ledger!Settle({j})
  BY DEF Ledger!Settle
<1> QED
  BY <1>1 DEF Transfer, Ledger!Next

LEMMA ReleaseIsTransfer ==
    ASSUME NEW j \in Jobs, j \in Settled, Queued' = Queued \ {j}, Settled' = Settled
    PROVE  Transfer
<1>1. CASE j \notin Queued
  BY <1>1 DEF Transfer
<1>2. CASE j \in Queued
  <2>1. {j} \in SUBSET Jobs /\ Ledger!Release({j})
    BY <1>2 DEF Ledger!Release
  <2> QED
    BY <2>1 DEF Transfer, Ledger!Next
<1> QED
  BY <1>1, <1>2

(* A job's file in one directory is written or unlinked; Queued follows.   *)
LEMMA FileWritten ==
    ASSUME TypeInv, NEW j \in Jobs, NEW content, IsFile(content),
           \/ pending' = [pending EXCEPT ![j] = content] /\ processing' = processing
           \/ processing' = [processing EXCEPT ![j] = content] /\ pending' = pending
    PROVE  Queued' = Queued \cup {j}
  BY DEF TypeInv, TypeOK, Queued

LEMMA FileUnlinked ==
    ASSUME TypeInv, NEW j \in Jobs, pending' = pending,
           processing' = [processing EXCEPT ![j] = NoFile]
    PROVE  Queued' = IF IsFile(pending[j]) THEN Queued \cup {j} ELSE Queued \ {j}
  BY DEF TypeInv, TypeOK, Queued, IsFile

LEMMA JobOfProcess ==
    ASSUME TypeInv, NEW p \in Processes, pc[p] \in WithJob
    PROVE  job[p] \in Jobs /\ payload[p] \in Nat /\ IsFile(payload[p])
                           /\ IsFile(payload[p] + 1) /\ IsFile(Corrupt) /\ IsFile(0)
  BY DEF TypeInv, TypeOK, JobsKnown, IsFile, NoFile, Corrupt

LEMMA StartupTransfers ==
    ASSUME SafeInv, NEW p \in Processes, Startup(p)
    PROVE  Transfer
<1>0. TypeInv /\ FileIsThere
  BY DEF SafeInv
<1>1. CASE Start(p) \/ RecoverRead(p) \/ RecoverDone(p)
  BY <1>1 DEF Start, RecoverRead, RecoverDone, files, Transfer, Queued, Settled
<1>2. CASE RecoverWrite(p)
  <2>1. pc[p] \in WithJob
    BY <1>2 DEF RecoverWrite, WithJob
  <2>2. Settled' = Settled
    BY <1>2 DEF RecoverWrite, Settled
  <2> QED
    BY <1>0, <1>2, <2>1, <2>2, JobOfProcess, FileWritten, HoldIsTransfer DEF RecoverWrite
<1>3. CASE RecoverUnlink(p)
  <2>1. pc[p] \in WithJob /\ IsFile(pending[job[p]])
    BY <1>0, <1>3 DEF RecoverUnlink, WithJob, FileIsThere
  <2>2. Settled' = Settled
    BY <1>3 DEF RecoverUnlink, Settled
  <2> QED
    BY <1>0, <1>3, <2>1, <2>2, JobOfProcess, FileUnlinked, HoldIsTransfer DEF RecoverUnlink
<1> QED
  BY <1>1, <1>2, <1>3 DEF Startup

LEMMA EnqueueTransfers ==
    ASSUME SafeInv, (\E j \in Jobs : EnqueueOpen(j)) \/ EnqueueWrite
    PROVE  Transfer
<1>0. TypeInv /\ OpenFile /\ Server \in Processes
  BY DEF SafeInv, Processes
<1>1. ASSUME NEW j \in Jobs, EnqueueOpen(j) PROVE Transfer
  <2>1. Settled' = Settled /\ IsFile(Corrupt)
    BY <1>1 DEF EnqueueOpen, Settled, IsFile, Corrupt, NoFile
  <2> QED
    BY <1>0, <1>1, <2>1, FileWritten, HoldIsTransfer DEF EnqueueOpen
<1>2. CASE EnqueueWrite
  <2>1. pc[Server] \in WithJob /\ Settled' = Settled
    BY <1>2 DEF EnqueueWrite, WithJob, Settled
  <2> QED
    BY <1>0, <1>2, <2>1, JobOfProcess, FileWritten, HoldIsTransfer DEF EnqueueWrite
<1> QED
  BY <1>1, <1>2

LEMMA ClaimTransfers ==
    ASSUME SafeInv, NEW w \in Workers, Claim(w)
    PROVE  Transfer
<1>0. TypeInv /\ FileIsThere /\ w \in Processes
  BY DEF SafeInv, Processes
<1>1. CASE ClaimList(w) \/ ClaimRead(w)
  BY <1>1 DEF ClaimList, ClaimRead, files, Transfer, Queued, Settled
<1>2. CASE ClaimRename(w)
  <2>1. job[w] \in Jobs
    BY <1>0, <1>2 DEF ClaimRename, TypeInv, JobsKnown, WithJob
  <2>2. Queued' = Queued
    BY <1>0, <1>2, <2>1 DEF ClaimRename, TypeInv, TypeOK, Queued, IsFile
  <2> QED
    BY <1>2, <2>2 DEF ClaimRename, Transfer, Settled
<1>3. CASE ClaimStamp(w)
  <2>1. pc[w] \in WithJob /\ Settled' = Settled
    BY <1>3 DEF ClaimStamp, WithJob, Settled
  <2> QED
    BY <1>0, <1>3, <2>1, JobOfProcess, FileWritten, HoldIsTransfer DEF ClaimStamp
<1> QED
  BY <1>1, <1>2, <1>3 DEF Claim

LEMMA FinishTransfers ==
    ASSUME SafeInv, NEW w \in Workers, Finish(w)
    PROVE  Transfer
<1>0. TypeInv /\ FileIsThere /\ w \in Processes
  BY DEF SafeInv, Processes
<1> DEFINE j == job[w]
<1>1. CASE ProcessReturns(w) \/ ProcessRaises(w) \/ WriteState(w)
  BY <1>1 DEF ProcessReturns, ProcessRaises, WriteState, files, Transfer, Queued, Settled
<1>2. CASE CompleteWrite(w)
  <2>1. j \in Jobs /\ IsFile(processing[j])
    BY <1>0, <1>2 DEF CompleteWrite, FileIsThere, TypeInv, JobsKnown, WithJob
  <2>2. j \in Queued /\ Queued' = Queued /\ Settled' = Settled \cup {j}
    BY <1>2, <2>1 DEF CompleteWrite, Queued, Settled
  <2> QED
    BY <2>1, <2>2, SettleIsTransfer
<1>3. CASE CompleteUnlink(w)
  <2>1. j \in Jobs /\ j \in completed /\ ~IsFile(pending[j])
    BY <1>0, <1>3 DEF CompleteUnlink, FileIsThere, TypeInv, JobsKnown, WithJob
  <2>2. j \in Settled /\ Settled' = Settled
    BY <1>3, <2>1 DEF CompleteUnlink, Settled
  <2>3. Queued' = Queued \ {j}
    BY <1>0, <1>3, <2>1, FileUnlinked DEF CompleteUnlink
  <2> QED
    BY <2>1, <2>2, <2>3, ReleaseIsTransfer
<1>4. CASE FailWrite(w)
  <2>1. /\ pc[w] \in WithJob /\ j \in Jobs
        /\ IsFile(processing[j]) \/ j \in completed
    BY <1>0, <1>4 DEF FailWrite, FileIsThere, TypeInv, JobsKnown, WithJob
  <2>2. CASE MayRetry(payload[w])
    <3>1. Settled' = Settled
      BY <1>4, <2>2 DEF FailWrite, Settled
    <3> QED
      BY <1>0, <1>4, <2>1, <2>2, <3>1, JobOfProcess, FileWritten, HoldIsTransfer
      DEF FailWrite
  <2>3. CASE ~MayRetry(payload[w])
    <3>1. Queued' = Queued /\ Settled' = Settled \cup {j}
      BY <1>4, <2>3 DEF FailWrite, Queued, Settled
    <3>2. j \in Queued \cup Settled
      BY <2>1 DEF Queued, Settled
    <3> QED
      BY <2>1, <3>1, <3>2, SettleIsTransfer
  <2> QED
    BY <2>2, <2>3
<1>5. CASE FailUnlink(w)
  <2>1. j \in Jobs /\ (IsFile(pending[j]) \/ j \in failed)
    BY <1>0, <1>5 DEF FailUnlink, FileIsThere, TypeInv, JobsKnown, WithJob
  <2>2. Settled' = Settled
    BY <1>5 DEF FailUnlink, Settled
  <2>3. CASE IsFile(pending[j])
    BY <1>0, <1>5, <2>1, <2>2, <2>3, FileUnlinked, HoldIsTransfer DEF FailUnlink
  <2>4. CASE ~IsFile(pending[j])
    <3>1. Queued' = Queued \ {j} /\ j \in Settled
      BY <1>0, <1>5, <2>1, <2>4, FileUnlinked DEF FailUnlink, Settled
    <3> QED
      BY <2>1, <2>2, <3>1, ReleaseIsTransfer
  <2> QED
    BY <2>3, <2>4
<1> QED
  BY <1>1, <1>2, <1>3, <1>4, <1>5 DEF Finish

LEMMA CrashTransfers ==
    ASSUME SafeInv, NEW p \in Processes, Crash(p)
    PROVE  Transfer
<1>0. TypeInv /\ Settled' = Settled
  BY DEF SafeInv, Crash, Settled
<1>1. CASE UNCHANGED <<pending, processing>>
  BY <1>0, <1>1 DEF Transfer, Queued
<1>2. CASE Torn(p)
  <2>1. UNCHANGED <<pending, processing>> \/ pc[p] \in WithJob
    BY <1>2 DEF Torn, WithJob
  <2> QED
    BY <1>0, <1>1, <1>2, <2>1, JobOfProcess, FileWritten, HoldIsTransfer DEF Torn
<1> QED
  BY <1>1, <1>2 DEF Crash

(* With one worker and ordered starts the queue implements Custody: it     *)
(* lets go of a job only once its completed or failed file is there.       *)
THEOREM QueueImplementsCustody ==
    ASSUME Runbook
    PROVE  Spec => QueueKeepsCustody
<1>1. Init => Ledger!Init
  BY DEF Init, Ledger!Init, Queued, Settled, IsFile
<1>2. SafeInv /\ [Next]_vars => [Ledger!Next]_<<Queued, Settled>>
  <2> SUFFICES ASSUME SafeInv, [Next]_vars PROVE Transfer
    BY DEF Transfer
  <2>1. CASE UNCHANGED vars
    BY <2>1 DEF vars, files, Transfer, Queued, Settled
  <2>2. CASE Next
    BY <2>2, StartupTransfers, EnqueueTransfers, ClaimTransfers, FinishTransfers,
       CrashTransfers DEF Next
  <2> QED
    BY <2>1, <2>2
<1> QED
  BY <1>1, <1>2, SafeInvariant, PTL DEF Spec, QueueKeepsCustody, Ledger!Spec, Ledger!vars

----------------------------------------------------------------------------
(* Runs and attempts, with what the faults spent so far may have repeated. *)
Spent == MaxFaults - budget

Ran == {"complete", "complete_unlink", "fail", "fail_unlink"}

RunsInFiles ==
    \A j \in Jobs :
       /\ Readable(pending[j]) => /\ pending[j] <= RetryLimit
                                  /\ runs[j] <= pending[j] + Spent
       /\ Readable(processing[j]) =>
             /\ processing[j] <= RetryLimit
             /\ \/ runs[j] <= processing[j] + Spent
                \/ /\ runs[j] <= processing[j] + 1 + Spent
                   /\ \E w \in Workers : pc[w] \in Ran /\ job[w] = j

RunsInMemory ==
    \A p \in Processes :
       /\ pc[p] \in {"requeue", "stamp", "work"} =>
             payload[p] <= RetryLimit /\ runs[job[p]] <= payload[p] + Spent
       /\ pc[p] \in Ran \cup {"state"} =>
             payload[p] <= RetryLimit /\ runs[job[p]] <= payload[p] + 1 + Spent

FreshHasNotRun ==
    /\ \A j \in Jobs \ submitted : runs[j] = 0
    /\ pc[Server] = "enqueue" => runs[job[Server]] = 0

RunParts == RunsInFiles /\ RunsInMemory /\ FreshHasNotRun /\ RunsAreBounded

RunInv == SafeInv /\ RunsInFiles /\ RunsInMemory /\ FreshHasNotRun /\ RunsAreBounded

(* The same for the parts that count runs. *)
LEMMA StartupKeepsRuns ==
    ASSUME Runbook, RunInv, NEW p \in Processes, Startup(p)
    PROVE  RunParts'
<1> USE DEF RunInv, Ran, Spent, SafeInv, TypeInv, TypeOK, JobsKnown, WithJob,
           IsFile, NoFile, Corrupt, Readable, Goto, Processes, history
<1>0. /\ Server \in Processes /\ Server \notin Workers /\ Workers \subseteq Processes
      /\ NoJob \notin Jobs
  BY ConstantsAssumption DEF NoJob
<1>00. /\ Spent \in Nat /\ Spent' \in Nat /\ Spent <= Spent'
       /\ RetryLimit \in Nat
  BY ConstantsAssumption DEF Startup, Start, RecoverRead, RecoverWrite, RecoverUnlink, RecoverDone
<1>1. CASE Start(p)
  <2> USE <1>1 DEF Start, MayStart, files
  <2>1. RunsInFiles'
    BY <1>0, <1>00 DEF RunsInFiles
  <2>2. RunsInMemory'
    BY <1>0, <1>00 DEF RunsInMemory
  <2>3. FreshHasNotRun'
    BY <1>0, <1>00 DEF FreshHasNotRun
  <2>4. RunsAreBounded'
    BY <1>0, <1>00 DEF RunsAreBounded
  <2> QED
    BY <2>1, <2>2, <2>3, <2>4 DEF RunParts
<1>2. CASE RecoverRead(p)
  <2> USE <1>2 DEF RecoverRead, files
  <2>1. RunsInFiles'
    BY <1>0, <1>00 DEF RunsInFiles
  <2>2. RunsInMemory'
    <3>1. UNCHANGED <<processing, runs, budget>> /\ pc[p] = "recover"
      OBVIOUS
    <3>2. PICK j \in todo[p] :
             \/ /\ Readable(processing[j])
                /\ job' = [job EXCEPT ![p] = j]
                /\ payload' = [payload EXCEPT ![p] = processing[j]]
                /\ Goto(p, "requeue")
             \/ Goto(p, "down") /\ UNCHANGED <<job, payload>>
      OBVIOUS
    <3>3. j \in Jobs /\ ~\E w \in Workers : pc[w] \in Ran
      BY <1>0, <3>1 DEF Runbook, ServerWaits
    <3>4. Readable(processing[j]) => /\ processing[j] <= RetryLimit
                                     /\ runs[j] <= processing[j] + Spent
      BY <3>3 DEF RunsInFiles
    <3>5. \A q \in Processes \ {p} : pc'[q] = pc[q] /\ job'[q] = job[q]
                                                    /\ payload'[q] = payload[q]
      BY <3>2
    <3>6. CASE pc'[p] = "requeue"
      <4>1. payload'[p] = processing[j] /\ job'[p] = j /\ Readable(processing[j])
        BY <3>2, <3>6
      <4> QED
        BY <3>1, <3>4, <3>5, <3>6, <4>1 DEF RunsInMemory
    <3>7. CASE pc'[p] = "down"
      BY <3>1, <3>5, <3>7 DEF RunsInMemory
    <3> QED
      BY <3>2, <3>6, <3>7
  <2>3. FreshHasNotRun'
    BY <1>0, <1>00 DEF FreshHasNotRun
  <2>4. RunsAreBounded'
    BY <1>0, <1>00 DEF RunsAreBounded
  <2> QED
    BY <2>1, <2>2, <2>3, <2>4 DEF RunParts
<1>3. CASE RecoverWrite(p)
  <2> USE <1>3 DEF RecoverWrite
  <2>1. RunsInFiles'
    BY <1>0, <1>00 DEF RunsInFiles, RunsInMemory
  <2>2. RunsInMemory'
    BY <1>0, <1>00 DEF RunsInMemory
  <2>3. FreshHasNotRun'
    BY <1>0, <1>00 DEF FreshHasNotRun
  <2>4. RunsAreBounded'
    BY <1>0, <1>00 DEF RunsAreBounded
  <2> QED
    BY <2>1, <2>2, <2>3, <2>4 DEF RunParts
<1>4. CASE RecoverUnlink(p)
  <2> USE <1>4 DEF RecoverUnlink
  <2>1. RunsInFiles'
    BY <1>0, <1>00 DEF RunsInFiles
  <2>2. RunsInMemory'
    BY <1>0, <1>00 DEF RunsInMemory
  <2>3. FreshHasNotRun'
    BY <1>0, <1>00 DEF FreshHasNotRun
  <2>4. RunsAreBounded'
    BY <1>0, <1>00 DEF RunsAreBounded
  <2> QED
    BY <2>1, <2>2, <2>3, <2>4 DEF RunParts
<1>5. CASE RecoverDone(p)
  <2> USE <1>5 DEF RecoverDone, files
  <2>1. RunsInFiles'
    BY <1>0, <1>00 DEF RunsInFiles
  <2>2. RunsInMemory'
    BY <1>0, <1>00 DEF RunsInMemory
  <2>3. FreshHasNotRun'
    BY <1>0, <1>00 DEF FreshHasNotRun
  <2>4. RunsAreBounded'
    BY <1>0, <1>00 DEF RunsAreBounded
  <2> QED
    BY <2>1, <2>2, <2>3, <2>4 DEF RunParts
<1> QED
  BY <1>1, <1>2, <1>3, <1>4, <1>5 DEF Startup

LEMMA EnqueueKeepsRuns ==
    ASSUME Runbook, RunInv, (\E j \in Jobs : EnqueueOpen(j)) \/ EnqueueWrite
    PROVE  RunParts'
<1> USE DEF RunInv, Ran, Spent, SafeInv, TypeInv, TypeOK, JobsKnown, WithJob,
           IsFile, NoFile, Corrupt, Readable, Goto, Processes, history
<1>0. /\ Server \in Processes /\ Server \notin Workers /\ Workers \subseteq Processes
      /\ NoJob \notin Jobs
  BY ConstantsAssumption DEF NoJob
<1>00. /\ Spent \in Nat /\ Spent' \in Nat /\ Spent <= Spent'
       /\ RetryLimit \in Nat
  BY ConstantsAssumption DEF EnqueueOpen, EnqueueWrite
<1>1. ASSUME NEW j \in Jobs, EnqueueOpen(j) PROVE RunParts'
  <2> USE <1>1 DEF EnqueueOpen
  <2>1. RunsInFiles'
    BY <1>0, <1>00 DEF RunsInFiles
  <2>2. RunsInMemory'
    BY <1>0, <1>00 DEF RunsInMemory
  <2>3. FreshHasNotRun'
    BY <1>0, <1>00 DEF FreshHasNotRun
  <2>4. RunsAreBounded'
    BY <1>0, <1>00 DEF RunsAreBounded
  <2> QED
    BY <2>1, <2>2, <2>3, <2>4 DEF RunParts
<1>2. CASE EnqueueWrite
  <2> USE <1>2 DEF EnqueueWrite
  <2>1. RunsInFiles'
    BY <1>0, <1>00 DEF RunsInFiles, FreshHasNotRun
  <2>2. RunsInMemory'
    BY <1>0, <1>00 DEF RunsInMemory
  <2>3. FreshHasNotRun'
    BY <1>0, <1>00 DEF FreshHasNotRun
  <2>4. RunsAreBounded'
    BY <1>0, <1>00 DEF RunsAreBounded
  <2> QED
    BY <2>1, <2>2, <2>3, <2>4 DEF RunParts
<1> QED
  BY <1>1, <1>2

LEMMA ClaimKeepsRuns ==
    ASSUME Runbook, RunInv, NEW w \in Workers, Claim(w)
    PROVE  RunParts'
<1> USE DEF RunInv, Ran, Spent, SafeInv, TypeInv, TypeOK, JobsKnown, WithJob,
           IsFile, NoFile, Corrupt, Readable, Goto, Processes, history
<1>0. /\ Server \in Processes /\ Server \notin Workers /\ Workers \subseteq Processes
      /\ NoJob \notin Jobs
  BY ConstantsAssumption DEF NoJob
<1>00. /\ Spent \in Nat /\ Spent' \in Nat /\ Spent <= Spent'
       /\ RetryLimit \in Nat
  BY ConstantsAssumption DEF Claim, ClaimList, ClaimRename, ClaimRead, ClaimStamp
<1>1. CASE ClaimList(w)
  <2> USE <1>1 DEF ClaimList, files
  <2>1. RunsInFiles'
    BY <1>0, <1>00 DEF RunsInFiles
  <2>2. RunsInMemory'
    BY <1>0, <1>00 DEF RunsInMemory
  <2>3. FreshHasNotRun'
    BY <1>0, <1>00 DEF FreshHasNotRun
  <2>4. RunsAreBounded'
    BY <1>0, <1>00 DEF RunsAreBounded
  <2> QED
    BY <2>1, <2>2, <2>3, <2>4 DEF RunParts
<1>2. CASE ClaimRename(w)
  <2> USE <1>2 DEF ClaimRename
  <2>1. RunsInFiles'
    BY <1>0, <1>00 DEF RunsInFiles
  <2>2. RunsInMemory'
    BY <1>0, <1>00 DEF RunsInMemory
  <2>3. FreshHasNotRun'
    BY <1>0, <1>00 DEF FreshHasNotRun
  <2>4. RunsAreBounded'
    BY <1>0, <1>00 DEF RunsAreBounded
  <2> QED
    BY <2>1, <2>2, <2>3, <2>4 DEF RunParts
<1>3. CASE ClaimRead(w)
  <2> USE <1>3 DEF ClaimRead, files
  <2>1. RunsInFiles'
    BY <1>0, <1>00 DEF RunsInFiles
  <2>2. RunsInMemory'
    BY <1>0, <1>00 DEF RunsInMemory, Runbook, RunsInFiles
  <2>3. FreshHasNotRun'
    BY <1>0, <1>00 DEF FreshHasNotRun
  <2>4. RunsAreBounded'
    BY <1>0, <1>00 DEF RunsAreBounded
  <2> QED
    BY <2>1, <2>2, <2>3, <2>4 DEF RunParts
<1>4. CASE ClaimStamp(w)
  <2> USE <1>4 DEF ClaimStamp
  <2>1. RunsInFiles'
    BY <1>0, <1>00 DEF RunsInFiles, RunsInMemory
  <2>2. RunsInMemory'
    BY <1>0, <1>00 DEF RunsInMemory
  <2>3. FreshHasNotRun'
    BY <1>0, <1>00 DEF FreshHasNotRun
  <2>4. RunsAreBounded'
    BY <1>0, <1>00 DEF RunsAreBounded
  <2> QED
    BY <2>1, <2>2, <2>3, <2>4 DEF RunParts
<1> QED
  BY <1>1, <1>2, <1>3, <1>4 DEF Claim

LEMMA FinishKeepsRuns ==
    ASSUME Runbook, RunInv, NEW w \in Workers, Finish(w)
    PROVE  RunParts'
<1> USE DEF RunInv, Ran, Spent, SafeInv, TypeInv, TypeOK, JobsKnown, WithJob,
           IsFile, NoFile, Corrupt, Readable, Goto, Processes, history
<1>0. /\ Server \in Processes /\ Server \notin Workers /\ Workers \subseteq Processes
      /\ NoJob \notin Jobs
  BY ConstantsAssumption DEF NoJob
<1>00. /\ Spent \in Nat /\ Spent' \in Nat /\ Spent <= Spent'
       /\ RetryLimit \in Nat
  BY ConstantsAssumption DEF WriteState, ProcessReturns, ProcessRaises, CompleteWrite, CompleteUnlink,
     FailWrite, FailUnlink, Finish, Fault
<1>1. CASE ProcessReturns(w)
  <2> USE <1>1 DEF ProcessReturns, files
  <2>1. RunsInFiles'
    BY <1>0, <1>00 DEF RunsInFiles, Runbook, FileIsThere
  <2>2. RunsInMemory'
    <3>1. /\ pc[w] = "work" /\ job[w] \in Jobs /\ UNCHANGED <<payload, job, budget>>
          /\ runs' = [runs EXCEPT ![job[w]] = @ + 1]
          /\ pc'[w] \in {"complete", "fail"}
          /\ \A p \in Processes \ {w} : pc'[p] = pc[p]
      BY <1>0
    <3>2. \A p \in Processes \ {w} :
             pc[p] \notin {"requeue", "stamp", "work", "state"} \cup Ran
      BY <1>0, <3>1 DEF Roles, ServerWaits, Runbook
    <3>3. /\ payload[w] <= RetryLimit /\ runs[job[w]] <= payload[w] + Spent
          /\ payload[w] \in Nat /\ runs[job[w]] \in Nat
      BY <1>0, <3>1 DEF RunsInMemory
    <3>4. runs'[job[w]] = runs[job[w]] + 1 /\ Spent' = Spent
      BY <3>1
    <3>5. runs'[job[w]] <= payload[w] + 1 + Spent'
      BY <1>00, <3>3, <3>4
    <3> QED
      BY <1>0, <3>1, <3>2, <3>3, <3>5 DEF RunsInMemory
  <2>3. FreshHasNotRun'
    <3>1. job[w] \in submitted /\ (pc[Server] = "enqueue" => job[w] # job[Server])
      BY <1>0 DEF FreshIsNew, OpenFile, Reading
    <3> QED
      BY <1>0, <3>1 DEF FreshHasNotRun
  <2>4. RunsAreBounded'
    BY <1>0, <1>00 DEF RunsAreBounded, RunsInMemory
  <2> QED
    BY <2>1, <2>2, <2>3, <2>4 DEF RunParts
<1>2. CASE CompleteWrite(w)
  <2> USE <1>2 DEF CompleteWrite
  <2>1. RunsInFiles'
    BY <1>0, <1>00 DEF RunsInFiles
  <2>2. RunsInMemory'
    BY <1>0, <1>00 DEF RunsInMemory
  <2>3. FreshHasNotRun'
    BY <1>0, <1>00 DEF FreshHasNotRun
  <2>4. RunsAreBounded'
    BY <1>0, <1>00 DEF RunsAreBounded
  <2> QED
    BY <2>1, <2>2, <2>3, <2>4 DEF RunParts
<1>3. CASE CompleteUnlink(w)
  <2> USE <1>3 DEF CompleteUnlink
  <2>1. RunsInFiles'
    BY <1>0, <1>00 DEF RunsInFiles
  <2>2. RunsInMemory'
    BY <1>0, <1>00 DEF RunsInMemory
  <2>3. FreshHasNotRun'
    BY <1>0, <1>00 DEF FreshHasNotRun
  <2>4. RunsAreBounded'
    BY <1>0, <1>00 DEF RunsAreBounded
  <2> QED
    BY <2>1, <2>2, <2>3, <2>4 DEF RunParts
<1>4. CASE WriteState(w)
  <2> USE <1>4 DEF WriteState, files
  <2>1. RunsInFiles'
    BY <1>0, <1>00 DEF RunsInFiles
  <2>2. RunsInMemory'
    BY <1>0, <1>00 DEF RunsInMemory
  <2>3. FreshHasNotRun'
    BY <1>0, <1>00 DEF FreshHasNotRun
  <2>4. RunsAreBounded'
    BY <1>0, <1>00 DEF RunsAreBounded
  <2> QED
    BY <2>1, <2>2, <2>3, <2>4 DEF RunParts
<1>5. CASE ProcessRaises(w)
  <2> USE <1>5 DEF ProcessRaises, files
  <2>1. RunsInFiles'
    BY <1>0, <1>00 DEF RunsInFiles, Runbook, FileIsThere
  <2>2. RunsInMemory'
    <3>1. /\ pc[w] = "work" /\ job[w] \in Jobs /\ UNCHANGED <<payload, job, budget>>
          /\ runs' = [runs EXCEPT ![job[w]] = @ + 1]
          /\ pc'[w] \in {"complete", "fail"}
          /\ \A p \in Processes \ {w} : pc'[p] = pc[p]
      BY <1>0
    <3>2. \A p \in Processes \ {w} :
             pc[p] \notin {"requeue", "stamp", "work", "state"} \cup Ran
      BY <1>0, <3>1 DEF Roles, ServerWaits, Runbook
    <3>3. /\ payload[w] <= RetryLimit /\ runs[job[w]] <= payload[w] + Spent
          /\ payload[w] \in Nat /\ runs[job[w]] \in Nat
      BY <1>0, <3>1 DEF RunsInMemory
    <3>4. runs'[job[w]] = runs[job[w]] + 1 /\ Spent' = Spent
      BY <3>1
    <3>5. runs'[job[w]] <= payload[w] + 1 + Spent'
      BY <1>00, <3>3, <3>4
    <3> QED
      BY <1>0, <3>1, <3>2, <3>3, <3>5 DEF RunsInMemory
  <2>3. FreshHasNotRun'
    <3>1. job[w] \in submitted /\ (pc[Server] = "enqueue" => job[w] # job[Server])
      BY <1>0 DEF FreshIsNew, OpenFile, Reading
    <3> QED
      BY <1>0, <3>1 DEF FreshHasNotRun
  <2>4. RunsAreBounded'
    BY <1>0, <1>00 DEF RunsAreBounded, RunsInMemory
  <2> QED
    BY <2>1, <2>2, <2>3, <2>4 DEF RunParts
<1>6. CASE FailWrite(w)
  <2> USE <1>6 DEF FailWrite, MayRetry
  <2>1. RunsInFiles'
    BY <1>0, <1>00 DEF RunsInFiles, RunsInMemory
  <2>2. RunsInMemory'
    BY <1>0, <1>00 DEF RunsInMemory
  <2>3. FreshHasNotRun'
    BY <1>0, <1>00 DEF FreshHasNotRun
  <2>4. RunsAreBounded'
    BY <1>0, <1>00 DEF RunsAreBounded
  <2> QED
    BY <2>1, <2>2, <2>3, <2>4 DEF RunParts
<1>7. CASE FailUnlink(w)
  <2> USE <1>7 DEF FailUnlink
  <2>1. RunsInFiles'
    BY <1>0, <1>00 DEF RunsInFiles
  <2>2. RunsInMemory'
    BY <1>0, <1>00 DEF RunsInMemory
  <2>3. FreshHasNotRun'
    BY <1>0, <1>00 DEF FreshHasNotRun
  <2>4. RunsAreBounded'
    BY <1>0, <1>00 DEF RunsAreBounded
  <2> QED
    BY <2>1, <2>2, <2>3, <2>4 DEF RunParts
<1> QED
  BY <1>1, <1>2, <1>3, <1>4, <1>5, <1>6, <1>7 DEF Finish

LEMMA CrashKeepsRuns ==
    ASSUME Runbook, RunInv, NEW p \in Processes, Crash(p)
    PROVE  RunParts'
<1> USE DEF RunInv, Ran, Spent, SafeInv, TypeInv, TypeOK, JobsKnown, WithJob,
           IsFile, NoFile, Corrupt, Readable, Goto, Processes, history
<1>0. /\ Server \in Processes /\ Server \notin Workers /\ Workers \subseteq Processes
      /\ NoJob \notin Jobs
  BY ConstantsAssumption DEF NoJob
<1>00. /\ Spent \in Nat /\ Spent' \in Nat /\ Spent <= Spent'
       /\ RetryLimit \in Nat
  BY ConstantsAssumption DEF Crash, Fault
<1>1. CASE Crash(p)
  <2> USE <1>1 DEF Crash, Torn
  <2>1. RunsInFiles'
    <3>1. Spent' = Spent + 1 /\ runs' = runs
      BY ConstantsAssumption DEF Fault
    <3>2. \A j \in Jobs : /\ pending'[j] \in {pending[j], Corrupt}
                          /\ processing'[j] \in {processing[j], Corrupt}
      BY <1>0
    <3>3. \A j \in Jobs : /\ runs[j] \in Nat
                          /\ pending[j] \in Int /\ processing[j] \in Int
      OBVIOUS
    <3>4. \A j \in Jobs :
             Readable(processing[j]) => /\ processing[j] <= RetryLimit
                                        /\ runs[j] <= processing[j] + 1 + Spent
      BY <1>00, <3>3 DEF RunsInFiles
    <3>5. \A j \in Jobs :
             Readable(pending[j]) => /\ pending[j] <= RetryLimit
                                     /\ runs[j] <= pending[j] + 1 + Spent
      BY <1>00, <3>3 DEF RunsInFiles
    <3> QED
      BY <1>00, <3>1, <3>2, <3>3, <3>4, <3>5 DEF RunsInFiles
  <2>2. RunsInMemory'
    BY <1>0, <1>00 DEF RunsInMemory
  <2>3. FreshHasNotRun'
    BY <1>0, <1>00 DEF FreshHasNotRun
  <2>4. RunsAreBounded'
    BY <1>0, <1>00 DEF RunsAreBounded
  <2> QED
    BY <2>1, <2>2, <2>3, <2>4 DEF RunParts
<1> QED
  BY <1>1

LEMMA RunInductive == ASSUME Runbook PROVE RunInv /\ [Next]_vars => RunInv'
<1> SUFFICES ASSUME RunInv, [Next]_vars PROVE RunInv'
  OBVIOUS
<1>1. SafeInv'
  BY SafeInductive DEF RunInv
<1>2. CASE UNCHANGED vars
  BY <1>1, <1>2 DEF vars, files, memory, history, RunInv, RunsInFiles, RunsInMemory,
                    FreshHasNotRun, RunsAreBounded, Spent
<1>3. CASE Next
  <2>1. RunParts'
    BY <1>3, StartupKeepsRuns, EnqueueKeepsRuns, ClaimKeepsRuns, FinishKeepsRuns,
       CrashKeepsRuns DEF Next
  <2> QED
    BY <1>1, <2>1 DEF RunInv, RunParts
<1> QED
  BY <1>2, <1>3

LEMMA RunInitially == Init => RunInv
<1> SUFFICES ASSUME Init PROVE RunInv
  OBVIOUS
<1>1. Server \in Processes /\ RetryLimit \in Nat /\ MaxFaults \in Nat
  BY ConstantsAssumption DEF Processes
<1>2. RunsInFiles /\ RunsInMemory /\ FreshHasNotRun
  BY <1>1 DEF Init, RunsInFiles, RunsInMemory, FreshHasNotRun, Readable, NoFile, Ran
<1>3. RunsAreBounded
  BY <1>1 DEF Init, RunsAreBounded
<1> QED
  BY <1>2, <1>3, SafeInitially DEF RunInv

LEMMA RunInvariant == ASSUME Runbook PROVE Spec => []RunInv
  BY RunInitially, RunInductive, PTL DEF Spec

(* With one worker and ordered starts a job runs once more than the limit, *)
(* and once more for every crash or late error.                            *)
THEOREM RunsStayBounded == ASSUME Runbook PROVE Spec => []RunsAreBounded
<1>1. RunInv => RunsAreBounded
  BY DEF RunInv
<1> QED
  BY <1>1, RunInvariant, PTL
=============================================================================
