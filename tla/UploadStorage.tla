---------------------------- MODULE UploadStorage ----------------------------
(***************************************************************************)
(* The upload endpoint (server/routes.py, server/storage.py) and the client*)
(* that retries (machine_client/transport.py, agent.py).  save_upload is a *)
(* coroutine: other requests run while it awaits the body of its file, and *)
(* none between that await and its answer.  A crash or an error that it    *)
(* does not catch (a full disk, a Redis that is gone) may end it anywhere. *)
(* Raw files never have the same content under two keys, so a file is its  *)
(* batch and the number that made its name free.                           *)
(***************************************************************************)
EXTENDS Integers, FiniteSets, FiniteSetsExt

CONSTANTS Batches,      \* idempotency keys, one per batch
          MaxAttempts   \* bound: requests made for each batch

ASSUME StorageAssumption == MaxAttempts \in [Batches -> Nat \ {0}]

Requests == UNION {{b} \X (1..MaxAttempts[b]) : b \in Batches}
RawFiles == UNION {{b} \X (0..MaxAttempts[b]) : b \in Batches}
BatchOf(r) == r[1]
None == <<>>

VARIABLES tried, awaiting, acked,   \* the client of each batch
          phase, slot,              \* of every request; slot: its file's number
          raw, log, index,          \* files: raw zips, metadata lines, keys
          short,                    \* raw zips that do not have all their bytes
          beside,                   \* history: open requests a request met
          keyless                   \* history: requests whose key was not
                                    \* written or went with the index

client      == <<tried, awaiting, acked>>
storageVars == <<client, phase, slot, raw, log, index, short, beside, keyless>>

StorageInit == /\ tried = [b \in Batches |-> 0]
               /\ awaiting = [b \in Batches |-> FALSE]
               /\ acked = {}
               /\ phase = [r \in Requests |-> "unsent"]
               /\ slot = [r \in Requests |-> 0]
               /\ raw = {} /\ log = {} /\ short = {} /\ keyless = {}
               /\ index = [b \in Batches |-> None]
               /\ beside = [r \in Requests |-> {}]

Advance(r, from, to) == phase[r] = from /\ phase' = [phase EXCEPT ![r] = to]
PathOf(r) == <<BatchOf(r), slot[r]>>

(* Between its await and its answer a handler has the event loop to itself. *)
OnLoop   == {"write", "append", "save", "push", "remember"}
LoopFree == \A r \in Requests : phase[r] \notin OnLoop

----------------------------------------------------------------------------
(* The client: upload_batch, repeated until it returns True. *)

Send(b) ==
    /\ ~awaiting[b] /\ b \notin acked /\ tried[b] < MaxAttempts[b]
    /\ tried' = [tried EXCEPT ![b] = @ + 1]
    /\ awaiting' = [awaiting EXCEPT ![b] = TRUE]
    /\ phase' = [phase EXCEPT ![<<b, tried[b] + 1>>] = "sent"]
    /\ UNCHANGED <<acked, slot, raw, log, index, short, beside, keyless>>

(* httpx gives up waiting; the server does not. *)
TimeOut(b) == /\ awaiting[b]
              /\ awaiting' = [awaiting EXCEPT ![b] = FALSE]
              /\ UNCHANGED <<tried, acked, phase, slot, raw, log, index, short, beside, keyless>>

----------------------------------------------------------------------------
(* save_upload up to its await: the key, then a file name that is free now. *)

FreeSlot(b) == Min({n \in 0..MaxAttempts[b] : <<b, n>> \notin raw})

Lookup(r) ==
    LET b == BatchOf(r)
    IN  /\ phase[r] = "sent" /\ LoopFree
        /\ IF index[b] # None
           THEN phase' = [phase EXCEPT ![r] = "duplicate"] /\ UNCHANGED <<slot, beside>>
           ELSE /\ phase' = [phase EXCEPT ![r] = "reading"]
                /\ slot' = [slot EXCEPT ![r] = FreeSlot(b)]
                /\ beside' = [beside EXCEPT ![r] =
                                 {s \in Requests : BatchOf(s) = b /\ phase[s] = "reading"}]
        /\ UNCHANGED <<client, raw, log, index, short, keyless>>

(* The body does not match its checksum: 400, and nothing is written. *)
Refuse(r) == /\ Advance(r, "reading", "refused") /\ LoopFree
             /\ UNCHANGED <<client, slot, raw, log, index, short, beside, keyless>>

(* write_bytes: the file is opened, which truncates one that another request *)
(* wrote under the same name, and closed with all its bytes.               *)
OpenRaw(r) == /\ Advance(r, "reading", "write") /\ LoopFree
              /\ raw' = raw \cup {PathOf(r)}
              /\ short' = short \cup {PathOf(r)}
              /\ UNCHANGED <<client, slot, log, index, beside, keyless>>

WriteRaw(r) == /\ Advance(r, "write", "append")
               /\ short' = short \ {PathOf(r)}
               /\ UNCHANGED <<client, slot, raw, log, index, beside, keyless>>

AppendMetadata(r) == /\ Advance(r, "append", "save")
                     /\ log' = log \cup {r}
                     /\ UNCHANGED <<client, slot, raw, index, short, beside, keyless>>

(* The two commands of queue.enqueue, which change the queue elsewhere. *)
Enqueue(r, from, to) == /\ Advance(r, from, to)
                        /\ UNCHANGED <<client, slot, raw, log, index, short, beside, keyless>>

(* Variant: the index is written from this key alone. *)
RememberOnlyThis(r) ==
    /\ Advance(r, "remember", "stored")
    /\ index' = [b \in Batches |-> IF b = BatchOf(r) THEN r ELSE None]
    /\ UNCHANGED <<client, slot, raw, log, short, beside, keyless>>

(* Variant: the key itself is stored in place of the metadata. *)
RememberKey(r) ==
    /\ Advance(r, "remember", "stored")
    /\ index' = [index EXCEPT ![BatchOf(r)] = BatchOf(r)]
    /\ UNCHANGED <<client, slot, raw, log, short, beside, keyless>>

(* _remember_idempotency *)
Remember(r) == /\ Advance(r, "remember", "stored")
               /\ index' = [index EXCEPT ![BatchOf(r)] = r]
               /\ UNCHANGED <<client, slot, raw, log, short, beside, keyless>>

(* write_text cut off before it opens the index, or after: the index that  *)
(* is left then loads as an empty one.                                     *)
Unremembered == {r \in Requests : phase[r] = "remember"}
LoseKeys ==
    /\ index' \in {index} \cup {[b \in Batches |-> None] : r \in Unremembered}
    /\ keyless' = keyless \cup Unremembered
                   \cup {s \in log : index'[BatchOf(s)] # index[BatchOf(s)]}

(* Any other exception than the ValueError of the checksum: 500, which is  *)
(* no more to the client than the 400.                                     *)
Raise(r) == /\ phase[r] \in OnLoop
            /\ phase' = [phase EXCEPT ![r] = "refused"]
            /\ LoseKeys
            /\ UNCHANGED <<client, slot, raw, log, short, beside>>

(* The answer reaches the client, if it still waits for this request. *)
Answer(r) ==
    LET b == BatchOf(r)
        heard == awaiting[b] /\ tried[b] = r[2]
    IN  /\ phase[r] \in {"stored", "duplicate", "refused"}
        /\ phase' = [phase EXCEPT ![r] = "over"]
        /\ awaiting' = IF heard THEN [awaiting EXCEPT ![b] = FALSE] ELSE awaiting
        /\ acked' = IF heard /\ phase[r] # "refused" THEN acked \cup {b} ELSE acked
        /\ UNCHANGED <<tried, slot, raw, log, index, short, beside, keyless>>

----------------------------------------------------------------------------
(* The server dies: open requests end, and their clients see an error. *)
Open == {"sent", "reading", "stored", "duplicate", "refused"} \cup OnLoop

StorageCrash ==
    /\ phase' = [r \in Requests |-> IF phase[r] \in Open THEN "over" ELSE phase[r]]
    /\ awaiting' = [b \in Batches |-> FALSE]
    /\ LoseKeys
    /\ UNCHANGED <<tried, acked, slot, raw, log, short, beside>>

(* run_startup_maintenance: raw files older than the retention go; whoever *)
(* has one open reads on.                                                  *)
Clean(old) == /\ raw' = raw \ old
              /\ UNCHANGED <<client, phase, slot, log, index, short, beside, keyless>>

(* Every variable keeps its shape. *)
StorageTypeOK ==
    /\ tried \in [Batches -> Nat]
    /\ awaiting \in [Batches -> BOOLEAN]
    /\ acked \subseteq Batches /\ log \subseteq Requests
    /\ phase \in [Requests -> Open \cup {"unsent", "over"}]
    /\ slot \in [Requests -> Nat]
    /\ raw \subseteq RawFiles /\ short \subseteq RawFiles
    /\ keyless \subseteq Requests
    /\ index \in [Batches -> Requests \cup {None}]
    /\ beside \in [Requests -> SUBSET Requests]
=============================================================================
