----------------------------- MODULE FleetStore -----------------------------
(***************************************************************************)
(* The control server's registry of upload servers and the thread that     *)
(* polls them (control_server/store.py).  Every access to servers.json and *)
(* snapshots.json holds one lock; the poller gives it up while it fetches, *)
(* and writes the two files one after the other.                           *)
(***************************************************************************)
EXTENDS RuntimeStore

CONSTANTS Servers,      \* server ids
          Urls,         \* base URLs
          Conditions,   \* the conditions an upload server may be in
          Unreachable,  \* ... or it does not answer
          Normal,       \* the condition every server starts in
          MaxChanges    \* bound: changes of condition in a behaviour

ASSUME FleetAssumption == /\ \A c \in Conditions : IsCondition(c)
                          /\ Normal \in Conditions
                          /\ Unreachable \notin Conditions
                          /\ MaxChanges \in Nat

VARIABLES servers,      \* servers.json, by server id
          snapshots,    \* snapshots.json, by server id
          poll,         \* what the poller knows
          world,        \* the condition of the server behind each URL
          changes

fleetVars == <<servers, snapshots, poll, world, changes>>

(* due: next_poll_at is past; seen: last_seen_at is set; error: last_error *)
(* is.  name, site, labels, the intervals and the secret are left out.     *)
Server == [url : Urls, enabled : BOOLEAN, due : BOOLEAN, seen : BOOLEAN,
           error : BOOLEAN]

Poll == [pc : {"sleep"}]
    \cup [pc : {"next"}, todo : SUBSET Servers]
    \cup [pc : {"fetch"}, todo : SUBSET Servers, id : Servers, read : Server]
    \cup [pc : {"store"}, todo : SUBSET Servers, id : Servers, read : Server,
          got : Conditions]
    \cup [pc : {"stamp", "fail"}, todo : SUBSET Servers, id : Servers, read : Server]

FleetTypeOK == /\ DOMAIN servers \subseteq Servers
               /\ servers \in [DOMAIN servers -> Server]
               /\ DOMAIN snapshots \subseteq DOMAIN servers
               /\ \A x \in DOMAIN snapshots : \E c \in Conditions :
                     snapshots[x] = Snapshot(c)
               /\ poll \in Poll
               /\ world \in [Urls -> Conditions \cup {Unreachable}]
               /\ changes \in 0..MaxChanges

FleetInit == /\ servers = [x \in {} |-> <<>>]
             /\ snapshots = [x \in {} |-> <<>>]
             /\ poll = [pc |-> "sleep"]
             /\ world = [u \in Urls |-> Normal]
             /\ changes = 0

With(dict, key, value) ==
    [k \in DOMAIN dict \cup {key} |-> IF k = key THEN value ELSE dict[k]]

(* The poller holds the lock from its first write to its second. *)
LockIsFree == poll.pc # "stamp"

----------------------------------------------------------------------------
(* The requests.  Each loads and saves servers.json under the lock. *)

RegisterServer(x, url) ==
    /\ LockIsFree
    /\ x \notin DOMAIN servers
    /\ servers' = With(servers, x, [url |-> url, enabled |-> TRUE, due |-> TRUE,
                                    seen |-> FALSE, error |-> FALSE])
    /\ UNCHANGED <<snapshots, poll, world, changes>>

(* Any of the fields may be given; the one that is not keeps its value. *)
PatchServer(x, given, url, enabled) ==
    /\ LockIsFree
    /\ x \in DOMAIN servers
    /\ servers' = [servers EXCEPT
                     ![x].url = IF "url" \in given THEN url ELSE @,
                     ![x].enabled = IF "enabled" \in given THEN enabled ELSE @]
    /\ UNCHANGED <<snapshots, poll, world, changes>>

RefreshServer(x) == /\ LockIsFree
                    /\ x \in DOMAIN servers
                    /\ servers' = [servers EXCEPT ![x].due = TRUE]
                    /\ UNCHANGED <<snapshots, poll, world, changes>>

----------------------------------------------------------------------------
(* _poll_loop and _poll_server. *)

Polls(record) == /\ poll' = record
                 /\ UNCHANGED <<world, changes>>

(* A round that finds no server due changes nothing and is not a step. *)
PollList == LET due == {x \in DOMAIN servers : servers[x].enabled /\ servers[x].due}
            IN  /\ poll.pc = "sleep"
                /\ due # {}
                /\ Polls([pc |-> "next", todo |-> due])
                /\ UNCHANGED <<servers, snapshots>>

(* The list may be old: a server disabled since then is polled once more. *)
PollRead(x) == /\ poll.pc = "next"
               /\ x \in poll.todo
               /\ Polls([pc |-> "fetch", todo |-> poll.todo \ {x}, id |-> x,
                         read |-> servers[x]])
               /\ UNCHANGED <<servers, snapshots>>

At(pc) == [pc |-> pc, todo |-> poll.todo, id |-> poll.id, read |-> poll.read]

(* Variant: whatever comes back is taken for a snapshot. *)
PollFetchAnyAnswer ==
    /\ poll.pc = "fetch"
    /\ Polls([pc |-> "store", todo |-> poll.todo, id |-> poll.id,
              read |-> poll.read, got |-> world[poll.read.url]])
    /\ UNCHANGED <<servers, snapshots>>

(* _fetch_server_snapshot, without the lock, from the URL that was read.   *)
(* The endpoint it tries first, which src/server has, answers with all     *)
(* parts of one moment.  The requests for the single parts, for a server   *)
(* that fails this one and answers those, are left out.                    *)
PollFetch == LET answer == world[poll.read.url]
             IN  /\ poll.pc = "fetch"
                 /\ IF answer = Unreachable
                    THEN Polls(At("fail"))
                    ELSE Polls([pc |-> "store", todo |-> poll.todo, id |-> poll.id,
                                read |-> poll.read, got |-> answer])
                 /\ UNCHANGED <<servers, snapshots>>

(* Variant: last_seen_at is saved before snapshots.json is written. *)
PollStoreSeenFirst == /\ poll.pc = "store"
                  /\ Polls(At("stamp"))
                  /\ servers' = [servers EXCEPT ![poll.id].seen = TRUE]
                  /\ UNCHANGED snapshots

PollStore == /\ poll.pc = "store"
             /\ snapshots' = With(snapshots, poll.id, Snapshot(poll.got))
             /\ Polls(At("stamp"))
             /\ UNCHANGED servers

(* The next server of the round, or the sleep of a second after it. *)
Rest == IF poll.todo = {} THEN [pc |-> "sleep"]
                          ELSE [pc |-> "next", todo |-> poll.todo]

(* Variant: the record read before the fetch is written back. *)
PollStampStale ==
    /\ poll.pc = "stamp"
    /\ servers' = [servers EXCEPT ![poll.id] = [poll.read EXCEPT
                     !.seen = TRUE, !.error = FALSE, !.due = FALSE]]
    /\ Polls(Rest)
    /\ UNCHANGED snapshots

(* Variant: a success leaves last_error as it is. *)
PollStampKeepsError ==
    /\ poll.pc = "stamp"
    /\ servers' = [servers EXCEPT ![poll.id].seen = TRUE, ![poll.id].due = FALSE]
    /\ Polls(Rest)
    /\ UNCHANGED snapshots

PollStamp == /\ poll.pc = "stamp"
             /\ servers' = [servers EXCEPT ![poll.id].seen = TRUE,
                                           ![poll.id].error = FALSE,
                                           ![poll.id].due = FALSE]
             /\ Polls(Rest)
             /\ UNCHANGED snapshots

(* The snapshot of a server that stops answering stays as it was. *)
PollFail == /\ poll.pc = "fail"
            /\ servers' = [servers EXCEPT ![poll.id].error = TRUE,
                                          ![poll.id].due = FALSE]
            /\ Polls(Rest)
            /\ UNCHANGED snapshots

----------------------------------------------------------------------------
(* poll_interval_sec have passed since the last poll; time needs no lock. *)
BecomesDue(x) == /\ x \in DOMAIN servers
                 /\ ~servers[x].due
                 /\ servers' = [servers EXCEPT ![x].due = TRUE]
                 /\ UNCHANGED <<snapshots, poll, world, changes>>

(* Only the conditions of servers in the registry matter to it: one that   *)
(* is in trouble when it is registered changes before its first poll.      *)
ConditionChanges(u, c) == /\ changes < MaxChanges
                          /\ \E x \in DOMAIN servers : servers[x].url = u
                          /\ world[u] # c
                          /\ world' = [world EXCEPT ![u] = c]
                          /\ changes' = changes + 1
                          /\ UNCHANGED <<servers, snapshots, poll>>

(* The process stops and starts, possibly between the poller's two writes. *)
FleetRestart == /\ poll' = [pc |-> "sleep"]
                /\ UNCHANGED <<servers, snapshots, world, changes>>

PollStep == \/ PollList
            \/ \E x \in Servers : PollRead(x)
            \/ PollFetch \/ PollStore \/ PollStamp \/ PollFail

FleetStep == \/ PollStep
             \/ \E x \in Servers : BecomesDue(x)
             \/ \E u \in Urls, c \in Conditions \cup {Unreachable} :
                   ConditionChanges(u, c)

----------------------------------------------------------------------------
(* What clients decide about a server. *)
Registry == [x \in DOMAIN servers |-> <<servers[x].url, servers[x].enabled>>]

(* What the dashboard is shown. *)

StatusOf(x) == IF x \in DOMAIN snapshots THEN snapshots[x].status ELSE "offline"

Overview == FleetStatus({StatusOf(x) : x \in DOMAIN servers},
                        {snapshots[x] : x \in DOMAIN snapshots})

----------------------------------------------------------------------------
(* Properties. *)

(* The fleet is shown as normal only if every server has been polled and   *)
(* was healthy when its snapshot was taken: no fault that server/store.py  *)
(* could see then is lost on the way through alerts(),                     *)
(* _normalize_snapshot and fleet_overview.  It promises nothing of the     *)
(* time since: _poll_server keeps the snapshot of a server that stopped    *)
(* answering, which stays "online" and leaves the fleet "normal" with      *)
(* only last_error to tell (PollCatchesUp).                                *)
NormalWasHealthy ==
    Overview = "normal" =>
       \A x \in DOMAIN servers : x \in DOMAIN snapshots /\ Healthy(snapshots[x].of)

(* A server with a last_seen_at has a snapshot to show for it, also when   *)
(* the process died between the poller's two writes.                       *)
SeenHasSnapshot == \A x \in DOMAIN servers : servers[x].seen => x \in DOMAIN snapshots

(* When clients and conditions have come to rest, every enabled server is  *)
(* shown in the condition it is in, or, if it does not answer, with a      *)
(* last_error beside the snapshot it had, whatever patches, failed polls   *)
(* and restarts came before.                                               *)
Shown(x) == LET c == world[servers[x].url]
            IN  IF c = Unreachable
                THEN servers[x].error
                ELSE /\ x \in DOMAIN snapshots
                     /\ snapshots[x].of = c
                     /\ ~servers[x].error

AtRest == <>[][UNCHANGED world /\ Registry' = Registry]_fleetVars

PollCatchesUp ==
    AtRest => \A x \in Servers :
                 <>[](x \in DOMAIN servers /\ servers[x].enabled)
                    => <>[](x \in DOMAIN servers /\ Shown(x))
=============================================================================
