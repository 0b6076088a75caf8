---------------------------- MODULE FleetProofs ----------------------------
(***************************************************************************)
(* Theorems about the control server's registry and its poller, for any    *)
(* servers, URLs and conditions, any requests and any restarts.            *)
(***************************************************************************)
EXTENDS ControlPlaneProofs

----------------------------------------------------------------------------
(* The invariant. *)

(* The poller only knows servers of the registry; servers are never        *)
(* removed from it.                                                        *)
PollKnown == /\ poll.pc # "sleep" => poll.todo \subseteq DOMAIN servers
             /\ poll.pc \in {"fetch", "store", "stamp", "fail"} =>
                   poll.id \in DOMAIN servers

(* Between the poller's two writes the snapshot is there already. *)
StampHasSnapshot == poll.pc = "stamp" => poll.id \in DOMAIN snapshots

FleetInv == /\ FleetTypeOK
            /\ PollKnown
            /\ StampHasSnapshot
            /\ SeenHasSnapshot

(* What the poller knows, as the fields of the record it is. *)
LEMMA PollFields ==
    ASSUME NEW p \in Poll
    PROVE  /\ p.pc \in {"sleep", "next", "fetch", "store", "stamp", "fail"}
           /\ p.pc # "sleep" => p.todo \in SUBSET Servers
           /\ p.pc \in {"fetch", "store", "stamp", "fail"} => /\ p.id \in Servers
                                                              /\ p.read \in Server
           /\ p.pc = "store" => p.got \in Conditions
  BY DEF Poll

(* The registry after a step: no server is removed, and last_seen_at is    *)
(* set of nobody but the one the poller stamps.                            *)
RegistryGrows == /\ DOMAIN servers \subseteq DOMAIN servers'
                 /\ DOMAIN servers' \subseteq Servers
                 /\ servers' \in [DOMAIN servers' -> Server]
                 /\ \A x \in DOMAIN servers' :
                       servers'[x].seen =>
                          \/ x \in DOMAIN servers /\ servers[x].seen
                          \/ x \in DOMAIN snapshots'

SnapshotsGrow == /\ DOMAIN snapshots \subseteq DOMAIN snapshots'
                 /\ DOMAIN snapshots' \subseteq DOMAIN servers'
                 /\ \A x \in DOMAIN snapshots' : \E c \in Conditions :
                       snapshots'[x] = Snapshot(c)

PollerKnows == /\ poll' \in Poll
               /\ PollKnown'
               /\ StampHasSnapshot'

(* A step that does these things keeps the invariant. *)
LEMMA FleetMoves ==
    ASSUME FleetInv, RegistryGrows, SnapshotsGrow, PollerKnows,
           world' \in [Urls -> Conditions \cup {Unreachable}],
           changes' \in 0..MaxChanges
    PROVE  FleetInv'
<1>1. FleetTypeOK'
  BY DEF FleetTypeOK, RegistryGrows, SnapshotsGrow, PollerKnows
<1>2. SeenHasSnapshot'
  BY DEF FleetInv, SeenHasSnapshot, RegistryGrows, SnapshotsGrow
<1> QED
  BY <1>1, <1>2 DEF FleetInv, PollerKnows

(* Whoever leaves the poller and the snapshots alone has only the registry *)
(* to answer for.                                                          *)
LEMMA PollerStands ==
    ASSUME FleetInv, RegistryGrows, UNCHANGED <<snapshots, poll>>
    PROVE  SnapshotsGrow /\ PollerKnows
<1>1. SnapshotsGrow
  BY DEF FleetInv, FleetTypeOK, RegistryGrows, SnapshotsGrow
<1>2. PollerKnows
  BY DEF FleetInv, FleetTypeOK, RegistryGrows, PollerKnows, PollKnown, StampHasSnapshot
<1> QED
  BY <1>1, <1>2

LEMMA RegistryStands ==
    ASSUME FleetTypeOK, servers' = servers
    PROVE  RegistryGrows
  BY DEF FleetTypeOK, RegistryGrows

----------------------------------------------------------------------------
(* The requests and the clock. *)

(* A record of the registry is replaced by one that is not seen, or was.   *)
LEMMA RecordSaved ==
    ASSUME FleetTypeOK, NEW x \in DOMAIN servers, NEW record \in Server,
           servers' = [servers EXCEPT ![x] = record],
           record.seen => servers[x].seen \/ x \in DOMAIN snapshots'
    PROVE  RegistryGrows
<1>1. DOMAIN servers' = DOMAIN servers /\ servers' \in [DOMAIN servers -> Server]
  BY DEF FleetTypeOK
<1>2. servers'[x] = record /\ \A k \in DOMAIN servers \ {x} : servers'[k] = servers[k]
  OBVIOUS
<1> QED
  BY <1>1, <1>2 DEF FleetTypeOK, RegistryGrows

LEMMA RequestKeepsInv ==
    ASSUME FleetInv, NEW x \in Servers,
           \/ \E url \in Urls : RegisterServer(x, url)
           \/ \E given \in SUBSET {"url", "enabled"}, url \in Urls, e \in BOOLEAN :
                 PatchServer(x, given, url, e)
           \/ RefreshServer(x)
           \/ BecomesDue(x)
    PROVE  FleetInv'
<1>0. /\ FleetTypeOK
      /\ \A k \in DOMAIN servers : servers[k] \in Server
      /\ world \in [Urls -> Conditions \cup {Unreachable}] /\ changes \in 0..MaxChanges
  BY DEF FleetInv, FleetTypeOK
<1>1. UNCHANGED <<snapshots, poll, world, changes>>
  BY DEF RegisterServer, PatchServer, RefreshServer, BecomesDue
<1>2. ASSUME NEW url \in Urls, RegisterServer(x, url) PROVE RegistryGrows
  <2> DEFINE new == [url |-> url, enabled |-> TRUE, due |-> TRUE, seen |-> FALSE,
                     error |-> FALSE]
  <2>1. new \in Server /\ ~new.seen
    BY DEF Server
  <2>2. x \notin DOMAIN servers /\ servers' = With(servers, x, new)
    BY <1>2 DEF RegisterServer
  <2>3. /\ DOMAIN servers' = DOMAIN servers \cup {x}
        /\ servers'[x] = new
        /\ \A k \in DOMAIN servers : servers'[k] = servers[k]
    BY <2>2 DEF With
  <2>4. servers' \in [DOMAIN servers' -> Server]
    <3>1. servers' = [k \in DOMAIN servers' |-> servers'[k]]
      BY <2>2, <2>3 DEF With
    <3> QED
      BY <1>0, <2>1, <2>3, <3>1
  <2> QED
    BY <1>0, <2>1, <2>3, <2>4 DEF FleetTypeOK, RegistryGrows
<1>3. ASSUME NEW given \in SUBSET {"url", "enabled"}, NEW url \in Urls,
             NEW e \in BOOLEAN, PatchServer(x, given, url, e)
      PROVE  RegistryGrows
  <2> DEFINE old == servers[x]
             record == [old EXCEPT !.url = IF "url" \in given THEN url ELSE @,
                                   !.enabled = IF "enabled" \in given THEN e ELSE @]
  <2>1. x \in DOMAIN servers /\ old \in Server
    BY <1>0, <1>3 DEF PatchServer
  <2>2. record \in Server /\ record.seen = old.seen
    BY <2>1 DEF Server
  <2>3. servers' = [servers EXCEPT ![x] = record]
    BY <1>3, <2>1 DEF PatchServer
  <2> QED
    BY <1>0, <2>1, <2>2, <2>3, RecordSaved
<1>4. ASSUME RefreshServer(x) \/ BecomesDue(x) PROVE RegistryGrows
  <2> DEFINE record == [servers[x] EXCEPT !.due = TRUE]
  <2>1. x \in DOMAIN servers /\ servers' = [servers EXCEPT ![x] = record]
    BY <1>4 DEF RefreshServer, BecomesDue
  <2>2. record \in Server /\ record.seen = servers[x].seen
    BY <1>0, <2>1 DEF Server
  <2> QED
    BY <1>0, <2>1, <2>2, RecordSaved
<1>5. RegistryGrows
  BY <1>2, <1>3, <1>4
<1> QED
  BY <1>0, <1>1, <1>5, PollerStands, FleetMoves

----------------------------------------------------------------------------
(* The poller. *)

LEMMA RestIsKnown ==
    ASSUME FleetInv, poll.pc # "sleep", DOMAIN servers \subseteq DOMAIN servers',
           poll' = Rest
    PROVE  PollerKnows
<1>1. poll \in Poll /\ poll.todo \in SUBSET Servers /\ poll.todo \subseteq DOMAIN servers
  BY PollFields DEF FleetInv, FleetTypeOK, PollKnown
<1>2. CASE poll.todo = {}
  <2>1. poll' = [pc |-> "sleep"]
    BY <1>2 DEF Rest
  <2> QED
    BY <2>1 DEF PollerKnows, Poll, PollKnown, StampHasSnapshot
<1>3. CASE poll.todo # {}
  <2>1. poll' = [pc |-> "next", todo |-> poll.todo]
    BY <1>3 DEF Rest
  <2> QED
    BY <1>1, <2>1 DEF PollerKnows, Poll, PollKnown, StampHasSnapshot
<1> QED
  BY <1>2, <1>3

LEMMA PollKeepsInv ==
    ASSUME FleetInv, PollStep
    PROVE  FleetInv'
<1>0. /\ FleetTypeOK /\ PollKnown /\ poll \in Poll
      /\ \A k \in DOMAIN servers : servers[k] \in Server
      /\ DOMAIN servers \subseteq Servers
      /\ world \in [Urls -> Conditions \cup {Unreachable}] /\ changes \in 0..MaxChanges
  BY DEF FleetInv, FleetTypeOK
<1>1. UNCHANGED <<world, changes>>
  BY DEF PollStep, PollList, PollRead, PollFetch, PollStore, PollStamp, PollFail, Polls
<1>2. ASSUME servers' = servers, snapshots' = snapshots
      PROVE  RegistryGrows /\ SnapshotsGrow
  <2>1. RegistryGrows
    BY <1>0, <1>2, RegistryStands
  <2> QED
    BY <1>2, <2>1 DEF FleetInv, FleetTypeOK, SnapshotsGrow
<1>3. CASE PollList
  <2> DEFINE due == {x \in DOMAIN servers : servers[x].enabled /\ servers[x].due}
  <2>1. UNCHANGED <<servers, snapshots>> /\ poll' = [pc |-> "next", todo |-> due]
    BY <1>3 DEF PollList, Polls
  <2>2. due \subseteq DOMAIN servers /\ due \in SUBSET Servers
    BY <1>0
  <2>3. PollerKnows
    BY <2>1, <2>2 DEF PollerKnows, Poll, PollKnown, StampHasSnapshot
  <2> QED
    BY <1>0, <1>1, <1>2, <2>1, <2>3, FleetMoves
<1>4. ASSUME NEW x \in Servers, PollRead(x) PROVE FleetInv'
  <2>1. /\ UNCHANGED <<servers, snapshots>>
        /\ poll.pc = "next" /\ x \in poll.todo
        /\ poll' = [pc |-> "fetch", todo |-> poll.todo \ {x}, id |-> x,
                    read |-> servers[x]]
    BY <1>4 DEF PollRead, Polls
  <2>2. poll.todo \subseteq DOMAIN servers /\ poll.todo \in SUBSET Servers
    BY <1>0, <2>1, PollFields DEF PollKnown
  <2>3. servers[x] \in Server
    BY <1>0, <2>1, <2>2
  <2>4. PollerKnows
    BY <2>1, <2>2, <2>3 DEF PollerKnows, Poll, PollKnown, StampHasSnapshot
  <2> QED
    BY <1>0, <1>1, <1>2, <2>1, <2>4, FleetMoves
<1>5. CASE PollFetch
  <2>1. /\ UNCHANGED <<servers, snapshots>>
        /\ poll.pc = "fetch"
        /\ \/ poll' = At("fail")
           \/ /\ world[poll.read.url] # Unreachable
              /\ poll' = [pc |-> "store", todo |-> poll.todo, id |-> poll.id,
                          read |-> poll.read, got |-> world[poll.read.url]]
    BY <1>5 DEF PollFetch, Polls
  <2>2. /\ poll.todo \in SUBSET Servers /\ poll.id \in Servers /\ poll.read \in Server
        /\ poll.todo \subseteq DOMAIN servers /\ poll.id \in DOMAIN servers
    BY <1>0, <2>1, PollFields DEF PollKnown
  <2>3. poll.read.url \in Urls
    BY <2>2 DEF Server
  <2>4. CASE poll' = At("fail")
    <3>1. PollerKnows
      BY <2>1, <2>2, <2>4 DEF At, PollerKnows, Poll, PollKnown, StampHasSnapshot
    <3> QED
      BY <1>0, <1>1, <1>2, <2>1, <3>1, FleetMoves
  <2>5. CASE /\ world[poll.read.url] # Unreachable
             /\ poll' = [pc |-> "store", todo |-> poll.todo, id |-> poll.id,
                         read |-> poll.read, got |-> world[poll.read.url]]
    <3>1. world[poll.read.url] \in Conditions
      BY <1>0, <2>3, <2>5
    <3>2. PollerKnows
      BY <2>1, <2>2, <2>5, <3>1 DEF PollerKnows, Poll, PollKnown, StampHasSnapshot
    <3> QED
      BY <1>0, <1>1, <1>2, <2>1, <3>2, FleetMoves
  <2> QED
    BY <2>1, <2>4, <2>5
<1>6. CASE PollStore
  <2> DEFINE id == poll.id
  <2>1. /\ poll.pc = "store" /\ servers' = servers
        /\ snapshots' = With(snapshots, id, Snapshot(poll.got))
        /\ poll' = At("stamp")
    BY <1>6 DEF PollStore, Polls
  <2>2. /\ poll.todo \in SUBSET Servers /\ id \in Servers /\ poll.read \in Server
        /\ poll.todo \subseteq DOMAIN servers /\ id \in DOMAIN servers
        /\ poll.got \in Conditions
    BY <1>0, <2>1, PollFields DEF PollKnown
  <2>3. /\ DOMAIN snapshots' = DOMAIN snapshots \cup {id}
        /\ snapshots'[id] = Snapshot(poll.got)
        /\ \A k \in DOMAIN snapshots \ {id} : snapshots'[k] = snapshots[k]
    BY <2>1 DEF With
  <2>4. SnapshotsGrow
    BY <1>0, <2>1, <2>2, <2>3 DEF FleetTypeOK, SnapshotsGrow
  <2>5. RegistryGrows
    BY <1>0, <2>1, RegistryStands
  <2>6. PollerKnows
    BY <2>1, <2>2, <2>3 DEF At, PollerKnows, Poll, PollKnown, StampHasSnapshot
  <2> QED
    BY <1>0, <1>1, <2>4, <2>5, <2>6, FleetMoves
<1>7. CASE PollStamp
  <2> DEFINE record == [servers[poll.id] EXCEPT !.seen = TRUE, !.error = FALSE,
                                                !.due = FALSE]
  <2>1. /\ poll.pc = "stamp" /\ snapshots' = snapshots /\ poll' = Rest
        /\ servers' = [servers EXCEPT ![poll.id].seen = TRUE,
                                      ![poll.id].error = FALSE,
                                      ![poll.id].due = FALSE]
    BY <1>7 DEF PollStamp, Polls
  <2>2. poll.id \in DOMAIN servers /\ poll.id \in DOMAIN snapshots
    BY <1>0, <2>1 DEF PollKnown, FleetInv, StampHasSnapshot
  <2>3. servers' = [servers EXCEPT ![poll.id] = record]
    BY <1>0, <2>1, <2>2 DEF FleetTypeOK
  <2>4. record \in Server
    BY <1>0, <2>2 DEF Server
  <2>5. RegistryGrows
    BY <1>0, <2>1, <2>2, <2>3, <2>4, RecordSaved
  <2>6. SnapshotsGrow
    BY <1>0, <2>1, <2>5 DEF FleetTypeOK, SnapshotsGrow, RegistryGrows
  <2>7. PollerKnows
    BY <2>1, <2>5, RestIsKnown DEF RegistryGrows
  <2> QED
    BY <1>0, <1>1, <2>5, <2>6, <2>7, FleetMoves
<1>8. CASE PollFail
  <2> DEFINE record == [servers[poll.id] EXCEPT !.error = TRUE, !.due = FALSE]
  <2>1. /\ poll.pc = "fail" /\ snapshots' = snapshots /\ poll' = Rest
        /\ servers' = [servers EXCEPT ![poll.id].error = TRUE,
                                      ![poll.id].due = FALSE]
    BY <1>8 DEF PollFail, Polls
  <2>2. poll.id \in DOMAIN servers
    BY <1>0, <2>1 DEF PollKnown
  <2>3. servers' = [servers EXCEPT ![poll.id] = record]
    BY <1>0, <2>1, <2>2 DEF FleetTypeOK
  <2>4. record \in Server /\ record.seen = servers[poll.id].seen
    BY <1>0, <2>2 DEF Server
  <2>5. RegistryGrows
    BY <1>0, <2>1, <2>2, <2>3, <2>4, RecordSaved
  <2>6. SnapshotsGrow
    BY <1>0, <2>1, <2>5 DEF FleetTypeOK, SnapshotsGrow, RegistryGrows
  <2>7. PollerKnows
    BY <2>1, <2>5, RestIsKnown DEF RegistryGrows
  <2> QED
    BY <1>0, <1>1, <2>5, <2>6, <2>7, FleetMoves
<1> QED
  BY <1>3, <1>4, <1>5, <1>6, <1>7, <1>8 DEF PollStep

----------------------------------------------------------------------------
(* The specification. *)

LEMMA FleetInitially == Init => FleetInv
<1> SUFFICES ASSUME FleetInit PROVE FleetInv
  BY DEF Init
<1>1. DOMAIN servers = {} /\ DOMAIN snapshots = {} /\ servers \in [DOMAIN servers -> Server]
  BY DEF FleetInit
<1>2. poll \in Poll /\ poll.pc = "sleep"
  BY DEF FleetInit, Poll
<1>3. world \in [Urls -> Conditions \cup {Unreachable}] /\ changes \in 0..MaxChanges
  BY FleetAssumption DEF FleetInit
<1> QED
  BY <1>1, <1>2, <1>3 DEF FleetInv, FleetTypeOK, PollKnown, StampHasSnapshot,
                          SeenHasSnapshot

LEMMA FleetInductive == FleetInv /\ [Next]_vars => FleetInv'
<1> SUFFICES ASSUME FleetInv, [Next]_vars PROVE FleetInv'
  OBVIOUS
<1>0. /\ FleetTypeOK
      /\ world \in [Urls -> Conditions \cup {Unreachable}] /\ changes \in 0..MaxChanges
  BY DEF FleetInv, FleetTypeOK
<1>1. CASE UNCHANGED fleetVars
  <2>1. UNCHANGED <<servers, snapshots, poll, world, changes>>
    BY <1>1 DEF fleetVars
  <2> QED
    BY <1>0, <2>1, RegistryStands, PollerStands, FleetMoves
<1>2. ASSUME NEW r \in Requests, FleetRequest(r) PROVE FleetInv'
  BY <1>2, RequestKeepsInv DEF FleetRequest
<1>3. CASE FleetStep
  <2>1. CASE PollStep
    BY <2>1, PollKeepsInv
  <2>2. CASE \E x \in Servers : BecomesDue(x)
    BY <2>2, RequestKeepsInv
  <2>3. ASSUME NEW u \in Urls, NEW c \in Conditions \cup {Unreachable},
               ConditionChanges(u, c)
        PROVE  FleetInv'
    <3>1. UNCHANGED <<servers, snapshots, poll>>
      BY <2>3 DEF ConditionChanges
    <3>2. world' \in [Urls -> Conditions \cup {Unreachable}]
      BY <1>0, <2>3 DEF ConditionChanges
    <3>3. changes' \in 0..MaxChanges
      BY <1>0, <2>3, FleetAssumption DEF ConditionChanges
    <3> QED
      BY <1>0, <3>1, <3>2, <3>3, RegistryStands, PollerStands, FleetMoves
  <2> QED
    BY <1>3, <2>1, <2>2, <2>3 DEF FleetStep
<1>4. CASE Restart
  <2>1. UNCHANGED <<servers, snapshots, world, changes>> /\ poll' = [pc |-> "sleep"]
    BY <1>4 DEF Restart, FleetRestart
  <2>2. RegistryGrows
    BY <1>0, <2>1, RegistryStands
  <2>3. SnapshotsGrow
    BY <1>0, <2>1 DEF FleetTypeOK, SnapshotsGrow
  <2>4. PollerKnows
    BY <2>1 DEF PollerKnows, Poll, PollKnown, StampHasSnapshot
  <2> QED
    BY <1>0, <2>1, <2>2, <2>3, <2>4, FleetMoves
<1> QED
  BY <1>1, <1>2, <1>3, <1>4 DEF Next, vars

(* FleetInv holds in every behaviour of the control server. *)
LEMMA FleetInvariant == Spec => []FleetInv
  BY FleetInitially, FleetInductive, PTL DEF Spec

(* Registry, snapshots and poller keep the form of FleetTypeOK. *)
THEOREM FleetTypeCorrect == Spec => []FleetTypeOK
<1>1. FleetInv => FleetTypeOK
  BY DEF FleetInv
<1> QED
  BY <1>1, FleetInvariant, PTL

(* A server with a last_seen_at has a snapshot, whenever the process dies. *)
THEOREM SeenServersHaveSnapshots == Spec => []SeenHasSnapshot
<1>1. FleetInv => SeenHasSnapshot
  BY DEF FleetInv
<1> QED
  BY <1>1, FleetInvariant, PTL

----------------------------------------------------------------------------
(* What the dashboard shows. *)

(* A snapshot without an alert, of a server that is neither degraded nor   *)
(* in trouble, is one of a healthy server.                                 *)
LEMMA QuietIsHealthy ==
    ASSUME NEW c, IsCondition(c),
           Levels(Alerts(c)) \cap {"critical", "warning"} = {},
           ServerStatus(c) = "online"
    PROVE  Healthy(c)
<1> DEFINE Offline == {m \in Machines : MachineStatus(c, m) = "offline"}
           Alert(level, source, condition) ==
              IF condition THEN {<<level, source>>} ELSE {}
<1>0. /\ c.disk \in 0..100 /\ c.beat \in Nat \cup {Never} /\ c.error \in BOOLEAN
      /\ \A m \in Machines : c.age[m] \in Nat /\ c.jobs[m] \in Nat
  BY DEF IsCondition
<1>1. \A level, source : <<level, source>> \in Alerts(c) =>
                             level \notin {"critical", "warning"}
  <2> SUFFICES ASSUME NEW level, NEW source, <<level, source>> \in Alerts(c)
               PROVE  level \in Levels(Alerts(c))
    OBVIOUS
  <2>1. <<level, source>>[1] = level
    OBVIOUS
  <2> QED
    BY <2>1, Zenon DEF Levels
<1>2. /\ \A m \in Offline : <<"critical", m>> \in Alerts(c)
      /\ \A m \in Machines \ Offline : c.jobs[m] > 5 => <<"warning", m>> \in Alerts(c)
      /\ QueueLength(c) > 10 => <<"warning", "queue">> \in Alerts(c)
      /\ c.disk > MaxDiskUsage => <<"critical", "storage">> \in Alerts(c)
      /\ c.beat = Never \/ c.beat > 30 \/ c.error => <<"warning", "worker">> \in Alerts(c)
  BY DEF Alerts
<1>3. \A m \in Machines : m \notin Offline /\ ~(c.jobs[m] > 5)
  BY <1>1, <1>2
<1>4. \A m \in Machines : c.age[m] <= 120 /\ c.jobs[m] <= 5
  BY <1>0, <1>3 DEF MachineStatus
<1>5. ~(QueueLength(c) > 10)
  BY <1>1, <1>2
<1>6. c.disk <= MaxDiskUsage
  BY <1>0, <1>1, <1>2, DiskAssumption
<1>7. c.beat \in 0..30 /\ ~c.error
  BY <1>0, <1>1, <1>2
<1>8. c.disk < 90
  BY <1>0 DEF ServerStatus
<1> QED
  BY <1>4, <1>5, <1>6, <1>7, <1>8 DEF Healthy

LEMMA NormalFleetWasHealthy == FleetInv => NormalWasHealthy
<1> SUFFICES ASSUME FleetInv, Overview = "normal", NEW x \in DOMAIN servers
             PROVE  x \in DOMAIN snapshots /\ Healthy(snapshots[x].of)
  BY DEF NormalWasHealthy
<1> DEFINE statuses == {StatusOf(y) : y \in DOMAIN servers}
           shown == {snapshots[y] : y \in DOMAIN snapshots}
           levels == UNION {Levels(s.alerts) : s \in shown}
<1>1. /\ "critical" \notin levels /\ "warning" \notin levels
      /\ "warning" \notin statuses
      /\ {"degraded", "offline"} \cap statuses = {}
  BY DEF Overview, FleetStatus
<1>2. StatusOf(x) \in statuses
  OBVIOUS
<1>3. x \in DOMAIN snapshots
  BY <1>1, <1>2 DEF StatusOf
<1>4. PICK c \in Conditions : snapshots[x] = Snapshot(c)
  BY <1>3 DEF FleetInv, FleetTypeOK
<1>5. /\ snapshots[x].of = c /\ snapshots[x].status = ServerStatus(c)
      /\ snapshots[x].alerts = Alerts(c)
  BY <1>4 DEF Snapshot
<1>6. Levels(Alerts(c)) \cap {"critical", "warning"} = {}
  <2>1. Levels(snapshots[x].alerts) \subseteq levels
    BY <1>3
  <2> QED
    BY <1>1, <1>5, <2>1
<1>7. ServerStatus(c) \in {"degraded", "warning", "online"}
  BY DEF ServerStatus
<1>8. ServerStatus(c) = "online"
  BY <1>1, <1>2, <1>3, <1>5, <1>7 DEF StatusOf
<1> QED
  BY <1>3, <1>5, <1>6, <1>8, FleetAssumption, QuietIsHealthy

(* A fleet shown as normal was healthy when its snapshots were taken, for  *)
(* any number of servers and machines and any readings; a server that has  *)
(* stopped answering since keeps its snapshot.                             *)
THEOREM NormalFleetsWereHealthy == Spec => []NormalWasHealthy
  BY NormalFleetWasHealthy, FleetInvariant, PTL

----------------------------------------------------------------------------
(* The poller and the clock change no URL and no enabled flag. *)
LEMMA PollerKeepsRegistry ==
    ASSUME FleetInv, FleetStep
    PROVE  Registry' = Registry
<1>0. /\ \A k \in DOMAIN servers : servers[k] \in Server
      /\ servers \in [DOMAIN servers -> Server]
  BY DEF FleetInv, FleetTypeOK
<1>1. ASSUME DOMAIN servers' = DOMAIN servers,
             \A k \in DOMAIN servers : /\ servers'[k].url = servers[k].url
                                       /\ servers'[k].enabled = servers[k].enabled
      PROVE  Registry' = Registry
  BY <1>1 DEF Registry
<1>2. CASE servers' = servers
  BY <1>2 DEF Registry
<1>3. ASSUME NEW x \in DOMAIN servers, NEW record \in Server,
             record.url = servers[x].url, record.enabled = servers[x].enabled,
             servers' = [servers EXCEPT ![x] = record]
      PROVE  Registry' = Registry
  BY <1>0, <1>1, <1>3
<1>4. ASSUME NEW x \in Servers, BecomesDue(x) PROVE Registry' = Registry
  <2> DEFINE record == [servers[x] EXCEPT !.due = TRUE]
  <2>1. x \in DOMAIN servers /\ servers' = [servers EXCEPT ![x] = record]
    BY <1>4 DEF BecomesDue
  <2>2. record \in Server /\ record.url = servers[x].url
                          /\ record.enabled = servers[x].enabled
    BY <1>0, <2>1 DEF Server
  <2> QED
    BY <1>3, <2>1, <2>2
<1>5. CASE PollStamp
  <2> DEFINE record == [servers[poll.id] EXCEPT !.seen = TRUE, !.error = FALSE,
                                                !.due = FALSE]
  <2>1. poll.id \in DOMAIN servers
    BY <1>5 DEF PollStamp, FleetInv, PollKnown
  <2>2. record \in Server /\ record.url = servers[poll.id].url
                          /\ record.enabled = servers[poll.id].enabled
    BY <1>0, <2>1 DEF Server
  <2>3. servers' = [servers EXCEPT ![poll.id] = record]
    BY <1>0, <1>5, <2>1 DEF PollStamp
  <2> QED
    BY <1>3, <2>1, <2>2, <2>3
<1>6. CASE PollFail
  <2> DEFINE record == [servers[poll.id] EXCEPT !.error = TRUE, !.due = FALSE]
  <2>1. poll.id \in DOMAIN servers
    BY <1>6 DEF PollFail, FleetInv, PollKnown
  <2>2. record \in Server /\ record.url = servers[poll.id].url
                          /\ record.enabled = servers[poll.id].enabled
    BY <1>0, <2>1 DEF Server
  <2>3. servers' = [servers EXCEPT ![poll.id] = record]
    BY <1>0, <1>6, <2>1 DEF PollFail
  <2> QED
    BY <1>3, <2>1, <2>2, <2>3
<1>7. CASE ~PollStamp /\ ~PollFail /\ ~\E x \in Servers : BecomesDue(x)
  <2>1. servers' = servers
    BY <1>7 DEF FleetStep, PollStep, PollList, PollRead, PollFetch, PollStore,
                ConditionChanges
  <2> QED
    BY <1>2, <2>1
<1> QED
  BY <1>4, <1>5, <1>6, <1>7

(* Only a request of somebody read as an administrator changes a URL or an *)
(* enabled flag.                                                           *)
THEOREM AdminsOwnTheRegistry == Spec => OnlyAdminsChangeRegistry
<1>1. FleetInv /\ AuthTypeOK /\ [Next]_vars =>
         [Registry' # Registry =>
             \E r \in Requests : AsAdmin(r) /\ req'[r] = Idle]_vars
  <2> SUFFICES ASSUME FleetInv, AuthTypeOK, [Next]_vars, Registry' # Registry
               PROVE  \E r \in Requests : AsAdmin(r) /\ req'[r] = Idle
    OBVIOUS
  <2>0. servers' # servers
    BY DEF Registry
  <2>1. ~FleetStep
    BY PollerKeepsRegistry
  <2>2. PICK r \in Requests : FleetRequest(r)
    BY <2>0, <2>1 DEF Next, Restart, FleetRestart, vars, fleetVars
  <2>3. req'[r] = Idle
    BY <2>2 DEF FleetRequest, Serve, Continue, AuthTypeOK
  <2>4. AsAdmin(r)
    <3>1. ASSUME NEW x \in Servers, RefreshServer(x) PROVE FALSE
      <4> DEFINE record == [servers[x] EXCEPT !.due = TRUE]
      <4>1. x \in DOMAIN servers /\ servers' = [servers EXCEPT ![x] = record]
        BY <3>1 DEF RefreshServer
      <4>2. record.url = servers[x].url /\ record.enabled = servers[x].enabled
        BY <4>1 DEF FleetInv, FleetTypeOK, Server
      <4> QED
        BY <4>1, <4>2 DEF Registry, FleetInv, FleetTypeOK
    <3> QED
      BY <2>2, <3>1 DEF FleetRequest
  <2> QED
    BY <2>3, <2>4
<1> QED
  BY <1>1, FleetInvariant, AuthTypeCorrect, PTL DEF Spec, OnlyAdminsChangeRegistry
=============================================================================
