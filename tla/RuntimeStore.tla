---------------------------- MODULE RuntimeStore ----------------------------
(***************************************************************************)
(* What an upload server says about itself (server/store.py) and what the  *)
(* control server makes of it (control_server/store.py): pure functions of *)
(* the server's condition.  Rates, sizes and time stamps, which only feed  *)
(* graphs, are left out.                                                   *)
(***************************************************************************)
EXTENDS Integers, FiniteSets, FiniteSetsExt

CONSTANTS Machines,       \* config.machines
          MaxDiskUsage    \* config.max_disk_usage_percent

ASSUME DiskAssumption == MaxDiskUsage \in Nat

Never == -1               \* heartbeat_at is None

(* age: seconds since the last upload; jobs: pending and processing;       *)
(* beat: seconds since the worker's heartbeat; error: last_error is set.   *)
IsCondition(c) == /\ c.age \in [Machines -> Nat]
                  /\ c.jobs \in [Machines -> Nat]
                  /\ c.disk \in 0..100
                  /\ c.beat \in Nat \cup {Never}
                  /\ c.error \in BOOLEAN

(* machines() *)
MachineStatus(c, m) == IF c.age[m] > 120 THEN "offline"
                       ELSE IF c.jobs[m] > 5 \/ c.age[m] > 10 THEN "warning"
                       ELSE "online"

(* queue_status() and _build_stats() *)
QueueLength(c) == MapThenSumSet(LAMBDA m : c.jobs[m], Machines)

(* alerts(), as pairs of a level and a source *)
Alerts(c) ==
    LET Offline == {m \in Machines : MachineStatus(c, m) = "offline"}
        Alert(level, source, condition) ==
            IF condition THEN {<<level, source>>} ELSE {}
    IN  {<<"critical", m>> : m \in Offline}
        \cup {<<"warning", m>> : m \in {n \in Machines \ Offline : c.jobs[n] > 5}}
        \cup Alert("warning", "queue", QueueLength(c) > 10)
        \cup Alert("critical", "storage", c.disk > MaxDiskUsage)
        \cup Alert("warning", "worker", c.beat = Never \/ c.beat > 30 \/ c.error)

Levels(alerts) == {a[1] : a \in alerts}

(* _normalize_snapshot, of the payload of /api/local/snapshot *)
ServerStatus(c) ==
    IF c.beat = Never THEN "degraded"
    ELSE IF c.disk >= 90 \/ QueueLength(c) > 10 \/ "critical" \in Levels(Alerts(c))
         THEN "warning"
         ELSE "online"

Snapshot(c) == [of |-> c, status |-> ServerStatus(c), alerts |-> Alerts(c),
                machines |-> {MachineStatus(c, m) : m \in Machines}]

(* Variant: the overview looks at the alerts only. *)
FleetStatusOfAlerts(statuses, snapshots) ==
    LET levels == UNION {Levels(s.alerts) : s \in snapshots}
    IN  IF "critical" \in levels THEN "critical"
        ELSE IF "warning" \in levels THEN "warning"
        ELSE IF statuses \subseteq {"online", "warning"} THEN "normal"
        ELSE "degraded"

(* fleet_overview: the status of the fleet, of the statuses of the servers *)
(* listed and of all snapshots.                                            *)
FleetStatus(statuses, snapshots) ==
    LET levels == UNION {Levels(s.alerts) : s \in snapshots}
        machines == UNION {s.machines : s \in snapshots}
    IN  IF "critical" \in levels THEN "critical"
        ELSE IF \/ "warning" \in levels \/ "warning" \in statuses
                \/ "offline" \in machines
             THEN "warning"
        ELSE IF {"degraded", "offline"} \cap statuses # {} THEN "degraded"
        ELSE "normal"

(* What an operator expects of "normal": every machine uploaded in the     *)
(* last two minutes, no backlog, room on the disk, a worker that is alive  *)
(* and whose last job did not fail.                                        *)
Healthy(c) == /\ \A m \in Machines : c.age[m] <= 120 /\ c.jobs[m] <= 5
              /\ ~(QueueLength(c) > 10)
              /\ c.disk < 90 /\ c.disk <= MaxDiskUsage
              /\ c.beat \in 0..30
              /\ ~c.error
=============================================================================
