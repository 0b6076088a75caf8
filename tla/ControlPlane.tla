---------------------------- MODULE ControlPlane ----------------------------
(***************************************************************************)
(* The control server (control_server/routes.py): the requests on the      *)
(* fleet go through require_access like those on users, register and patch *)
(* also through the role that it read; the poller runs beside them.        *)
(***************************************************************************)
EXTENDS ControlAuth, FleetStore

CONSTANT MaxRestarts    \* bound: restarts of the process in a behaviour

ASSUME RestartAssumption == MaxRestarts \in Nat

VARIABLE restarts

vars == <<authVars, fleetVars, restarts>>

Init == AuthInit /\ FleetInit /\ restarts = 0

(* The store's critical section ends the request. *)
Serve(r) == Continue(r, Idle) /\ UNCHANGED <<users, sessions>>

FleetRequest(r) ==
    /\ req[r].pc = "granted"
    /\ Serve(r)
    /\ \E x \in Servers, u \in Urls :
          \/ AsAdmin(r) /\ RegisterServer(x, u)
          \/ AsAdmin(r) /\ \E given \in SUBSET {"url", "enabled"}, e \in BOOLEAN :
                              PatchServer(x, given, u, e)
          \/ RefreshServer(x)

Restart == /\ restarts < MaxRestarts
           /\ restarts' = restarts + 1
           /\ AuthRestart
           /\ FleetRestart

Next == \/ AuthStep /\ UNCHANGED <<fleetVars, restarts>>
        \/ (\E r \in Requests : FleetRequest(r)) /\ UNCHANGED restarts
        \/ FleetStep /\ UNCHANGED <<authVars, restarts>>
        \/ Restart

(* The poller is a daemon thread that catches every exception, and time    *)
(* passes; nothing is assumed of clients.                                  *)
Fairness == /\ WF_vars(PollStep /\ UNCHANGED <<authVars, restarts>>)
            /\ \A x \in Servers :
                  WF_vars(BecomesDue(x) /\ UNCHANGED <<authVars, restarts>>)

Spec == Init /\ [][Next]_vars /\ Fairness

----------------------------------------------------------------------------
(* The URL and the enabled flag of a server change only in a request of    *)
(* somebody whom require_access read as an administrator; the poller,      *)
(* which saves the registry after a fetch of seconds, undoes no patch.     *)
OnlyAdminsChangeRegistry ==
    [][Registry' # Registry =>
          \E r \in Requests : AsAdmin(r) /\ req'[r] = Idle]_vars
=============================================================================
