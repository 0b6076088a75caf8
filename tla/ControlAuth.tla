---------------------------- MODULE ControlAuth ----------------------------
(***************************************************************************)
(* Users and sessions of the control server (control_server/auth.py).      *)
(* FastAPI runs the handlers in threads.  Every load and every load and    *)
(* save of users.json or sessions.json holds ControlAuthService's lock,    *)
(* but one request takes it several times: what it read the first time may *)
(* be old when it takes the lock again.  Each action below is one critical *)
(* section with the local work that follows it.                            *)
(*                                                                         *)
(* Tokens expire by the clock.  An expired token only makes a lookup fail, *)
(* which has the effect of a request that never came: any request may stay *)
(* away here, so the expiry times themselves are left out.                 *)
(***************************************************************************)
EXTENDS Integers, FiniteSets

CONSTANTS Users,        \* employee ids
          Admin,        \* bootstrap_admin_employee_id
          Passwords,
          AdminPassword,\* bootstrap_admin_password
          Sessions,     \* ids that login may draw
          Requests,     \* threads that serve requests
          MaxArrivals   \* bound: requests in a behaviour

ASSUME AuthAssumption == /\ Admin \in Users
                         /\ AdminPassword \in Passwords
                         /\ MaxArrivals \in Nat

Roles == {"admin", "operator"}   \* "supervisor" has an operator's rights

User    == [enabled : BOOLEAN, role : Roles, version : Nat, password : Passwords]
Session == [user : Users, version : Nat,
            access : Nat,            \* which access token is the current one
            revoked : BOOLEAN,
            shown : Passwords]       \* history: the password given to login

VARIABLES users,       \* users.json, by employee id
          sessions,    \* sessions.json, by session id
          req,         \* what every thread knows of its request
          arrivals     \* requests so far

authVars == <<users, sessions, req, arrivals>>

Idle == [pc |-> "idle"]

Request == {Idle}
    \cup [pc : {"login"}, user : Users, version : Nat, password : Passwords]
    \cup [pc : {"refresh", "logout"}, sid : Sessions]
    \cup [pc : {"check"}, sid : Sessions, token : Nat, legit : BOOLEAN]
    \cup [pc : {"granted"}, sid : Sessions, token : Nat, legit : BOOLEAN,
          role : Roles]

AuthTypeOK == /\ DOMAIN users \subseteq Users
              /\ users \in [DOMAIN users -> User]
              /\ DOMAIN sessions \subseteq Sessions
              /\ sessions \in [DOMAIN sessions -> Session]
              /\ \A s \in DOMAIN sessions : sessions[s].user \in DOMAIN users
              /\ req \in [Requests -> Request]
              /\ arrivals \in Nat

NewUser(role, password) == [enabled |-> TRUE, role |-> role, version |-> 1,
                            password |-> password]

(* The first start: _ensure_bootstrap_admin.  Users are never removed, so  *)
(* later starts find the administrator in the file.                        *)
AuthInit == /\ users = [u \in {Admin} |-> NewUser("admin", AdminPassword)]
            /\ sessions = [s \in {} |-> <<>>]
            /\ req = [r \in Requests |-> Idle]
            /\ arrivals = 0

Put(dict, key, value) ==
    [k \in DOMAIN dict \cup {key} |-> IF k = key THEN value ELSE dict[k]]

(* A thread takes a new request as far as its first critical section; a    *)
(* request that is refused there leaves no trace and is not an action.     *)
Arrive(r, known) == /\ req[r] = Idle
                    /\ arrivals < MaxArrivals
                    /\ arrivals' = arrivals + 1
                    /\ req' = [req EXCEPT ![r] = known]

Continue(r, known) == /\ req' = [req EXCEPT ![r] = known]
                      /\ UNCHANGED arrivals

----------------------------------------------------------------------------
(* login: the user is read and the password verified (PBKDF2, outside the  *)
(* lock); the session saved later carries the token_version read here.     *)

LoginCheck(r, u, password) ==
    /\ u \in DOMAIN users
    /\ users[u].enabled
    /\ users[u].password = password
    /\ Arrive(r, [pc |-> "login", user |-> u, version |-> users[u].version,
                  password |-> password])
    /\ UNCHANGED <<users, sessions>>

NewSession(known) == [user |-> known.user, version |-> known.version, access |-> 0,
                      revoked |-> FALSE, shown |-> known.password]

(* Variant: the version is read again when the session is saved. *)
LoginSaveRereads(r, s) ==
    /\ req[r].pc = "login"
    /\ s \notin DOMAIN sessions
    /\ sessions' = Put(sessions, s, NewSession([req[r] EXCEPT
                                      !.version = users[req[r].user].version]))
    /\ Continue(r, Idle)
    /\ UNCHANGED users

LoginSave(r, s) == /\ req[r].pc = "login"
                   /\ s \notin DOMAIN sessions
                   /\ sessions' = Put(sessions, s, NewSession(req[r]))
                   /\ Continue(r, Idle)
                   /\ UNCHANGED users

----------------------------------------------------------------------------
(* refresh and logout: _session_by_token, then the record is loaded again. *)

FoundByRefresh(s) == ~sessions[s].revoked
FoundByAccess(s, token) == sessions[s].access = token /\ ~sessions[s].revoked

RefreshFind(r, s) == /\ s \in DOMAIN sessions
                     /\ FoundByRefresh(s)
                     /\ Arrive(r, [pc |-> "refresh", sid |-> s])
                     /\ UNCHANGED <<users, sessions>>

(* Variant: the record found by the lookup, not revoked, is written back. *)
RefreshSaveStale(r) ==
    /\ req[r].pc = "refresh"
    /\ sessions' = [sessions EXCEPT ![req[r].sid].access = @ + 1,
                                    ![req[r].sid].revoked = FALSE]
    /\ Continue(r, Idle)
    /\ UNCHANGED users

RefreshSave(r) ==
    /\ req[r].pc = "refresh"
    /\ sessions' = [sessions EXCEPT ![req[r].sid].access = @ + 1]
    /\ Continue(r, Idle)
    /\ UNCHANGED users

(* Without an Authorization header logout needs only the refresh token.    *)
(* With one, require_access comes first; the session is then looked up by  *)
(* the refresh token if the body has one, else by the access token, which  *)
(* a refresh may have replaced meanwhile: then nothing is revoked and the  *)
(* answer is still "Logged out" (Answer, below).                           *)
LogoutFind(r, s) ==
    /\ s \in DOMAIN sessions
    /\ \/ FoundByRefresh(s) /\ Arrive(r, [pc |-> "logout", sid |-> s])
       \/ /\ req[r].pc = "granted"
          /\ \/ FoundByRefresh(s)
             \/ s = req[r].sid /\ FoundByAccess(s, req[r].token)
          /\ Continue(r, [pc |-> "logout", sid |-> s])
    /\ UNCHANGED <<users, sessions>>

LogoutSave(r) == /\ req[r].pc = "logout"
                 /\ sessions' = [sessions EXCEPT ![req[r].sid].revoked = TRUE]
                 /\ Continue(r, Idle)
                 /\ UNCHANGED users

----------------------------------------------------------------------------
(* require_access: the session under the lock, then the user under the     *)
(* lock again.  legit is a history field: whether the session entitled to  *)
(* anything at the moment of the lookup.                                   *)

Current(s) == LET u == sessions[s].user
              IN  users[u].enabled /\ sessions[s].version = users[u].version

Usable(s) == ~sessions[s].revoked /\ Current(s)

Lookup(r, s, token) ==
    /\ s \in DOMAIN sessions
    /\ FoundByAccess(s, token)
    /\ Arrive(r, [pc |-> "check", sid |-> s, token |-> token,
                  legit |-> Usable(s)])
    /\ UNCHANGED <<users, sessions>>

Granted(r, role) == [pc |-> "granted", sid |-> req[r].sid, token |-> req[r].token,
                     legit |-> req[r].legit, role |-> role]

(* Variant: require_access does not compare the token versions. *)
CheckUserNoVersion(r) ==
    /\ req[r].pc = "check"
    /\ LET u == sessions[req[r].sid].user
       IN  IF users[u].enabled THEN Continue(r, Granted(r, users[u].role))
                               ELSE Continue(r, Idle)
    /\ UNCHANGED <<users, sessions>>

CheckUser(r) ==
    /\ req[r].pc = "check"
    /\ IF Current(req[r].sid)
       THEN Continue(r, Granted(r, users[sessions[req[r].sid].user].role))
       ELSE Continue(r, Idle)
    /\ UNCHANGED <<users, sessions>>

(* A request that changes nothing after require_access: me, introspect and *)
(* the lists, one that is refused, a logout that finds no session.         *)
Answer(r) == /\ req[r].pc = "granted"
             /\ Continue(r, Idle)
             /\ UNCHANGED <<users, sessions>>

----------------------------------------------------------------------------
(* The operations on users.  The actor's role is the one CheckUser read:   *)
(* it may have been taken away, and the actor disabled, before the lock.   *)

Actor(r) == sessions[req[r].sid].user

AsAdmin(r) == req[r].pc = "granted" /\ req[r].role = "admin"

SaveUser(r, u, record) == /\ users' = Put(users, u, record)
                          /\ Continue(r, Idle)
                          /\ UNCHANGED sessions

WithPassword(record, password) == [record EXCEPT !.password = password,
                                                 !.version = @ + 1]

WithEnabled(record, enabled) == [record EXCEPT !.enabled = enabled,
                                               !.version = @ + 1]

(* Variant: _validate_new_user does not look at the role. *)
RegisterUserAnyRole(r, u, role, password) ==
    /\ AsAdmin(r)
    /\ u \notin DOMAIN users
    /\ SaveUser(r, u, NewUser("guest", password))

RegisterUser(r, u, role, password) ==
    /\ AsAdmin(r)
    /\ u \notin DOMAIN users
    /\ SaveUser(r, u, NewUser(role, password))

ChangePassword(r, current, password) ==
    /\ req[r].pc = "granted"
    /\ users[Actor(r)].password = current
    /\ SaveUser(r, Actor(r), WithPassword(users[Actor(r)], password))

ResetPassword(r, u, password) ==
    /\ AsAdmin(r)
    /\ u \in DOMAIN users
    /\ SaveUser(r, u, WithPassword(users[u], password))

(* enable-user and disable-user. *)
ToggleUser(r, u, enabled) ==
    /\ AsAdmin(r)
    /\ u \in DOMAIN users
    /\ SaveUser(r, u, WithEnabled(users[u], enabled))

(* PATCH /api/users: any of the fields may be given. *)
PatchUser(r, u, given, role, enabled) ==
    LET named == [users[u] EXCEPT !.role = IF "role" \in given THEN role ELSE @]
    IN  /\ AsAdmin(r)
        /\ u \in DOMAIN users
        /\ SaveUser(r, u, IF "enabled" \in given THEN WithEnabled(named, enabled)
                                                 ELSE named)

----------------------------------------------------------------------------
(* The process stops and starts: requests are lost, the files stay. *)
AuthRestart == /\ req' = [r \in Requests |-> Idle]
               /\ UNCHANGED <<users, sessions, arrivals>>

UserOperation(r) ==
    \/ \E u \in Users, role \in Roles, p \in Passwords : RegisterUser(r, u, role, p)
    \/ \E c, p \in Passwords : ChangePassword(r, c, p)
    \/ \E u \in Users, p \in Passwords : ResetPassword(r, u, p)
    \/ \E u \in Users, e \in BOOLEAN : ToggleUser(r, u, e)
    \/ \E u \in Users, given \in SUBSET {"role", "enabled"}, role \in Roles,
          e \in BOOLEAN : PatchUser(r, u, given, role, e)

SessionOperation(r) ==
    \/ \E u \in Users, p \in Passwords : LoginCheck(r, u, p)
    \/ \E s \in Sessions : LoginSave(r, s)
    \/ \E s \in Sessions : RefreshFind(r, s)
    \/ RefreshSave(r)
    \/ \E s \in Sessions : LogoutFind(r, s)
    \/ LogoutSave(r)
    \/ \E s \in Sessions : s \in DOMAIN sessions /\ Lookup(r, s, sessions[s].access)
    \/ CheckUser(r)
    \/ Answer(r)

AuthStep == \E r \in Requests : SessionOperation(r) \/ UserOperation(r)

AuthNext == AuthStep \/ AuthRestart

AuthSpec == AuthInit /\ [][AuthNext]_authVars

----------------------------------------------------------------------------
(* Properties. *)

(* require_access reads the session and the user in two critical sections. *)
(* Whatever happened between them - a password change, disable and enable  *)
(* again - a request it lets through was made with a session that entitled *)
(* to it when the session was looked up.                                   *)
GrantWasValid == \A r \in Requests : req[r].pc = "granted" => req[r].legit

(* Once a user's password has been changed, no session that was opened     *)
(* with another password is usable: not one that a login, a refresh or an  *)
(* enable that overlapped the change leaves behind either.                 *)
OldPasswordIsUseless ==
    \A s \in DOMAIN sessions :
       Usable(s) => sessions[s].shown = users[sessions[s].user].password

(* A session that was logged out, or whose user's token_version has moved  *)
(* on, never becomes usable again, whatever refresh overlaps the logout    *)
(* and whatever is done to the user later.                                 *)
Dead(s) == sessions[s].revoked \/ sessions[s].version # users[sessions[s].user].version

DeadStaysDead ==
    [][\A s \in DOMAIN sessions : Dead(s) => s \in DOMAIN sessions' /\ Dead(s)']_authVars
=============================================================================
