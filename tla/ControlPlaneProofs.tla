------------------------- MODULE ControlPlaneProofs -------------------------
(***************************************************************************)
(* Theorems about the control server, for any users, passwords, sessions,  *)
(* threads, servers and conditions, and any number of requests.            *)
(***************************************************************************)
EXTENDS ControlPlane, TLAPS

----------------------------------------------------------------------------
(* Users and sessions. *)

(* A thread's knowledge, as the fields of the record it is. *)
LEMMA RequestFields ==
    ASSUME NEW q \in Request
    PROVE  /\ q.pc \in {"idle", "login", "refresh", "logout", "check", "granted"}
           /\ q.pc = "idle" => q = Idle
           /\ q.pc = "login" => /\ q.user \in Users /\ q.version \in Nat
                                /\ q.password \in Passwords
           /\ q.pc \in {"refresh", "logout", "check", "granted"} => q.sid \in Sessions
           /\ q.pc \in {"check", "granted"} => q.token \in Nat /\ q.legit \in BOOLEAN
           /\ q.pc = "granted" => q.role \in Roles
  BY DEF Request, Idle

(* Password and enabled flag belong to a token_version: who holds an       *)
(* earlier version holds nothing, who holds the current one knows them.    *)
Follows(record, version, password) ==
    /\ version <= record.version
    /\ version = record.version => password = record.password

SidsKnown == \A r \in Requests :
    req[r].pc \in {"refresh", "logout", "check", "granted"} =>
       req[r].sid \in DOMAIN sessions

LoginsFollow == \A r \in Requests :
    req[r].pc = "login" =>
       /\ req[r].user \in DOMAIN users
       /\ Follows(users[req[r].user], req[r].version, req[r].password)

SessionsFollow == \A s \in DOMAIN sessions :
    Follows(users[sessions[s].user], sessions[s].version, sessions[s].shown)

(* A lookup that found an outdated session will not be granted. *)
ChecksFollow == \A r \in Requests :
    req[r].pc = "check" /\ Current(req[r].sid) => req[r].legit

AuthInv == /\ AuthTypeOK
           /\ SidsKnown
           /\ LoginsFollow
           /\ SessionsFollow
           /\ ChecksFollow
           /\ GrantWasValid

(* The bootstrap administrator alone, and no session. *)
LEMMA AuthInitially == AuthInit => AuthInv
<1> SUFFICES ASSUME AuthInit PROVE AuthInv
  OBVIOUS
<1>1. AuthTypeOK
  BY AuthAssumption
  DEF AuthInit, AuthTypeOK, NewUser, User, Roles, Request, Idle
<1>2. \A r \in Requests : req[r].pc = "idle"
  BY DEF AuthInit, Idle
<1>3. SessionsFollow
  BY DEF AuthInit, SessionsFollow
<1> QED
  BY <1>1, <1>2, <1>3
  DEF AuthInv, SidsKnown, LoginsFollow, ChecksFollow, GrantWasValid

(* What one operation does to a user's record. *)
Moves(before, after) ==
    /\ after \in User
    /\ after.version >= before.version
    /\ after.version = before.version =>
          after.enabled = before.enabled /\ after.password = before.password

UsersMove == /\ DOMAIN users \subseteq DOMAIN users'
             /\ DOMAIN users' \subseteq Users
             /\ users' \in [DOMAIN users' -> User]
             /\ \A u \in DOMAIN users : Moves(users[u], users'[u])

(* Users that are not written do not move. *)
LEMMA UsersStand == ASSUME AuthTypeOK, users' = users PROVE UsersMove
<1>1. \A u \in DOMAIN users : users[u] \in User
  BY DEF AuthTypeOK
<1>2. \A v \in User : Moves(v, v)
  BY DEF Moves, User
<1> QED
  BY <1>1, <1>2 DEF AuthTypeOK, UsersMove

(* Saving a record that moved, or a new one. *)
LEMMA SaveMoves ==
    ASSUME AuthTypeOK, NEW r, NEW u \in Users, NEW record \in User,
           u \in DOMAIN users => Moves(users[u], record),
           SaveUser(r, u, record)
    PROVE  UsersMove
<1>1. users' = Put(users, u, record)
  BY DEF SaveUser
<1>2. DOMAIN users \subseteq Users /\ users \in [DOMAIN users -> User]
  BY DEF AuthTypeOK
<1>3. /\ DOMAIN users' = DOMAIN users \cup {u}
      /\ DOMAIN users' \subseteq Users
      /\ users' \in [DOMAIN users' -> User]
      /\ users'[u] = record
      /\ \A k \in DOMAIN users : k # u => users'[k] = users[k]
  BY <1>1, <1>2 DEF Put
<1>4. \A v \in User : Moves(v, v)
  BY DEF Moves, User
<1>5. \A k \in DOMAIN users : Moves(users[k], users'[k])
  BY <1>2, <1>3, <1>4
<1> QED
  BY <1>3, <1>5 DEF UsersMove

(* A new password, and a new enabled flag, come with a new version. *)
LEMMA PasswordMoves ==
    ASSUME NEW v \in User, NEW p \in Passwords
    PROVE  WithPassword(v, p) \in User /\ Moves(v, WithPassword(v, p))
<1>1. v.version + 1 \in Nat /\ v.version \in Nat
  BY DEF User
<1>2. [v EXCEPT !.password = p] \in User
  BY DEF User
<1>3. \A w \in User, n \in Nat : [w EXCEPT !.version = n] \in User
  BY DEF User
<1>4. WithPassword(v, p) = [[v EXCEPT !.password = p] EXCEPT !.version = v.version + 1]
  BY Zenon DEF WithPassword
<1>5. WithPassword(v, p) \in User
  BY <1>1, <1>2, <1>3, <1>4
<1>6. WithPassword(v, p).version = v.version + 1
  BY DEF WithPassword, User
<1> QED
  BY <1>1, <1>5, <1>6 DEF Moves

(* Disabling or enabling a user comes with a new version. *)
LEMMA EnabledMoves ==
    ASSUME NEW v \in User, NEW e \in BOOLEAN
    PROVE  WithEnabled(v, e) \in User /\ Moves(v, WithEnabled(v, e))
<1>1. v.version + 1 \in Nat /\ v.version \in Nat
  BY DEF User
<1>2. [v EXCEPT !.enabled = e] \in User
  BY DEF User
<1>3. \A w \in User, n \in Nat : [w EXCEPT !.version = n] \in User
  BY DEF User
<1>4. WithEnabled(v, e) = [[v EXCEPT !.enabled = e] EXCEPT !.version = v.version + 1]
  BY Zenon DEF WithEnabled
<1>5. WithEnabled(v, e) \in User
  BY <1>1, <1>2, <1>3, <1>4
<1>6. WithEnabled(v, e).version = v.version + 1
  BY DEF WithEnabled, User
<1> QED
  BY <1>1, <1>5, <1>6 DEF Moves

(* Every operation on users moves their records forward. *)
LEMMA OperationMoves ==
    ASSUME AuthInv, NEW r \in Requests, UserOperation(r)
    PROVE  UsersMove /\ sessions' = sessions /\ req' = [req EXCEPT ![r] = Idle]
<1>0. AuthTypeOK /\ \A u \in DOMAIN users : u \in Users /\ users[u] \in User
  BY DEF AuthInv, AuthTypeOK
<1>1. ASSUME NEW u \in Users, NEW role \in Roles, NEW p \in Passwords,
             RegisterUser(r, u, role, p)
      PROVE  UsersMove
  <2>1. NewUser(role, p) \in User
    BY DEF NewUser, User
  <2> QED
    BY <1>0, <1>1, <2>1, SaveMoves DEF RegisterUser
<1>4. ASSUME NEW c \in Passwords, NEW p \in Passwords, ChangePassword(r, c, p)
      PROVE  UsersMove
  <2>1. Actor(r) \in DOMAIN users
    BY <1>4 DEF ChangePassword, Actor, AuthInv, AuthTypeOK, SidsKnown
  <2> QED
    BY <1>0, <1>4, <2>1, PasswordMoves, SaveMoves DEF ChangePassword
<1>5. ASSUME NEW u \in Users, NEW p \in Passwords, ResetPassword(r, u, p)
      PROVE  UsersMove
  BY <1>0, <1>5, PasswordMoves, SaveMoves DEF ResetPassword
<1>6. ASSUME NEW u \in Users, NEW e \in BOOLEAN, ToggleUser(r, u, e)
      PROVE  UsersMove
  BY <1>0, <1>6, EnabledMoves, SaveMoves DEF ToggleUser
<1>7. ASSUME NEW u \in Users, NEW given \in SUBSET {"role", "enabled"},
             NEW role \in Roles, NEW e \in BOOLEAN, PatchUser(r, u, given, role, e)
      PROVE  UsersMove
  <2> DEFINE named == [users[u] EXCEPT !.role = IF "role" \in given THEN role ELSE @]
             record == IF "enabled" \in given THEN WithEnabled(named, e) ELSE named
  <2>1. u \in DOMAIN users /\ SaveUser(r, u, record)
    BY <1>7 DEF PatchUser
  <2>2. named \in User /\ Moves(users[u], named)
    BY <1>0, <2>1 DEF User, Moves
  <2>3. WithEnabled(named, e) \in User /\ Moves(named, WithEnabled(named, e))
    BY <2>2, EnabledMoves
  <2>4. \A v \in User : v.version \in Nat
    BY DEF User
  <2>5. Moves(users[u], WithEnabled(named, e))
    BY <1>0, <2>1, <2>2, <2>3, <2>4 DEF Moves
  <2>6. record \in User /\ Moves(users[u], record)
    BY <2>2, <2>3, <2>5
  <2> QED
    BY <1>0, <2>1, <2>6, SaveMoves
<1>8. UsersMove
  BY <1>1, <1>4, <1>5, <1>6, <1>7 DEF UserOperation
<1>9. sessions' = sessions /\ req' = [req EXCEPT ![r] = Idle]
  BY DEF UserOperation, RegisterUser, ChangePassword, ResetPassword, ToggleUser,
         PatchUser, SaveUser, Continue
<1> QED
  BY <1>8, <1>9

(* What a step may do to the sessions ... *)
SessionsMove ==
    /\ DOMAIN sessions \subseteq DOMAIN sessions'
    /\ DOMAIN sessions' \subseteq Sessions
    /\ sessions' \in [DOMAIN sessions' -> Session]
    /\ \A s \in DOMAIN sessions :
          /\ sessions'[s].user = sessions[s].user
          /\ sessions'[s].version = sessions[s].version
          /\ sessions'[s].shown = sessions[s].shown
          /\ sessions[s].revoked => sessions'[s].revoked
    /\ \A s \in DOMAIN sessions' \ DOMAIN sessions :
          /\ sessions'[s].user \in DOMAIN users
          /\ Follows(users[sessions'[s].user], sessions'[s].version, sessions'[s].shown)

(* ... and to what a thread knows. *)
Knows(before, after) ==
    \/ after = before
    \/ after.pc = "idle"
    \/ /\ after.pc = "login"
       /\ after.user \in DOMAIN users
       /\ Follows(users[after.user], after.version, after.password)
    \/ after.pc \in {"refresh", "logout"} /\ after.sid \in DOMAIN sessions
    \/ /\ after.pc = "check" /\ after.sid \in DOMAIN sessions
       /\ Current(after.sid) => after.legit
    \/ /\ after.pc = "granted" /\ after.sid \in DOMAIN sessions
       /\ before.pc = "check" /\ Current(before.sid)
       /\ after.legit = before.legit

RequestsMove == /\ req' \in [Requests -> Request]
                /\ \A q \in Requests : Knows(req[q], req'[q])
                /\ arrivals' \in Nat

(* Sessions that are not written stay as they follow their user. *)
LEMMA SessionsStand == ASSUME AuthTypeOK, sessions' = sessions PROVE SessionsMove
  BY DEF AuthTypeOK, SessionsMove

(* A thread that goes on to a state it may be in, others waiting. *)
LEMMA OneRequestMoves ==
    ASSUME AuthTypeOK, NEW r \in Requests, NEW known \in Request,
           req' = [req EXCEPT ![r] = known], Knows(req[r], known),
           arrivals' \in Nat
    PROVE  RequestsMove
<1>1. req \in [Requests -> Request]
  BY DEF AuthTypeOK
<1>2. req' \in [Requests -> Request]
  BY <1>1
<1>3. req'[r] = known /\ \A q \in Requests \ {r} : req'[q] = req[q]
  BY <1>1
<1>4. \A q \in Requests : Knows(req[q], req[q])
  BY DEF Knows
<1>5. ASSUME NEW q \in Requests PROVE Knows(req[q], req'[q])
  BY <1>3, <1>4
<1> QED
  BY <1>2, <1>5 DEF RequestsMove

CurrentIn(us, ss, s) == /\ us[ss[s].user].enabled
                        /\ ss[s].version = us[ss[s].user].version

(* A session that is current after a step was current before it. *)
LEMMA CurrentFades ==
    ASSUME AuthInv, UsersMove, SessionsMove, NEW s \in DOMAIN sessions,
           CurrentIn(users', sessions', s)
    PROVE  Current(s)
<1> DEFINE u == sessions[s].user
<1>1. u \in DOMAIN users /\ users[u] \in User /\ users'[u] \in User
  BY DEF AuthInv, AuthTypeOK, UsersMove
<1>2. users'[u].enabled /\ sessions[s].version = users'[u].version
  BY DEF CurrentIn, SessionsMove
<1>3. sessions[s].version <= users[u].version /\ sessions[s].version \in Nat
  BY DEF AuthInv, AuthTypeOK, SessionsFollow, Follows, Session
<1>4. Moves(users[u], users'[u])
  BY <1>1 DEF UsersMove
<1>5. users[u].version \in Nat /\ users'[u].version \in Nat
  BY <1>1 DEF User
<1>6. users'[u].version >= users[u].version
  BY <1>4 DEF Moves
<1>7. users'[u].version = users[u].version
  BY <1>2, <1>3, <1>5, <1>6
<1>8. users'[u].enabled = users[u].enabled
  BY <1>4, <1>7 DEF Moves
<1> QED
  BY <1>2, <1>7, <1>8 DEF Current

(* Who follows a record follows what it moves to. *)
LEMMA FollowsOn ==
    ASSUME NEW before \in User, NEW after \in User, NEW version \in Nat, NEW password,
           Moves(before, after), Follows(before, version, password)
    PROVE  Follows(after, version, password)
  BY DEF Moves, Follows, User

(* The invariant survives a step that moves users, sessions and one thread. *)
LEMMA InvariantMoves ==
    ASSUME AuthInv, UsersMove, SessionsMove, RequestsMove
    PROVE  AuthInv'
<1>1. /\ \A u \in DOMAIN users : users[u] \in User /\ users'[u] \in User
      /\ \A s \in DOMAIN sessions : /\ sessions[s] \in Session
                                    /\ sessions[s].user \in DOMAIN users
      /\ \A s \in DOMAIN sessions' : sessions'[s] \in Session
  BY DEF AuthInv, AuthTypeOK, UsersMove, SessionsMove
<1>2. \A v \in Session : v.version \in Nat
  BY DEF Session
<1>3. AuthTypeOK'
  <2>1. \A s \in DOMAIN sessions' : sessions'[s].user \in DOMAIN users'
    BY <1>1 DEF UsersMove, SessionsMove
  <2> QED
    BY <2>1 DEF AuthTypeOK, UsersMove, SessionsMove, RequestsMove
<1>4. \A r \in Requests : req[r] \in Request /\ req'[r] \in Request
  BY DEF AuthInv, AuthTypeOK, RequestsMove
<1>5. SidsKnown'
  <2> SUFFICES ASSUME NEW r \in Requests,
                      req'[r].pc \in {"refresh", "logout", "check", "granted"}
               PROVE  req'[r].sid \in DOMAIN sessions'
    BY DEF SidsKnown
  <2>1. Knows(req[r], req'[r])
    BY DEF RequestsMove
  <2> QED
    BY <2>1 DEF Knows, AuthInv, SidsKnown, SessionsMove
<1>6. SessionsFollow'
  <2> SUFFICES ASSUME NEW s \in DOMAIN sessions'
               PROVE  Follows(users'[sessions'[s].user], sessions'[s].version,
                              sessions'[s].shown)
    BY DEF SessionsFollow, Follows
  <2> DEFINE u == sessions'[s].user
  <2>1. u \in DOMAIN users /\ Follows(users[u], sessions'[s].version, sessions'[s].shown)
    BY <1>1 DEF SessionsMove, AuthInv, SessionsFollow
  <2>2. Moves(users[u], users'[u])
    BY <2>1 DEF UsersMove
  <2> QED
    BY <1>1, <1>2, <2>1, <2>2, FollowsOn
<1>7. LoginsFollow'
  <2> SUFFICES ASSUME NEW r \in Requests, req'[r].pc = "login"
               PROVE  /\ req'[r].user \in DOMAIN users'
                      /\ Follows(users'[req'[r].user], req'[r].version,
                                 req'[r].password)
    BY DEF LoginsFollow, Follows
  <2> DEFINE u == req'[r].user
  <2>1. Knows(req[r], req'[r])
    BY DEF RequestsMove
  <2>2. u \in DOMAIN users /\ Follows(users[u], req'[r].version, req'[r].password)
    BY <2>1 DEF Knows, AuthInv, LoginsFollow
  <2>3. Moves(users[u], users'[u]) /\ req'[r].version \in Nat
    BY <1>4, <2>2, RequestFields DEF UsersMove
  <2> QED
    BY <1>1, <2>2, <2>3, FollowsOn DEF UsersMove
<1>8. ChecksFollow'
  <2> SUFFICES ASSUME NEW r \in Requests, req'[r].pc = "check",
                      CurrentIn(users', sessions', req'[r].sid)
               PROVE  req'[r].legit
    BY DEF ChecksFollow, Current, CurrentIn
  <2>1. Knows(req[r], req'[r])
    BY DEF RequestsMove
  <2>2. req'[r].sid \in DOMAIN sessions
    BY <2>1 DEF Knows, AuthInv, SidsKnown
  <2>3. Current(req'[r].sid)
    BY <2>2, CurrentFades
  <2> QED
    BY <2>1, <2>3 DEF Knows, AuthInv, ChecksFollow
<1>9. GrantWasValid'
  <2> SUFFICES ASSUME NEW r \in Requests, req'[r].pc = "granted"
               PROVE  req'[r].legit
    BY DEF GrantWasValid
  <2>1. Knows(req[r], req'[r])
    BY DEF RequestsMove
  <2> QED
    BY <2>1 DEF Knows, AuthInv, ChecksFollow, GrantWasValid
<1> QED
  BY <1>3, <1>5, <1>6, <1>7, <1>8, <1>9 DEF AuthInv

----------------------------------------------------------------------------
(* The actions. *)

(* A thread that has answered knows nothing. *)
LEMMA KnowsIdle == ASSUME NEW q PROVE Idle \in Request /\ Knows(q, Idle)
  BY DEF Idle, Request, Knows

(* Requests that change neither file. *)
LEMMA QuietStep ==
    ASSUME AuthInv, NEW r \in Requests,
           \/ \E u \in Users, p \in Passwords : LoginCheck(r, u, p)
           \/ \E s \in Sessions : RefreshFind(r, s)
           \/ \E s \in Sessions : LogoutFind(r, s)
           \/ \E s \in Sessions : /\ s \in DOMAIN sessions
                                  /\ Lookup(r, s, sessions[s].access)
           \/ CheckUser(r)
           \/ Answer(r)
    PROVE  users' = users /\ sessions' = sessions /\ RequestsMove
<1>0. /\ AuthTypeOK /\ arrivals \in Nat /\ req[r] \in Request
      /\ \A u \in DOMAIN users : users[u] \in User
      /\ \A s \in DOMAIN sessions : sessions[s] \in Session
  BY DEF AuthInv, AuthTypeOK
<1>1. users' = users /\ sessions' = sessions
  BY DEF LoginCheck, RefreshFind, LogoutFind, Lookup, CheckUser, Answer
<1>2. ASSUME NEW known \in Request, Knows(req[r], known),
             Arrive(r, known) \/ Continue(r, known)
      PROVE  RequestsMove
  <2>1. req' = [req EXCEPT ![r] = known] /\ arrivals' \in Nat
    BY <1>0, <1>2 DEF Arrive, Continue
  <2> QED
    BY <1>0, <1>2, <2>1, OneRequestMoves
<1>3. ASSUME NEW u \in Users, NEW p \in Passwords, LoginCheck(r, u, p)
      PROVE  RequestsMove
  <2> DEFINE known == [pc |-> "login", user |-> u, version |-> users[u].version,
                       password |-> p]
  <2>1. u \in DOMAIN users /\ users[u].password = p /\ Arrive(r, known)
    BY <1>3 DEF LoginCheck
  <2>2. users[u].version \in Nat
    BY <1>0, <2>1 DEF User
  <2>3. known \in Request
    BY <2>2 DEF Request
  <2>4. Knows(req[r], known)
    BY <2>1, <2>2 DEF Knows, Follows
  <2> QED
    BY <1>2, <2>1, <2>3, <2>4
<1>4. ASSUME NEW s \in Sessions, RefreshFind(r, s) PROVE RequestsMove
  <2> DEFINE known == [pc |-> "refresh", sid |-> s]
  <2>1. known \in Request /\ Arrive(r, known) /\ s \in DOMAIN sessions
    BY <1>4 DEF RefreshFind, Request
  <2>2. Knows(req[r], known)
    BY <2>1 DEF Knows
  <2> QED
    BY <1>2, <2>1, <2>2
<1>5. ASSUME NEW s \in Sessions, LogoutFind(r, s) PROVE RequestsMove
  <2> DEFINE known == [pc |-> "logout", sid |-> s]
  <2>1. known \in Request /\ s \in DOMAIN sessions
    BY <1>5 DEF LogoutFind, Request
  <2>2. Arrive(r, known) \/ Continue(r, known)
    BY <1>5 DEF LogoutFind
  <2>3. Knows(req[r], known)
    BY <2>1 DEF Knows
  <2> QED
    BY <1>2, <2>1, <2>2, <2>3
<1>6. ASSUME NEW s \in DOMAIN sessions, Lookup(r, s, sessions[s].access)
      PROVE  RequestsMove
  <2> DEFINE known == [pc |-> "check", sid |-> s, token |-> sessions[s].access,
                       legit |-> Usable(s)]
  <2>1. Arrive(r, known) /\ ~sessions[s].revoked
    BY <1>6 DEF Lookup, FoundByAccess
  <2>2. s \in Sessions /\ sessions[s].access \in Nat
    BY <1>0 DEF AuthTypeOK, Session
  <2>3. Usable(s) \in BOOLEAN
    BY DEF Usable
  <2>4. known \in Request
    BY <2>2, <2>3 DEF Request
  <2>5. Current(known.sid) => known.legit
    BY <2>1 DEF Usable
  <2>6. known.pc = "check" /\ known.sid \in DOMAIN sessions
    OBVIOUS
  <2>7. Knows(req[r], known)
    BY <2>5, <2>6 DEF Knows
  <2> QED
    BY <1>2, <2>1, <2>4, <2>7
<1>7. ASSUME CheckUser(r) PROVE RequestsMove
  <2>0. /\ req[r].sid \in DOMAIN sessions /\ req[r].pc = "check"
        /\ req[r].sid \in Sessions /\ req[r].token \in Nat /\ req[r].legit \in BOOLEAN
    BY <1>0, <1>7, RequestFields DEF CheckUser, AuthInv, SidsKnown
  <2> DEFINE role == users[sessions[req[r].sid].user].role
  <2>1. CASE Current(req[r].sid)
    <3>1. Continue(r, Granted(r, role))
      BY <1>7, <2>1 DEF CheckUser
    <3>2. role \in Roles
      BY <1>0, <2>0 DEF AuthTypeOK, User
    <3>3. Granted(r, role) \in Request
      BY <2>0, <3>2 DEF Granted, Request
    <3>4. /\ Granted(r, role).pc = "granted"
          /\ Granted(r, role).sid = req[r].sid
          /\ Granted(r, role).legit = req[r].legit
      BY DEF Granted
    <3>5. Knows(req[r], Granted(r, role))
      BY <2>0, <2>1, <3>4 DEF Knows
    <3> QED
      BY <1>2, <3>1, <3>3, <3>5
  <2>2. CASE ~Current(req[r].sid)
    BY <1>2, <1>7, <2>2, KnowsIdle DEF CheckUser
  <2> QED
    BY <2>1, <2>2
<1>8. ASSUME Answer(r) PROVE RequestsMove
  BY <1>2, <1>8, KnowsIdle DEF Answer
<1> QED
  BY <1>1, <1>3, <1>4, <1>5, <1>6, <1>7, <1>8

(* login, refresh and logout write sessions.json. *)
LEMMA SessionSaved ==
    ASSUME AuthInv, NEW r \in Requests,
           (\E s \in Sessions : LoginSave(r, s)) \/ RefreshSave(r) \/ LogoutSave(r)
    PROVE  users' = users /\ SessionsMove /\ RequestsMove
<1>0. /\ AuthTypeOK /\ arrivals \in Nat /\ req[r] \in Request
      /\ DOMAIN sessions \subseteq Sessions
      /\ sessions \in [DOMAIN sessions -> Session]
      /\ \A s \in DOMAIN sessions : sessions[s] \in Session
  BY DEF AuthInv, AuthTypeOK
<1>1. users' = users
  BY DEF LoginSave, RefreshSave, LogoutSave
<1>2. RequestsMove
  <2>1. req' = [req EXCEPT ![r] = Idle] /\ arrivals' = arrivals
    BY DEF LoginSave, RefreshSave, LogoutSave, Continue
  <2> QED
    BY <1>0, <2>1, KnowsIdle, OneRequestMoves
<1>3. ASSUME NEW s \in Sessions, LoginSave(r, s) PROVE SessionsMove
  <2> DEFINE new == NewSession(req[r])
  <2>1. s \notin DOMAIN sessions /\ sessions' = Put(sessions, s, new)
    BY <1>3 DEF LoginSave
  <2>2. /\ req[r].pc = "login" /\ req[r].user \in Users
        /\ req[r].version \in Nat /\ req[r].password \in Passwords
    BY <1>0, <1>3, RequestFields DEF LoginSave
  <2>3. new \in Session
    BY <2>2 DEF NewSession, Session
  <2>4. /\ new.user \in DOMAIN users
        /\ Follows(users[new.user], new.version, new.shown)
    BY <2>2 DEF NewSession, AuthInv, LoginsFollow
  <2>5. /\ DOMAIN sessions' = DOMAIN sessions \cup {s}
        /\ sessions' \in [DOMAIN sessions' -> Session]
        /\ sessions'[s] = new
        /\ \A k \in DOMAIN sessions : sessions'[k] = sessions[k]
    BY <1>0, <2>1, <2>3 DEF Put
  <2> QED
    BY <1>0, <2>4, <2>5 DEF SessionsMove
<1>4. ASSUME RefreshSave(r) PROVE SessionsMove
  <2> DEFINE sid == req[r].sid
  <2>1. sid \in DOMAIN sessions
    BY <1>4 DEF RefreshSave, AuthInv, SidsKnown
  <2>2. sessions' = [sessions EXCEPT ![sid] =
                        [sessions[sid] EXCEPT !.access = sessions[sid].access + 1]]
    BY <1>4 DEF RefreshSave
  <2>3. \A v \in Session : [v EXCEPT !.access = v.access + 1] \in Session
    BY DEF Session
  <2>4. sessions' \in [DOMAIN sessions -> Session]
    BY <1>0, <2>1, <2>2, <2>3
  <2>5. \A k \in DOMAIN sessions : /\ sessions'[k].user = sessions[k].user
                                  /\ sessions'[k].version = sessions[k].version
                                  /\ sessions'[k].shown = sessions[k].shown
                                  /\ sessions'[k].revoked = sessions[k].revoked
    BY <1>0, <2>1, <2>2 DEF Session
  <2> QED
    BY <1>0, <2>4, <2>5 DEF SessionsMove
<1>5. ASSUME LogoutSave(r) PROVE SessionsMove
  <2> DEFINE sid == req[r].sid
  <2>1. sid \in DOMAIN sessions
    BY <1>5 DEF LogoutSave, AuthInv, SidsKnown
  <2>2. sessions' = [sessions EXCEPT ![sid] = [sessions[sid] EXCEPT !.revoked = TRUE]]
    BY <1>5 DEF LogoutSave
  <2>3. \A v \in Session : [v EXCEPT !.revoked = TRUE] \in Session
    BY DEF Session
  <2>4. sessions' \in [DOMAIN sessions -> Session]
    BY <1>0, <2>1, <2>2, <2>3
  <2>5. \A k \in DOMAIN sessions : /\ sessions'[k].user = sessions[k].user
                                  /\ sessions'[k].version = sessions[k].version
                                  /\ sessions'[k].shown = sessions[k].shown
                                  /\ sessions'[k].revoked \in {TRUE, sessions[k].revoked}
    BY <1>0, <2>1, <2>2 DEF Session
  <2>6. DOMAIN sessions' = DOMAIN sessions
    BY <2>4
  <2>7. /\ DOMAIN sessions \subseteq DOMAIN sessions'
        /\ DOMAIN sessions' \subseteq Sessions
        /\ sessions' \in [DOMAIN sessions' -> Session]
    BY <1>0, <2>4, <2>6
  <2>8. \A s \in DOMAIN sessions' \ DOMAIN sessions : FALSE
    BY <2>6
  <2> QED
    BY <2>5, <2>7, <2>8 DEF SessionsMove
<1> QED
  BY <1>1, <1>2, <1>3, <1>4, <1>5

(* Every step moves users, sessions and requests forward, or stands. *)
LEMMA EveryStepMoves ==
    ASSUME AuthInv, [AuthNext]_authVars
    PROVE  UsersMove /\ SessionsMove /\ RequestsMove
<1>0. AuthTypeOK
  BY DEF AuthInv
<1>1. CASE UNCHANGED authVars
  <2>1. users' = users /\ sessions' = sessions /\ req' = req /\ arrivals' = arrivals
    BY <1>1 DEF authVars
  <2>2. RequestsMove
    BY <1>0, <2>1 DEF AuthTypeOK, RequestsMove, Knows
  <2> QED
    BY <1>0, <2>1, <2>2, UsersStand, SessionsStand
<1>2. CASE AuthRestart
  <2>1. RequestsMove
    BY <1>0, <1>2, KnowsIdle DEF AuthRestart, AuthTypeOK, RequestsMove
  <2> QED
    BY <1>0, <1>2, <2>1, UsersStand, SessionsStand DEF AuthRestart
<1>3. ASSUME NEW r \in Requests, SessionOperation(r)
      PROVE  UsersMove /\ SessionsMove /\ RequestsMove
  <2>1. CASE (\E s \in Sessions : LoginSave(r, s)) \/ RefreshSave(r) \/ LogoutSave(r)
    BY <1>0, <2>1, SessionSaved, UsersStand
  <2>2. CASE ~((\E s \in Sessions : LoginSave(r, s)) \/ RefreshSave(r) \/ LogoutSave(r))
    <3>1. users' = users /\ sessions' = sessions /\ RequestsMove
      BY <1>3, <2>2, QuietStep DEF SessionOperation
    <3> QED
      BY <1>0, <3>1, UsersStand, SessionsStand
  <2> QED
    BY <2>1, <2>2
<1>4. ASSUME NEW r \in Requests, UserOperation(r)
      PROVE  UsersMove /\ SessionsMove /\ RequestsMove
  <2>1. UsersMove /\ sessions' = sessions /\ req' = [req EXCEPT ![r] = Idle]
    BY <1>4, OperationMoves
  <2>2. arrivals' = arrivals
    BY <1>4 DEF UserOperation, RegisterUser, ChangePassword, ResetPassword, ToggleUser,
                PatchUser, SaveUser, Continue
  <2>3. RequestsMove
    BY <1>0, <2>1, <2>2, KnowsIdle, OneRequestMoves DEF AuthTypeOK
  <2> QED
    BY <1>0, <2>1, <2>3, SessionsStand
<1> QED
  BY <1>1, <1>2, <1>3, <1>4 DEF AuthNext, AuthStep

(* AuthInv is inductive. *)
LEMMA AuthInductive == AuthInv /\ [AuthNext]_authVars => AuthInv'
  BY EveryStepMoves, InvariantMoves

(* The invariant holds in every behaviour of the accounts. *)
LEMMA AuthInvariant == AuthSpec => []AuthInv
<1>1. AuthInit => AuthInv
  BY AuthInitially
<1>2. AuthInv /\ [AuthNext]_authVars => AuthInv'
  BY AuthInductive
<1> QED
  BY <1>1, <1>2, PTL DEF AuthSpec

----------------------------------------------------------------------------
(* The composition implements ControlAuth: for it, a request on the fleet  *)
(* is one that changes no user and no session, whatever the store does.    *)
THEOREM ControlPlaneImplementsAuth == Spec => AuthSpec
<1>1. Init => AuthInit
  BY DEF Init
<1>2. [Next]_vars => [AuthNext]_authVars
  <2> SUFFICES ASSUME [Next]_vars PROVE [AuthNext]_authVars
    OBVIOUS
  <2>1. CASE AuthStep
    BY <2>1 DEF AuthNext
  <2>2. ASSUME NEW r \in Requests, FleetRequest(r) PROVE AuthNext
    <3>1. Answer(r)
      BY <2>2 DEF FleetRequest, Serve, Answer
    <3> QED
      BY <3>1 DEF AuthNext, AuthStep, SessionOperation
  <2>3. CASE FleetStep /\ UNCHANGED <<authVars, restarts>>
    BY <2>3
  <2>4. CASE Restart
    BY <2>4 DEF Restart, AuthNext
  <2>5. CASE UNCHANGED vars
    BY <2>5 DEF vars
  <2> QED
    BY <2>1, <2>2, <2>3, <2>4, <2>5 DEF Next
<1> QED
  BY <1>1, <1>2, PTL DEF Spec, AuthSpec

(* Users, sessions and requests keep the form of AuthTypeOK. *)
THEOREM AuthTypeCorrect == Spec => []AuthTypeOK
<1>1. AuthInv => AuthTypeOK
  BY DEF AuthInv
<1> QED
  BY <1>1, ControlPlaneImplementsAuth, AuthInvariant, PTL

(* require_access only grants what was valid at the lookup of the session, *)
(* although it reads session and user in two critical sections.            *)
THEOREM GrantsAreValid == Spec => []GrantWasValid
<1>1. AuthInv => GrantWasValid
  BY DEF AuthInv
<1> QED
  BY <1>1, ControlPlaneImplementsAuth, AuthInvariant, PTL

(* No session opened with another password survives a password change.     *)
THEOREM OldPasswordsAreUseless == Spec => []OldPasswordIsUseless
<1>1. AuthInv => OldPasswordIsUseless
  BY DEF AuthInv, SessionsFollow, Follows, OldPasswordIsUseless, Usable, Current
<1> QED
  BY <1>1, ControlPlaneImplementsAuth, AuthInvariant, PTL

(* A session that was revoked or outdated stays dead. *)
THEOREM DeadSessionsStayDead == Spec => DeadStaysDead
<1>1. AuthInv /\ [AuthNext]_authVars =>
         [\A s \in DOMAIN sessions : Dead(s) => s \in DOMAIN sessions' /\ Dead(s)']_authVars
  <2> SUFFICES ASSUME AuthInv, [AuthNext]_authVars, NEW s \in DOMAIN sessions, Dead(s)
               PROVE  s \in DOMAIN sessions' /\ Dead(s)'
    OBVIOUS
  <2>1. UsersMove /\ SessionsMove
    BY EveryStepMoves
  <2>2. CASE sessions[s].revoked
    BY <2>1, <2>2 DEF SessionsMove, Dead
  <2>3. CASE sessions[s].version # users[sessions[s].user].version
    <3> DEFINE u == sessions[s].user
    <3>1. /\ u \in DOMAIN users /\ users[u] \in User /\ users'[u] \in User
          /\ sessions[s] \in Session
      BY <2>1 DEF AuthInv, AuthTypeOK, UsersMove
    <3>2. /\ users[u].version \in Nat /\ users'[u].version \in Nat
          /\ sessions[s].version \in Nat
      BY <3>1 DEF User, Session
    <3>3. users'[u].version >= users[u].version
      BY <2>1, <3>1 DEF UsersMove, Moves
    <3>4. sessions[s].version <= users[u].version
      BY DEF AuthInv, SessionsFollow, Follows
    <3>5. sessions[s].version # users'[u].version
      BY <2>3, <3>2, <3>3, <3>4
    <3> QED
      BY <2>1, <3>5 DEF SessionsMove, Dead
  <2> QED
    BY <2>2, <2>3 DEF Dead
<1> QED
  BY <1>1, ControlPlaneImplementsAuth, AuthInvariant, PTL DEF AuthSpec, DeadStaysDead
=============================================================================
