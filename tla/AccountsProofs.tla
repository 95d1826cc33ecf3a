--------------------------- MODULE AccountsProofs ---------------------------
(***************************************************************************)
(* What overlapping logins, administration and roll-backs cannot do to the *)
(* users and their sessions, for any number of users, roles, sessions and  *)
(* requests.  The argument: a transaction that has written a user's row    *)
(* keeps everybody else from changing the user and from opening a session  *)
(* of it, so what it has computed still holds when it commits.             *)
(***************************************************************************)
EXTENDS Accounts, FiniteSetTheorems, TLAPS

\* The request takes the target out of the administrators.
Removes(r) == r.op \in {"disable", "delete"} \/ (r.op = "role" /\ r.role # Admin)

\* Where the uncommitted row may stand.
RowOK(r) ==
  r.row # None =>
    /\ r.phase \in {"rejected", "revoking", "written"}
    /\ r.op = "delete" => r.phase # "revoking"
    /\ r.target \in Users
    /\ r.row # Absent
    /\ users[r.target] # Deleted

\* What the row leaves of the user it will replace.
KeepsOK(r) ==
  r.row # None /\ r.phase \in {"revoking", "written"} =>
    /\ ~Removes(r) /\ r.target \in ActiveAdmins =>
         r.row \in User /\ r.row.active /\ Admin \in r.row.roles
    /\ r.row \in User =>
         \/ Cardinality(r.row.roles) = 1
         \/ r.target \in doubled
         \/ r.op = "role" /\ ~r.fresh
    /\ r.row \in User /\ r.op # "reset" /\ Stored(r.target) =>
         r.row.password = users[r.target].password

\* The sessions that will outlive the commit fit the row.
SessionsOK(r) ==
  r.row \in User /\ r.phase = "written" =>
    /\ ~Usable(r.row) => ActiveSessions(r.target) \subseteq r.ended
    /\ \A s \in ActiveSessions(r.target) \ r.ended :
         sessions[s].password \in {0, r.row.password}

\* A login creates a session for a usable row it holds.
LoginOK(r) ==
  /\ r.session # None =>
       /\ r.phase = "written"
       /\ r.row \in User /\ Usable(r.row)
       /\ r.crossed \/ r.row.password = r.password
  /\ r.phase = "verified" =>
       /\ r.op = "login"
       /\ r.target \in Users /\ users[r.target] # Absent
       /\ ~r.crossed /\ Stored(r.target) => users[r.target].password = r.password

\* A request that removes its target had another administrator to leave when
\* it last read them, or the target was none then.
RemovalOK(r) ==
  Removes(r) /\ r.phase \in {"writing", "replacing", "revoking", "written"} =>
    r.admins # {r.target}

RequestOK(r) == RowOK(r) /\ KeepsOK(r) /\ SessionsOK(r) /\ LoginOK(r) /\ RemovalOK(r)

\* No two transactions have written the row of one user.
Exclusive ==
  \A c, d \in Clients :
    c # d /\ requests[c].row # None /\ requests[d].row # None =>
      requests[c].target # requests[d].target

RequestsOK == Exclusive /\ \A c \in Clients : RequestOK(requests[c])

AccountsInv ==
  /\ TypeOK
  /\ RequestsOK
  /\ UnusableHasNoSession
  /\ AdminLostOnlyByOverlap
  /\ RolesDoubledOnlyByOverlap
  /\ OldPasswordOnlyByOverlap

-----------------------------------------------------------------------------
(* Steps of one request: tables unchanged *)

\* A step that changes no table and one request keeps the invariant when the
\* new request is as it should be.
LEMMA OwnStep ==
  ASSUME AccountsInv, NEW c \in Clients, NEW q \in Request,
         requests' = [requests EXCEPT ![c] = q],
         q.phase # "idle" => q.target \in Users,
         RequestOK(q), q.row # None => ~RowLocked(c, q.target),
         UNCHANGED <<users, sessions, raced, doubled>>,
         started' \in 0..MaxRequests, failed' \in [Users -> 0..MaxFailures]
  PROVE  AccountsInv'
<1> USE DEF AccountsInv
<1>1. \A d \in Clients : requests'[d] = IF d = c THEN q ELSE requests[d]
  BY DEF TypeOK
<1>2. TypeOK'
  BY <1>1 DEF TypeOK
<1>3. Exclusive'
  BY <1>1 DEF RequestsOK, Exclusive, RowLocked
<1>4. RequestOK(q)'
  BY DEF RequestOK, RowOK, KeepsOK, SessionsOK, LoginOK, RemovalOK, Removes,
         ActiveAdmins, ActiveSessions, Stored, Usable
<1>5. ASSUME NEW d \in Clients, d # c
      PROVE  RequestOK(requests[d])'
  BY <1>1, <1>5 DEF RequestsOK, RequestOK, RowOK, KeepsOK, SessionsOK, LoginOK,
         RemovalOK, Removes, ActiveAdmins, ActiveSessions, Stored, Usable
<1>6. \A d \in Clients : RequestOK(requests[d])'
  <2> SUFFICES ASSUME NEW d \in Clients PROVE RequestOK(requests[d])'
    OBVIOUS
  <2>1. CASE d = c
    <3>1. requests'[d] = q
      BY <1>1, <2>1
    <3> QED
      BY <3>1, <1>4 DEF RequestOK, RowOK, KeepsOK, SessionsOK, LoginOK, RemovalOK,
         Removes, ActiveAdmins, ActiveSessions, Stored, Usable
  <2> QED
    BY <1>5, <2>1
<1>7. /\ UnusableHasNoSession' /\ AdminLostOnlyByOverlap'
      /\ RolesDoubledOnlyByOverlap' /\ OldPasswordOnlyByOverlap'
  BY DEF UnusableHasNoSession, AdminLostOnlyByOverlap, RolesDoubledOnlyByOverlap,
         OldPasswordOnlyByOverlap, ActiveAdmins, ActiveSessions, Stored, Usable
<1> QED
  BY <1>2, <1>3, <1>6, <1>7 DEF RequestsOK

\* A request without a row of its own, that has verified nothing and is not
\* about to remove an administrator, asks for nothing.
LEMMA PlainRequest ==
  ASSUME NEW q \in Request, q.row = None, q.session = None, q.phase # "verified",
         RemovalOK(q)
  PROVE  RequestOK(q)
BY NoneAssumption DEF RequestOK, RowOK, KeepsOK, SessionsOK, LoginOK, User

\* The idle request is a request.
LEMMA IdleIsRequest == Idle \in Request /\ RequestOK(Idle)
<1>1. Idle \in Request
  BY SeededAssumption, BoundAssumption DEF Idle, Request, Operations, Phases
<1> QED
  BY <1>1, PlainRequest DEF Idle, RemovalOK

\* A step that only ends a request keeps the invariant.
LEMMA EndStep ==
  ASSUME AccountsInv, NEW c \in Clients,
         requests' = [requests EXCEPT ![c] = Idle],
         UNCHANGED <<users, sessions, started, raced, doubled>>,
         failed' \in [Users -> 0..MaxFailures]
  PROVE  AccountsInv'
<1>1. Idle.row = None /\ Idle.phase = "idle"
  BY DEF Idle
<1> QED
  BY <1>1, IdleIsRequest, OwnStep DEF AccountsInv, TypeOK

\* The start of a request keeps the invariant when the request is as it
\* should be.
LEMMA BeginStep ==
  ASSUME AccountsInv, NEW c \in Clients, NEW q \in Request, Begin(c, q),
         q.target \in Users, RequestOK(q), q.row # None => ~RowLocked(c, q.target)
  PROVE  AccountsInv'
<1>1. started' \in 0..MaxRequests
  BY BoundAssumption DEF AccountsInv, TypeOK, Begin
<1> QED
  BY <1>1, OwnStep DEF AccountsInv, TypeOK, Begin, history

-----------------------------------------------------------------------------
(* Logins *)

\* The row a request finds stored has the type of a user.
LEMMA StoredRow ==
  ASSUME TypeOK, NEW u \in Users, Stored(u)
  PROVE  /\ users[u] \in User
         /\ users[u].failures \in 0..MaxFailures
         /\ users[u].password \in 1..MaxPasswords
         /\ users[u].roles \in (SUBSET Roles) \ {{}}
BY DEF Stored, User

LEMMA LoginSound ==
  ASSUME AccountsInv, NEW c \in Clients, NEW u \in Users, NEW matches \in BOOLEAN,
         Login(c, u, matches)
  PROVE  AccountsInv'
<1> DEFINE q == [Idle EXCEPT !.phase = IF matches THEN "verified" ELSE "failing",
                             !.target = u, !.password = users[u].password]
<1>1. users[u] \in User /\ users[u].password \in 0..MaxPasswords
  BY StoredRow, BoundAssumption DEF Login, Usable, Stored, AccountsInv
<1>2. q \in Request
  BY <1>1, IdleIsRequest DEF Idle, Request, Phases
<1>3. RequestOK(q)
  <2>1. /\ q.row = None /\ q.session = None /\ q.op = "login" /\ q.target = u
        /\ q.phase \in {"verified", "failing"} /\ q.password = users[u].password
    BY DEF Idle
  <2> QED
    BY <1>1, <2>1, NoneAssumption DEF RequestOK, RowOK, KeepsOK, SessionsOK, LoginOK,
       RemovalOK, Removes, User
<1>4. q.target = u /\ q.row = None
  BY DEF Idle
<1> HIDE DEF q
<1>5. Begin(c, q)
  BY DEF Login, q
<1> QED
  BY <1>2, <1>3, <1>4, <1>5, BeginStep

\* A row in use keeps its roles through a login.
LEMMA RecordSuccessfulLoginSound ==
  ASSUME AccountsInv, NEW c \in Clients, NEW s \in Sessions,
         RecordSuccessfulLogin(c, s)
  PROVE  AccountsInv'
<1> PICK r \in Request : r = requests[c]
  BY DEF AccountsInv, TypeOK
<1> DEFINE row == [users[r.target] EXCEPT !.failures = 0]
           q == [r EXCEPT !.phase = "written", !.session = s, !.row = row]
<1>1. r.target \in Users /\ Usable(users[r.target]) /\ Stored(r.target)
  BY DEF RecordSuccessfulLogin, AccountsInv, TypeOK, Usable, Stored
<1>2. row \in User /\ Usable(row)
  BY <1>1, StoredRow, BoundAssumption DEF AccountsInv, Usable, User
<1>3. /\ row.active = users[r.target].active /\ row.roles = users[r.target].roles
      /\ row.password = users[r.target].password
  BY <1>1, StoredRow DEF AccountsInv, User
<1>4. /\ q \in Request /\ q.row = row /\ q.target = r.target /\ q.op = r.op
      /\ q.phase = "written" /\ q.session = s /\ q.password = r.password
      /\ q.crossed = r.crossed /\ q.fresh = r.fresh /\ q.ended = r.ended
      /\ q.admins = r.admins /\ q.role = r.role
  BY <1>2 DEF Request, Row, Phases
<1>5. r.phase = "verified" /\ requests' = [requests EXCEPT ![c] = q]
  BY DEF RecordSuccessfulLogin
<1>6. RequestOK(r) /\ r.op = "login"
  BY <1>5 DEF AccountsInv, RequestsOK, RequestOK, LoginOK
<1> HIDE DEF q, row
<1>7. RequestOK(q)
  <2>1. RowOK(q) /\ RemovalOK(q)
    BY <1>1, <1>2, <1>4, <1>6, NoneAssumption DEF RowOK, RemovalOK, Removes, Stored
  <2>2. KeepsOK(q)
    BY <1>1, <1>2, <1>3, <1>4 DEF KeepsOK, ActiveAdmins, AccountsInv, RolesDoubledOnlyByOverlap
  <2>3. SessionsOK(q)
    BY <1>1, <1>2, <1>3, <1>4 DEF SessionsOK, ActiveSessions, AccountsInv,
       OldPasswordOnlyByOverlap
  <2>4. LoginOK(q)
    BY <1>1, <1>2, <1>3, <1>4, <1>5, <1>6 DEF LoginOK, RequestOK
  <2> QED
    BY <2>1, <2>2, <2>3, <2>4 DEF RequestOK
<1>8. ~RowLocked(c, q.target)
  BY <1>4 DEF RecordSuccessfulLogin
<1> QED
  BY <1>1, <1>4, <1>5, <1>7, <1>8, OwnStep
     DEF RecordSuccessfulLogin, history, AccountsInv, TypeOK

\* The row of a failed login is never committed.
LEMMA RecordFailedLoginSound ==
  ASSUME AccountsInv, NEW c \in Clients, RecordFailedLogin(c)
  PROVE  AccountsInv'
<1> PICK r \in Request : r = requests[c]
  BY DEF AccountsInv, TypeOK
<1> DEFINE count == users[r.target].failures + 1
           row == [users[r.target] EXCEPT !.failures = count,
                                          !.locked = count >= MaxFailures]
           q == [r EXCEPT !.phase = "rejected", !.row = row]
<1>1. r.target \in Users /\ Usable(users[r.target]) /\ Stored(r.target)
  BY DEF RecordFailedLogin, AccountsInv, TypeOK, Usable, Stored
<1>2. row \in User
  <2>1. users[r.target] \in User /\ users[r.target].failures \in 0..MaxFailures
    BY <1>1, StoredRow DEF AccountsInv
  <2>2. count \in 0..MaxFailures
    BY <2>1, BoundAssumption DEF RecordFailedLogin
  <2>3. (count >= MaxFailures) \in BOOLEAN
    OBVIOUS
  <2> HIDE DEF count
  <2> QED
    BY <2>1, <2>2, <2>3 DEF User
<1>3. /\ q \in Request /\ q.row = row /\ q.target = r.target /\ q.op = r.op
      /\ q.phase = "rejected" /\ q.session = r.session
  <2>1. row \in Row \cup {None} /\ "rejected" \in Phases
    BY <1>2 DEF Row, Phases
  <2> HIDE DEF row
  <2> QED BY <2>1 DEF Request
<1>4. r.phase = "failing" /\ requests' = [requests EXCEPT ![c] = q]
  BY DEF RecordFailedLogin
<1>5. r.session = None
  BY <1>4 DEF AccountsInv, RequestsOK, RequestOK, LoginOK
<1> HIDE DEF q, row
<1>6. RequestOK(q)
  BY <1>1, <1>2, <1>3, <1>5, NoneAssumption DEF RequestOK, RowOK, KeepsOK, SessionsOK,
     LoginOK, RemovalOK, Stored
<1>7. ~RowLocked(c, q.target)
  BY <1>3 DEF RecordFailedLogin
<1> QED
  BY <1>1, <1>3, <1>4, <1>6, <1>7, OwnStep
     DEF RecordFailedLogin, history, AccountsInv, TypeOK

LEMMA RejectLoginSound ==
  ASSUME AccountsInv, NEW c \in Clients, RejectLogin(c)
  PROVE  AccountsInv'
<1>1. failed' \in [Users -> 0..MaxFailures]
  BY BoundAssumption DEF AccountsInv, TypeOK, RejectLogin
<1> QED
  BY <1>1, EndStep DEF RejectLogin

-----------------------------------------------------------------------------
(* Requests with a session *)

\* The owner of an active session is a user.
LEMMA OwnerIsUser ==
  ASSUME TypeOK, NEW s \in Sessions, Authenticated(s)
  PROVE  sessions[s].owner \in Users /\ Stored(sessions[s].owner)
BY DEF TypeOK, Authenticated, Usable, Stored

LEMMA LogoutSound ==
  ASSUME AccountsInv, NEW c \in Clients, NEW s \in Sessions, Logout(c, s)
  PROVE  AccountsInv'
<1> DEFINE q == [Idle EXCEPT !.phase = "written", !.op = "logout",
                             !.target = sessions[s].owner, !.ended = {s}]
<1>1. /\ q \in Request /\ q.target \in Users /\ q.row = None /\ q.session = None
      /\ q.phase = "written" /\ q.op = "logout"
  BY OwnerIsUser, IdleIsRequest DEF Logout, AccountsInv, Idle, Request, Phases, Operations
<1> HIDE DEF q
<1>2. RequestOK(q)
  BY <1>1, PlainRequest DEF RemovalOK, Removes
<1> QED
  BY <1>1, <1>2, BeginStep DEF Logout, q

LEMMA RevokeOwnSessionsSound ==
  ASSUME AccountsInv, NEW c \in Clients, NEW s \in Sessions, RevokeOwnSessions(c, s)
  PROVE  AccountsInv'
<1> DEFINE q == [Idle EXCEPT !.phase = "revoking", !.op = "revoke",
                             !.target = sessions[s].owner]
<1>1. /\ q \in Request /\ q.target \in Users /\ q.row = None /\ q.session = None
      /\ q.phase = "revoking" /\ q.op = "revoke"
  BY OwnerIsUser, IdleIsRequest DEF RevokeOwnSessions, AccountsInv, Idle, Request,
     Phases, Operations
<1> HIDE DEF q
<1>2. RequestOK(q)
  BY <1>1, PlainRequest DEF RemovalOK, Removes
<1> QED
  BY <1>1, <1>2, BeginStep DEF RevokeOwnSessions, q

\* A new user has a role, no session and a row nobody else has written.
LEMMA CreateUserSound ==
  ASSUME AccountsInv, NEW c \in Clients, NEW s \in Sessions, NEW u \in Users,
         NEW role \in Roles, NEW active \in BOOLEAN, CreateUser(c, s, u, role, active)
  PROVE  AccountsInv'
<1> DEFINE row == NewUser(role, active)
           q == [Idle EXCEPT !.phase = "written", !.op = "create", !.target = u,
                             !.row = row]
<1>1. row \in User /\ row.roles = {role}
  BY BoundAssumption DEF NewUser, User
<1>2. /\ q \in Request /\ q.target = u /\ q.row = row /\ q.session = None
      /\ q.phase = "written" /\ q.op = "create" /\ q.ended = {}
  BY <1>1, IdleIsRequest DEF Idle, Request, Phases, Operations, Row
<1>3. users[u] = Absent /\ ~Stored(u) /\ u \notin ActiveAdmins
  BY NoneAssumption DEF CreateUser, Stored, ActiveAdmins
<1>4. ActiveSessions(u) = {}
  BY <1>3 DEF AccountsInv, UnusableHasNoSession, Usable, Stored
<1>5. ~RowLocked(c, u)
  BY DEF CreateUser, RowLocked
<1>6. Cardinality(row.roles) = 1
  BY <1>1, FS_Singleton
<1>7. Begin(c, q)
  BY DEF CreateUser
<1> HIDE DEF q, row
<1>8. RequestOK(q)
  BY <1>1, <1>2, <1>3, <1>4, <1>6, NoneAssumption DEF RequestOK, RowOK, KeepsOK,
     SessionsOK, LoginOK, RemovalOK, Removes
<1> QED
  BY <1>2, <1>5, <1>7, <1>8, BeginStep

\* Who is not counted is no administrator, as the request has read it.
LEMMA ManageSound ==
  ASSUME AccountsInv, NEW c \in Clients, NEW s \in Sessions, NEW op \in Operations,
         NEW u \in Users, NEW role \in Roles, Manage(c, s, op, u, role)
  PROVE  AccountsInv'
<1> DEFINE phase == IF RemovesAdmin(op, users[u], role) THEN "counting" ELSE FirstWrite(op)
           q == [Idle EXCEPT !.op = op, !.target = u, !.role = role,
                             !.admins = ActiveAdmins, !.phase = phase]
<1>1. phase \in Phases /\ phase \notin {"idle", "verified"}
  BY DEF FirstWrite, Phases
<1>2. /\ q \in Request /\ q.target = u /\ q.row = None /\ q.session = None
      /\ q.phase = phase /\ q.op = op /\ q.role = role /\ q.admins = ActiveAdmins
  BY <1>1, IdleIsRequest DEF Idle, Request, ActiveAdmins
<1>3. ASSUME Removes(q), phase # "counting"
      PROVE  ActiveAdmins # {u}
  BY <1>2, <1>3 DEF Removes, RemovesAdmin, ActiveAdmins, Manage, Stored
<1>4. Begin(c, q)
  BY DEF Manage
<1> HIDE DEF q, phase
<1>5. RequestOK(q)
  BY <1>1, <1>2, <1>3, PlainRequest DEF RemovalOK
<1> QED
  BY <1>2, <1>4, <1>5, BeginStep

LEMMA CountAdminsSound ==
  ASSUME AccountsInv, NEW c \in Clients, CountAdmins(c)
  PROVE  AccountsInv'
<1> PICK r \in Request : r = requests[c]
  BY DEF AccountsInv, TypeOK
<1>1. CASE ActiveAdmins = {r.target}
  <2>1. requests' = [requests EXCEPT ![c] = Idle]
    BY <1>1 DEF CountAdmins
  <2> QED
    BY <2>1, EndStep DEF CountAdmins, AccountsInv, TypeOK, history
<1>2. CASE ActiveAdmins # {r.target}
  <2> DEFINE q == [r EXCEPT !.admins = ActiveAdmins, !.phase = FirstWrite(r.op)]
  <2>1. requests' = [requests EXCEPT ![c] = q] /\ r.phase = "counting"
    BY <1>2 DEF CountAdmins
  <2>2. FirstWrite(r.op) \in {"writing", "replacing", "revoking"}
    BY DEF FirstWrite
  <2>3. /\ q \in Request /\ q.target = r.target /\ q.row = r.row /\ q.session = r.session
        /\ q.phase = FirstWrite(r.op) /\ q.admins = ActiveAdmins /\ q.op = r.op
    BY <2>2 DEF Request, Phases, ActiveAdmins
  <2>4. r.row = None /\ r.session = None /\ r.target \in Users
    BY <2>1 DEF AccountsInv, RequestsOK, RequestOK, RowOK, LoginOK, TypeOK
  <2> HIDE DEF q
  <2>5. RequestOK(q)
    BY <1>2, <2>2, <2>3, <2>4, PlainRequest DEF RemovalOK
  <2> QED
    BY <2>1, <2>3, <2>4, <2>5, OwnStep DEF CountAdmins, AccountsInv, TypeOK, history
<1> QED
  BY <1>1, <1>2

LEMMA BeginReplaceSound ==
  ASSUME AccountsInv, NEW c \in Clients, BeginReplace(c)
  PROVE  AccountsInv'
<1> PICK r \in Request : r = requests[c]
  BY DEF AccountsInv, TypeOK
<1> DEFINE q == [r EXCEPT !.phase = "writing"]
<1>1. requests' = [requests EXCEPT ![c] = q] /\ r.phase = "replacing"
  BY DEF BeginReplace
<1>2. /\ q \in Request /\ q.target = r.target /\ q.row = r.row /\ q.session = r.session
      /\ q.phase = "writing" /\ q.admins = r.admins /\ q.op = r.op /\ q.role = r.role
  BY DEF Request, Phases
<1>3. r.row = None /\ r.session = None /\ r.target \in Users /\ RemovalOK(r)
  BY <1>1 DEF AccountsInv, RequestsOK, RequestOK, RowOK, LoginOK, TypeOK
<1> HIDE DEF q
<1>4. RequestOK(q)
  BY <1>1, <1>2, <1>3, PlainRequest DEF RemovalOK, Removes
<1> QED
  BY <1>1, <1>2, <1>3, <1>4, OwnStep DEF BeginReplace, AccountsInv, TypeOK, history

\* What an update makes of a row: a row or the mark of deletion, with the
\* role, the password and the state its operation asks for.
LEMMA UpdatedRow ==
  ASSUME NEW row \in User, NEW r \in Request,
         r.op = "reset" => row.password < MaxPasswords
  PROVE  /\ Updated(row, r) \in Row \ {Absent}
         /\ r.op = "delete" <=> Updated(row, r) = Deleted
         /\ r.op # "delete" => Updated(row, r) \in User
         /\ ~Removes(r) /\ row.active /\ Admin \in row.roles =>
              Updated(row, r).active /\ Admin \in Updated(row, r).roles
         /\ r.op \notin {"role", "delete"} => Updated(row, r).roles = row.roles
         /\ r.op = "role" /\ r.fresh => Updated(row, r).roles = {r.role}
         /\ r.op \notin {"reset", "delete"} => Updated(row, r).password = row.password
         /\ r.op \in {"enable", "unlock"} /\ Usable(row) => Usable(Updated(row, r))
         /\ ~Revokes(r.op) /\ r.op \notin {"enable", "unlock"} => Updated(row, r) = row
<1> DEFINE new == Updated(row, r)
<1>1. /\ row.active \in BOOLEAN /\ row.locked \in BOOLEAN
      /\ row.failures \in 0..MaxFailures /\ row.roles \in (SUBSET Roles) \ {{}}
      /\ row.password \in 1..MaxPasswords /\ r.role \in Roles /\ 0 \in 0..MaxFailures
  BY BoundAssumption DEF User, Request
<1>2. CASE r.op = "role"
  <2>1. new = [row EXCEPT !.roles = IF r.fresh THEN {r.role} ELSE row.roles \cup {r.role}]
    BY <1>2 DEF Updated, RoleSet
  <2>2. new \in User /\ new.active = row.active /\ new.password = row.password
    BY <1>1, <2>1 DEF User
  <2>3. new.roles = IF r.fresh THEN {r.role} ELSE row.roles \cup {r.role}
    BY <2>1 DEF User
  <2> HIDE DEF new
  <2>4. new \in Row \ {Absent} /\ new # Deleted
    BY <2>2, NoneAssumption DEF Row
  <2>5. ~Removes(r) => r.role = Admin
    BY <1>2 DEF Removes
  <2> QED
    BY <1>2, <2>2, <2>3, <2>4, <2>5 DEF Revokes, new
<1>3. CASE r.op \in {"enable", "disable"}
  <2>1. new = [row EXCEPT !.active = (r.op = "enable")]
    BY <1>3 DEF Updated
  <2>2. /\ new \in User /\ new.roles = row.roles /\ new.password = row.password
        /\ new.active = (r.op = "enable") /\ new.locked = row.locked
    BY <1>1, <2>1 DEF User
  <2> HIDE DEF new
  <2>3. new \in Row \ {Absent} /\ new # Deleted
    BY <2>2, NoneAssumption DEF Row
  <2> QED
    BY <1>3, <2>2, <2>3 DEF Revokes, Removes, Usable, new
<1>4. CASE r.op = "lock"
  <2>1. new = [row EXCEPT !.locked = TRUE]
    BY <1>4 DEF Updated
  <2>2. /\ new \in User /\ new.roles = row.roles /\ new.password = row.password
        /\ new.active = row.active
    BY <1>1, <2>1 DEF User
  <2> HIDE DEF new
  <2>3. new \in Row \ {Absent} /\ new # Deleted
    BY <2>2, NoneAssumption DEF Row
  <2> QED
    BY <1>4, <2>2, <2>3 DEF Revokes, Removes, new
<1>5. CASE r.op = "unlock"
  <2>1. new = [row EXCEPT !.locked = FALSE, !.failures = 0]
    BY <1>5 DEF Updated
  <2>2. /\ new \in User /\ new.roles = row.roles /\ new.password = row.password
        /\ new.active = row.active /\ ~new.locked
    BY <1>1, <2>1 DEF User
  <2> HIDE DEF new
  <2>3. new \in Row \ {Absent} /\ new # Deleted
    BY <2>2, NoneAssumption DEF Row
  <2> QED
    BY <1>5, <2>2, <2>3 DEF Revokes, Removes, Usable, new
<1>6. CASE r.op = "reset"
  <2>1. new = [row EXCEPT !.password = row.password + 1, !.failures = 0]
    BY <1>6 DEF Updated
  <2>2. row.password + 1 \in 1..MaxPasswords
    BY <1>1, <1>6, BoundAssumption
  <2>3. new \in User /\ new.roles = row.roles /\ new.active = row.active
    BY <1>1, <2>1, <2>2 DEF User
  <2> HIDE DEF new
  <2>4. new \in Row \ {Absent} /\ new # Deleted
    BY <2>3, NoneAssumption DEF Row
  <2> QED
    BY <1>6, <2>3, <2>4 DEF Revokes, Removes, new
<1>7. CASE r.op = "delete"
  <2>1. new = Deleted
    BY <1>7 DEF Updated
  <2> QED
    BY <1>7, <2>1, NoneAssumption DEF Row, Removes, Revokes
<1>8. CASE r.op \notin {"role", "enable", "disable", "lock", "unlock", "reset", "delete"}
  <2>1. new = row
    BY <1>8 DEF Updated
  <2>2. row \in Row \ {Absent} /\ row # Deleted
    BY NoneAssumption DEF Row
  <2> HIDE DEF new
  <2> QED
    BY <1>8, <2>1, <2>2 DEF Removes, Usable, new
<1> QED
  BY <1>2, <1>3, <1>4, <1>5, <1>6, <1>7, <1>8

\* The update works on the committed row and keeps what RequestOK asks.
LEMMA UpdateUserSound ==
  ASSUME AccountsInv, NEW c \in Clients, UpdateUser(c)
  PROVE  AccountsInv'
<1> PICK r \in Request : r = requests[c]
  BY DEF AccountsInv, TypeOK
<1> DEFINE old == users[r.target]
           new == Updated(old, r)
           phase == IF r.op # "delete" /\ Revokes(r.op) THEN "revoking" ELSE "written"
           q == [r EXCEPT !.row = new, !.phase = phase]
<1>1. /\ requests' = [requests EXCEPT ![c] = q] /\ r.phase = "writing"
      /\ old \in User /\ ~RowLocked(c, r.target)
      /\ r.op = "reset" => old.password < MaxPasswords
  BY DEF UpdateUser
<1>2. /\ new \in Row \ {Absent}
      /\ r.op = "delete" <=> new = Deleted
      /\ r.op # "delete" => new \in User
      /\ ~Removes(r) /\ old.active /\ Admin \in old.roles =>
           new.active /\ Admin \in new.roles
      /\ r.op \notin {"role", "delete"} => new.roles = old.roles
      /\ r.op = "role" /\ r.fresh => new.roles = {r.role}
      /\ r.op \notin {"reset", "delete"} => new.password = old.password
      /\ r.op \in {"enable", "unlock"} /\ Usable(old) => Usable(new)
      /\ ~Revokes(r.op) /\ r.op \notin {"enable", "unlock"} => new = old
  BY <1>1, UpdatedRow
<1> HIDE DEF new
<1>3. /\ q \in Request /\ q.target = r.target /\ q.row = new /\ q.session = r.session
      /\ q.phase = phase /\ q.admins = r.admins /\ q.op = r.op /\ q.role = r.role
      /\ q.fresh = r.fresh /\ q.ended = r.ended
  <2>1. phase \in Phases /\ new \in Row \cup {None}
    BY <1>2 DEF Phases
  <2> HIDE DEF phase
  <2> QED
    BY <2>1 DEF Request
<1>4. /\ r.session = None /\ r.target \in Users /\ RemovalOK(r)
      /\ Stored(r.target) /\ old # Deleted
  BY <1>1, NoneAssumption DEF AccountsInv, RequestsOK, RequestOK, LoginOK, TypeOK, Stored
<1>5. RowOK(q)
  BY <1>2, <1>3, <1>4 DEF RowOK
<1>6. KeepsOK(q)
  <2>1. ~Removes(q) /\ q.target \in ActiveAdmins =>
          new \in User /\ new.active /\ Admin \in new.roles
    BY <1>2, <1>3 DEF Removes, ActiveAdmins
  <2>2. new \in User => \/ Cardinality(new.roles) = 1
                        \/ r.target \in doubled
                        \/ r.op = "role" /\ ~r.fresh
    <3>1. CASE r.op = "role" /\ r.fresh
      <4>1. Cardinality({r.role}) = 1
        BY FS_Singleton
      <4> QED
        BY <1>2, <3>1, <4>1
    <3>2. CASE r.op \notin {"role", "delete"}
      BY <1>2, <1>4, <3>2 DEF AccountsInv, RolesDoubledOnlyByOverlap
    <3>3. CASE r.op = "delete"
      BY <1>2, <3>3, NoneAssumption
    <3> QED
      BY <3>1, <3>2, <3>3
  <2>3. new \in User /\ r.op # "reset" => new.password = old.password
    BY <1>2, NoneAssumption
  <2> QED
    BY <1>3, <2>1, <2>2, <2>3 DEF KeepsOK
<1>7. SessionsOK(q)
  <2> SUFFICES ASSUME new \in User, phase = "written"
               PROVE  /\ ~Usable(new) => ActiveSessions(r.target) \subseteq r.ended
                      /\ \A s \in ActiveSessions(r.target) \ r.ended :
                           sessions[s].password \in {0, new.password}
    BY <1>3 DEF SessionsOK
  <2>1. r.op # "delete" /\ ~Revokes(r.op)
    BY <1>2, NoneAssumption
  <2>2. ~Usable(new) => ActiveSessions(r.target) = {}
    BY <1>1, <1>2, <1>4, <2>1 DEF AccountsInv, UnusableHasNoSession
  <2>3. new.password = old.password
    BY <1>2, <2>1 DEF Revokes
  <2> QED
    BY <2>2, <2>3 DEF AccountsInv, OldPasswordOnlyByOverlap, ActiveSessions
<1>8. LoginOK(q) /\ RemovalOK(q)
  BY <1>1, <1>3, <1>4 DEF LoginOK, RemovalOK, Removes
<1>9. RequestOK(q)
  BY <1>5, <1>6, <1>7, <1>8 DEF RequestOK
<1> HIDE DEF q
<1> QED
  BY <1>1, <1>3, <1>4, <1>9, OwnStep DEF UpdateUser, AccountsInv, TypeOK, history

\* After the revocation no session of the user is left to outlive the commit.
LEMMA RevokeSessionsSound ==
  ASSUME AccountsInv, NEW c \in Clients, RevokeSessions(c)
  PROVE  AccountsInv'
<1> PICK r \in Request : r = requests[c]
  BY DEF AccountsInv, TypeOK
<1> DEFINE phase == IF r.op = "delete" THEN "writing" ELSE "written"
           q == [r EXCEPT !.ended = ActiveSessions(r.target), !.phase = phase]
<1>1. requests' = [requests EXCEPT ![c] = q] /\ r.phase = "revoking"
  BY DEF RevokeSessions
<1>2. /\ q \in Request /\ q.target = r.target /\ q.row = r.row /\ q.session = r.session
      /\ q.phase = phase /\ q.admins = r.admins /\ q.op = r.op /\ q.role = r.role
      /\ q.fresh = r.fresh /\ q.ended = ActiveSessions(r.target)
  <2>1. phase \in Phases /\ ActiveSessions(r.target) \in SUBSET Sessions
    BY DEF Phases, ActiveSessions
  <2> HIDE DEF phase
  <2> QED
    BY <2>1 DEF Request
<1>3. /\ RequestOK(r) /\ r.session = None /\ r.target \in Users
  BY <1>1 DEF AccountsInv, RequestsOK, RequestOK, LoginOK, TypeOK
<1> HIDE DEF q
<1>4. r.op = "delete" => r.row = None
  BY <1>1, <1>3 DEF RequestOK, RowOK
<1>5. RequestOK(q)
  <2>1. RowOK(q) /\ LoginOK(q) /\ RemovalOK(q)
    BY <1>1, <1>2, <1>3, <1>4 DEF RequestOK, RowOK, LoginOK, RemovalOK, Removes
  <2>2. KeepsOK(q)
    BY <1>1, <1>2, <1>3 DEF RequestOK, KeepsOK, Removes
  <2>3. SessionsOK(q)
    BY <1>2 DEF SessionsOK
  <2> QED
    BY <2>1, <2>2, <2>3 DEF RequestOK
<1>6. q.row # None => ~RowLocked(c, q.target)
  BY <1>2 DEF AccountsInv, RequestsOK, Exclusive, RowLocked
<1> QED
  BY <1>1, <1>2, <1>3, <1>5, <1>6, OwnStep DEF RevokeSessions, AccountsInv, TypeOK, history

-----------------------------------------------------------------------------
(* The end of a request, and time *)

LEMMA RollBackSound ==
  ASSUME AccountsInv, NEW c \in Clients, RollBack(c)
  PROVE  AccountsInv'
BY EndStep DEF RollBack, AccountsInv, TypeOK, history

LEMMA ExpireSound ==
  ASSUME AccountsInv, NEW s \in Sessions, Expire(s)
  PROVE  AccountsInv'
<1> USE DEF AccountsInv
<1>1. \A t \in Sessions : /\ sessions'[t].owner = sessions[t].owner
                          /\ sessions'[t].password = sessions[t].password
                          /\ sessions'[t].status = IF t = s THEN "ended" ELSE sessions[t].status
  BY DEF TypeOK, Expire, Session
<1>2. sessions' \in [Sessions -> Session]
  BY DEF TypeOK, Expire, Session
<1>3. TypeOK'
  BY <1>1, <1>2 DEF TypeOK, Expire, history
<1>4. \A u : ActiveSessions(u)' \subseteq ActiveSessions(u)
  BY <1>1 DEF ActiveSessions
<1>5. ASSUME NEW d \in Clients
      PROVE  RequestOK(requests[d])'
  <2>1. RequestOK(requests[d]) /\ UNCHANGED <<requests, users, doubled>>
    BY DEF RequestsOK, Expire, history
  <2>2. SessionsOK(requests[d])'
    BY <1>1, <1>4, <2>1 DEF RequestOK, SessionsOK, ActiveSessions, Usable
  <2> QED
    BY <2>1, <2>2 DEF RequestOK, RowOK, KeepsOK, LoginOK, RemovalOK, Removes,
       ActiveAdmins, Stored, Usable
<1>6. Exclusive'
  BY DEF RequestsOK, Exclusive, Expire
<1>7. UnusableHasNoSession'
  BY <1>4 DEF UnusableHasNoSession, Expire, Usable
<1>8. OldPasswordOnlyByOverlap'
  BY <1>1 DEF OldPasswordOnlyByOverlap, Expire
<1>9. AdminLostOnlyByOverlap' /\ RolesDoubledOnlyByOverlap'
  BY DEF AdminLostOnlyByOverlap, RolesDoubledOnlyByOverlap, ActiveAdmins, Stored,
     Expire, history
<1> QED
  BY <1>3, <1>5, <1>6, <1>7, <1>8, <1>9 DEF RequestsOK

\* What a commit leaves active: sessions that were and that it has not ended,
\* and the one of its login.
LEMMA CommittedSessions ==
  ASSUME AccountsInv, NEW c \in Clients, Commit(c), NEW r \in Request, r = requests[c]
  PROVE  /\ sessions' \in [Sessions -> Session]
         /\ \A s \in Sessions : sessions'[s].status # "none" => sessions'[s].owner \in Users
         /\ \A u \in Users : \A s \in ActiveSessions(u)' :
              /\ s \in Sessions /\ s \notin r.ended
              /\ r.row = Deleted => u # r.target
              /\ \/ s \in ActiveSessions(u) /\ sessions'[s] = sessions[s]
                 \/ /\ s = r.session /\ u = r.target
                    /\ sessions'[s].password \in {0, r.row.password}
<1>1. sessions' = [s \in Sessions |-> CommittedSession(r, s)]
  BY DEF Commit
<1>2. /\ r.target \in Users /\ r.password \in 0..MaxPasswords
      /\ r.session # None =>
           r.row \in User /\ (r.crossed \/ r.row.password = r.password)
  BY DEF Commit, AccountsInv, TypeOK, RequestsOK, RequestOK, LoginOK, Request
<1>3. r.session # None => r.row # Deleted
  BY <1>2, NoneAssumption
<1> DEFINE Ends(s) == s \in r.ended \/ (r.row = Deleted /\ sessions[s].owner = r.target)
           opened == [owner |-> r.target, status |-> "active",
                      password |-> IF r.crossed THEN 0 ELSE r.password]
           ended(s) == [sessions[s] EXCEPT !.status =
                          IF sessions[s].status = "none" THEN "none" ELSE "ended"]
<1>4. opened \in Session
  BY <1>2, BoundAssumption DEF Session
<1>5. \A s \in Sessions : /\ ended(s) \in Session /\ ended(s).owner = sessions[s].owner
                          /\ ended(s).status # "active"
                          /\ ended(s).status # "none" => sessions[s].status # "none"
  BY DEF AccountsInv, TypeOK, Session
<1>6. \A s \in Sessions : sessions'[s] = IF Ends(s) THEN ended(s)
                                         ELSE IF s = r.session THEN opened
                                         ELSE sessions[s]
  BY <1>1 DEF CommittedSession
<1>7. /\ opened.owner = r.target /\ opened.status = "active"
      /\ opened.password = IF r.crossed THEN 0 ELSE r.password
  OBVIOUS
<1> HIDE DEF Ends, opened, ended
<1>8. \A s \in Sessions : sessions'[s] \in Session
  BY <1>4, <1>5, <1>6 DEF AccountsInv, TypeOK
<1>9. \A s \in Sessions : sessions'[s].status # "none" => sessions'[s].owner \in Users
  BY <1>2, <1>5, <1>6, <1>7 DEF AccountsInv, TypeOK
<1>10. ASSUME NEW u \in Users, NEW s \in ActiveSessions(u)'
       PROVE  /\ s \in Sessions /\ s \notin r.ended
              /\ r.row = Deleted => u # r.target
              /\ \/ s \in ActiveSessions(u) /\ sessions'[s] = sessions[s]
                 \/ /\ s = r.session /\ u = r.target
                    /\ sessions'[s].password \in {0, r.row.password}
  <2>1. s \in Sessions /\ sessions'[s].status = "active" /\ sessions'[s].owner = u
    BY DEF ActiveSessions
  <2>2. ~Ends(s)
    BY <1>5, <1>6, <2>1
  <2>3. CASE s = r.session
    <3>1. sessions'[s] = opened /\ r.session # None
      BY <1>6, <2>1, <2>2, <2>3, NoneAssumption
    <3> QED
      BY <1>2, <1>3, <1>7, <2>1, <2>2, <2>3, <3>1 DEF Ends
  <2>4. CASE s # r.session
    <3>1. sessions'[s] = sessions[s]
      BY <1>6, <2>1, <2>2, <2>4
    <3> QED
      BY <2>1, <2>2, <3>1 DEF Ends, ActiveSessions
  <2> QED
    BY <2>3, <2>4
<1>11. sessions' \in [Sessions -> Session]
  BY <1>1, <1>8
<1> QED
  BY <1>9, <1>10, <1>11

\* A request that another's commit has overtaken differs in two flags only.
LEMMA OvertakenRequest ==
  ASSUME NEW r \in Request, NEW d \in Request
  PROVE  /\ Overtaken(r, d) \in Request
         /\ Overtaken(r, d).phase = d.phase /\ Overtaken(r, d).op = d.op
         /\ Overtaken(r, d).target = d.target /\ Overtaken(r, d).role = d.role
         /\ Overtaken(r, d).admins = d.admins /\ Overtaken(r, d).row = d.row
         /\ Overtaken(r, d).password = d.password
         /\ Overtaken(r, d).ended = d.ended /\ Overtaken(r, d).session = d.session
         /\ d.fresh /\ d.phase # "writing" => Overtaken(r, d).fresh
         /\ ~d.fresh => ~Overtaken(r, d).fresh
         /\ d.crossed => Overtaken(r, d).crossed
         /\ d.target = r.target /\ r.op = "reset" /\ d.phase = "verified" =>
              Overtaken(r, d).crossed
<1>1. CASE d.target # r.target
  BY <1>1 DEF Overtaken
<1>2. CASE d.target = r.target
  <2> DEFINE fresh == d.fresh /\ ~(r.op = "role" /\ d.op = "role" /\ d.phase = "writing")
             crossed == d.crossed \/ (r.op = "reset" /\ d.phase = "verified")
  <2>1. Overtaken(r, d) = [d EXCEPT !.fresh = fresh, !.crossed = crossed]
    BY <1>2 DEF Overtaken
  <2>2. d.fresh \in BOOLEAN /\ d.crossed \in BOOLEAN
    BY DEF Request
  <2>3. fresh \in BOOLEAN /\ crossed \in BOOLEAN
    BY <2>2
  <2>4. /\ d.fresh /\ d.phase # "writing" => fresh
        /\ ~d.fresh => ~fresh
        /\ d.crossed => crossed
        /\ r.op = "reset" /\ d.phase = "verified" => crossed
    OBVIOUS
  <2> HIDE DEF fresh, crossed
  <2>5. Overtaken(r, d).fresh = fresh /\ Overtaken(r, d).crossed = crossed
    BY <2>1 DEF Request
  <2>6. /\ Overtaken(r, d) \in Request
        /\ Overtaken(r, d).phase = d.phase /\ Overtaken(r, d).op = d.op
        /\ Overtaken(r, d).target = d.target /\ Overtaken(r, d).role = d.role
        /\ Overtaken(r, d).admins = d.admins /\ Overtaken(r, d).row = d.row
        /\ Overtaken(r, d).password = d.password
        /\ Overtaken(r, d).ended = d.ended /\ Overtaken(r, d).session = d.session
    BY <2>1, <2>3 DEF Request
  <2> QED
    BY <2>4, <2>5, <2>6
<1> QED
  BY <1>1, <1>2

\* The commit of one request keeps the invariant: nobody else has written the
\* user's row, and what others have read or written is still as it should be.
LEMMA CommitSound ==
  ASSUME AccountsInv, NEW c \in Clients, Commit(c)
  PROVE  AccountsInv'
<1> PICK r \in Request : r = requests[c]
  BY DEF AccountsInv, TypeOK
<1> USE DEF AccountsInv
<1> DEFINE t == r.target
           new == IF r.row = None THEN users[t] ELSE r.row
<1>1. /\ r.phase = "written" /\ t \in Users
      /\ RowOK(r) /\ KeepsOK(r) /\ SessionsOK(r) /\ LoginOK(r) /\ RemovalOK(r)
  BY DEF Commit, TypeOK, RequestsOK, RequestOK
<1>2. new \in Row
  BY <1>1 DEF TypeOK, Request
<1>3. users' = [users EXCEPT ![t] = new]
  BY DEF Commit
<1>4. \A u \in Users : users'[u] = IF u = t THEN new ELSE users[u]
  BY <1>3 DEF TypeOK
<1>5. /\ sessions' \in [Sessions -> Session]
      /\ \A s \in Sessions : sessions'[s].status # "none" => sessions'[s].owner \in Users
      /\ \A u \in Users : \A s \in ActiveSessions(u)' :
           /\ s \in Sessions /\ s \notin r.ended
           /\ r.row = Deleted => u # t
           /\ \/ s \in ActiveSessions(u) /\ sessions'[s] = sessions[s]
              \/ /\ s = r.session /\ u = t
                 /\ sessions'[s].password \in {0, r.row.password}
  BY CommittedSessions
<1>6. \A d \in Clients : requests'[d] = IF d = c THEN Idle ELSE Overtaken(r, requests[d])
  BY DEF Commit
<1>7. requests' = [d \in Clients |-> IF d = c THEN Idle ELSE Overtaken(r, requests[d])]
  BY DEF Commit
<1>8. \A d \in Clients : requests[d] \in Request
  BY DEF TypeOK
<1>9. TypeOK'
  <2>1. requests' \in [Clients -> Request]
    BY <1>7, <1>8, IdleIsRequest, OvertakenRequest
  <2>2. \A d \in Clients : requests'[d].phase # "idle" => requests'[d].target \in Users
    <3> TAKE d \in Clients
    <3>1. CASE d = c
      BY <1>6, <3>1 DEF Idle
    <3>2. CASE d # c
      BY <1>6, <1>8, <3>2, OvertakenRequest DEF TypeOK
    <3> QED
      BY <3>1, <3>2
  <2>3. users' \in [Users -> Row]
    BY <1>2, <1>3 DEF TypeOK
  <2>4. failed' \in [Users -> 0..MaxFailures]
    BY BoundAssumption DEF Commit, TypeOK
  <2>5. raced' \in BOOLEAN /\ doubled' \subseteq Users /\ started' = started
    BY <1>1 DEF Commit, TypeOK
  <2> QED
    BY <1>5, <2>1, <2>2, <2>3, <2>4, <2>5 DEF TypeOK
<1> HIDE DEF new
<1>10. doubled \subseteq doubled' /\ (r.op = "role" /\ ~r.fresh => t \in doubled')
  BY DEF Commit
<1>11. ASSUME NEW d \in Clients, d # c
       PROVE  RequestOK(requests[d])'
  <2> PICK e \in Request : e = requests[d]
    BY <1>8
  <2> PICK f \in Request : f = Overtaken(r, e)
    BY OvertakenRequest
  <2>1. requests'[d] = f
    BY <1>6, <1>11
  <2>2. /\ f.phase = e.phase /\ f.op = e.op /\ f.target = e.target /\ f.role = e.role
        /\ f.admins = e.admins /\ f.row = e.row /\ f.password = e.password
        /\ f.ended = e.ended /\ f.session = e.session
        /\ e.fresh /\ e.phase # "writing" => f.fresh
        /\ ~e.fresh => ~f.fresh
        /\ e.crossed => f.crossed
        /\ e.target = t /\ r.op = "reset" /\ e.phase = "verified" => f.crossed
    BY OvertakenRequest
  <2>3. RowOK(e) /\ KeepsOK(e) /\ SessionsOK(e) /\ LoginOK(e) /\ RemovalOK(e)
    BY DEF RequestsOK, RequestOK
  <2>4. e.row # None => e.target \in Users /\ (r.row # None => e.target # t)
    BY <1>11, <2>3 DEF RequestsOK, Exclusive, RowOK
  <2>5. e.row # None => users'[e.target] = users[e.target]
    BY <1>4, <2>4 DEF new
  <2>6. RowOK(f)'
    BY <2>2, <2>3, <2>5 DEF RowOK
  <2>7. KeepsOK(f)'
    <3>1. e.row # None => Stored(e.target)' = Stored(e.target)
      BY <2>5 DEF Stored
    <3>2. e.row # None /\ e.target \in ActiveAdmins' => e.target \in ActiveAdmins
      BY <2>5, <3>1 DEF ActiveAdmins
    <3> QED
      BY <1>10, <2>2, <2>3, <2>5, <3>1, <3>2 DEF KeepsOK, Removes
  <2>8. SessionsOK(f)'
    <3> SUFFICES ASSUME e.row \in User, e.phase = "written"
                 PROVE  /\ ~Usable(e.row) => ActiveSessions(e.target)' \subseteq e.ended
                        /\ \A s \in ActiveSessions(e.target)' \ e.ended :
                             sessions'[s].password \in {0, e.row.password}
      BY <2>2 DEF SessionsOK, Usable
    <3>1. e.target \in Users /\ e.row # None /\ (r.row # None => e.target # t)
      BY <2>4, NoneAssumption
    <3>2. r.session # None => r.row # None
      BY <1>1, NoneAssumption DEF LoginOK
    <3>3. \A s \in ActiveSessions(e.target)' :
            s \in ActiveSessions(e.target) /\ sessions'[s] = sessions[s]
      BY <1>5, <3>1, <3>2, NoneAssumption
    <3> QED
      BY <2>3, <3>3 DEF SessionsOK
  <2>9. LoginOK(f)'
    <3>1. f.session # None => /\ f.phase = "written" /\ f.row \in User /\ Usable(f.row)
                              /\ f.crossed \/ f.row.password = f.password
      BY <2>2, <2>3 DEF LoginOK
    <3>2. ASSUME f.phase = "verified"
          PROVE  /\ f.op = "login" /\ f.target \in Users /\ users'[f.target] # Absent
                 /\ ~f.crossed /\ Stored(f.target)' =>
                      users'[f.target].password = f.password
      <4>1. CASE f.target # t \/ r.row = None
        <5>1. users'[f.target] = users[f.target]
          BY <1>4, <2>2, <2>3, <3>2, <4>1 DEF LoginOK, new
        <5> QED
          BY <2>2, <2>3, <3>2, <5>1 DEF LoginOK, Stored
      <4>2. CASE f.target = t /\ r.row # None
        <5>1. users'[t] = r.row /\ r.row # Absent /\ users[t] # Deleted /\ users[t] # Absent
          BY <1>1, <1>4, <2>2, <2>3, <3>2, <4>2 DEF RowOK, LoginOK, new
        <5>2. Stored(t)
          BY <1>1, <5>1 DEF TypeOK, Stored, Row
        <5>3. Stored(t)' => r.op = "reset" \/ r.row.password = users[t].password
          BY <1>1, <4>2, <5>1, <5>2 DEF KeepsOK, Stored
        <5> QED
          BY <2>2, <2>3, <3>2, <4>2, <5>1, <5>2, <5>3 DEF LoginOK
      <4> QED
        BY <4>1, <4>2
    <3> QED
      BY <3>1, <3>2 DEF LoginOK, Stored, Usable
  <2>10. RemovalOK(f)'
    BY <2>2, <2>3 DEF RemovalOK, Removes
  <2>11. RequestOK(f)'
    BY <2>6, <2>7, <2>8, <2>9, <2>10 DEF RequestOK
  <2> QED
    BY <2>1, <2>11 DEF RequestOK, RowOK, KeepsOK, SessionsOK, LoginOK, RemovalOK, Removes,
       ActiveAdmins, ActiveSessions, Stored, Usable

<1>12. RequestOK(requests[c])'
  <2>1. requests'[c] = Idle
    BY <1>6
  <2>2. Idle.row = None /\ Idle.session = None /\ Idle.phase = "idle"
    BY DEF Idle
  <2> QED
    BY <2>1, <2>2, NoneAssumption DEF RequestOK, RowOK, KeepsOK, SessionsOK, LoginOK,
       RemovalOK, User
<1>13. Exclusive'
  <2>1. \A d \in Clients : requests'[d].row # None =>
          /\ requests'[d].row = requests[d].row /\ requests'[d].target = requests[d].target
    <3> TAKE d \in Clients
    <3>1. CASE d = c
      BY <1>6, <3>1 DEF Idle
    <3>2. CASE d # c
      BY <1>6, <1>8, <3>2, OvertakenRequest
    <3> QED
      BY <3>1, <3>2
  <2> QED
    BY <2>1 DEF RequestsOK, Exclusive
<1>14. UnusableHasNoSession'
  <2> SUFFICES ASSUME NEW u \in Users, ~Usable(users'[u]), NEW s \in ActiveSessions(u)'
               PROVE  FALSE
    BY DEF UnusableHasNoSession, Usable
  <2>1. CASE u = t /\ r.row # None
    <3>1. users'[t] = r.row /\ r.row # Absent
      BY <1>1, <1>4, <2>1 DEF RowOK, new
    <3>2. r.row \in User
      BY <1>5, <2>1, <3>1 DEF TypeOK, Request, Row
    <3>3. ActiveSessions(t) \subseteq r.ended /\ r.session = None
      BY <1>1, <2>1, <3>1, <3>2 DEF SessionsOK, LoginOK
    <3> QED
      BY <1>5, <2>1, <3>3, NoneAssumption
  <2>2. CASE u # t \/ r.row = None
    <3>1. users'[u] = users[u]
      BY <1>4, <2>2 DEF new
    <3>2. ActiveSessions(u) = {}
      BY <3>1 DEF UnusableHasNoSession
    <3>3. s = r.session /\ u = t /\ s \in Sessions
      BY <1>5, <3>2
    <3>4. r.row \in User
      BY <1>1, <3>3, NoneAssumption DEF LoginOK
    <3> QED
      BY <2>2, <3>3, <3>4, NoneAssumption
  <2> QED
    BY <2>1, <2>2
<1>15. AdminLostOnlyByOverlap'
  <2> SUFFICES ASSUME ActiveAdmins' = {} PROVE raced'
    BY DEF AdminLostOnlyByOverlap
  <2>1. raced' = (raced \/ (t \in ActiveAdmins \ ActiveAdmins' /\ r.admins # ActiveAdmins))
    BY DEF Commit
  <2>2. \A u \in Users \ {t} : u \in ActiveAdmins => u \in ActiveAdmins'
    BY <1>4 DEF ActiveAdmins, Stored
  <2>3. CASE t \notin ActiveAdmins
    <3>1. ActiveAdmins = {}
      BY <2>2, <2>3 DEF ActiveAdmins
    <3> QED
      BY <2>1, <3>1 DEF AdminLostOnlyByOverlap
  <2>4. CASE t \in ActiveAdmins
    <3>1. ActiveAdmins = {t}
      BY <2>2, <2>4 DEF ActiveAdmins
    <3>2. r.row # None
      BY <1>4, <2>4 DEF ActiveAdmins, Stored, new
    <3>3. Removes(r)
      BY <1>1, <1>4, <2>4, <3>2 DEF KeepsOK, ActiveAdmins, Stored, new
    <3> QED
      BY <1>1, <2>1, <2>4, <3>1, <3>3 DEF RemovalOK
  <2> QED
    BY <2>3, <2>4
<1>16. RolesDoubledOnlyByOverlap'
  <2> SUFFICES ASSUME NEW u \in Users, u \notin doubled', users'[u] \in User
               PROVE  Cardinality(users'[u].roles) = 1
    BY DEF RolesDoubledOnlyByOverlap, Stored
  <2>1. CASE u = t /\ r.row # None
    BY <1>1, <1>4, <1>10, <2>1 DEF KeepsOK, new
  <2>2. CASE u # t \/ r.row = None
    BY <1>4, <1>10, <2>2 DEF RolesDoubledOnlyByOverlap, Stored, new
  <2> QED
    BY <2>1, <2>2
<1>17. OldPasswordOnlyByOverlap'
  <2> SUFFICES ASSUME NEW s \in Sessions, sessions'[s].status = "active"
               PROVE  sessions'[s].password \in {0, users'[sessions'[s].owner].password}
    BY DEF OldPasswordOnlyByOverlap
  <2> PICK u \in Users : u = sessions'[s].owner
    BY <1>5
  <2>1. u \in Users /\ s \in ActiveSessions(u)'
    BY DEF ActiveSessions
  <2>2. Usable(users'[u])
    BY <1>14, <2>1 DEF UnusableHasNoSession, Usable
  <2>3. CASE s \in ActiveSessions(u) /\ sessions'[s] = sessions[s]
    <3>1. sessions[s].password \in {0, users[u].password}
      BY <2>3 DEF OldPasswordOnlyByOverlap, ActiveSessions
    <3>2. CASE u = t /\ r.row # None
      <4>1. users'[t] = r.row /\ r.row \in User
        BY <1>4, <2>2, <3>2 DEF new, Usable
      <4>2. s \notin r.ended
        BY <1>5, <2>1
      <4> QED
        BY <1>1, <2>3, <3>2, <4>1, <4>2 DEF SessionsOK
    <3>3. CASE u # t \/ r.row = None
      BY <1>4, <2>1, <2>3, <3>1, <3>3 DEF new
    <3> QED
      BY <3>2, <3>3
  <2>4. CASE s = r.session /\ u = t /\ sessions'[s].password \in {0, r.row.password}
    <3>1. r.row \in User
      BY <1>1, <2>4, NoneAssumption DEF LoginOK
    <3>2. users'[t] = r.row
      BY <1>1, <1>4, <3>1, NoneAssumption DEF new
    <3> QED
      BY <2>4, <3>2
  <2> QED
    BY <1>5, <2>1, <2>3, <2>4
<1>18. \A d \in Clients : RequestOK(requests[d])'
  <2> TAKE d \in Clients
  <2>1. CASE d = c
    BY <1>12, <2>1
  <2> QED
    BY <1>11, <2>1
<1> QED
  BY <1>9, <1>13, <1>14, <1>15, <1>16, <1>17, <1>18 DEF RequestsOK

-----------------------------------------------------------------------------
(* The theorems *)

\* A new installation satisfies the invariant.
LEMMA InitIsSound == Init => AccountsInv
<1> SUFFICES ASSUME Init PROVE AccountsInv
  OBVIOUS
<1>1. \A u \in Users : users[u] = Absent \/ users[u] = NewUser(Admin, TRUE)
  BY DEF Init
<1>2. NewUser(Admin, TRUE) \in User /\ NewUser(Admin, TRUE).roles = {Admin}
  BY SeededAssumption, BoundAssumption DEF NewUser, User
<1>3. \A u \in Users : users[u] \in Row
  BY <1>1, <1>2 DEF Row
<1>4. TypeOK
  <2>1. users \in [Users -> Row] /\ requests \in [Clients -> Request]
    BY <1>3, IdleIsRequest DEF Init
  <2>2. sessions \in [Sessions -> Session]
    BY BoundAssumption DEF Init, Session
  <2>3. /\ \A s \in Sessions : sessions[s].status = "none"
        /\ \A c \in Clients : requests[c].phase = "idle"
    BY DEF Init, Idle
  <2>4. /\ failed \in [Users -> 0..MaxFailures] /\ started \in 0..MaxRequests
        /\ raced \in BOOLEAN /\ doubled \subseteq Users
    <3>1. 0 \in 0..MaxFailures /\ 0 \in 0..MaxRequests
      BY BoundAssumption
    <3> QED
      BY <3>1 DEF Init
  <2> QED
    BY <2>1, <2>2, <2>3, <2>4 DEF TypeOK
<1>5. RequestsOK
  BY IdleIsRequest DEF Init, RequestsOK, Exclusive, Idle
<1>6. UnusableHasNoSession /\ OldPasswordOnlyByOverlap
  BY DEF Init, UnusableHasNoSession, OldPasswordOnlyByOverlap, ActiveSessions
<1>7. AdminLostOnlyByOverlap
  <2>1. PICK u \in Users : u \in Seeded
    BY SeededAssumption
  <2>2. users[u] = NewUser(Admin, TRUE)
    BY <2>1 DEF Init
  <2>3. u \in ActiveAdmins
    BY <1>2, <2>2 DEF ActiveAdmins, Stored, NewUser
  <2> QED
    BY <2>3 DEF AdminLostOnlyByOverlap
<1>8. RolesDoubledOnlyByOverlap
  <2>1. Cardinality({Admin}) = 1
    BY FS_Singleton
  <2> QED
    BY <1>1, <1>2, <2>1, NoneAssumption DEF RolesDoubledOnlyByOverlap, Stored
<1> QED
  BY <1>4, <1>5, <1>6, <1>7, <1>8 DEF AccountsInv

\* Every step keeps the invariant.
LEMMA StepIsSound == AccountsInv /\ [Next]_vars => AccountsInv'
<1> SUFFICES ASSUME AccountsInv, [Next]_vars PROVE AccountsInv'
  OBVIOUS
<1>1. ASSUME NEW c \in Clients, NEW u \in Users, NEW matches \in BOOLEAN,
             Login(c, u, matches)
      PROVE  AccountsInv'
  BY <1>1, LoginSound
<1>2. ASSUME NEW c \in Clients, NEW s \in Sessions,
             RecordSuccessfulLogin(c, s) \/ Logout(c, s) \/ RevokeOwnSessions(c, s)
      PROVE  AccountsInv'
  BY <1>2, RecordSuccessfulLoginSound, LogoutSound, RevokeOwnSessionsSound
<1>3. ASSUME NEW c \in Clients,
             \/ RecordFailedLogin(c) \/ RejectLogin(c) \/ CountAdmins(c)
             \/ BeginReplace(c) \/ UpdateUser(c) \/ RevokeSessions(c)
      PROVE  AccountsInv'
  BY <1>3, RecordFailedLoginSound, RejectLoginSound, CountAdminsSound,
     BeginReplaceSound, UpdateUserSound, RevokeSessionsSound
<1>4. ASSUME NEW c \in Clients, NEW s \in Sessions, NEW u \in Users, NEW role \in Roles,
             NEW active \in BOOLEAN, CreateUser(c, s, u, role, active)
      PROVE  AccountsInv'
  BY <1>4, CreateUserSound
<1>5. ASSUME NEW c \in Clients, NEW s \in Sessions, NEW op \in Operations,
             NEW u \in Users, NEW role \in Roles, Manage(c, s, op, u, role)
      PROVE  AccountsInv'
  BY <1>5, ManageSound
<1>6. ASSUME NEW c \in Clients, Commit(c) \/ RollBack(c)
      PROVE  AccountsInv'
  BY <1>6, CommitSound, RollBackSound
<1>7. ASSUME NEW s \in Sessions, Expire(s)
      PROVE  AccountsInv'
  BY <1>7, ExpireSound
<1>8. CASE UNCHANGED vars
  BY <1>8 DEF vars, history, AccountsInv, TypeOK, RequestsOK, Exclusive, RequestOK, RowOK,
     KeepsOK, SessionsOK, LoginOK, RemovalOK, Removes, UnusableHasNoSession,
     AdminLostOnlyByOverlap, RolesDoubledOnlyByOverlap, OldPasswordOnlyByOverlap,
     ActiveAdmins, ActiveSessions, Stored, Usable
<1> QED
  BY <1>1, <1>2, <1>3, <1>4, <1>5, <1>6, <1>7, <1>8 DEF Next, Refuse

THEOREM AccountsInvariant == Spec => []AccountsInv
BY InitIsSound, StepIsSound, PTL DEF Spec

\* Rows, sessions and running requests keep their types.
THEOREM TypeCorrect == Spec => []TypeOK
<1>1. AccountsInv => TypeOK
  BY DEF AccountsInv
<1> QED
  BY <1>1, AccountsInvariant, PTL

\* No order of logins, administration, commits and roll-backs leaves a user
\* who is disabled, locked or deleted with an active session.
THEOREM SessionsEndWithTheAccount == Spec => []UnusableHasNoSession
<1>1. AccountsInv => UnusableHasNoSession
  BY DEF AccountsInv
<1> QED
  BY <1>1, AccountsInvariant, PTL

\* The protection of the last administrator fails only through a stale count.
THEOREM AdminProtected == Spec => []AdminLostOnlyByOverlap
<1>1. AccountsInv => AdminLostOnlyByOverlap
  BY DEF AccountsInv
<1> QED
  BY <1>1, AccountsInvariant, PTL

\* Users have one role unless two requests replaced it at once.
THEOREM OneRole == Spec => []RolesDoubledOnlyByOverlap
<1>1. AccountsInv => RolesDoubledOnlyByOverlap
  BY DEF AccountsInv
<1> QED
  BY <1>1, AccountsInvariant, PTL

\* A reset password ends every session but those of logins it overtook.
THEOREM PasswordResetEndsSessions == Spec => []OldPasswordOnlyByOverlap
<1>1. AccountsInv => OldPasswordOnlyByOverlap
  BY DEF AccountsInv
<1> QED
  BY <1>1, AccountsInvariant, PTL

=============================================================================
