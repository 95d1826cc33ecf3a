------------------------------ MODULE Accounts ------------------------------
(***************************************************************************)
(* Accounts: logins, sessions and the administration of users.             *)
(*                                                                         *)
(* A request is one PostgreSQL transaction at READ COMMITTED, committed    *)
(* when its handler returns and rolled back when it raises, an HTTP error  *)
(* included.  It reads rows, decides, and then updates: an update waits    *)
(* for the lock of its user row and works on the row as committed by then, *)
(* not as the request has read it.  A read, a count of administrators, an  *)
(* update, a revocation and the commit are the steps others run between.   *)
(*                                                                         *)
(* Left out: names and profiles, which are data (update_profile writes     *)
(* nothing else), the force-password-change flag, which no code reads to   *)
(* decide anything but which ends sessions, locks of session rows, whose   *)
(* updates only end sessions, and the audit log.                           *)
(***************************************************************************)
EXTENDS Naturals, FiniteSets

CONSTANTS
  Users,          \* pool of user identifiers (uuid4)
  Seeded,         \* administrators the installation starts with
  Sessions,       \* pool of session identifiers (uuid4)
  Clients,        \* requests that can run at the same time
  Roles, Admin,   \* role names, and ADMIN
  Absent,         \* there is no such user yet
  Deleted,        \* the user has been deleted
  None,           \* no row, session or user
  MaxFailures,    \* max_failed_login_attempts
  MaxPasswords,   \* bound: passwords a user ever has
  MaxRequests     \* bound: requests ever started

User == [active: BOOLEAN, locked: BOOLEAN, failures: 0..MaxFailures,
         roles: (SUBSET Roles) \ {{}}, password: 1..MaxPasswords]

Row == User \cup {Absent, Deleted}

Session == [owner: Users \cup {None}, status: {"none", "active", "ended"},
            password: 0..MaxPasswords]  \* history: see CommittedSession

ASSUME NoneAssumption ==
  /\ Absent \notin User /\ Deleted \notin User /\ None \notin User
  /\ None \notin Users \cup Sessions \cup {Absent, Deleted}
  /\ Absent # Deleted
ASSUME SeededAssumption ==
  Seeded \subseteq Users /\ Seeded # {} /\ Admin \in Roles
ASSUME BoundAssumption ==
  MaxFailures \in Nat \ {0} /\ MaxPasswords \in Nat \ {0} /\ MaxRequests \in Nat

VARIABLES
  users,        \* committed rows of siem_users with those of siem_user_roles
  sessions,     \* committed rows of siem_sessions
  requests,     \* what each running request has read and written
  started,      \* requests started so far
  failed,       \* history: logins of a user refused in a row for the password
  raced,        \* history: an administrator was removed by a request that
                \*   had last read other administrators
  doubled       \* history: users whose role two requests changed at once

history == <<failed, raced, doubled>>
vars == <<users, sessions, requests, started, history>>

Operations == {"login", "logout", "revoke", "force", "create", "role", "enable",
               "disable", "lock", "unlock", "reset", "delete"}

Phases == {"idle", "verified", "failing", "rejected", "counting", "writing",
           "replacing", "revoking", "written"}

Request ==
  [phase: Phases, op: Operations, target: Users \cup {None}, role: Roles,
   admins: SUBSET Users,      \* active administrators when it last read them
   password: 0..MaxPasswords, \* what the login has verified
   fresh: BOOLEAN,            \* the DELETE of roles still sees the stored ones
   crossed: BOOLEAN,          \* a reset was committed since the verification
   row: Row \cup {None},      \* uncommitted row of the target
   ended: SUBSET Sessions,    \* uncommitted revocations
   session: Sessions \cup {None}]

Idle == [phase |-> "idle", op |-> "login", target |-> None, role |-> Admin,
         admins |-> {}, password |-> 0, fresh |-> TRUE, crossed |-> FALSE,
         row |-> None, ended |-> {}, session |-> None]

\* Rows and requests have their types, stored users have a role, and a
\* session that has ever been active belongs to a user.
TypeOK ==
  /\ users \in [Users -> Row]
  /\ sessions \in [Sessions -> Session]
  /\ \A s \in Sessions : sessions[s].status # "none" => sessions[s].owner \in Users
  /\ requests \in [Clients -> Request]
  /\ \A c \in Clients : requests[c].phase # "idle" => requests[c].target \in Users
  /\ started \in 0..MaxRequests
  /\ failed \in [Users -> 0..MaxFailures]
  /\ raced \in BOOLEAN
  /\ doubled \subseteq Users

NewUser(role, active) ==
  [active |-> active, locked |-> FALSE, failures |-> 0, roles |-> {role},
   password |-> 1]

Init ==
  /\ users = [u \in Users |-> IF u \in Seeded THEN NewUser(Admin, TRUE) ELSE Absent]
  /\ sessions = [s \in Sessions |-> [owner |-> None, status |-> "none", password |-> 0]]
  /\ requests = [c \in Clients |-> Idle]
  /\ started = 0
  /\ failed = [u \in Users |-> 0]
  /\ raced = FALSE
  /\ doubled = {}

-----------------------------------------------------------------------------
(* Rows *)

Stored(u) == users[u] \in User

\* Active and not locked: may log in, and may use its sessions.
Usable(row) == row \in User /\ row.active /\ ~row.locked

ActiveAdmins == {u \in Users : Stored(u) /\ users[u].active /\ Admin \in users[u].roles}

ActiveSessions(u) ==
  {s \in Sessions : sessions[s].status = "active" /\ sessions[s].owner = u}

\* Another transaction has written the row of the user: an update waits.
RowLocked(c, u) == \E d \in Clients \ {c} : requests[d].target = u /\ requests[d].row # None

\* The operations that revoke the sessions of their user after the update.
\* Mutant: a reset password ends no session.
RevokesButReset(op) == op \in {"revoke", "force", "role", "disable", "lock", "delete"}

Revokes(op) == op \in {"revoke", "force", "role", "disable", "lock", "reset", "delete"}

\* Mutant: the role is added to those the user has.
AddedRole(row, r) == [row EXCEPT !.roles = @ \cup {r.role}]

\* Mutant: the roles are deleted, the new one is not stored.
DroppedRole(row, r) == [row EXCEPT !.roles = IF r.fresh THEN {} ELSE @]

\* set_role: a DELETE that began before the roles it sees were replaced by
\* another transaction removes none of the new ones.
RoleSet(row, r) == [row EXCEPT !.roles = IF r.fresh THEN {r.role} ELSE @ \cup {r.role}]

\* What the update of the operation makes of the committed row.
Updated(row, r) ==
  CASE r.op = "role" -> RoleSet(row, r)
    [] r.op = "enable" -> [row EXCEPT !.active = TRUE]
    [] r.op = "disable" -> [row EXCEPT !.active = FALSE]
    [] r.op = "lock" -> [row EXCEPT !.locked = TRUE]
    [] r.op = "unlock" -> [row EXCEPT !.locked = FALSE, !.failures = 0]
    [] r.op = "reset" -> [row EXCEPT !.password = @ + 1, !.failures = 0]
    [] r.op = "delete" -> Deleted
    [] OTHER -> row

-----------------------------------------------------------------------------
(* Logins *)

Begin(c, r) ==
  /\ requests[c] = Idle
  /\ started < MaxRequests
  /\ started' = started + 1
  /\ requests' = [requests EXCEPT ![c] = r]
  /\ UNCHANGED <<users, sessions, history>>

\* get_by_login and the verification of the password, without an await in
\* between.  An unusable account is refused without a change.
Login(c, u, matches) ==
  /\ Usable(users[u])
  /\ Begin(c, [Idle EXCEPT !.phase = IF matches THEN "verified" ELSE "failing",
                           !.target = u, !.password = users[u].password])

\* Mutant: the update does not ask again whether the account is usable.
RecordLoginUnchecked(c, s) ==
  LET r == requests[c]
  IN  /\ r.phase = "verified" /\ ~RowLocked(c, r.target)
      /\ Stored(r.target)
      /\ sessions[s].status = "none"
      /\ \A d \in Clients : requests[d].session # s
      /\ requests' = [requests EXCEPT ![c].phase = "written", ![c].session = s,
                        ![c].row = [users[r.target] EXCEPT !.failures = 0]]
      /\ UNCHANGED <<users, sessions, started, history>>

\* record_successful_login updates the row if it is still usable, then a
\* session is created and bound to its token: others see none of it.
RecordSuccessfulLogin(c, s) ==
  LET r == requests[c]
  IN  /\ r.phase = "verified" /\ ~RowLocked(c, r.target)
      /\ Usable(users[r.target])
      /\ sessions[s].status = "none"
      /\ \A d \in Clients : requests[d].session # s
      /\ requests' = [requests EXCEPT ![c].phase = "written", ![c].session = s,
                        ![c].row = [users[r.target] EXCEPT !.failures = 0]]
      /\ UNCHANGED <<users, sessions, started, history>>

\* record_failed_login counts and locks in one update.
RecordFailedLogin(c) ==
  LET u == requests[c].target
      count == users[u].failures + 1
  IN  /\ requests[c].phase = "failing" /\ ~RowLocked(c, u)
      /\ Usable(users[u]) /\ count <= MaxFailures
      /\ requests' = [requests EXCEPT ![c].phase = "rejected",
           ![c].row = [users[u] EXCEPT !.failures = count,
                                       !.locked = count >= MaxFailures]]
      /\ UNCHANGED <<users, sessions, started, history>>

\* The login is answered 401: an HTTP exception, on which the session
\* dependency rolls back what was recorded.
RejectLogin(c) ==
  LET u == requests[c].target
  IN  /\ requests[c].phase = "rejected"
      /\ requests' = [requests EXCEPT ![c] = Idle]
      /\ failed' = [failed EXCEPT ![u] = IF @ < MaxFailures THEN @ + 1 ELSE @]
      /\ UNCHANGED <<users, sessions, started, raced, doubled>>

-----------------------------------------------------------------------------
(* Requests with a session *)

\* authenticate_token: the session is active and its owner usable.
Authenticated(s) ==
  sessions[s].status = "active" /\ Usable(users[sessions[s].owner])

IsAdmin(u) == Admin \in users[u].roles

Logout(c, s) ==
  /\ Authenticated(s)
  /\ Begin(c, [Idle EXCEPT !.phase = "written", !.op = "logout",
                           !.target = sessions[s].owner, !.ended = {s}])

\* Revoking all sessions of one's own needs no role.
RevokeOwnSessions(c, s) ==
  /\ Authenticated(s)
  /\ Begin(c, [Idle EXCEPT !.phase = "revoking", !.op = "revoke",
                           !.target = sessions[s].owner])

\* uuid4 has not given out this identifier.  The insert waits for nobody.
CreateUser(c, s, u, role, active) ==
  /\ Authenticated(s) /\ IsAdmin(sessions[s].owner)
  /\ users[u] = Absent /\ \A d \in Clients : requests[d].target # u
  /\ Begin(c, [Idle EXCEPT !.phase = "written", !.op = "create", !.target = u,
                           !.row = NewUser(role, active)])

\* The operation changes the user as it is read; otherwise the request is
\* answered without an update, or refused: nobody deletes the own account.
Changes(op, row, role) ==
  CASE op = "role" -> row.roles # {role}
    [] op = "enable" -> ~row.active
    [] op = "disable" -> row.active
    [] op = "lock" -> ~row.locked
    [] op = "unlock" -> row.locked
    [] op = "reset" -> row.password < MaxPasswords
    [] OTHER -> TRUE

\* Mutant: an administrator may be disabled without a count.
RemovesAdminButDisabled(op, row, role) ==
  /\ row.active /\ Admin \in row.roles
  /\ op = "delete" \/ (op = "role" /\ role # Admin)

\* The operations that ask for _protect_last_admin, decided on the user read.
RemovesAdmin(op, row, role) ==
  /\ row.active /\ Admin \in row.roles
  /\ op \in {"disable", "delete"} \/ (op = "role" /\ role # Admin)

\* The first write of the operation: delete_user revokes before it deletes.
FirstWrite(op) ==
  CASE op \in {"delete", "revoke"} -> "revoking"
    [] op = "role" -> "replacing"
    [] OTHER -> "writing"

\* The actor is authenticated and authorised, the target is read.
Manage(c, s, op, u, role) ==
  /\ op \in {"force", "role", "enable", "disable", "lock", "unlock", "reset",
             "delete", "revoke"}
  /\ op # "role" => role = Admin
  /\ Authenticated(s) /\ IsAdmin(sessions[s].owner)
  /\ Stored(u)
  /\ op = "delete" => u # sessions[s].owner
  /\ Changes(op, users[u], role)
  /\ Begin(c, [Idle EXCEPT !.op = op, !.target = u, !.role = role,
                           !.admins = ActiveAdmins,
                           !.phase = IF RemovesAdmin(op, users[u], role)
                                     THEN "counting" ELSE FirstWrite(op)])

\* _protect_last_admin lists the active users of now.
CountAdmins(c) ==
  LET r == requests[c]
  IN  /\ r.phase = "counting"
      /\ requests' = [requests EXCEPT ![c] =
           IF ActiveAdmins = {r.target} THEN Idle
           ELSE [r EXCEPT !.admins = ActiveAdmins, !.phase = FirstWrite(r.op)]]
      /\ UNCHANGED <<users, sessions, started, history>>

\* The DELETE of set_role takes its snapshot, and may have to wait.
BeginReplace(c) ==
  /\ requests[c].phase = "replacing"
  /\ requests' = [requests EXCEPT ![c].phase = "writing"]
  /\ UNCHANGED <<users, sessions, started, history>>

\* The update of the row, which is locked from here to the end.  A user that
\* is gone, or has the new role already, ends the request with an error.
UpdateUser(c) ==
  LET r == requests[c]
      row == users[r.target]
  IN  /\ r.phase = "writing" /\ ~RowLocked(c, r.target)
      /\ row \in User
      /\ r.op = "role" /\ ~r.fresh => r.role \notin row.roles
      /\ r.op = "reset" => row.password < MaxPasswords
      /\ requests' = [requests EXCEPT
           ![c].row = Updated(row, r),
           ![c].phase = IF r.op # "delete" /\ Revokes(r.op) THEN "revoking"
                        ELSE "written"]
      /\ UNCHANGED <<users, sessions, started, history>>

\* revoke_user_sessions: all sessions that are committed and active now.
RevokeSessions(c) ==
  LET r == requests[c]
  IN  /\ r.phase = "revoking"
      /\ requests' = [requests EXCEPT
           ![c].ended = ActiveSessions(r.target),
           ![c].phase = IF r.op = "delete" THEN "writing" ELSE "written"]
      /\ UNCHANGED <<users, sessions, started, history>>

-----------------------------------------------------------------------------
(* The end of a request, and time *)

\* What the commit makes of the requests that still run: a DELETE of roles
\* that waits no longer sees the roles, a verified password may be old.
Overtaken(r, d) ==
  IF d.target # r.target THEN d
  ELSE [d EXCEPT
    !.fresh = @ /\ ~(r.op = "role" /\ d.op = "role" /\ d.phase = "writing"),
    !.crossed = @ \/ (r.op = "reset" /\ d.phase = "verified")]

\* The sessions of a deleted user are deleted with it.  A new session is
\* noted with the password it was opened with, or with 0 when that was
\* verified before a reset and is used after it.
CommittedSession(r, s) ==
  IF s \in r.ended \/ (r.row = Deleted /\ sessions[s].owner = r.target)
  THEN [sessions[s] EXCEPT !.status = IF @ = "none" THEN @ ELSE "ended"]
  ELSE IF s = r.session
  THEN [owner |-> r.target, status |-> "active",
        password |-> IF r.crossed THEN 0 ELSE r.password]
  ELSE sessions[s]

Commit(c) ==
  LET r == requests[c]
  IN  /\ r.phase = "written"
      /\ users' = [users EXCEPT ![r.target] = IF r.row = None THEN @ ELSE r.row]
      /\ sessions' = [s \in Sessions |-> CommittedSession(r, s)]
      /\ requests' = [d \in Clients |-> IF d = c THEN Idle ELSE Overtaken(r, requests[d])]
      /\ failed' = [failed EXCEPT ![r.target] =
                      IF r.op \in {"login", "unlock", "reset"} THEN 0 ELSE @]
      /\ raced' = (raced \/ (r.target \in ActiveAdmins \ ActiveAdmins'
                              /\ r.admins # ActiveAdmins))
      /\ doubled' = IF r.op = "role" /\ ~r.fresh THEN doubled \cup {r.target}
                    ELSE doubled
      /\ UNCHANGED started

\* An exception, a deadlock or the end of the process: nothing remains.
RollBack(c) ==
  /\ requests[c].phase # "idle"
  /\ requests' = [requests EXCEPT ![c] = Idle]
  /\ UNCHANGED <<users, sessions, started, history>>

Expire(s) ==
  /\ sessions[s].status = "active"
  /\ sessions' = [sessions EXCEPT ![s].status = "ended"]
  /\ UNCHANGED <<users, requests, started, history>>

\* An unknown or unusable account, no session or no right: the request is
\* answered with an error and has changed nothing.
Refuse(c) == requests[c] = Idle /\ UNCHANGED vars

Next ==
  \/ \E c \in Clients : Refuse(c)
  \/ \E c \in Clients, u \in Users, matches \in BOOLEAN : Login(c, u, matches)
  \/ \E c \in Clients, s \in Sessions : RecordSuccessfulLogin(c, s)
  \/ \E c \in Clients : RecordFailedLogin(c)
  \/ \E c \in Clients : RejectLogin(c)
  \/ \E c \in Clients, s \in Sessions : Logout(c, s)
  \/ \E c \in Clients, s \in Sessions : RevokeOwnSessions(c, s)
  \/ \E c \in Clients, s \in Sessions, u \in Users, role \in Roles, active \in BOOLEAN :
        CreateUser(c, s, u, role, active)
  \/ \E c \in Clients, s \in Sessions, op \in Operations, u \in Users, role \in Roles :
        Manage(c, s, op, u, role)
  \/ \E c \in Clients : CountAdmins(c)
  \/ \E c \in Clients : BeginReplace(c)
  \/ \E c \in Clients : UpdateUser(c)
  \/ \E c \in Clients : RevokeSessions(c)
  \/ \E c \in Clients : Commit(c)
  \/ \E c \in Clients : RollBack(c)
  \/ \E s \in Sessions : Expire(s)

Spec == Init /\ [][Next]_vars

-----------------------------------------------------------------------------
(* Safety *)

\* Nobody keeps a session through being disabled, locked or deleted: although
\* a login may have verified the password long before and be about to create
\* its session, and a revocation sees only the sessions committed by then.
UnusableHasNoSession ==
  \A u \in Users : ~Usable(users[u]) => ActiveSessions(u) = {}

\* _protect_last_admin keeps an active administrator, except when one was
\* removed by a request whose count another commit had overtaken.
AdminLostOnlyByOverlap ==
  ActiveAdmins = {} => raced

\* set_role leaves a user exactly one role, except when two requests have
\* replaced the role of one user at once.
RolesDoubledOnlyByOverlap ==
  \A u \in Users \ doubled : Stored(u) => Cardinality(users[u].roles) = 1

\* "All existing sessions are revoked": a session opened with a password that
\* has been replaced is over, unless the reset was committed between the
\* verification of that password and the end of the login.
OldPasswordOnlyByOverlap ==
  \A s \in Sessions : sessions[s].status = "active" =>
    sessions[s].password \in {0, users[sessions[s].owner].password}

\* "Locks the account when the configured threshold is reached."
FailuresLock ==
  \A u \in Users : Stored(u) /\ failed[u] >= MaxFailures => users[u].locked

=============================================================================
