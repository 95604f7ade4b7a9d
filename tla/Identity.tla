------------------------------- MODULE Identity -------------------------------
(***************************************************************************)
(* Users, role bindings, sessions: who is let in, and how a change of what *)
(* a user may do ends the sessions opened before it.                       *)
(*                                                                         *)
(* A handler reads the rows it needs, spends time (on a password digest,   *)
(* on the identity provider), then commits; no row is locked in between,   *)
(* and authorization_version is read before and written after.  So a       *)
(* handler is two steps: what it read is kept in txs.  Handlers that read  *)
(* and write one row are one step.                                         *)
(*                                                                         *)
(* counted, silent and overlapped are history variables: how often what a  *)
(* user may do was changed by a handler that increments the version, and   *)
(* by one that does not, and for whom two changes ran at once.             *)
(***************************************************************************)
EXTENDS Naturals, FiniteSets, Requests

CONSTANTS
  Users,        \* user ids
  OldUsers,     \* those created before
  Root,         \* the administrator created by the bootstrap
  Roles,        \* unit roles
  AdminRole,    \* the built-in role of administrators
  Projects,
  FailLimit     \* wrong passwords until the login is locked (5 in the code)

VARIABLES
  users,        \* User and LocalCredential, None when there is no such user
  held,         \* UnitMembershipRole: the roles bound to each user
  activeRoles,  \* roles whose status is active
  openProjects, \* projects whose status is active
  sessions,     \* AuthSession, None before it is opened
  txs,          \* what the handler of each client has read
  counted, silent, overlapped

identityVars == <<users, held, activeRoles, openProjects, sessions, txs, counted, silent, overlapped>>

SessionIds == 1..MaxRequests + 1
Methods == {"local", "oidc"}
Credentials == {"none", "mustChange", "set"}
User == [ver : Nat, active : BOOLEAN, cred : Credentials, oidc : BOOLEAN,
         fails : 0..FailLimit, locked : BOOLEAN]
Session == [user : Users, ver : Nat, asOf : Nat, live : BOOLEAN, method : Methods]
Revoking == {"password", "reset", "roles", "role"}
Changing == Revoking \cup {"bind", "activate", "deactivate"}
Glimpse == [ver : Nat, asOf : Nat, cred : Credentials, fails : 0..FailLimit, limited : BOOLEAN]
Tx == [op : Changing \cup {"delete", "login", "oidcLogin", "wrongPassword"},
       on : SUBSET Users, add : SUBSET Roles, del : SUBSET Roles, seen : [Users -> Glimpse]]

ASSUME IdentityAssumption ==
  /\ Root \in OldUsers /\ OldUsers \subseteq Users /\ AdminRole \in Roles /\ None \notin Users \cup Tx
  /\ FailLimit \in Nat \ {0}

NewUser(cred, v) == [ver |-> v, active |-> TRUE, cred |-> cred, oidc |-> FALSE,
                     fails |-> 0, locked |-> FALSE]
NewSession(u, v, n, m) == [user |-> u, ver |-> v, asOf |-> n, live |-> TRUE, method |-> m]

(* After the bootstrap: its administrator has changed the initial password, and
   is logged in; the other users have not logged in yet. *)
IdentityInit ==
  /\ users = [u \in Users |-> CASE u = Root -> NewUser("set", 2)
                                 [] u \in OldUsers \ {Root} -> NewUser("mustChange", 1)
                                 [] u \notin OldUsers -> None]
  /\ held = [u \in Users |-> IF users[u] = None THEN {} ELSE {AdminRole}]
  /\ activeRoles = Roles /\ openProjects = Projects
  /\ counted = [u \in Users |-> IF users[u] = None THEN 0 ELSE users[u].ver]
  /\ silent = [u \in Users |-> 0]
  /\ sessions = [s \in SessionIds |-> IF s = 1 THEN NewSession(Root, 2, 2, "local") ELSE None]
  /\ txs = [c \in Clients |-> None]
  /\ overlapped = {}

-----------------------------------------------------------------------------
(* Helpers *)

Exists(u) == users[u] # None
Live(s) == sessions[s] # None /\ sessions[s].live

(* _require_active_session, _cookie_request_context: which sessions are let in. *)
Stale(s) == users[sessions[s].user].ver # sessions[s].ver
Accepted(s) ==
  /\ Live(s) /\ Exists(sessions[s].user)
  /\ users[sessions[s].user].active /\ ~Stale(s)

(* identity_admin_context: a session of an administrator who need not change
   the password. *)
IsAdmin(u) == users[u].active /\ AdminRole \in held[u]
Administers(s) ==
  /\ Accepted(s) /\ IsAdmin(sessions[s].user)
  /\ users[sessions[s].user].cred # "mustChange"
Admins == {u \in Users : Exists(u) /\ IsAdmin(u)}
ByAdmin == \E s \in SessionIds : Administers(s)

(* The handler has read the rows of the users it will change; the end of a lock
   that has elapsed is still in its column. *)
Limited(u) == users[u].locked \/ users[u].fails = FailLimit
Glance(u) == IF Exists(u) THEN [ver |-> users[u].ver, asOf |-> counted[u], cred |-> users[u].cred,
                                fails |-> users[u].fails, limited |-> Limited(u)]
             ELSE [ver |-> 0, asOf |-> 0, cred |-> "none", fails |-> 0, limited |-> FALSE]
Reading(op, S, add, del) ==
  [op |-> op, on |-> S, add |-> add, del |-> del, seen |-> [u \in Users |-> Glance(u)]]
Read(c, op, S, add, del) ==
  /\ Begins(c, op)
  /\ txs' = [txs EXCEPT ![c] = Reading(op, S, add, del)]
  /\ UNCHANGED <<users, held, activeRoles, openProjects, sessions, counted, silent, overlapped>>

Revoked(S) == [s \in SessionIds |-> IF Live(s) /\ sessions[s].user \in S
                                    THEN [sessions[s] EXCEPT !.live = FALSE] ELSE sessions[s]]

-----------------------------------------------------------------------------
(* Logging in *)

ChecksPassword(u) ==
  /\ Exists(u) /\ users[u].active /\ users[u].cred # "none"
  /\ ~users[u].oidc /\ ~users[u].locked

LoginLocal(c, u) ==
  ChecksPassword(u) /\ openProjects # {} /\ Read(c, "login", {u}, {}, {})
LoginOidc(c, u) ==
  /\ Exists(u) /\ users[u].active /\ users[u].oidc /\ openProjects # {}
  /\ Read(c, "oidcLogin", {u}, {}, {})
LoginFails(c, u) == ChecksPassword(u) /\ Read(c, "wrongPassword", {u}, {}, {})

Unopened == {s \in SessionIds : sessions[s] = None}
(* Only the columns that differ from what was read are written. *)
Unlocked(r, g) == [r EXCEPT !.fails = IF g.fails = 0 THEN @ ELSE 0, !.locked = @ /\ ~g.limited]
Opened(t, u) ==
  NewSession(u, t.seen[u].ver, t.seen[u].asOf, IF t.op = "login" THEN "local" ELSE "oidc")

(* The session row needs the row of its user. *)
OpenSession(c) ==
  /\ txs[c] # None /\ txs[c].op \in {"login", "oidcLogin"}
  /\ \E s \in Unopened :
       /\ \A r \in Unopened : s <= r
       /\ \E u \in txs[c].on :
            /\ Exists(u)
            /\ sessions' = [sessions EXCEPT ![s] = Opened(txs[c], u)]
            /\ users' = IF txs[c].op = "login"
                        THEN [users EXCEPT ![u] = Unlocked(@, txs[c].seen[u])] ELSE users
  /\ txs' = [txs EXCEPT ![c] = None] /\ Ends(c)
  /\ UNCHANGED <<held, activeRoles, openProjects, counted, silent, overlapped>>

CountFailure(c) ==
  /\ txs[c] # None /\ txs[c].op = "wrongPassword"
  /\ \E u \in txs[c].on :
       /\ Exists(u) /\ users[u].cred # "none"
       /\ LET n == txs[c].seen[u].fails + 1
          IN users' = IF n < FailLimit THEN [users EXCEPT ![u].fails = n]
                      ELSE [users EXCEPT ![u].fails = FailLimit, ![u].locked = TRUE]
  /\ txs' = [txs EXCEPT ![c] = None] /\ Ends(c)
  /\ UNCHANGED <<held, activeRoles, openProjects, sessions, counted, silent, overlapped>>

(* Fifteen minutes pass. *)
LockElapses(u) ==
  /\ Exists(u) /\ users[u].locked /\ users' = [users EXCEPT ![u].locked = FALSE]
  /\ GoesOn /\ UNCHANGED <<held, activeRoles, openProjects, sessions, txs, counted, silent, overlapped>>

-----------------------------------------------------------------------------
(* What changes a user's authorization: read, then commit *)

ChangePassword(c) ==
  \E s \in SessionIds :
    /\ Accepted(s) /\ sessions[s].method = "local"
    /\ LET u == sessions[s].user
       IN /\ users[u].cred # "none" /\ ~users[u].oidc
          /\ Read(c, "password", {u}, {}, {})

ResetPassword(c, u) == ByAdmin /\ Exists(u) /\ ~users[u].oidc /\ Read(c, "reset", {u}, {}, {})

Bind(c, u) == ByAdmin /\ Exists(u) /\ Read(c, "bind", {u}, {}, {})

(* The last administrator who is active is not deactivated. *)
SetActive(c, u, b) ==
  /\ ByAdmin /\ Exists(u) /\ (b \/ ~(users[u].active /\ Admins = {u}))
  /\ Read(c, IF b THEN "activate" ELSE "deactivate", {u}, {}, {})

Replaces(u, R) == R # {} /\ R \subseteq activeRoles
Assigns(u, R) == \E r \in activeRoles : R = held[u] \cup {r}
Removes(u, R) ==
  \E r \in held[u] : R = held[u] \ {r}
                     /\ (r \in activeRoles => Cardinality(held[u] \cap activeRoles) > 1)
BindRoles(c, u, R) ==
  /\ ByAdmin /\ Exists(u) /\ R # held[u]
  /\ Replaces(u, R) \/ Assigns(u, R) \/ Removes(u, R)
  /\ Read(c, "roles", {u}, R \ held[u], held[u] \ R)

Holders(r) == {u \in Users : Exists(u) /\ r \in held[u]}
(* update_role, revoke_role_permission: of a role that is not built in. *)
ChangeRole(c, r) ==
  /\ ByAdmin /\ r # AdminRole
  /\ Read(c, "role", Holders(r), {}, {})

DeleteUser(c, u) ==
  /\ \E s \in SessionIds : Administers(s) /\ sessions[s].user # u
  /\ Exists(u) /\ Read(c, "delete", {u}, {}, {})

(* The columns a change writes besides the version. *)
Written(op, r, g) ==
  CASE op = "password" -> [Unlocked(r, g) EXCEPT !.cred = "set"]
    [] op = "reset" -> [Unlocked(r, g) EXCEPT !.cred = "mustChange"]
    [] op = "bind" -> [r EXCEPT !.oidc = TRUE]
    [] op = "activate" -> [r EXCEPT !.active = TRUE]
    [] op = "deactivate" -> [r EXCEPT !.active = FALSE]
    [] OTHER -> r

Bumped_Mutant(t, u) == [Written(t.op, users[u], t.seen[u]) EXCEPT !.ver = t.seen[u].ver]  \* only revokes
Bumped(t, u) == [Written(t.op, users[u], t.seen[u]) EXCEPT !.ver = t.seen[u].ver + 1]

(* The rows it read are gone, or a binding or the credential it would add is
   there already. *)
Conflicting(t) ==
  \E u \in t.on : \/ ~Exists(u) \/ t.add \cap held[u] # {}
                  \/ t.op = "reset" /\ t.seen[u].cred = "none" /\ users[u].cred # "none"

Commit(c) ==
  LET t == txs[c] IN
  /\ t # None /\ t.op \in Changing
  /\ ~Conflicting(t)
  /\ users' = [u \in Users |-> IF u \in t.on THEN Bumped(t, u) ELSE users[u]]
  /\ held' = [u \in Users |-> IF u \in t.on THEN (held[u] \ t.del) \cup t.add ELSE held[u]]
  /\ sessions' = IF t.op \in Revoking THEN Revoked(t.on) ELSE sessions
  /\ counted' = [u \in Users |-> IF u \in t.on THEN counted[u] + 1 ELSE counted[u]]
  /\ overlapped' = overlapped \cup {u \in t.on : t.seen[u].asOf # counted[u]}
  /\ txs' = [txs EXCEPT ![c] = None] /\ Ends(c)
  /\ UNCHANGED <<activeRoles, openProjects, silent>>

CommitDelete(c) ==
  LET t == txs[c] IN
  /\ t # None /\ t.op = "delete"
  /\ \A u \in t.on : Exists(u)
  /\ users' = [u \in Users |-> IF u \in t.on THEN None ELSE users[u]]
  /\ held' = [u \in Users |-> IF u \in t.on THEN {} ELSE held[u]]
  /\ sessions' = Revoked(t.on)
  /\ txs' = [txs EXCEPT ![c] = None] /\ Ends(c)
  /\ UNCHANGED <<activeRoles, openProjects, counted, silent, overlapped>>

Abandon(c) ==
  /\ txs[c] # None /\ Conflicting(txs[c]) /\ Ends(c)
  /\ txs' = [txs EXCEPT ![c] = None]
  /\ UNCHANGED <<users, held, activeRoles, openProjects, sessions, counted, silent, overlapped>>
BreakTx(c) ==
  /\ txs[c] # None /\ BreaksOff(c)
  /\ txs' = [txs EXCEPT ![c] = None]
  /\ UNCHANGED <<users, held, activeRoles, openProjects, sessions, counted, silent, overlapped>>

-----------------------------------------------------------------------------
(* Requests of one transaction *)

(* A user id is new: it is never used again. *)
CreateUser(u, R) ==
  /\ AtOnce("createUser") /\ ByAdmin /\ ~Exists(u) /\ counted[u] = 0
  /\ R # {} /\ R \subseteq activeRoles
  /\ \E cred \in {"none", "mustChange"} : users' = [users EXCEPT ![u] = NewUser(cred, 1)]
  /\ held' = [held EXCEPT ![u] = R] /\ counted' = [counted EXCEPT ![u] = 1]
  /\ UNCHANGED <<activeRoles, openProjects, sessions, txs, silent, overlapped>>

(* What the holders of a role may do changes, their versions do not. *)
Silently(S) == silent' = [u \in Users |-> IF u \in S THEN silent[u] + 1 ELSE silent[u]]

(* create_role too: a new role is one that becomes active. *)
SetRoleStatus(r, b) ==
  /\ AtOnce("roleStatus") /\ ByAdmin /\ r # AdminRole
  /\ activeRoles' = IF b THEN activeRoles \cup {r} ELSE activeRoles \ {r}
  /\ Silently(IF activeRoles' = activeRoles THEN {} ELSE Holders(r))
  /\ UNCHANGED <<users, held, openProjects, sessions, txs, counted, overlapped>>

(* Not when it is the only active role of a user. *)
DeleteRole(r) ==
  /\ AtOnce("deleteRole") /\ ByAdmin /\ r # AdminRole
  /\ ~\E u \in Users : held[u] \cap activeRoles = {r}
  /\ activeRoles' = activeRoles \ {r} /\ held' = [u \in Users |-> held[u] \ {r}]
  /\ Silently(Holders(r))
  /\ UNCHANGED <<users, openProjects, sessions, txs, counted, overlapped>>

(* Which permissions a role has is left out; one is new to it. *)
GrantPermission(r) ==
  /\ AtOnce("grant") /\ ByAdmin /\ r # AdminRole
  /\ Silently(Holders(r))
  /\ UNCHANGED <<users, held, activeRoles, openProjects, sessions, txs, counted, overlapped>>

(* Who works in a project is left out: everybody does. *)
SetProjectStatus(p, b) ==
  /\ AtOnce("projectStatus") /\ ByAdmin
  /\ openProjects' = IF b THEN openProjects \cup {p} ELSE openProjects \ {p}
  /\ Silently(IF openProjects' = openProjects THEN {} ELSE {u \in Users : Exists(u)})
  /\ UNCHANGED <<users, held, activeRoles, sessions, txs, counted, overlapped>>

(* logout, revoke_session, revoke_other_sessions; auth_me on an expired one. *)
CloseSessions(S) ==
  /\ AtOnce("closeSession") /\ S # {} /\ \A s \in S : Live(s)
  /\ \/ \E s \in SessionIds : S = {s}
     \/ \E r \in SessionIds : Accepted(r)
          /\ S = {s \in SessionIds \ {r} : Live(s) /\ sessions[s].user = sessions[r].user}
  /\ sessions' = [s \in SessionIds |-> IF s \in S THEN [sessions[s] EXCEPT !.live = FALSE]
                                       ELSE sessions[s]]
  /\ UNCHANGED <<users, held, activeRoles, openProjects, txs, counted, silent, overlapped>>

-----------------------------------------------------------------------------
IdentityBegin(c) ==
  \/ ChangePassword(c)
  \/ \E u \in Users :
       \/ LoginLocal(c, u) \/ LoginOidc(c, u) \/ LoginFails(c, u)
       \/ ResetPassword(c, u) \/ Bind(c, u) \/ DeleteUser(c, u)
       \/ \E b \in BOOLEAN : SetActive(c, u, b)
       \/ \E R \in SUBSET Roles : BindRoles(c, u, R)
  \/ \E r \in Roles : ChangeRole(c, r)
IdentityEnd(c) == OpenSession(c) \/ CountFailure(c) \/ Commit(c) \/ CommitDelete(c) \/ Abandon(c)
IdentityAtOnce ==
  \/ \E u \in Users, R \in SUBSET Roles : CreateUser(u, R)
  \/ \E r \in Roles, b \in BOOLEAN : SetRoleStatus(r, b)
  \/ \E r \in Roles : DeleteRole(r) \/ GrantPermission(r)
  \/ \E p \in Projects, b \in BOOLEAN : SetProjectStatus(p, b)
  \/ \E S \in SUBSET SessionIds : CloseSessions(S)
IdentityNext ==
  \/ \E c \in Clients : IdentityBegin(c) \/ IdentityEnd(c) \/ BreakTx(c)
  \/ IdentityAtOnce
  \/ \E u \in Users : LockElapses(u)

-----------------------------------------------------------------------------
IdentityTypeOK ==
  /\ users \in [Users -> User \cup {None}]
  /\ held \in [Users -> SUBSET Roles] /\ activeRoles \subseteq Roles
  /\ openProjects \subseteq Projects
  /\ sessions \in [SessionIds -> Session \cup {None}]
  /\ txs \in [Clients -> Tx \cup {None}]
  /\ counted \in [Users -> Nat] /\ silent \in [Users -> Nat] /\ overlapped \subseteq Users

(* SESSIONS DIE WITH CHANGE.  A session that is let in was opened by a login
   that read the user after the last change that increments the version: of the
   user's password, roles, status or external identity, of the name of a role
   the user holds, or a permission taken from it.  A login that overtakes such a
   change, or is overtaken by one, leaves no session with what the user had
   before.  A role's status, its deletion, a permission granted to it and a
   project's status do not increment it: see EveryChangeCounts.
   Except for users two of whose changes ran at once: both read one version and
   write the same next one, and a login between the two commits survives. *)
SessionsDieWithChange ==
  \A s \in SessionIds :
    (sessions[s] # None /\ Accepted(s) /\ sessions[s].user \notin overlapped)
      => sessions[s].asOf = counted[sessions[s].user]

(* What the documents say and the code does not do: see the README.
   docs/superpowers/specs/2026-08-04-oidc-local-authorization-design.md:327, a
   change of a user's roles, of a role's permissions or of a project's status
   increments the version of the users it concerns in its transaction. *)
EveryChangeCounts ==
  \A u \in Users : Exists(u) /\ u \notin overlapped => users[u].ver = counted[u] + silent[u]
=============================================================================
