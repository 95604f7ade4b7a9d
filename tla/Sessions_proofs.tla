--------------------------- MODULE Sessions_proofs ---------------------------
(***************************************************************************)
(* Proofs about the control plane for any users, roles, clients and any    *)
(* bounds: the types of Identity, and that the sessions of a user end with *)
(* every change that increments the version of the user.                   *)
(*                                                                         *)
(* The invariant behind the second: the version in the row of a user       *)
(* counts those changes as they were really made, a handler remembers      *)
(* version and count of one moment, and so does a session.  Two changes of *)
(* a user that ran at once break the first part: the user is in overlapped.*)
(***************************************************************************)
EXTENDS ControlPlane, TLAPS

(* What a change or a login writes is a row, and only a change moves the
   version. *)
LEMMA WrittenType ==
  ASSUME NEW r \in User, NEW g \in Glimpse, NEW op
  PROVE  /\ Unlocked(r, g) \in User /\ Unlocked(r, g).ver = r.ver
         /\ Written(op, r, g) \in User
         /\ [Written(op, r, g) EXCEPT !.ver = g.ver + 1] \in User
         /\ [Written(op, r, g) EXCEPT !.ver = g.ver + 1].ver = g.ver + 1
<1>1. Unlocked(r, g) \in User /\ Unlocked(r, g).ver = r.ver
  <2> DEFINE n == IF g.fails = 0 THEN r.fails ELSE 0
             b == r.locked /\ ~g.limited
  <2>1. n \in 0..FailLimit BY IdentityAssumption DEF User
  <2>2. b \in BOOLEAN OBVIOUS
  <2>3. Unlocked(r, g) = [r EXCEPT !.fails = n, !.locked = b] BY DEF Unlocked
  <2> HIDE DEF n, b
  <2> QED BY <2>1, <2>2, <2>3 DEF User
<1>2. Written(op, r, g) \in User
  BY <1>1 DEF Written, User, Credentials
<1>3. g.ver + 1 \in Nat BY DEF Glimpse
<1> QED BY <1>1, <1>2, <1>3 DEF User

LEMMA GlanceType ==
  ASSUME IdentityTypeOK, NEW u \in Users
  PROVE  Glance(u) \in Glimpse
<1>1. CASE Exists(u)
  <2>1. users[u] \in User BY <1>1 DEF IdentityTypeOK, Exists
  <2>2. counted[u] \in Nat BY DEF IdentityTypeOK
  <2>3. Limited(u) \in BOOLEAN BY DEF Limited
  <2> QED BY <1>1, <2>1, <2>2, <2>3 DEF Glance, Glimpse, User
<1>2. CASE ~Exists(u)
  BY <1>2, IdentityAssumption DEF Glance, Glimpse, Credentials
<1> QED BY <1>1, <1>2

(* Closing sessions changes nothing else about them. *)
LEMMA RevokedType ==
  ASSUME IdentityTypeOK, NEW S
  PROVE  /\ Revoked(S) \in [SessionIds -> Session \cup {None}]
         /\ \A s \in SessionIds : Revoked(S)[s] # None =>
              /\ sessions[s] # None
              /\ Revoked(S)[s].user = sessions[s].user
              /\ Revoked(S)[s].ver = sessions[s].ver
              /\ Revoked(S)[s].asOf = sessions[s].asOf
<1>1. \A s \in SessionIds : sessions[s] # None => sessions[s] \in Session BY DEF IdentityTypeOK
<1> QED BY <1>1 DEF Revoked, Live, Session

-----------------------------------------------------------------------------
(* The version counts the changes; who looked at a user, or was let in, saw
   both at one moment. *)
VersionsCount ==
  \A u \in Users : Exists(u) /\ u \notin overlapped => users[u].ver = counted[u]
ReadersAgree ==
  \A c \in Clients : txs[c] # None =>
    \A u \in Users \ overlapped : txs[c].seen[u].ver = txs[c].seen[u].asOf
SessionsAgree ==
  \A s \in SessionIds : sessions[s] # None /\ sessions[s].user \notin overlapped
                          => sessions[s].ver = sessions[s].asOf
SessionInv == IdentityTypeOK /\ VersionsCount /\ ReadersAgree /\ SessionsAgree

LEMMA SessionInvInit ==
  ASSUME IdentityInit
  PROVE  SessionInv
<1>1. NewUser("set", 2) \in User /\ NewUser("mustChange", 1) \in User
  BY IdentityAssumption DEF NewUser, User, Credentials
<1>2. \A u \in Users : users[u] \in User \cup {None}
  BY <1>1, IdentityAssumption DEF IdentityInit
<1>3. users \in [Users -> User \cup {None}] BY <1>2 DEF IdentityInit
<1>4. NewSession(Root, 2, 2, "local") \in Session
  BY IdentityAssumption DEF NewSession, Session, Methods
<1>5. sessions \in [SessionIds -> Session \cup {None}] BY <1>4 DEF IdentityInit
<1>6. counted \in [Users -> Nat] /\ silent \in [Users -> Nat] BY <1>2 DEF IdentityInit, User
<1>7. IdentityTypeOK
  BY <1>3, <1>5, <1>6, IdentityAssumption DEF IdentityInit, IdentityTypeOK
<1>8. VersionsCount BY DEF VersionsCount, IdentityInit, Exists
<1>9. ReadersAgree BY DEF ReadersAgree, IdentityInit
<1>10. SessionsAgree BY DEF SessionsAgree, IdentityInit, NewSession
<1> QED BY <1>7, <1>8, <1>9, <1>10 DEF SessionInv

-----------------------------------------------------------------------------
(* One lemma per kind of step *)

TxOps == Changing \cup {"delete", "login", "oidcLogin", "wrongPassword"}

LEMMA SeenKeeps ==
  ASSUME SessionInv, NEW c \in Clients, NEW op \in TxOps, NEW S \in SUBSET Users,
         NEW add \in SUBSET Roles, NEW del \in SUBSET Roles, Read(c, op, S, add, del)
  PROVE  SessionInv'
<1>1. Reading(op, S, add, del) \in Tx
  BY GlanceType DEF SessionInv, Reading, Tx, TxOps
<1>2. txs' = [txs EXCEPT ![c] = Reading(op, S, add, del)] BY DEF Read
<1>3. IdentityTypeOK' BY <1>1, <1>2 DEF SessionInv, IdentityTypeOK, Read
<1>4. \A u \in Users \ overlapped : Glance(u).ver = Glance(u).asOf
  BY DEF SessionInv, VersionsCount, Glance
<1>5. ReadersAgree'
  <2> SUFFICES ASSUME NEW d \in Clients, txs'[d] # None, NEW u \in Users \ overlapped
               PROVE  txs'[d].seen[u].ver = txs'[d].seen[u].asOf
    BY DEF ReadersAgree, Read
  <2>1. CASE d = c
    <3>1. txs'[d] = Reading(op, S, add, del) BY <1>2, <2>1 DEF SessionInv, IdentityTypeOK
    <3> QED BY <3>1, <1>4 DEF Reading
  <2>2. CASE d # c BY <1>2, <2>2 DEF SessionInv, IdentityTypeOK, ReadersAgree
  <2> QED BY <2>1, <2>2
<1>6. VersionsCount' /\ SessionsAgree'
  BY DEF SessionInv, VersionsCount, SessionsAgree, Read, Exists
<1> QED BY <1>3, <1>5, <1>6 DEF SessionInv

(* What the other steps do to the readers: their own is gone. *)
LEMMA ReadersStay ==
  ASSUME SessionInv, NEW c \in Clients, txs' = [txs EXCEPT ![c] = None] \/ UNCHANGED txs,
         overlapped \subseteq overlapped'
  PROVE  txs' \in [Clients -> Tx \cup {None}] /\ ReadersAgree'
BY DEF SessionInv, IdentityTypeOK, ReadersAgree

(* What one of them has read. *)
LEMMA TxFacts ==
  ASSUME SessionInv, NEW c \in Clients, txs[c] # None
  PROVE  /\ txs[c] \in Tx /\ txs[c].on \subseteq Users
         /\ \A u \in Users : txs[c].seen[u] \in Glimpse
         /\ \A u \in Users \ overlapped : txs[c].seen[u].ver = txs[c].seen[u].asOf
BY DEF SessionInv, IdentityTypeOK, ReadersAgree, Tx

LEMMA OpenKeeps ==
  ASSUME SessionInv, NEW c \in Clients, OpenSession(c)
  PROVE  SessionInv'
<1>1. PICK s \in SessionIds, u \in txs[c].on :
        /\ Exists(u)
        /\ sessions' = [sessions EXCEPT ![s] = Opened(txs[c], u)]
        /\ users' = IF txs[c].op = "login"
                    THEN [users EXCEPT ![u] = Unlocked(@, txs[c].seen[u])] ELSE users
  BY DEF OpenSession, Unopened
<1>2. /\ txs[c] # None /\ txs' = [txs EXCEPT ![c] = None]
      /\ UNCHANGED <<held, activeRoles, openProjects, counted, silent, overlapped>>
  BY DEF OpenSession
<1>3. /\ u \in Users /\ txs[c].seen[u] \in Glimpse
      /\ u \notin overlapped => txs[c].seen[u].ver = txs[c].seen[u].asOf
  BY <1>2, TxFacts
<1>4. users[u] \in User BY <1>1, <1>3 DEF SessionInv, IdentityTypeOK, Exists
<1>5. Unlocked(users[u], txs[c].seen[u]) \in User
      /\ Unlocked(users[u], txs[c].seen[u]).ver = users[u].ver
  BY <1>3, <1>4, WrittenType
<1>6. users' \in [Users -> User \cup {None}] /\ VersionsCount'
  BY <1>1, <1>2, <1>3, <1>5 DEF SessionInv, IdentityTypeOK, VersionsCount, Exists
<1>7. /\ Opened(txs[c], u) \in Session
      /\ Opened(txs[c], u).user = u
      /\ Opened(txs[c], u).ver = txs[c].seen[u].ver
      /\ Opened(txs[c], u).asOf = txs[c].seen[u].asOf
  BY <1>3 DEF Opened, NewSession, Session, Methods, Glimpse
<1>8. sessions' \in [SessionIds -> Session \cup {None}] /\ SessionsAgree'
  BY <1>1, <1>2, <1>3, <1>7 DEF SessionInv, IdentityTypeOK, SessionsAgree
<1>9. txs' \in [Clients -> Tx \cup {None}] /\ ReadersAgree' BY <1>2, ReadersStay
<1> QED BY <1>2, <1>6, <1>8, <1>9 DEF SessionInv, IdentityTypeOK

LEMMA CountKeeps ==
  ASSUME SessionInv, NEW c \in Clients, CountFailure(c)
  PROVE  SessionInv'
<1>1. PICK u \in txs[c].on :
        /\ Exists(u)
        /\ LET n == txs[c].seen[u].fails + 1
           IN users' = IF n < FailLimit THEN [users EXCEPT ![u].fails = n]
                       ELSE [users EXCEPT ![u].fails = FailLimit, ![u].locked = TRUE]
  BY DEF CountFailure
<1>2. /\ txs[c] # None /\ txs' = [txs EXCEPT ![c] = None]
      /\ UNCHANGED <<held, activeRoles, openProjects, sessions, counted, silent, overlapped>>
  BY DEF CountFailure
<1>3. u \in Users /\ txs[c].seen[u].fails \in 0..FailLimit BY <1>2, TxFacts DEF Glimpse
<1>4. users[u] \in User BY <1>1, <1>3 DEF SessionInv, IdentityTypeOK, Exists
<1>5. PICK r \in User : r.ver = users[u].ver /\ users' = [users EXCEPT ![u] = r]
  <2> DEFINE n == txs[c].seen[u].fails + 1
  <2>1. CASE n < FailLimit
    <3>1. [users[u] EXCEPT !.fails = n] \in User
      BY <1>3, <1>4, <2>1, IdentityAssumption DEF User
    <3> QED BY <1>1, <1>4, <2>1, <3>1 DEF User
  <2>2. CASE ~(n < FailLimit)
    <3>1. [users[u] EXCEPT !.fails = FailLimit, !.locked = TRUE] \in User
      <4>1. FailLimit \in 0..FailLimit BY IdentityAssumption
      <4> QED BY <1>4, <4>1, Zenon DEF User
    <3>2. users' = [users EXCEPT ![u] = [users[u] EXCEPT !.fails = FailLimit, !.locked = TRUE]]
      BY <1>1, <1>3, <2>2 DEF SessionInv, IdentityTypeOK
    <3> QED BY <1>4, <3>1, <3>2 DEF User
  <2> QED BY <2>1, <2>2
<1>6. users' \in [Users -> User \cup {None}] /\ VersionsCount'
  BY <1>1, <1>2, <1>3, <1>5 DEF SessionInv, IdentityTypeOK, VersionsCount, Exists
<1>7. txs' \in [Clients -> Tx \cup {None}] /\ ReadersAgree' BY <1>2, ReadersStay
<1> QED BY <1>2, <1>6, <1>7 DEF SessionInv, IdentityTypeOK, SessionsAgree

LEMMA ChangeKeeps ==
  ASSUME SessionInv, NEW c \in Clients, Commit(c)
  PROVE  SessionInv'
<1> DEFINE t == txs[c]
<1>1. /\ t # None /\ ~Conflicting(t)
      /\ users' = [u \in Users |-> IF u \in t.on THEN Bumped(t, u) ELSE users[u]]
      /\ held' = [u \in Users |-> IF u \in t.on THEN (held[u] \ t.del) \cup t.add ELSE held[u]]
      /\ sessions' = IF t.op \in Revoking THEN Revoked(t.on) ELSE sessions
      /\ counted' = [u \in Users |-> IF u \in t.on THEN counted[u] + 1 ELSE counted[u]]
      /\ overlapped' = overlapped \cup {u \in t.on : t.seen[u].asOf # counted[u]}
      /\ txs' = [txs EXCEPT ![c] = None]
      /\ UNCHANGED <<activeRoles, openProjects, silent>>
  BY DEF Commit
<1>2. /\ t \in Tx /\ t.on \subseteq Users
      /\ \A u \in Users : t.seen[u] \in Glimpse
      /\ \A u \in Users \ overlapped : t.seen[u].ver = t.seen[u].asOf
  BY <1>1, TxFacts
<1> HIDE DEF t
<1>3. \A u \in t.on : Bumped(t, u) \in User /\ Bumped(t, u).ver = t.seen[u].ver + 1
  <2> SUFFICES ASSUME NEW u \in t.on
               PROVE  Bumped(t, u) \in User /\ Bumped(t, u).ver = t.seen[u].ver + 1
    OBVIOUS
  <2>1. users[u] \in User BY <1>1, <1>2 DEF Conflicting, Exists, SessionInv, IdentityTypeOK
  <2> QED BY <1>2, <2>1, WrittenType DEF Bumped
<1>4. users' \in [Users -> User \cup {None}] BY <1>1, <1>3 DEF SessionInv, IdentityTypeOK
<1>5. counted' \in [Users -> Nat] /\ overlapped' \subseteq Users /\ overlapped \subseteq overlapped'
  BY <1>1, <1>2 DEF SessionInv, IdentityTypeOK
<1>6. held' \in [Users -> SUBSET Roles] BY <1>1, <1>2 DEF SessionInv, IdentityTypeOK, Tx
<1>7. sessions' \in [SessionIds -> Session \cup {None}] /\ SessionsAgree'
  BY <1>1, <1>5, RevokedType DEF SessionInv, IdentityTypeOK, SessionsAgree
<1>8. VersionsCount'
  <2> SUFFICES ASSUME NEW u \in Users, users'[u] # None, u \notin overlapped'
               PROVE  users'[u].ver = counted'[u]
    BY DEF VersionsCount, Exists
  <2>1. CASE u \in t.on BY <1>1, <1>2, <1>3, <1>5, <2>1
  <2>2. CASE u \notin t.on BY <1>1, <1>5, <2>2 DEF SessionInv, VersionsCount, Exists
  <2> QED BY <2>1, <2>2
<1>9. txs' \in [Clients -> Tx \cup {None}] /\ ReadersAgree' BY <1>1, <1>5, ReadersStay
<1> QED BY <1>1, <1>4, <1>5, <1>6, <1>7, <1>8, <1>9 DEF SessionInv, IdentityTypeOK

LEMMA DeleteKeeps ==
  ASSUME SessionInv, NEW c \in Clients, CommitDelete(c)
  PROVE  SessionInv'
<1> DEFINE t == txs[c]
<1>1. /\ t # None
      /\ users' = [u \in Users |-> IF u \in t.on THEN None ELSE users[u]]
      /\ held' = [u \in Users |-> IF u \in t.on THEN {} ELSE held[u]]
      /\ sessions' = Revoked(t.on)
      /\ txs' = [txs EXCEPT ![c] = None]
      /\ UNCHANGED <<activeRoles, openProjects, counted, silent, overlapped>>
  BY DEF CommitDelete
<1> HIDE DEF t
<1>2. users' \in [Users -> User \cup {None}] /\ VersionsCount' /\ held' \in [Users -> SUBSET Roles]
  BY <1>1 DEF SessionInv, IdentityTypeOK, VersionsCount, Exists
<1>3. sessions' \in [SessionIds -> Session \cup {None}] /\ SessionsAgree'
  BY <1>1, RevokedType DEF SessionInv, SessionsAgree
<1>4. txs' \in [Clients -> Tx \cup {None}] /\ ReadersAgree' BY <1>1, ReadersStay
<1> QED BY <1>1, <1>2, <1>3, <1>4 DEF SessionInv, IdentityTypeOK

LEMMA AbandonKeeps ==
  ASSUME SessionInv, NEW c \in Clients, Abandon(c) \/ BreakTx(c)
  PROVE  SessionInv'
<1>1. /\ txs' = [txs EXCEPT ![c] = None]
      /\ UNCHANGED <<users, held, activeRoles, openProjects, sessions, counted, silent, overlapped>>
  BY DEF Abandon, BreakTx
<1>2. txs' \in [Clients -> Tx \cup {None}] /\ ReadersAgree' BY <1>1, ReadersStay
<1> QED BY <1>1, <1>2 DEF SessionInv, IdentityTypeOK, VersionsCount, SessionsAgree, Exists

LEMMA CreateKeeps ==
  ASSUME SessionInv, NEW u \in Users, NEW R \in SUBSET Roles, CreateUser(u, R)
  PROVE  SessionInv'
<1>1. PICK cred \in {"none", "mustChange"} : users' = [users EXCEPT ![u] = NewUser(cred, 1)]
  BY DEF CreateUser
<1>2. /\ held' = [held EXCEPT ![u] = R] /\ counted' = [counted EXCEPT ![u] = 1]
      /\ UNCHANGED <<activeRoles, openProjects, sessions, txs, silent, overlapped>>
  BY DEF CreateUser
<1>3. NewUser(cred, 1) \in User /\ NewUser(cred, 1).ver = 1
  BY IdentityAssumption DEF NewUser, User, Credentials
<1>4. VersionsCount'
  BY <1>1, <1>2, <1>3 DEF SessionInv, IdentityTypeOK, VersionsCount, Exists
<1>5. IdentityTypeOK' BY <1>1, <1>2, <1>3 DEF SessionInv, IdentityTypeOK
<1> QED BY <1>2, <1>4, <1>5 DEF SessionInv, ReadersAgree, SessionsAgree

LEMMA CloseSessionsKeeps ==
  ASSUME SessionInv, NEW S \in SUBSET SessionIds, CloseSessions(S)
  PROVE  SessionInv'
<1>1. /\ \A s \in S : Live(s)
      /\ sessions' = [s \in SessionIds |-> IF s \in S THEN [sessions[s] EXCEPT !.live = FALSE]
                                           ELSE sessions[s]]
      /\ UNCHANGED <<users, held, activeRoles, openProjects, txs, counted, silent, overlapped>>
  BY DEF CloseSessions
<1>2. \A s \in S : sessions[s] # None /\ sessions[s] \in Session
  BY <1>1 DEF SessionInv, IdentityTypeOK, Live
<1>3. \A s \in S : /\ [sessions[s] EXCEPT !.live = FALSE] \in Session
                   /\ [sessions[s] EXCEPT !.live = FALSE].user = sessions[s].user
                   /\ [sessions[s] EXCEPT !.live = FALSE].ver = sessions[s].ver
                   /\ [sessions[s] EXCEPT !.live = FALSE].asOf = sessions[s].asOf
  BY <1>2 DEF Session
<1>4. sessions' \in [SessionIds -> Session \cup {None}]
  BY <1>1, <1>3 DEF SessionInv, IdentityTypeOK
<1>5. SessionsAgree' BY <1>1, <1>2, <1>3 DEF SessionInv, SessionsAgree
<1> QED BY <1>1, <1>4, <1>5 DEF SessionInv, IdentityTypeOK, VersionsCount, ReadersAgree, Exists

LEMMA ElapseKeeps ==
  ASSUME SessionInv, NEW u \in Users, LockElapses(u)
  PROVE  SessionInv'
<1>1. /\ users[u] \in User /\ users' = [users EXCEPT ![u].locked = FALSE]
      /\ UNCHANGED <<held, activeRoles, openProjects, sessions, txs, counted, silent, overlapped>>
  BY DEF LockElapses, SessionInv, IdentityTypeOK, Exists
<1>2. PICK r \in User : r.ver = users[u].ver /\ users' = [users EXCEPT ![u] = r]
  <2>1. [users[u] EXCEPT !.locked = FALSE] \in User
        /\ [users[u] EXCEPT !.locked = FALSE].ver = users[u].ver
    BY <1>1 DEF User
  <2> QED BY <1>1, <2>1
<1>3. users' \in [Users -> User \cup {None}] BY <1>2 DEF SessionInv, IdentityTypeOK
<1>4. VersionsCount'
  <2>1. Exists(u) BY DEF LockElapses
  <2> QED BY <1>1, <1>2, <2>1 DEF SessionInv, IdentityTypeOK, VersionsCount, Exists
<1> QED BY <1>1, <1>3, <1>4 DEF SessionInv, IdentityTypeOK, ReadersAgree, SessionsAgree

LEMMA StatusKeeps ==
  ASSUME SessionInv,
         \/ \E r \in Roles, b \in BOOLEAN : SetRoleStatus(r, b)
         \/ \E r \in Roles : DeleteRole(r) \/ GrantPermission(r)
         \/ \E p \in Projects, b \in BOOLEAN : SetProjectStatus(p, b)
  PROVE  SessionInv'
<1>1. UNCHANGED <<users, sessions, txs, counted, overlapped>>
  BY DEF SetRoleStatus, DeleteRole, GrantPermission, SetProjectStatus
<1>2. /\ held' \in [Users -> SUBSET Roles] /\ activeRoles' \subseteq Roles
      /\ openProjects' \subseteq Projects
  BY DEF SessionInv, IdentityTypeOK, SetRoleStatus, DeleteRole, GrantPermission, SetProjectStatus
<1>3. silent' \in [Users -> Nat]
  <2>1. PICK S : Silently(S)
    BY DEF SetRoleStatus, DeleteRole, GrantPermission, SetProjectStatus
  <2> QED BY <2>1 DEF Silently, SessionInv, IdentityTypeOK
<1> QED BY <1>1, <1>2, <1>3
  DEF SessionInv, IdentityTypeOK, VersionsCount, ReadersAgree, SessionsAgree, Exists

(* What a handler that is begun reads. *)
LEMMA TxBegins ==
  ASSUME SessionInv, NEW c \in Clients, IdentityBegin(c)
  PROVE  \E op \in TxOps, S \in SUBSET Users, add \in SUBSET Roles, del \in SUBSET Roles :
           Read(c, op, S, add, del)
<1> USE DEF TxOps, Changing, Revoking
<1>1. CASE ChangePassword(c)
  <2>1. PICK s \in SessionIds : Accepted(s) /\ Read(c, "password", {sessions[s].user}, {}, {})
    BY <1>1 DEF ChangePassword
  <2>2. sessions[s].user \in Users
    BY <2>1 DEF Accepted, Live, SessionInv, IdentityTypeOK, Session
  <2> QED BY <2>1, <2>2
<1>2. CASE \E r \in Roles : ChangeRole(c, r)
  <2>1. PICK r \in Roles : Read(c, "role", Holders(r), {}, {}) BY <1>2 DEF ChangeRole
  <2>2. Holders(r) \in SUBSET Users BY DEF Holders
  <2> QED BY <2>1, <2>2
<1>3. ASSUME NEW u \in Users, NEW R \in SUBSET Roles, BindRoles(c, u, R)
      PROVE  \E op \in TxOps, S \in SUBSET Users, add \in SUBSET Roles, del \in SUBSET Roles :
               Read(c, op, S, add, del)
  <2>1. R \ held[u] \in SUBSET Roles /\ held[u] \ R \in SUBSET Roles
    BY DEF SessionInv, IdentityTypeOK
  <2>2. Read(c, "roles", {u}, R \ held[u], held[u] \ R) BY <1>3 DEF BindRoles
  <2> QED BY <2>1, <2>2
<1>4. ASSUME NEW u \in Users,
             \/ LoginLocal(c, u) \/ LoginOidc(c, u) \/ LoginFails(c, u)
             \/ ResetPassword(c, u) \/ Bind(c, u) \/ DeleteUser(c, u)
             \/ \E b \in BOOLEAN : SetActive(c, u, b)
      PROVE  \E op \in TxOps : Read(c, op, {u}, {}, {})
  BY <1>4 DEF LoginLocal, LoginOidc, LoginFails, ResetPassword, Bind, DeleteUser, SetActive
<1> QED BY <1>1, <1>2, <1>3, <1>4 DEF IdentityBegin

LEMMA TxBeginKeeps ==
  ASSUME SessionInv, NEW c \in Clients, IdentityBegin(c)
  PROVE  SessionInv'
BY TxBegins, SeenKeeps

-----------------------------------------------------------------------------
(* No other component writes the rows of Identity. *)
LEMMA SessionInvNext ==
  ASSUME SessionInv, [Next]_vars
  PROVE  SessionInv'
<1>1. CASE IdentityNext
  <2>1. CASE \E c \in Clients : IdentityBegin(c) \/ IdentityEnd(c) \/ BreakTx(c)
    BY <2>1, TxBeginKeeps, OpenKeeps, CountKeeps, ChangeKeeps, DeleteKeeps, AbandonKeeps
    DEF IdentityEnd
  <2>2. CASE IdentityAtOnce BY <2>2, CreateKeeps, CloseSessionsKeeps, StatusKeeps DEF IdentityAtOnce
  <2> QED BY <1>1, <2>1, <2>2, ElapseKeeps DEF IdentityNext
<1>2. CASE UNCHANGED identityVars
  BY <1>2 DEF identityVars, SessionInv, IdentityTypeOK, VersionsCount, ReadersAgree,
              SessionsAgree, Exists
<1> QED BY <1>1, <1>2 DEF Next, ByIdentity, BySkills, ByAgents, ByTeams, vars

LEMMA SessionInvariant == Spec => []SessionInv
<1>1. Init => SessionInv BY SessionInvInit DEF Init
<1>2. SessionInv /\ [Next]_vars => SessionInv' BY SessionInvNext
<1> QED BY <1>1, <1>2, PTL DEF Spec

(* A session that is let in has the version of its user's row, and that counts
   the changes whose handlers increment it: so the login that opened it saw the
   last of those.  For any number of users, roles, sessions, overlapping logins
   and changes, and faults.  The changes that increment nothing (silent) are not
   among them. *)
THEOREM SessionsEnd == Spec => []SessionsDieWithChange
<1>1. SessionInv => SessionsDieWithChange
  <2> SUFFICES ASSUME SessionInv, NEW s \in SessionIds, sessions[s] # None, Accepted(s),
                      sessions[s].user \notin overlapped
               PROVE  sessions[s].asOf = counted[sessions[s].user]
    BY DEF SessionsDieWithChange
  <2>1. sessions[s].user \in Users BY DEF SessionInv, IdentityTypeOK, Session
  <2> QED BY <2>1 DEF SessionInv, VersionsCount, SessionsAgree, Accepted, Stale
<1> QED BY <1>1, SessionInvariant, PTL
=============================================================================
