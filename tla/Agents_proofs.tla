---------------------------- MODULE Agents_proofs ----------------------------
(***************************************************************************)
(* Proofs about the agents for any number of agents, clients, requests and *)
(* faults: the default stays usable, and workspaces agree with rows.       *)
(*                                                                         *)
(* The invariant says what a request relies on from one of its steps to    *)
(* the next.  While it has the row of its agent locked the row is what it  *)
(* read, and the default is not its agent if it turns it off.  The files   *)
(* are not locked: a workspace may have been made by a creation, written   *)
(* by an update, or moved away by a deletion, perhaps by a deletion and    *)
(* then a creation, but by no other two at once.                           *)
(***************************************************************************)
EXTENDS Skills_proofs

(* A client has one request; it is of one component, or it is of teams and has
   an agent read for it. *)
OneRequest ==
  /\ DOMAIN txs = Clients /\ DOMAIN edits = Clients
  /\ tasks = [c \in Clients |-> tasks[c]] /\ DOMAIN works = Clients
  /\ \A c \in Clients :
       /\ c \notin busy => txs[c] = None /\ edits[c] = None /\ tasks[c] = None /\ works[c] = None
       /\ txs[c] # None => edits[c] = None /\ tasks[c] = None /\ works[c] = None
       /\ edits[c] # None => tasks[c] = None /\ works[c] = None
       /\ tasks[c] # None /\ tasks[c].op # "call" => works[c] = None

(* Where a request can be. *)
Ensuring == {"repair", "row", "pointer", "adopt", "target"}
Changes == {"agent.update", "agent.migrate", "agent.enable", "agent.pin", "agent.delete"}
Ops == Changes \cup {"agent.get", "agent.create", "agent.copy", "call"}
PlacesOf(op) ==
  CASE op = "agent.get" -> {"read"}
    [] op = "call" -> {"read", "done", "failed"}
    [] op = "agent.create" -> {"check", "bind", "mkdir", "commit", "restore"}
    [] op = "agent.copy" -> {"lock", "check", "bind", "mkdir", "commit", "restore"}
    [] op = "agent.update" -> {"lock", "bind", "guard", "file", "commit", "restore"}
    [] op = "agent.migrate" -> {"lock", "bind", "guard", "commit", "restore"}
    [] op = "agent.enable" -> {"lock", "guard", "commit", "restore"}
    [] op = "agent.pin" -> {"lock", "commit", "restore"}
    [] op = "agent.delete" -> {"lock", "quarantine", "guard", "commit", "restore"}
IsTask(t) ==
  t = [op |-> t.op, at |-> t.at, after |-> t.after, agent |-> t.agent, new |-> t.new,
       cfg |-> t.cfg, ver |-> t.ver, tries |-> t.tries, was |-> t.was,
       row |-> t.row]
OnItsWay(t) ==
  /\ IsTask(t) /\ t.op \in Ops
  /\ t.at \in Ensuring \cup PlacesOf(t.op) /\ t.after \in PlacesOf(t.op) \cap {"read", "check", "lock"}
  /\ t.op # "call" => t \in AgentTask

(* What it relies on. *)
Holds(t) == t.op \in Changes /\ t.at \in {"bind", "guard", "quarantine", "file", "commit"}
RowFits(t) ==
  /\ t.op \in {"agent.update", "agent.migrate"} /\ t.at = "bind" => t.row = agents[t.agent]
  /\ t.op \in {"agent.enable", "agent.migrate", "agent.pin"} /\ t.at \in {"guard", "commit"} =>
       /\ t.row \in Agent
       /\ t.row.common = agents[t.agent].common /\ t.row.text = agents[t.agent].text
       /\ t.op # "agent.enable" => t.row.on = agents[t.agent].on
  /\ t.op = "agent.update" /\ t.at \in {"guard", "file", "commit"} =>
       t.row \in Agent /\ t.row.common = agents[t.agent].common /\ t.row.text = t.cfg.text
  /\ t.op = "agent.delete" => t.row = None /\ (t.at = "commit" => t.agent # Builtin)
  /\ Creates(t) => /\ t.was = None
                   /\ t.at \in {"bind", "mkdir", "commit", "restore"} => t.new # Builtin
                   /\ t.at \in {"mkdir", "commit"} => t.row \in Agent /\ t.row.text = t.cfg.text
TaskFits(t, c) ==
  /\ OnItsWay(t)
  /\ t.at = "row" => Known(Builtin) \/ spaces[Builtin] = StdText
  /\ t.at \notin {"repair", "row"} => Known(Builtin)
  /\ Holds(t) => rowLock[t.agent] = c /\ Known(t.agent)
  /\ RowFits(t)
  /\ Holds(t) /\ t.at \in {"file", "commit"} /\ TurnsOff(t) => pointer.at # t.agent

(* Who is at work on the workspace of an agent, and what is there then. *)
Touches(t, a) == t # None /\ MovesFiles(t) /\ t.agent = a /\ t.at \notin Ensuring \cup {"lock"}
Makes(t, a) == t # None /\ Creates(t) /\ t.new = a /\ t.at \in {"commit", "restore"}
Takes(t, a) ==
  t # None /\ t.op = "agent.delete" /\ t.agent = a /\ t.at \in {"guard", "commit", "restore"}
Writes(t, a) == t # None /\ t.op = "agent.update" /\ t.agent = a /\ t.at \in {"commit", "restore"}
AtPeace(a) ==
  \/ spaces[a] = IF Known(a) THEN agents[a].text ELSE None
  \/ a = Builtin /\ ~Known(a) /\ spaces[a] \in {None, StdText}
SpaceFits(a) ==
  /\ \A c, d \in Clients : Touches(tasks[c], a) /\ Touches(tasks[d], a) => c = d
  /\ \A c \in Clients : Touches(tasks[c], a) => Known(a)
  /\ \A c, d \in Clients : Makes(tasks[c], a) /\ Makes(tasks[d], a) => c = d
  /\ \A c \in Clients : Makes(tasks[c], a) =>
       /\ spaces[a] = tasks[c].cfg.text
       /\ Known(a) => \E d \in Clients : Takes(tasks[d], a)
  /\ \A c \in Clients : Takes(tasks[c], a) =>
       /\ tasks[c].was = agents[a].text
       /\ spaces[a] = None \/ a = Builtin \/ \E d \in Clients : Makes(tasks[d], a)
  /\ \A c \in Clients : Writes(tasks[c], a) =>
       tasks[c].was = agents[a].text /\ spaces[a] = tasks[c].cfg.text
  /\ (\A c \in Clients : ~Makes(tasks[c], a) /\ ~Takes(tasks[c], a) /\ ~Writes(tasks[c], a)) =>
       AtPeace(a)

TasksFit == \A c \in Clients : tasks[c] # None => TaskFits(tasks[c], c)
SpacesFit == \A a \in Agents \ unrestored : SpaceFits(a)
Found == Builtin \in unrestored => Known(Builtin)
AgentInv == OneRequest /\ AgentTypeOK /\ TasksFit /\ SpacesFit /\ Found

LEMMA AgentInvInit ==
  ASSUME Init
  PROVE  AgentInv
<1>1. OneRequest BY DEF Init, RequestInit, IdentityInit, SkillInit, AgentInit, TeamInit, OneRequest
<1>2. PICK from \in DOMAIN Catalogs :
        agents = Catalogs[from].agents /\ pointer = Catalogs[from].pointer
  BY AgentAssumption DEF Init, RequestInit, AgentInit
<1>3. agents \in [Agents -> Agent \cup {None}] /\ pointer \in Pointer BY <1>2, AgentAssumption
<1>4. \A a \in Agents : agents[a] # None => agents[a].text \in Texts BY <1>3 DEF Agent
<1>5. AgentTypeOK BY <1>3, <1>4 DEF AgentTypeOK, Init, AgentInit
<1>6. TasksFit BY DEF TasksFit, Init, AgentInit
<1>7. \A c \in Clients : tasks[c] = None BY DEF Init, AgentInit
<1>8. SpacesFit
  BY <1>7 DEF SpacesFit, SpaceFits, AtPeace, Touches, Makes, Takes, Writes, Known, Init, AgentInit
<1>9. Found BY DEF Found, Init, AgentInit
<1> QED BY <1>1, <1>5, <1>6, <1>8, <1>9 DEF AgentInv

-----------------------------------------------------------------------------
(* One request at a time *)

LEMMA IdentitySteps ==
  ASSUME IdentityNext
  PROVE  \/ busy' = busy /\ txs' = txs
         \/ \E c \in Clients : /\ txs' = [txs EXCEPT ![c] = txs'[c]]
                               /\ c \notin busy /\ busy' = busy \cup {c}
         \/ \E c \in Clients : /\ txs' = [txs EXCEPT ![c] = None]
                               /\ txs[c] # None /\ busy' = busy \ {c}
<1>1. CASE IdentityAtOnce
  BY <1>1 DEF IdentityAtOnce, CreateUser, SetRoleStatus, DeleteRole, GrantPermission, SetProjectStatus,
     CloseSessions, AtOnce
<1>2. CASE \E u \in Users : LockElapses(u) BY <1>2 DEF LockElapses, GoesOn, requestVars
<1>3. ASSUME NEW c \in Clients, IdentityBegin(c)
      PROVE  /\ \E t : txs' = [txs EXCEPT ![c] = t]
             /\ c \notin busy /\ busy' = busy \cup {c}
  <2>1. PICK op, S, add, del : Read(c, op, S, add, del)
    BY <1>3 DEF IdentityBegin, ChangePassword, LoginLocal, LoginOidc, LoginFails, ResetPassword,
       Bind, DeleteUser, SetActive, BindRoles, ChangeRole
  <2> QED BY <2>1 DEF Read, Begins
<1>4. ASSUME NEW c \in Clients, IdentityEnd(c) \/ BreakTx(c)
      PROVE  txs' = [txs EXCEPT ![c] = None] /\ txs[c] # None /\ busy' = busy \ {c}
  BY <1>4 DEF IdentityEnd, OpenSession, CountFailure, Commit, CommitDelete, Abandon, BreakTx,
     Ends, BreaksOff
<1>5. ASSUME NEW c \in Clients, NEW t, txs' = [txs EXCEPT ![c] = t]
      PROVE  txs' = [txs EXCEPT ![c] = txs'[c]]
  BY <1>5
<1> QED BY <1>1, <1>2, <1>3, <1>4, <1>5 DEF IdentityNext

LEMMA SkillSteps ==
  ASSUME SkillNext
  PROVE  \/ busy' = busy /\ edits' = edits
         \/ \E c \in Clients : \E e : /\ edits' = [edits EXCEPT ![c] = e] /\ c \notin busy
                                      /\ busy' = busy \cup {c}
         \/ \E c \in Clients : \E e : /\ edits' = [edits EXCEPT ![c] = e] /\ edits[c] # None
                                      /\ busy' = busy
         \/ \E c \in Clients : /\ edits' = [edits EXCEPT ![c] = None]
                               /\ edits[c] # None /\ busy' = busy \ {c}
<1>1. CASE \E k \in Skills, b \in BOOLEAN : SetAvailable(k, b) BY <1>1 DEF SetAvailable, AtOnce
<1>2. CASE \E c \in Clients : SkillBegin(c)
  BY <1>2 DEF SkillBegin, BeginEdit, BeginPublish, Begins
<1>3. ASSUME NEW c \in Clients, RefuseEdit(c) \/ RefusePublish(c) \/ ReplayPublish(c)
                                \/ CommitEdit(c) \/ CommitPublish(c) \/ BreakEdit(c)
      PROVE  edits' = [edits EXCEPT ![c] = None] /\ edits[c] # None /\ busy' = busy \ {c}
  BY <1>3 DEF RefuseEdit, RefusePublish, ReplayPublish, CommitEdit, CommitPublish, BreakEdit,
     Closes, Ends, BreaksOff, SkillStep
<1>4. ASSUME NEW c \in Clients, PutPackage(c) \/ ReadDraft(c) \/ ReadPackage(c)
      PROVE  edits[c] # None /\ busy' = busy /\ \E e : edits' = [edits EXCEPT ![c] = e]
  BY <1>4 DEF PutPackage, ReadDraft, ReadPackage, Moves, GoesOn, requestVars, SkillStep
<1> QED BY <1>1, <1>2, <1>3, <1>4 DEF SkillNext, SkillGoesOn

LEMMA TeamBegins ==
  ASSUME NEW c \in Clients, TeamBegin(c)
  PROVE  /\ KeepTasks /\ c \notin busy /\ busy' = busy \cup {c}
         /\ \E w : works' = [works EXCEPT ![c] = w]
<1>1. PICK w : BeginWork(c, w)
  BY DEF TeamBegin, BeginSave, BeginPublication, BeginMessage, BeginAnswer, BeginSnapshot
<1> QED BY <1>1 DEF BeginWork, Begins, KeepTasks, KeepAgents, agentVars

LEMMA TeamEnds ==
  ASSUME NEW c \in Clients, EndsWork(c)
  PROVE  /\ works' = [works EXCEPT ![c] = None] /\ tasks' = [tasks EXCEPT ![c] = None]
         /\ busy' = busy \ {c}
BY DEF EndsWork, Leaves, Ends

LEMMA TeamWorks ==
  ASSUME NEW c \in Clients, TeamGoesOn(c)
  PROVE  /\ KeepAgents /\ works[c] # None
         /\ \/ EndsWork(c)
            \/ /\ busy' = busy
               /\ works' = works \/ \E w : works' = [works EXCEPT ![c] = w]
               /\ \/ tasks' = tasks
                  \/ tasks' = [tasks EXCEPT ![c] = None]
                  \/ \E a : tasks[c] = None /\ Calls(c, a)
<1>1. CASE \/ SaveTeam(c) \/ SaveRefused(c) \/ EmptyDraft(c) \/ PublishTeam(c)
           \/ TeamUnavailable(c) \/ SendMessage(c) \/ AddAnswer(c) \/ KeepSnapshot(c)
           \/ SnapshotTeam(c) \/ SnapshotAgent(c) \/ SnapshotFails(c) \/ AgentUnavailable(c)
  BY <1>1 DEF SaveTeam, SaveRefused, EmptyDraft, PublishTeam, TeamUnavailable, SendMessage,
     AddAnswer, KeepSnapshot, SnapshotTeam, SnapshotAgent, SnapshotFails, AgentUnavailable, Doing
<1>2. CASE LockTeam(c) \/ ResolveTeam(c) \/ NumberMessage(c)
  BY <1>2 DEF LockTeam, ResolveTeam, NumberMessage, WorksOn, GoesOn, requestVars, KeepTasks, Doing
<1>3. CASE CaptureMember(c) \/ ResolveAgent(c)
  BY <1>3 DEF CaptureMember, ResolveAgent, WorksOn, GoesOn, requestVars, Doing
<1>4. CASE ReadMember(c) \/ ReadActor(c) \/ ReadRunAgent(c)
  BY <1>4 DEF ReadMember, ReadActor, ReadRunAgent, WorksOn, GoesOn, requestVars, Doing, teamVars
<1> QED BY <1>1, <1>2, <1>3, <1>4 DEF TeamGoesOn

LEMMA TeamBreaks ==
  ASSUME NEW c \in Clients, BreakWork(c)
  PROVE  /\ works[c] # None /\ works' = [works EXCEPT ![c] = None]
         /\ tasks' = [tasks EXCEPT ![c] = None] /\ busy' = busy \ {c}
BY DEF BreakWork, Leaves, BreaksOff

(* What a step of an agent's request does to the request. *)
LEMMA AgentSteps ==
  ASSUME AgentInv, NEW c \in Clients, AgentGoesOn(c) \/ CommitFails(c)
  PROVE  /\ tasks[c] # None
         /\ \/ \E t : tasks' = [tasks EXCEPT ![c] = t] /\ t.op = tasks[c].op /\ busy' = busy
            \/ /\ tasks' = [tasks EXCEPT ![c] = None] /\ tasks[c].op # "call"
               /\ busy' = busy \ {c}
<1>1. tasks[c] # None => IsTask(tasks[c]) BY DEF AgentInv, TasksFit, TaskFits, OnItsWay
<1>2. CASE Finishes(c) /\ tasks[c] # None
  BY <1>1, <1>2 DEF Finishes, Reaches, Proceeds, GoesOn, requestVars, IsTask, Ends
<1>3. CASE AdoptFails(c) \/ NotFound(c) \/ ResolveFails(c) \/ SpaceTaken(c) \/ SpaceMissing(c)
           \/ RefuseChange(c) \/ CommitTask(c) \/ Restore(c)
  BY <1>2, <1>3 DEF AdoptFails, NotFound, ResolveFails, SpaceTaken, SpaceMissing, RefuseChange,
     CommitTask, Restore, Refused, At
<1>4. CASE MakeBuiltin(c) \/ RepairBuiltin(c) \/ ReadPointer(c) \/ LockPointer(c)
           \/ AdoptAgain(c) \/ Adopt(c)
  BY <1>1, <1>4 DEF MakeBuiltin, RepairBuiltin, ReadPointer, LockPointer, AdoptAgain, Adopting,
     Adopt, At, Reaches, Proceeds, GoesOn, requestVars, IsTask
<1>5. CASE ReadAgent(c)
  BY <1>1, <1>2, <1>5 DEF ReadAgent, At, Proceeds, GoesOn, requestVars, IsTask
<1>6. CASE LockAgent(c)
  <2>1. Locked(tasks[c]).op = tasks[c].op
    BY <1>1, <1>6 DEF Locked, IsTask, LockAgent, At, AgentInv, TasksFit, TaskFits, OnItsWay,
       PlacesOf, Ops, Changes, Ensuring
  <2> QED BY <1>6, <2>1 DEF LockAgent, At, Proceeds, GoesOn, requestVars
<1>7. CASE Resolve(c)
  <2>1. Bound(tasks[c]).op = tasks[c].op BY <1>1, <1>7 DEF Bound, IsTask, Resolve, At
  <2> QED BY <1>7, <2>1 DEF Resolve, At, Proceeds, GoesOn, requestVars
<1>8. CASE CheckId(c) \/ MakeSpace(c) \/ Quarantine(c) \/ PassGuard(c) \/ WriteSpace(c)
  BY <1>1, <1>8 DEF CheckId, MakeSpace, Quarantine, PassGuard, WriteSpace, At, Reaches, Proceeds,
     GoesOn, requestVars, IsTask
<1>9. CASE RefuseDelete(c) \/ Duplicate(c) \/ CommitFails(c)
  BY <1>1, <1>9 DEF RefuseDelete, Duplicate, CommitFails, RollsBack, At, GoesOn, requestVars, IsTask
<1> QED BY <1>3, <1>4, <1>5, <1>6, <1>7, <1>8, <1>9 DEF AgentGoesOn

LEMMA AgentBreaks ==
  ASSUME NEW c \in Clients, BreakTask(c)
  PROVE  /\ tasks[c] # None /\ tasks[c].op # "call"
         /\ tasks' = [tasks EXCEPT ![c] = None] /\ busy' = busy \ {c}
BY DEF BreakTask, BreaksOff

LEMMA OneRequestStep ==
  ASSUME AgentInv, [Next]_vars
  PROVE  OneRequest'
<1> USE DEF OneRequest
<1>1. OneRequest BY DEF AgentInv
<1>2. CASE UNCHANGED vars
  BY <1>1, <1>2 DEF vars, requestVars, identityVars, skillVars, agentVars, teamVars
<1>3. CASE ByIdentity(IdentityNext)
  BY <1>1, <1>3, IdentitySteps DEF ByIdentity, skillVars, agentVars, teamVars
<1>4. CASE BySkills(SkillNext)
  BY <1>1, <1>4, SkillSteps DEF BySkills, identityVars, agentVars, teamVars
<1>5. CASE ByAgents(AgentNext)
  <2>1. txs' = txs /\ edits' = edits /\ works' = works
    BY <1>5 DEF ByAgents, identityVars, skillVars, teamVars
  <2>2. ASSUME NEW c \in Clients, AgentBegin(c)
        PROVE  OneRequest'
    <3>1. PICK op, a, new, cfg : BeginTask(c, op, a, new, cfg) BY <2>2 DEF AgentBegin
    <3> QED BY <1>1, <2>1, <3>1 DEF BeginTask, Begins
  <2>3. ASSUME NEW c \in Clients, AgentGoesOn(c) \/ CommitFails(c)
        PROVE  OneRequest'
    BY <1>1, <2>1, <2>3, AgentSteps
  <2>4. ASSUME NEW c \in Clients, BreakTask(c)
        PROVE  OneRequest'
    BY <1>1, <2>1, <2>4, AgentBreaks
  <2> QED BY <1>5, <2>2, <2>3, <2>4 DEF ByAgents, AgentNext
<1>6. CASE ByTeams(TeamNext)
  <2>1. txs' = txs /\ edits' = edits BY <1>6 DEF ByTeams, identityVars, skillVars
  <2>2. ASSUME NEW c \in Clients, TeamBegin(c)
        PROVE  OneRequest'
    BY <1>1, <2>1, <2>2, TeamBegins DEF KeepTasks
  <2>3. ASSUME NEW c \in Clients, TeamGoesOn(c)
        PROVE  OneRequest'
    <3>1. CASE EndsWork(c) BY <1>1, <2>1, <2>3, <3>1, TeamWorks, TeamEnds
    <3>2. CASE ~EndsWork(c)
      BY <1>1, <2>1, <2>3, <3>2, TeamWorks DEF Calls, Task
    <3> QED BY <3>1, <3>2
  <2>4. ASSUME NEW c \in Clients, BreakWork(c)
        PROVE  OneRequest'
    BY <1>1, <2>1, <2>4, TeamBreaks
  <2>5. CASE \E t \in Teams : CreateTeam(t) \/ \E b \in BOOLEAN : EnableTeam(t, b)
    BY <1>1, <2>1, <2>5 DEF CreateTeam, EnableTeam, AtOnce, KeepTasks
  <2> QED BY <1>6, <2>2, <2>3, <2>4, <2>5 DEF ByTeams, TeamNext
<1> QED BY <1>2, <1>3, <1>4, <1>5, <1>6 DEF Next

-----------------------------------------------------------------------------
(* What the steps of one request leave to the others. *)
Frame(c) ==
  /\ unrestored \subseteq unrestored'
  /\ tasks' = [tasks EXCEPT ![c] = tasks'[c]]
  /\ Known(Builtin) => Known(Builtin)'
  /\ spaces[Builtin] = StdText => Known(Builtin)' \/ spaces'[Builtin] = StdText
  /\ \A a \in Agents : rowLock[a] \in Clients \ {c} =>
       /\ rowLock'[a] = rowLock[a]
       /\ Known(a) => agents'[a] = agents[a]
       /\ pointer'.at = a => pointer.at = a

LEMMA Own ==
  ASSUME NEW t, OnItsWay(t), t.op # "call"
  PROVE  /\ t # None /\ t.agent \in Agents /\ t.new \in Agents /\ t.cfg \in Config
         /\ t.ver \in Nat /\ t.tries \in Nat /\ t.was \in Texts \cup {None}
         /\ t.row \in Agent \cup {None}
BY AgentAssumption DEF OnItsWay, AgentTask

LEMMA HolderActs ==
  ASSUME NEW t, OnItsWay(t), Holds(t)
  PROVE  t.op # "call" /\ t.agent \in Agents /\ t.at \notin Ensuring
BY Own DEF Holds, Changes, Ensuring

LEMMA FrameKeeps ==
  ASSUME AgentInv, NEW c \in Clients, Frame(c), (tasks[c] # None => TaskFits(tasks[c], c))'
  PROVE  TasksFit'
<1>1. ASSUME NEW d \in Clients, d # c, tasks[d] # None
      PROVE  TaskFits(tasks[d], d)'
  <2> DEFINE t == tasks[d]
  <2>1. TaskFits(t, d) BY <1>1 DEF AgentInv, TasksFit
  <2>2. tasks'[d] = t BY <1>1 DEF Frame, AgentInv, OneRequest
  <2>3. OnItsWay(t)' BY <2>1, <2>2 DEF TaskFits, OnItsWay, IsTask
  <2>4. t.at = "row" => (Known(Builtin) \/ spaces[Builtin] = StdText)'
    BY <2>1 DEF TaskFits, Frame
  <2>5. t.at \notin {"repair", "row"} => Known(Builtin)' BY <2>1 DEF TaskFits, Frame
  <2>6. ASSUME Holds(t)
        PROVE  /\ rowLock[t.agent] = d /\ rowLock'[t.agent] = d
               /\ Known(t.agent) /\ agents'[t.agent] = agents[t.agent]
               /\ pointer'.at = t.agent => pointer.at = t.agent
    BY <1>1, <2>1, <2>6, HolderActs DEF TaskFits, Frame
  <2>7. RowFits(t) BY <2>1 DEF TaskFits
  <2>8. RowFits(t)'
    <3>1. CASE Holds(t)
      BY <2>2, <2>6, <2>7, <3>1 DEF RowFits, Creates
    <3>2. CASE ~Holds(t)
      BY <2>2, <2>7, <3>2 DEF RowFits, Creates, Holds, Changes
    <3> QED BY <3>1, <3>2
  <2>9. Holds(t) => rowLock'[t.agent] = d /\ Known(t.agent)' BY <2>2, <2>6 DEF Known
  <2>10. Holds(t) /\ t.at \in {"file", "commit"} /\ TurnsOff(t) => pointer'.at # t.agent
    BY <2>1, <2>6 DEF TaskFits
  <2> QED BY <2>2, <2>3, <2>4, <2>5, <2>8, <2>9, <2>10 DEF TaskFits, Holds, TurnsOff
<1>2. \A d \in Clients : d # c => tasks'[d] = tasks[d] BY DEF Frame, AgentInv, OneRequest
<1> QED BY <1>1, <1>2 DEF TasksFit

(* A request that does the same for the workspace of an agent as before. *)
SameRole(t, u, a) ==
  /\ Touches(u, a) => Touches(t, a)
  /\ Makes(t, a) <=> Makes(u, a)
  /\ Takes(t, a) <=> Takes(u, a)
  /\ Writes(t, a) <=> Writes(u, a)
  /\ Makes(u, a) \/ Takes(u, a) \/ Writes(u, a) => t.was = u.was /\ t.cfg = u.cfg

LEMMA SpaceKeeps ==
  ASSUME AgentInv, NEW c \in Clients, Frame(c), NEW a \in Agents, a \notin unrestored',
         spaces'[a] = spaces[a], Known(a)' = Known(a),
         Known(a) => agents'[a].text = agents[a].text,
         SameRole(tasks[c], tasks'[c], a)
  PROVE  SpaceFits(a)'
<1>1. SpaceFits(a) BY DEF AgentInv, SpacesFit, Frame
<1>2. \A d \in Clients : d # c => tasks'[d] = tasks[d] BY DEF Frame, AgentInv, OneRequest
<1>3. \A d \in Clients : SameRole(tasks[d], tasks'[d], a)
  BY <1>2 DEF SameRole
<1>4. AtPeace(a) => AtPeace(a)' BY DEF AtPeace
<1>5. \A d \in Clients : /\ Touches(tasks[d], a)' <=> Touches(tasks'[d], a)
                         /\ Makes(tasks[d], a)' <=> Makes(tasks'[d], a)
                         /\ Takes(tasks[d], a)' <=> Takes(tasks'[d], a)
                         /\ Writes(tasks[d], a)' <=> Writes(tasks'[d], a)
  BY DEF Touches, Makes, Takes, Writes, MovesFiles, Creates
<1>6. \A d \in Clients : Touches(tasks'[d], a) => Touches(tasks[d], a) BY <1>3 DEF SameRole
<1>7. \A d \in Clients : /\ Makes(tasks'[d], a) <=> Makes(tasks[d], a)
                         /\ Takes(tasks'[d], a) <=> Takes(tasks[d], a)
                         /\ Writes(tasks'[d], a) <=> Writes(tasks[d], a)
  BY <1>3 DEF SameRole
<1>8. \A d \in Clients : Makes(tasks'[d], a) \/ Takes(tasks'[d], a) \/ Writes(tasks'[d], a) =>
        tasks'[d].was = tasks[d].was /\ tasks'[d].cfg = tasks[d].cfg
  BY <1>3 DEF SameRole
<1>9. \A d \in Clients : Takes(tasks[d], a) \/ Writes(tasks[d], a) => Known(a)
  BY <1>1 DEF SpaceFits, Touches, Takes, Writes, MovesFiles, Ensuring
<1> HIDE DEF Touches, Makes, Takes, Writes, SameRole, AtPeace, Known
<1> QED BY <1>1, <1>4, <1>5, <1>6, <1>7, <1>8, <1>9 DEF SpaceFits

(* Steps that change no row, no workspace and no default. *)
LocksKept(c) ==
  /\ rowLock' \in [Agents -> Clients \cup {None}] /\ pointerLock' \in Clients \cup {None}
  /\ \A a \in Agents : rowLock[a] \in Clients \ {c} => rowLock'[a] = rowLock[a]
Quiet(c) == UNCHANGED <<unrestored, agents, spaces, pointer>> /\ LocksKept(c)

LEMMA ReleasesKeeps ==
  ASSUME AgentInv, NEW c \in Clients, Releases(c)
  PROVE  LocksKept(c)
<1>1. None \notin Clients BY AgentAssumption
<1> QED BY <1>1 DEF Releases, RowsWithout, PointerWithout, LocksKept, AgentInv, AgentTypeOK

LEMMA SameKeeps ==
  ASSUME AgentInv, NEW c \in Clients, UNCHANGED rowLock, pointerLock' \in Clients \cup {None}
  PROVE  LocksKept(c)
BY DEF LocksKept, AgentInv, AgentTypeOK

LEMMA QuietKeeps ==
  ASSUME AgentInv, NEW c \in Clients, Quiet(c), tasks' = [tasks EXCEPT ![c] = tasks'[c]],
         (tasks[c] # None => TaskFits(tasks[c], c))',
         \A a \in Agents : SameRole(tasks[c], tasks'[c], a)
  PROVE  AgentTypeOK' /\ TasksFit' /\ SpacesFit'
<1>1. Frame(c) BY DEF Quiet, LocksKept, Frame, Known
<1>2. AgentTypeOK' BY DEF Quiet, LocksKept, AgentInv, AgentTypeOK
<1>3. TasksFit' BY <1>1, FrameKeeps
<1>4. SpacesFit'
  <2>2. ASSUME NEW a \in Agents, a \notin unrestored'
        PROVE  SpaceFits(a)'
    <3>1. spaces'[a] = spaces[a] /\ agents'[a] = agents[a] /\ Known(a)' = Known(a)
      BY DEF Quiet, Known
    <3> QED BY <1>1, <2>2, <3>1, SpaceKeeps
  <2> QED BY <2>2 DEF SpacesFit
<1> QED BY <1>2, <1>3, <1>4

LEMMA FitsPrimed ==
  ASSUME NEW c \in Clients, NEW u, tasks'[c] = u, u # None => TaskFits(u, c)'
  PROVE  (tasks[c] # None => TaskFits(tasks[c], c))'
BY DEF TaskFits, OnItsWay, IsTask, RowFits, Holds, TurnsOff, Creates

LEMMA QuietMove ==
  ASSUME AgentInv, NEW c \in Clients, Quiet(c), NEW u, tasks' = [tasks EXCEPT ![c] = u],
         u # None => TaskFits(u, c)', \A a \in Agents : SameRole(tasks[c], u, a)
  PROVE  AgentTypeOK' /\ TasksFit' /\ SpacesFit'
<1>1. tasks'[c] = u BY DEF AgentInv, OneRequest
<1>2. (tasks[c] # None => TaskFits(tasks[c], c))' BY <1>1, FitsPrimed
<1> QED BY <1>1, <1>2, QuietKeeps

Early == Ensuring \cup {"lock", "check", "read", "done", "failed"}
LEMMA EarlyFits ==
  ASSUME NEW u, NEW c, OnItsWay(u), u.at \in Early,
         u.op = "agent.delete" => u.row = None, Creates(u) => u.was = None,
         u.at = "row" => Known(Builtin)' \/ spaces'[Builtin] = StdText,
         u.at \notin {"repair", "row"} => Known(Builtin)'
  PROVE  TaskFits(u, c)'
BY DEF TaskFits, OnItsWay, IsTask, RowFits, Holds, Creates, Early, Ensuring

(* What is known of a request that is at some place. *)
LEMMA Acting ==
  ASSUME AgentInv, NEW c \in Clients, tasks[c] # None
  PROVE  /\ TaskFits(tasks[c], c) /\ OnItsWay(tasks[c]) /\ IsTask(tasks[c])
         /\ tasks[c].op = "agent.delete" => tasks[c].row = None
         /\ Creates(tasks[c]) => tasks[c].was = None
         /\ None \notin Clients /\ None \notin Agents /\ None \notin Texts /\ None \notin Agent
         /\ Builtin \in Agents
BY AgentAssumption DEF AgentInv, TasksFit, TaskFits, OnItsWay, RowFits

(* The same request at another place. *)
Carries(t, u, p) ==
  /\ OnItsWay(u) /\ u.at = p /\ u.op = t.op /\ u.agent = t.agent /\ u.new = t.new
  /\ u.cfg = t.cfg /\ u.was = t.was /\ u.row = t.row
LEMMA WayOn ==
  ASSUME NEW t, OnItsWay(t), NEW p \in Ensuring \cup PlacesOf(t.op), NEW v, NEW n,
         t.op # "call" => v \in Nat /\ n \in Nat
  PROVE  /\ Carries(t, [t EXCEPT !.at = p], p)
         /\ Carries(t, [t EXCEPT !.at = p, !.ver = v], p)
         /\ Carries(t, [t EXCEPT !.at = p, !.tries = n], p)
<1>1. PICK op, at, after, agent, new, cfg, ver, tries, was, row :
        t = [op |-> op, at |-> at, after |-> after, agent |-> agent, new |-> new, cfg |-> cfg,
             ver |-> ver, tries |-> tries, was |-> was, row |-> row]
  BY DEF OnItsWay, IsTask
<1>2. [t EXCEPT !.at = p] =
        [op |-> op, at |-> p, after |-> after, agent |-> agent, new |-> new, cfg |-> cfg,
         ver |-> ver, tries |-> tries, was |-> was, row |-> row]
  BY <1>1
<1>3. [t EXCEPT !.at = p, !.ver = v] =
        [op |-> op, at |-> p, after |-> after, agent |-> agent, new |-> new, cfg |-> cfg,
         ver |-> v, tries |-> tries, was |-> was, row |-> row]
  <2>1. [t EXCEPT !.at = p, !.ver = v] = [[t EXCEPT !.at = p] EXCEPT !.ver = v] OBVIOUS
  <2>2. \A r : r = [op |-> op, at |-> p, after |-> after, agent |-> agent, new |-> new, cfg |-> cfg,
           ver |-> ver, tries |-> tries, was |-> was, row |-> row] =>
          [r EXCEPT !.ver = v] =
          [op |-> op, at |-> p, after |-> after, agent |-> agent, new |-> new, cfg |-> cfg,
           ver |-> v, tries |-> tries, was |-> was, row |-> row]
    OBVIOUS
  <2> QED BY <1>2, <2>1, <2>2
<1>4. [t EXCEPT !.at = p, !.tries = n] =
        [op |-> op, at |-> p, after |-> after, agent |-> agent, new |-> new, cfg |-> cfg,
         ver |-> ver, tries |-> n, was |-> was, row |-> row]
  <2>1. [t EXCEPT !.at = p, !.tries = n] = [[t EXCEPT !.at = p] EXCEPT !.tries = n] OBVIOUS
  <2>2. \A r : r = [op |-> op, at |-> p, after |-> after, agent |-> agent, new |-> new, cfg |-> cfg,
           ver |-> ver, tries |-> tries, was |-> was, row |-> row] =>
          [r EXCEPT !.tries = n] =
          [op |-> op, at |-> p, after |-> after, agent |-> agent, new |-> new, cfg |-> cfg,
           ver |-> ver, tries |-> n, was |-> was, row |-> row]
    OBVIOUS
  <2> QED BY <1>2, <2>1, <2>2
<1>5. op \in Ops /\ p \in Ensuring \cup PlacesOf(op) /\ after \in PlacesOf(op) \cap {"read", "check", "lock"}
      /\ (op # "call" => t \in AgentTask)
  BY <1>1 DEF OnItsWay
<1>s. op # "call" => op \in AgentOps /\ p \in Places
  BY <1>1, <1>5 DEF Ops, Changes, Ensuring, PlacesOf, AgentOps, Places
<1>r. ASSUME op # "call"
      PROVE  /\ [t EXCEPT !.at = p] \in AgentTask
             /\ [t EXCEPT !.at = p, !.ver = v] \in AgentTask
             /\ [t EXCEPT !.at = p, !.tries = n] \in AgentTask
  <2>1. /\ after \in {"read", "check", "lock"} /\ agent \in Agents /\ new \in Agents
        /\ cfg \in Config /\ ver \in Nat /\ tries \in Nat /\ was \in Texts \cup {None}
        /\ row \in Agent \cup {None} /\ v \in Nat /\ n \in Nat
    BY <1>1, <1>5, <1>r DEF AgentTask
  <2>2. [t EXCEPT !.at = p] \in AgentTask BY <1>2, <1>s, <1>r, <2>1 DEF AgentTask
  <2>3. [t EXCEPT !.at = p, !.ver = v] \in AgentTask BY <1>3, <1>s, <1>r, <2>1 DEF AgentTask
  <2>4. [t EXCEPT !.at = p, !.tries = n] \in AgentTask BY <1>4, <1>s, <1>r, <2>1 DEF AgentTask
  <2> QED BY <2>2, <2>3, <2>4
<1>6. Carries(t, [t EXCEPT !.at = p], p) BY <1>1, <1>2, <1>5, <1>r DEF Carries, OnItsWay, IsTask
<1>7. Carries(t, [t EXCEPT !.at = p, !.ver = v], p) BY <1>1, <1>3, <1>5, <1>r DEF Carries, OnItsWay, IsTask
<1>8. Carries(t, [t EXCEPT !.at = p, !.tries = n], p) BY <1>1, <1>4, <1>5, <1>r DEF Carries, OnItsWay, IsTask
<1> QED BY <1>6, <1>7, <1>8

LEMMA BeginKeeps ==
  ASSUME AgentInv, NEW c \in Clients, AgentBegin(c)
  PROVE  AgentTypeOK' /\ TasksFit' /\ SpacesFit'
<1>1. PICK op, a, new, cfg :
        /\ BeginTask(c, op, a, new, cfg)
        /\ op \in Ops \ {"call"} /\ a \in Agents /\ new \in Agents /\ cfg \in Config
  <2>1. BuiltinConfig \in Config /\ \A b \in BOOLEAN : [BuiltinConfig EXCEPT !.on = b] \in Config
    BY AgentAssumption DEF BuiltinConfig, Config
  <2> QED BY <2>1, AgentAssumption DEF AgentBegin, Ops, Changes
<1> DEFINE p == CASE op = "agent.get" -> "read" [] op = "agent.create" -> "check" [] OTHER -> "lock"
<1>b. PICK u : u = Task(op, a, new, cfg, p) OBVIOUS
<1>2. Quiet(c) /\ tasks' = [tasks EXCEPT ![c] = u]
  BY <1>1, <1>b, SameKeeps DEF BeginTask, Quiet, AgentInv, AgentTypeOK
<1>3. OnItsWay(u)
  <2>1. p \in PlacesOf(op) \cap {"read", "check", "lock"} BY <1>1 DEF Ops, Changes, PlacesOf
  <2> HIDE DEF p
  <2>2. op \in AgentOps BY <1>1 DEF Ops, Changes, AgentOps
  <2>3. u \in AgentTask
    BY <1>1, <1>b, <2>1, <2>2, AgentAssumption DEF Task, AgentTask, Places
  <2> QED BY <1>1, <1>b, <2>1, <2>3 DEF Task, OnItsWay, IsTask, Ensuring
<1>a. u.at = "repair" /\ u.row = None /\ u.was = None BY <1>b DEF Task
<1>4. TaskFits(u, c)' BY <1>3, <1>a, EarlyFits DEF Early, Ensuring
<1>5. tasks[c] = None BY <1>1 DEF BeginTask, Begins, AgentInv, OneRequest
<1>6. \A x \in Agents : SameRole(tasks[c], u, x)
  BY <1>5, <1>a DEF SameRole, Touches, Makes, Takes, Writes, Ensuring
<1> QED BY <1>2, <1>4, <1>6, QuietMove

LEMMA EndKeeps ==
  ASSUME AgentInv, NEW c \in Clients, Quiet(c), tasks' = [tasks EXCEPT ![c] = None],
         tasks[c] = None \/ tasks[c].at \notin {"commit", "restore"},
         tasks[c] = None \/ tasks[c].at # "guard" \/ tasks[c].op # "agent.delete"
  PROVE  AgentTypeOK' /\ TasksFit' /\ SpacesFit'
<1>1. \A a \in Agents : SameRole(tasks[c], None, a)
  BY DEF SameRole, Touches, Makes, Takes, Writes
<1> QED BY <1>1, QuietMove

LEMMA RefusedKeeps ==
  ASSUME AgentInv, NEW c \in Clients, Refused(c), tasks[c] # None,
         tasks[c].at \notin {"commit", "restore", "repair", "row"},
         tasks[c].at # "guard" \/ tasks[c].op # "agent.delete"
  PROVE  AgentTypeOK' /\ TasksFit' /\ SpacesFit'
<1>1. Quiet(c) BY ReleasesKeeps DEF Refused, Finishes, Quiet
<1>2. CASE tasks[c].op # "call" BY <1>1, <1>2, EndKeeps DEF Refused, Finishes
<1>3. CASE tasks[c].op = "call"
  <2>u. PICK u : u = [tasks[c] EXCEPT !.at = "failed"] OBVIOUS
  <2>1. tasks' = [tasks EXCEPT ![c] = u] BY <1>3, <2>u DEF Refused, Finishes, Reaches, Proceeds
  <2>c. Carries(tasks[c], u, "failed") BY <1>3, <2>u, Acting, WayOn DEF PlacesOf
  <2>2. OnItsWay(u) BY <2>c DEF Carries
  <2>3. u.at = "failed" /\ u.op = "call" BY <1>3, <2>c DEF Carries
  <2>4. Known(Builtin)' BY Acting DEF TaskFits, Refused, Known
  <2>5. TaskFits(u, c)' BY <2>2, <2>3, <2>4, EarlyFits DEF Early, Creates
  <2>6. \A a \in Agents : SameRole(tasks[c], u, a)
    BY <1>3, <2>3 DEF SameRole, Touches, Makes, Takes, Writes, MovesFiles, Creates
  <2> QED BY <1>1, <2>1, <2>5, <2>6, QuietMove
<1> QED BY <1>2, <1>3

-----------------------------------------------------------------------------
(* The default is made sure of *)

LEMMA EnsureKeeps ==
  ASSUME AgentInv, NEW c \in Clients,
         ReadPointer(c) \/ LockPointer(c) \/ AdoptAgain(c)
  PROVE  AgentTypeOK' /\ TasksFit' /\ SpacesFit'
<1> DEFINE t == tasks[c]
<1>1. t # None /\ t.at \in {"pointer", "adopt", "target"}
  BY DEF ReadPointer, LockPointer, AdoptAgain, Adopting, At
<1>2. OnItsWay(t) /\ IsTask(t) /\ (t.op = "agent.delete" => t.row = None) /\ (Creates(t) => t.was = None)
  BY <1>1, Acting
<1>3. Known(Builtin) BY <1>1, Acting DEF TaskFits
<1>4. PICK u, p : /\ tasks' = [tasks EXCEPT ![c] = u] /\ Carries(t, u, p)
                  /\ p \in Early \ {"repair", "row"}
  <2>1. t.after \in PlacesOf(t.op) \cap {"read", "check", "lock"} BY <1>2 DEF OnItsWay
  <2>2. \A p \in {"adopt", "pointer", "target", t.after} :
          p \in Ensuring \cup PlacesOf(t.op) /\ p \in Early \ {"repair", "row"}
    BY <2>1 DEF Ensuring, Early
  <2>3. CASE Reaches(c, t.after) \/ Reaches(c, "target")
    <3>1. PICK p \in {t.after, "target"} : tasks' = [tasks EXCEPT ![c] = [t EXCEPT !.at = p]]
      BY <2>3 DEF Reaches, Proceeds
    <3>2. Carries(t, [t EXCEPT !.at = p], p) BY <1>2, <2>2, WayOn
    <3> QED BY <2>2, <3>1, <3>2
  <2>4. CASE tasks' = [tasks EXCEPT ![c] = [t EXCEPT !.at = "adopt", !.ver = pointer.ver]]
    <3>0. pointer.ver \in Nat /\ (t.op # "call" => t.tries \in Nat)
      BY <1>2, Own DEF AgentInv, AgentTypeOK, Pointer
    <3>1. Carries(t, [t EXCEPT !.at = "adopt", !.ver = pointer.ver], "adopt")
      BY <1>2, <2>2, <3>0, WayOn
    <3> QED BY <2>2, <2>4, <3>1
  <2>5. CASE tasks' = [tasks EXCEPT ![c] = [t EXCEPT !.at = "pointer", !.tries = @ + 1]]
    <3>0. t.op # "call" => t.ver \in Nat /\ t.tries + 1 \in Nat BY <1>2, Own
    <3>1. Carries(t, [t EXCEPT !.at = "pointer", !.tries = @ + 1], "pointer")
      BY <1>2, <2>2, <3>0, WayOn
    <3> QED BY <2>2, <2>5, <3>1
  <2> QED BY <2>3, <2>4, <2>5 DEF ReadPointer, LockPointer, AdoptAgain, Proceeds
<1>5. Quiet(c)
  <2>1. pointerLock' \in Clients \cup {None} /\ rowLock' = rowLock
    BY DEF ReadPointer, LockPointer, AdoptAgain, PointerTaken, AgentInv, AgentTypeOK
  <2>2. LocksKept(c) BY <2>1, SameKeeps
  <2> QED BY <2>2 DEF Quiet, ReadPointer, LockPointer, AdoptAgain
<1>6. Known(Builtin)' BY <1>3, <1>5 DEF Quiet, Known
<1>7. TaskFits(u, c)' BY <1>2, <1>4, <1>6, EarlyFits DEF Creates, Carries
<1>8. \A a \in Agents : SameRole(t, u, a)
  BY <1>1, <1>4 DEF Carries, SameRole, Touches, Makes, Takes, Writes, Early, Ensuring, MovesFiles,
     OnItsWay, PlacesOf, Ops, Changes
<1> QED BY <1>4, <1>5, <1>7, <1>8, QuietMove

-----------------------------------------------------------------------------
(* A request that goes on with some of its fields changed. *)
Becomes(t, u, at, after, agent, cfg, was, row) ==
  /\ IsTask(u) /\ u.op = t.op /\ u.new = t.new /\ u.at = at /\ u.after = after
  /\ u.agent = agent /\ u.cfg = cfg /\ u.was = was /\ u.row = row
  /\ u.ver = t.ver /\ u.tries = t.tries
LEMMA Fields ==
  ASSUME NEW t, IsTask(t), NEW p, NEW x, NEW y
  PROVE  /\ Becomes(t, [t EXCEPT !.at = p, !.row = x], p, t.after, t.agent, t.cfg, t.was, x)
         /\ Becomes(t, [t EXCEPT !.at = p, !.was = x], p, t.after, t.agent, t.cfg, x, t.row)
         /\ Becomes(t, [t EXCEPT !.at = p, !.agent = x, !.row = y], p, t.after, x, t.cfg, t.was, y)
         /\ Becomes(t, [t EXCEPT !.at = p, !.after = x, !.cfg = y], p, x, t.agent, y, t.was, t.row)
<1>1. PICK op, at, after, agent, new, cfg, ver, tries, was, row :
        t = [op |-> op, at |-> at, after |-> after, agent |-> agent, new |-> new, cfg |-> cfg,
           ver |-> ver, tries |-> tries, was |-> was, row |-> row]
  BY DEF IsTask
<1>2. [t EXCEPT !.at = p, !.row = x] =
          [op |-> op, at |-> p, after |-> after, agent |-> agent, new |-> new, cfg |-> cfg,
           ver |-> ver, tries |-> tries, was |-> was, row |-> x]
  <2>1. [t EXCEPT !.at = p, !.row = x] = [[t EXCEPT !.at = p] EXCEPT !.row = x] OBVIOUS
  <2>2. \A r : r = [op |-> op, at |-> at, after |-> after, agent |-> agent, new |-> new, cfg |-> cfg,
           ver |-> ver, tries |-> tries, was |-> was, row |-> row] =>
          [r EXCEPT !.at = p] =
          [op |-> op, at |-> p, after |-> after, agent |-> agent, new |-> new, cfg |-> cfg,
           ver |-> ver, tries |-> tries, was |-> was, row |-> row]
    OBVIOUS
  <2>3. \A r : r = [op |-> op, at |-> p, after |-> after, agent |-> agent, new |-> new, cfg |-> cfg,
           ver |-> ver, tries |-> tries, was |-> was, row |-> row] =>
          [r EXCEPT !.row = x] =
          [op |-> op, at |-> p, after |-> after, agent |-> agent, new |-> new, cfg |-> cfg,
           ver |-> ver, tries |-> tries, was |-> was, row |-> x]
    OBVIOUS
  <2> QED BY <1>1, <2>1, <2>2, <2>3
<1>3. [t EXCEPT !.at = p, !.was = x] =
          [op |-> op, at |-> p, after |-> after, agent |-> agent, new |-> new, cfg |-> cfg,
           ver |-> ver, tries |-> tries, was |-> x, row |-> row]
  <2>1. [t EXCEPT !.at = p, !.was = x] = [[t EXCEPT !.at = p] EXCEPT !.was = x] OBVIOUS
  <2>2. \A r : r = [op |-> op, at |-> at, after |-> after, agent |-> agent, new |-> new, cfg |-> cfg,
           ver |-> ver, tries |-> tries, was |-> was, row |-> row] =>
          [r EXCEPT !.at = p] =
          [op |-> op, at |-> p, after |-> after, agent |-> agent, new |-> new, cfg |-> cfg,
           ver |-> ver, tries |-> tries, was |-> was, row |-> row]
    OBVIOUS
  <2>3. \A r : r = [op |-> op, at |-> p, after |-> after, agent |-> agent, new |-> new, cfg |-> cfg,
           ver |-> ver, tries |-> tries, was |-> was, row |-> row] =>
          [r EXCEPT !.was = x] =
          [op |-> op, at |-> p, after |-> after, agent |-> agent, new |-> new, cfg |-> cfg,
           ver |-> ver, tries |-> tries, was |-> x, row |-> row]
    OBVIOUS
  <2> QED BY <1>1, <2>1, <2>2, <2>3
<1>4. [t EXCEPT !.at = p, !.agent = x, !.row = y] =
          [op |-> op, at |-> p, after |-> after, agent |-> x, new |-> new, cfg |-> cfg,
           ver |-> ver, tries |-> tries, was |-> was, row |-> y]
  <2>1. [t EXCEPT !.at = p, !.agent = x, !.row = y] = [[[t EXCEPT !.at = p] EXCEPT !.agent = x] EXCEPT !.row = y] OBVIOUS
  <2>2. \A r : r = [op |-> op, at |-> at, after |-> after, agent |-> agent, new |-> new, cfg |-> cfg,
           ver |-> ver, tries |-> tries, was |-> was, row |-> row] =>
          [r EXCEPT !.at = p] =
          [op |-> op, at |-> p, after |-> after, agent |-> agent, new |-> new, cfg |-> cfg,
           ver |-> ver, tries |-> tries, was |-> was, row |-> row]
    OBVIOUS
  <2>3. \A r : r = [op |-> op, at |-> p, after |-> after, agent |-> agent, new |-> new, cfg |-> cfg,
           ver |-> ver, tries |-> tries, was |-> was, row |-> row] =>
          [r EXCEPT !.agent = x] =
          [op |-> op, at |-> p, after |-> after, agent |-> x, new |-> new, cfg |-> cfg,
           ver |-> ver, tries |-> tries, was |-> was, row |-> row]
    OBVIOUS
  <2>4. \A r : r = [op |-> op, at |-> p, after |-> after, agent |-> x, new |-> new, cfg |-> cfg,
           ver |-> ver, tries |-> tries, was |-> was, row |-> row] =>
          [r EXCEPT !.row = y] =
          [op |-> op, at |-> p, after |-> after, agent |-> x, new |-> new, cfg |-> cfg,
           ver |-> ver, tries |-> tries, was |-> was, row |-> y]
    OBVIOUS
  <2> QED BY <1>1, <2>1, <2>2, <2>3, <2>4
<1>5. [t EXCEPT !.at = p, !.after = x, !.cfg = y] =
          [op |-> op, at |-> p, after |-> x, agent |-> agent, new |-> new, cfg |-> y,
           ver |-> ver, tries |-> tries, was |-> was, row |-> row]
  <2>1. [t EXCEPT !.at = p, !.after = x, !.cfg = y] = [[[t EXCEPT !.at = p] EXCEPT !.after = x] EXCEPT !.cfg = y] OBVIOUS
  <2>2. \A r : r = [op |-> op, at |-> at, after |-> after, agent |-> agent, new |-> new, cfg |-> cfg,
           ver |-> ver, tries |-> tries, was |-> was, row |-> row] =>
          [r EXCEPT !.at = p] =
          [op |-> op, at |-> p, after |-> after, agent |-> agent, new |-> new, cfg |-> cfg,
           ver |-> ver, tries |-> tries, was |-> was, row |-> row]
    OBVIOUS
  <2>3. \A r : r = [op |-> op, at |-> p, after |-> after, agent |-> agent, new |-> new, cfg |-> cfg,
           ver |-> ver, tries |-> tries, was |-> was, row |-> row] =>
          [r EXCEPT !.after = x] =
          [op |-> op, at |-> p, after |-> x, agent |-> agent, new |-> new, cfg |-> cfg,
           ver |-> ver, tries |-> tries, was |-> was, row |-> row]
    OBVIOUS
  <2>4. \A r : r = [op |-> op, at |-> p, after |-> x, agent |-> agent, new |-> new, cfg |-> cfg,
           ver |-> ver, tries |-> tries, was |-> was, row |-> row] =>
          [r EXCEPT !.cfg = y] =
          [op |-> op, at |-> p, after |-> x, agent |-> agent, new |-> new, cfg |-> y,
           ver |-> ver, tries |-> tries, was |-> was, row |-> row]
    OBVIOUS
  <2> QED BY <1>1, <2>1, <2>2, <2>3, <2>4
<1>6. Becomes(t, [t EXCEPT !.at = p, !.row = x], p, t.after, t.agent, t.cfg, t.was, x) BY <1>1, <1>2 DEF Becomes, IsTask
<1>7. Becomes(t, [t EXCEPT !.at = p, !.was = x], p, t.after, t.agent, t.cfg, x, t.row) BY <1>1, <1>3 DEF Becomes, IsTask
<1>8. Becomes(t, [t EXCEPT !.at = p, !.agent = x, !.row = y], p, t.after, x, t.cfg, t.was, y) BY <1>1, <1>4 DEF Becomes, IsTask
<1>9. Becomes(t, [t EXCEPT !.at = p, !.after = x, !.cfg = y], p, x, t.agent, y, t.was, t.row) BY <1>1, <1>5 DEF Becomes, IsTask
<1> QED BY <1>6, <1>7, <1>8, <1>9

-----------------------------------------------------------------------------
(* Steps that change nothing the other requests see *)

LEMMA Where ==
  ASSUME NEW t, OnItsWay(t)
  PROVE  /\ t.at \in {"check", "mkdir"} => Creates(t)
         /\ t.at = "bind" => Creates(t) \/ t.op \in {"agent.update", "agent.migrate"}
         /\ t.at = "quarantine" => t.op = "agent.delete"
         /\ t.at = "guard" => t.op \in Changes \ {"agent.pin"}
         /\ t.at = "file" => t.op = "agent.update"
         /\ t.at \in {"commit", "restore"} => Creates(t) \/ t.op \in Changes
         /\ t.at = "lock" => t.op \in Changes \cup {"agent.copy"}
         /\ t.at \in {"read", "done", "failed"} => t.op \in {"agent.get", "call"}
         /\ Creates(t) => t.op \notin Changes \cup {"call"}
BY DEF OnItsWay, PlacesOf, Ops, Changes, Creates, Ensuring

LEMMA Still ==
  ASSUME NEW t, OnItsWay(t), t.op # "call", NEW u, NEW at \in PlacesOf(t.op) \cup Ensuring,
         NEW after \in PlacesOf(t.op) \cap {"read", "check", "lock"}, NEW agent \in Agents,
         NEW cfg \in Config, NEW was \in Texts \cup {None}, NEW row \in Agent \cup {None},
         Becomes(t, u, at, after, agent, cfg, was, row)
  PROVE  OnItsWay(u) /\ u # None
<1>1. t.op \in AgentOps /\ at \in Places
  BY DEF OnItsWay, Ops, Changes, Ensuring, PlacesOf, AgentOps, Places
<1>2. u \in AgentTask BY <1>1, Own DEF Becomes, IsTask, AgentTask
<1>3. OnItsWay(u) BY <1>2 DEF Becomes, OnItsWay
<1> QED BY <1>3, Own DEF Becomes

LEMMA ReadKeeps ==
  ASSUME AgentInv, NEW c \in Clients, ReadAgent(c)
  PROVE  AgentTypeOK' /\ TasksFit' /\ SpacesFit'
<1> DEFINE t == tasks[c]
<1>1. t # None /\ t.at = "read" BY DEF ReadAgent, At
<1>2. OnItsWay(t) /\ IsTask(t) /\ Known(Builtin) BY <1>1, Acting DEF TaskFits
<1>3. CASE t.op # "call"
  <2>1. Refused(c) BY <1>3 DEF ReadAgent, Refused
  <2> QED BY <1>1, <2>1, RefusedKeeps
<1>4. CASE t.op = "call"
  <2>1. PICK a, r, u : /\ tasks' = [tasks EXCEPT ![c] = u]
                       /\ u = [t EXCEPT !.at = "done", !.agent = a, !.row = r]
    BY <1>4 DEF ReadAgent, Proceeds
  <2>2. Becomes(t, u, "done", t.after, a, t.cfg, t.was, r) BY <1>2, <2>1, Fields
  <2>3. OnItsWay(u) /\ u.at = "done" /\ u.op = "call"
    BY <1>2, <1>4, <2>2 DEF Becomes, OnItsWay, PlacesOf
  <2>4. Quiet(c) BY <1>4, SameKeeps DEF ReadAgent, Quiet, AgentInv, AgentTypeOK
  <2>5. TaskFits(u, c)' BY <1>2, <2>3, <2>4, EarlyFits DEF Early, Creates, Quiet, Known
  <2>6. \A x \in Agents : SameRole(t, u, x)
    BY <1>4, <2>3 DEF SameRole, Touches, Makes, Takes, Writes, MovesFiles, Creates
  <2> QED BY <2>1, <2>4, <2>5, <2>6, QuietMove
<1> QED BY <1>3, <1>4

LEMMA CheckKeeps ==
  ASSUME AgentInv, NEW c \in Clients, CheckId(c)
  PROVE  AgentTypeOK' /\ TasksFit' /\ SpacesFit'
<1> DEFINE t == tasks[c]
<1>1. t # None /\ t.at = "check" BY DEF CheckId, At
<1>2. OnItsWay(t) /\ Known(Builtin) /\ Creates(t) /\ t.was = None
  BY <1>1, Acting, Where DEF TaskFits
<1>3. t.new # Builtin BY <1>2 DEF CheckId
<1>4. PICK u : tasks' = [tasks EXCEPT ![c] = u] /\ Carries(t, u, "bind")
  BY <1>2, WayOn DEF CheckId, Reaches, Proceeds, Creates, PlacesOf
<1>5. Quiet(c) BY SameKeeps DEF CheckId, Quiet, AgentInv, AgentTypeOK
<1>6. Creates(u) /\ ~Holds(u) BY <1>2, <1>4 DEF Creates, Carries, Holds, Changes
<1>7. RowFits(u)' BY <1>2, <1>3, <1>4, <1>6 DEF RowFits, Carries, Creates
<1>8. TaskFits(u, c)'
  BY <1>2, <1>4, <1>5, <1>6, <1>7 DEF TaskFits, Carries, Quiet, Known, OnItsWay, IsTask, Holds
<1>9. \A a \in Agents : SameRole(t, u, a)
  BY <1>1, <1>2, <1>4 DEF SameRole, Touches, Makes, Takes, Writes, MovesFiles, Creates, Carries
<1> QED BY <1>4, <1>5, <1>8, <1>9, QuietMove

LEMMA RowType ==
  ASSUME SkillInv, NEW S \in SUBSET Skills, \A k \in S : Available(k), NEW cfg \in Config,
         NEW common \in BOOLEAN
  PROVE  /\ Current(S) \in SUBSET Binding
         /\ AgentRow(cfg, Current(S), common) \in Agent
         /\ AgentRow(cfg, Current(S), common).common = common
         /\ AgentRow(cfg, Current(S), common).text = cfg.text
<1>1. ASSUME NEW k \in S
      PROVE  [skill |-> k, version |-> skills[k].current] \in Binding
  <2>1. skills[k] \in Skill BY <1>1 DEF Available, Present, SkillInv, SkillTypes
  <2> QED BY <1>1, <2>1 DEF Available, Skill, Binding
<1>2. Current(S) \in SUBSET Binding BY <1>1 DEF Current
<1> QED BY <1>2 DEF AgentRow, Config, Agent

LEMMA ResolveKeeps ==
  ASSUME AgentInv, SkillInv, NEW c \in Clients, Resolve(c)
  PROVE  AgentTypeOK' /\ TasksFit' /\ SpacesFit'
<1> DEFINE t == tasks[c]
<1>1. t # None /\ t.at = "bind" BY DEF Resolve, At
<1>2. TaskFits(t, c) /\ OnItsWay(t) /\ IsTask(t) /\ Known(Builtin) /\ t.cfg \in Config
  <2>1. TaskFits(t, c) /\ OnItsWay(t) /\ IsTask(t) /\ Known(Builtin) BY <1>1, Acting DEF TaskFits
  <2>2. t.op # "call" BY <1>1, <2>1, Where DEF Creates
  <2> QED BY <2>1, <2>2, Own
<1>3. Quiet(c) BY SameKeeps DEF Resolve, Quiet, AgentInv, AgentTypeOK
<1>4. CASE t.op \in {"agent.update", "agent.migrate"}
  <2>1. Holds(t) /\ Known(t.agent) /\ t.row = agents[t.agent] /\ rowLock[t.agent] = c
    BY <1>1, <1>2, <1>4 DEF TaskFits, Holds, RowFits, Changes
  <2>2. t.agent \in Agents /\ t.row \in Agent
    BY <1>2, <1>4, <2>1, Own DEF Known, AgentInv, AgentTypeOK
  <2>3. Wanted(t) \in SUBSET Skills /\ \A k \in Wanted(t) : Available(k)
    BY <1>2, <2>2 DEF Resolve, Bindable, Wanted, Agent, Config
  <2>4. PICK r : /\ Bound(t) = [t EXCEPT !.at = "guard", !.row = r] /\ r \in Agent
                 /\ r.common = t.row.common
                 /\ t.op = "agent.update" => r.text = t.cfg.text
                 /\ t.op = "agent.migrate" => r.text = t.row.text /\ r.on = t.row.on
    <3>1. CASE t.op = "agent.update"
      <4>1. PICK r : r = AgentRow(t.cfg, Current(Wanted(t)), t.row.common) OBVIOUS
      <4>2. t.row.common \in BOOLEAN BY <2>2 DEF Agent
      <4>3. r \in Agent /\ r.common = t.row.common /\ r.text = t.cfg.text
        BY <1>2, <2>3, <4>1, <4>2, RowType
      <4>4. Bound(t) = [t EXCEPT !.at = "guard", !.row = r] BY <3>1, <4>1 DEF Bound
      <4> QED BY <3>1, <4>3, <4>4
    <3>2. CASE t.op = "agent.migrate"
      <4>1. Current(Wanted(t)) \in SUBSET Binding BY <1>2, <2>3, RowType
      <4>2. PICK r : r = [t.row EXCEPT !.binds = Current(Wanted(t))] OBVIOUS
      <4>3. r \in Agent /\ r.common = t.row.common /\ r.text = t.row.text /\ r.on = t.row.on
        BY <2>2, <4>1, <4>2 DEF Agent
      <4>4. Bound(t) = [t EXCEPT !.at = "guard", !.row = r]
        BY <1>2, <3>2, <4>2 DEF Bound, IsTask
      <4> QED BY <3>2, <4>3, <4>4
    <3> QED BY <1>4, <3>1, <3>2
  <2>5. PICK u : tasks' = [tasks EXCEPT ![c] = u] /\ u = [t EXCEPT !.at = "guard", !.row = r]
    BY <2>4 DEF Resolve, Proceeds
  <2>6. Becomes(t, u, "guard", t.after, t.agent, t.cfg, t.was, r) BY <1>2, <2>5, Fields
  <2>7. OnItsWay(u)
    <3>1. t.op # "call" /\ "guard" \in PlacesOf(t.op) BY <1>4 DEF PlacesOf
    <3>2. t.after \in PlacesOf(t.op) \cap {"read", "check", "lock"} BY <1>2 DEF OnItsWay
    <3> QED BY <1>2, <2>2, <2>4, <2>6, <3>1, <3>2, Own, Still
  <2>8. rowLock' = rowLock BY DEF Resolve
  <2>9. RowFits(u)' BY <1>3, <1>4, <2>1, <2>4, <2>6 DEF RowFits, Becomes, Creates, Quiet
  <2>10. TaskFits(u, c)'
    BY <1>2, <1>3, <2>1, <2>6, <2>7, <2>8, <2>9
    DEF TaskFits, Becomes, Quiet, Known, OnItsWay, IsTask, Holds
  <2>11. \A a \in Agents : SameRole(t, u, a)
    BY <1>1, <1>4, <2>6 DEF SameRole, Touches, Makes, Takes, Writes, MovesFiles, Creates, Becomes,
       Ensuring
  <2> QED BY <1>3, <2>5, <2>10, <2>11, QuietMove
<1>5. CASE Creates(t)
  <2>1. Wanted(t) \in SUBSET Skills /\ \A k \in Wanted(t) : Available(k)
    BY <1>2, <1>5 DEF Resolve, Bindable, Wanted, Config, Creates
  <2>2. PICK r : r = AgentRow(t.cfg, Current(Wanted(t)), FALSE) OBVIOUS
  <2>3. r \in Agent /\ r.text = t.cfg.text BY <1>2, <2>1, <2>2, RowType
  <2>4. PICK u : tasks' = [tasks EXCEPT ![c] = u] /\ u = [t EXCEPT !.at = "mkdir", !.row = r]
    BY <1>5, <2>2 DEF Resolve, Proceeds, Bound, Creates
  <2>5. Becomes(t, u, "mkdir", t.after, t.agent, t.cfg, t.was, r) BY <1>2, <2>4, Fields
  <2>6. OnItsWay(u)
    <3>1. t.op # "call" /\ "mkdir" \in PlacesOf(t.op) BY <1>5 DEF PlacesOf, Creates
    <3>2. t.after \in PlacesOf(t.op) \cap {"read", "check", "lock"} BY <1>2 DEF OnItsWay
    <3> QED BY <1>2, <2>3, <2>5, <3>1, <3>2, Own, Still
  <2>7. t.was = None /\ t.new # Builtin BY <1>1, <1>2, <1>5 DEF TaskFits, RowFits
  <2>8. RowFits(u)' BY <1>5, <2>3, <2>5, <2>7 DEF RowFits, Becomes, Creates
  <2>9. ~Holds(u) BY <2>5 DEF Holds, Becomes
  <2>10. TaskFits(u, c)'
    BY <1>2, <1>3, <2>5, <2>6, <2>8, <2>9
    DEF TaskFits, Becomes, Quiet, Known, OnItsWay, IsTask, Holds
  <2>11. \A a \in Agents : SameRole(t, u, a)
    BY <1>1, <1>5, <2>5 DEF SameRole, Touches, Makes, Takes, Writes, MovesFiles, Creates, Becomes
  <2> QED BY <1>3, <2>4, <2>10, <2>11, QuietMove
<1> QED BY <1>1, <1>2, <1>4, <1>5, Where

LEMMA MovesOn ==
  ASSUME NEW t, NEW u, NEW p, Carries(t, u, p), t # None, u # None, ~Creates(t) \/ t.at = "commit",
         \/ t.at = "guard" /\ (t.op = "agent.update" <=> p = "file") /\ p \in {"file", "commit", "restore"}
         \/ t.at = "commit" /\ p = "restore",
         NEW a
  PROVE  SameRole(t, u, a)
<1>1. t.at \notin Ensuring \cup {"lock"} BY DEF Ensuring
<1>2. Touches(u, a) => Touches(t, a) BY <1>1 DEF Touches, Carries, MovesFiles
<1>3. Makes(u, a) <=> Makes(t, a) BY DEF Makes, Carries, Creates
<1>4. Takes(u, a) <=> Takes(t, a) BY DEF Takes, Carries
<1>5. Writes(u, a) <=> Writes(t, a) BY DEF Writes, Carries
<1> QED BY <1>2, <1>3, <1>4, <1>5 DEF SameRole, Carries

LEMMA PassKeeps ==
  ASSUME AgentInv, NEW c \in Clients, PassGuard(c)
  PROVE  AgentTypeOK' /\ TasksFit' /\ SpacesFit'
<1> DEFINE t == tasks[c]
           p == IF t.op = "agent.update" THEN "file" ELSE "commit"
<1>1. t # None /\ t.at = "guard" BY DEF PassGuard, At
<1>2. TaskFits(t, c) /\ OnItsWay(t) /\ Known(Builtin) /\ t.op \in Changes \ {"agent.pin"}
      /\ ~Creates(t) /\ RowFits(t)
  BY <1>1, Acting, Where DEF TaskFits
<1>3. p \in PlacesOf(t.op) /\ p \in {"file", "commit"} BY <1>2 DEF PlacesOf, Changes
<1>4. PICK u : tasks' = [tasks EXCEPT ![c] = u] /\ Carries(t, u, p)
  BY <1>2, <1>3, WayOn DEF PassGuard, Reaches, Proceeds
<1>5. Quiet(c) /\ rowLock' = rowLock
  <2>1. pointerLock' \in Clients \cup {None} /\ rowLock' = rowLock
    BY DEF PassGuard, PointerTaken, AgentInv, AgentTypeOK
  <2> QED BY <2>1, SameKeeps DEF PassGuard, Quiet
<1>6. Holds(t) /\ rowLock[t.agent] = c /\ Known(t.agent) BY <1>1, <1>2 DEF TaskFits, Holds
<1>7. RowFits(u)
  BY <1>1, <1>2, <1>3, <1>4 DEF RowFits, Carries, Creates, PassGuard, Protected
<1>8. RowFits(u)' BY <1>5, <1>7 DEF RowFits, Quiet, Creates
<1>9. TurnsOff(u) => pointer.at # u.agent
  BY <1>4 DEF PassGuard, Protected, TurnsOff, Carries
<1>10. TaskFits(u, c)'
  BY <1>2, <1>3, <1>4, <1>5, <1>6, <1>8, <1>9
  DEF TaskFits, Carries, Quiet, Known, OnItsWay, IsTask, Holds, TurnsOff
<1>11. u # None BY <1>2, <1>4, Own DEF Carries, Changes
<1>12. u.op = t.op /\ u.at \in {"file", "commit"} /\ (t.op = "agent.update" <=> u.at = "file")
  BY <1>3, <1>4 DEF Carries
<1>13. \A a \in Agents : SameRole(t, u, a)
  BY <1>1, <1>2, <1>4, <1>11, <1>12, MovesOn
<1> QED BY <1>4, <1>5, <1>10, <1>13, QuietMove

LEMMA RollsBackKeeps ==
  ASSUME AgentInv, NEW c \in Clients, RollsBack(c), tasks[c] # None,
         \/ tasks[c].at = "commit"
         \/ tasks[c].at = "guard" /\ tasks[c].op = "agent.delete"
  PROVE  AgentTypeOK' /\ TasksFit' /\ SpacesFit'
<1> DEFINE t == tasks[c]
<1>1. OnItsWay(t) /\ TaskFits(t, c) /\ RowFits(t) /\ Known(Builtin) BY Acting DEF TaskFits
<1>2. t.op \in Changes \/ Creates(t) BY <1>1, Where DEF Changes
<1>3. "restore" \in PlacesOf(t.op) BY <1>2 DEF PlacesOf, Changes, Creates
<1>4. tasks' = [tasks EXCEPT ![c] = [tasks[c] EXCEPT !.at = "restore"]] BY DEF RollsBack
<1>5. PICK u : tasks' = [tasks EXCEPT ![c] = u] /\ Carries(t, u, "restore")
  BY <1>1, <1>3, <1>4, WayOn
<1>6. Quiet(c) BY ReleasesKeeps DEF RollsBack, Quiet
<1>7. RowFits(u)' BY <1>1, <1>5, <1>6 DEF RowFits, Carries, Quiet, Creates
<1>8. TaskFits(u, c)'
  BY <1>1, <1>5, <1>6, <1>7 DEF TaskFits, Carries, Quiet, Known, OnItsWay, IsTask, Holds
<1>9. u # None BY <1>1, <1>2, <1>5, Own DEF Carries, Changes, Creates
<1>10. \A a \in Agents : SameRole(t, u, a) BY <1>5, <1>9, MovesOn DEF Creates
<1> QED BY <1>5, <1>6, <1>8, <1>10, QuietMove

(* Refusals of requests that have touched no file. *)
LEMMA RefusalsKeep ==
  ASSUME AgentInv, NEW c \in Clients,
         \/ AdoptFails(c) \/ NotFound(c) \/ ResolveFails(c) \/ SpaceTaken(c)
         \/ SpaceMissing(c) \/ RefuseChange(c)
  PROVE  AgentTypeOK' /\ TasksFit' /\ SpacesFit'
<1>1. /\ Refused(c) /\ tasks[c] # None
      /\ tasks[c].at \in {"target", "adopt", "lock", "check", "bind", "mkdir", "quarantine", "file",
                          "guard"}
      /\ tasks[c].at = "guard" => tasks[c].op # "agent.delete"
  BY DEF AdoptFails, NotFound, ResolveFails, SpaceTaken, SpaceMissing, RefuseChange, At
<1> QED BY <1>1, RefusedKeeps

LEMMA BackKeeps ==
  ASSUME AgentInv, NEW c \in Clients, RefuseDelete(c) \/ Duplicate(c) \/ CommitFails(c)
  PROVE  AgentTypeOK' /\ TasksFit' /\ SpacesFit'
<1>1. /\ RollsBack(c) /\ tasks[c] # None
      /\ \/ tasks[c].at = "commit"
         \/ tasks[c].at = "guard" /\ tasks[c].op = "agent.delete"
  BY DEF RefuseDelete, Duplicate, CommitFails, At
<1> QED BY <1>1, RollsBackKeeps

-----------------------------------------------------------------------------
(* Steps that change what the other requests see *)

LEMMA OneTask ==
  ASSUME AgentInv, NEW c \in Clients, NEW u, tasks' = [tasks EXCEPT ![c] = u]
  PROVE  /\ tasks'[c] = u /\ tasks' = [tasks EXCEPT ![c] = tasks'[c]]
         /\ \A d \in Clients : d # c => tasks'[d] = tasks[d]
<1>1. tasks = [d \in Clients |-> tasks[d]] BY DEF AgentInv, OneRequest
<1>2. tasks'[c] = u BY <1>1
<1>3. \A d \in Clients : d # c => tasks'[d] = tasks[d] BY <1>1
<1> QED BY <1>2, <1>3

(* No two requests that move files have the row. *)
LEMMA AloneAt ==
  ASSUME AgentInv, NEW a \in Agents \ unrestored, RowFree(a), ~PuttingBack(a),
         NEW d \in Clients
  PROVE  ~Touches(tasks[d], a)
<1>1. SUFFICES ASSUME Touches(tasks[d], a) PROVE FALSE OBVIOUS
<1> DEFINE t == tasks[d]
<1>2. t # None /\ MovesFiles(t) /\ t.agent = a /\ t.at \notin Ensuring \cup {"lock"}
  BY <1>1 DEF Touches
<1>3. TaskFits(t, d) /\ OnItsWay(t) /\ None \notin Clients BY <1>2, Acting
<1>4. t.at # "restore" BY <1>2 DEF PuttingBack, At
<1>5. Holds(t) BY <1>2, <1>3, <1>4 DEF MovesFiles, OnItsWay, PlacesOf, Holds, Changes
<1> QED BY <1>2, <1>3, <1>5 DEF TaskFits, RowFree

(* The roles of the others are what they were. *)
LEMMA Others ==
  ASSUME AgentInv, NEW c \in Clients, NEW u, tasks' = [tasks EXCEPT ![c] = u], NEW a,
         NEW d \in Clients, d # c
  PROVE  /\ tasks'[d] = tasks[d]
         /\ Touches(tasks[d], a)' <=> Touches(tasks[d], a)
         /\ Makes(tasks[d], a)' <=> Makes(tasks[d], a)
         /\ Takes(tasks[d], a)' <=> Takes(tasks[d], a)
         /\ Writes(tasks[d], a)' <=> Writes(tasks[d], a)
<1>1. tasks'[d] = tasks[d] BY OneTask
<1> QED BY <1>1 DEF Touches, Makes, Takes, Writes, MovesFiles, Creates

LEMMA MoversTouch ==
  ASSUME NEW t, NEW a, Takes(t, a) \/ Writes(t, a)
  PROVE  Touches(t, a) /\ ~Makes(t, a)
BY DEF Takes, Writes, Touches, Makes, MovesFiles, Creates, Ensuring

(* The only one to move the files of an agent is before that, or gives up. *)
LEMMA Alone ==
  ASSUME AgentInv, NEW c \in Clients, NEW a \in Agents \ unrestored, Touches(tasks[c], a)
  PROVE  /\ Known(a)
         /\ \A d \in Clients : d # c => ~Touches(tasks[d], a) /\ ~Takes(tasks[d], a) /\ ~Writes(tasks[d], a)
         /\ ~Takes(tasks[c], a) => \A d \in Clients : ~Makes(tasks[d], a)
         /\ ~Takes(tasks[c], a) /\ ~Writes(tasks[c], a) => spaces[a] = agents[a].text
<1>1. SpaceFits(a) BY DEF AgentInv, SpacesFit
<1>2. Known(a) BY <1>1 DEF SpaceFits
<1>3. \A d \in Clients : d # c => ~Touches(tasks[d], a) BY <1>1 DEF SpaceFits
<1>4. \A d \in Clients : d # c => ~Takes(tasks[d], a) /\ ~Writes(tasks[d], a) BY <1>3, MoversTouch
<1>5. ~Takes(tasks[c], a) => \A d \in Clients : ~Makes(tasks[d], a)
  BY <1>1, <1>2, <1>4 DEF SpaceFits
<1>6. ASSUME ~Takes(tasks[c], a), ~Writes(tasks[c], a)
      PROVE  spaces[a] = agents[a].text
  <2>1. AtPeace(a) BY <1>1, <1>4, <1>5, <1>6 DEF SpaceFits
  <2> QED BY <1>2, <2>1 DEF AtPeace
<1> QED BY <1>2, <1>3, <1>4, <1>5, <1>6

LEMMA SpaceEnters ==
  ASSUME AgentInv, NEW c \in Clients, Frame(c), NEW a \in Agents, a \notin unrestored',
         spaces'[a] = spaces[a], agents'[a] = agents[a], Known(a),
         \A d \in Clients : ~Touches(tasks[d], a),
         ~Makes(tasks[c], a), (~Makes(tasks[c], a) /\ ~Takes(tasks[c], a) /\ ~Writes(tasks[c], a))'
  PROVE  SpaceFits(a)'
<1>1. SpaceFits(a) BY DEF AgentInv, SpacesFit, Frame
<1>2. \A d \in Clients : ~Takes(tasks[d], a) /\ ~Writes(tasks[d], a) BY MoversTouch
<1>3. \A d \in Clients : ~Makes(tasks[d], a) BY <1>1, <1>2 DEF SpaceFits
<1>4. spaces[a] = agents[a].text BY <1>1, <1>2, <1>3 DEF SpaceFits, AtPeace
<1>5. tasks' = [tasks EXCEPT ![c] = tasks'[c]] BY DEF Frame
<1>6. \A d \in Clients : d # c => ~Touches(tasks[d], a)' /\ ~Makes(tasks[d], a)'
                                  /\ ~Takes(tasks[d], a)' /\ ~Writes(tasks[d], a)'
  BY <1>2, <1>3, <1>5, Others
<1>7. Known(a)' /\ AtPeace(a)' BY <1>4 DEF Known, AtPeace
<1> QED BY <1>6, <1>7 DEF SpaceFits

(* What a request is after it has locked the row. *)
LEMMA LockedTask ==
  ASSUME AgentInv, NEW t, OnItsWay(t), t.at = "lock", RowFits(t), t.op # "call",
         Known(t.agent), Known(Builtin), NEW u, u = Locked(t), NEW c
  PROVE  /\ OnItsWay(u) /\ u # None /\ u.op = t.op /\ u.agent = t.agent /\ RowFits(u)
         /\ MovesFiles(t) <=> u.op \in {"agent.update", "agent.delete"}
         /\ ~TurnsOff(u) \/ u.at \notin {"file", "commit"}
         /\ u.at \in {"bind", "guard", "commit", "quarantine", "repair"}
         /\ u.at = "guard" => u.op = "agent.enable"
         /\ u.at = "commit" => u.op = "agent.pin"
         /\ Holds(u) <=> t.op \in Changes
<1> DEFINE row == agents[t.agent]
<1>1. IsTask(t) /\ t.op \in Changes \cup {"agent.copy"} BY Where DEF OnItsWay
<1>2. /\ t.agent \in Agents /\ t.cfg \in Config /\ t.was \in Texts \cup {None}
      /\ t.row \in Agent \cup {None}
  BY Own
<1>3. row \in Agent BY <1>2 DEF Known, AgentInv, AgentTypeOK
<1>4. t.after \in PlacesOf(t.op) \cap {"read", "check", "lock"} BY DEF OnItsWay
<1>5. CASE t.op \in {"agent.update", "agent.migrate"}
  <2>1. PICK r : r = row OBVIOUS
  <2>2. Becomes(t, u, "bind", t.after, t.agent, t.cfg, t.was, r)
    BY <1>1, <1>5, <2>1, Fields DEF Locked
  <2>3. OnItsWay(u) /\ u # None BY <1>2, <1>3, <1>4, <1>5, <2>1, <2>2, Still DEF PlacesOf
  <2>4. RowFits(u) BY <1>5, <2>1, <2>2 DEF RowFits, Becomes, Creates
  <2> QED BY <1>5, <2>2, <2>3, <2>4 DEF Becomes, MovesFiles, Holds, Changes
<1>6. CASE t.op = "agent.enable"
  <2>1. PICK r : r = [row EXCEPT !.on = t.cfg.on] OBVIOUS
  <2>2. r \in Agent /\ r.common = row.common /\ r.text = row.text
    BY <1>2, <1>3, <2>1 DEF Agent, Config
  <2>3. Becomes(t, u, "guard", t.after, t.agent, t.cfg, t.was, r)
    BY <1>1, <1>6, <2>1, Fields DEF Locked
  <2>4. OnItsWay(u) /\ u # None BY <1>2, <1>4, <1>6, <2>2, <2>3, Still DEF PlacesOf
  <2>5. RowFits(u) BY <1>6, <2>2, <2>3 DEF RowFits, Becomes, Creates
  <2> QED BY <1>6, <2>3, <2>4, <2>5 DEF Becomes, MovesFiles, Holds, Changes
<1>7. CASE t.op = "agent.pin"
  <2>1. PICK r : r = row OBVIOUS
  <2>2. Becomes(t, u, "commit", t.after, t.agent, t.cfg, t.was, r)
    BY <1>1, <1>7, <2>1, Fields DEF Locked
  <2>3. OnItsWay(u) /\ u # None BY <1>2, <1>3, <1>4, <1>7, <2>1, <2>2, Still DEF PlacesOf
  <2>4. RowFits(u) BY <1>3, <1>7, <2>1, <2>2 DEF RowFits, Becomes, Creates
  <2> QED BY <1>7, <2>2, <2>3, <2>4 DEF Becomes, MovesFiles, Holds, Changes, TurnsOff
<1>8. CASE t.op = "agent.delete"
  <2>1. u = [t EXCEPT !.at = "quarantine"] BY <1>8 DEF Locked
  <2>2. "quarantine" \in PlacesOf(t.op) BY <1>8 DEF PlacesOf
  <2>3. Carries(t, u, "quarantine")
    <3>1. t.ver \in Nat /\ t.tries \in Nat BY <1>8, Own
    <3> QED BY <2>1, <2>2, <3>1, WayOn
  <2>4. u # None BY <1>8, <2>3, Own DEF Carries
  <2>5. RowFits(u) BY <1>8, <2>3 DEF RowFits, Carries, Creates
  <2> QED BY <1>8, <2>3, <2>4, <2>5 DEF Carries, MovesFiles, Holds, Changes
<1>9. CASE t.op = "agent.copy"
  <2>1. PICK cfg : cfg = [on |-> FALSE, text |-> row.text, names |-> row.names] OBVIOUS
  <2>2. cfg \in Config BY <1>3, <2>1 DEF Agent, Config
  <2>3. Becomes(t, u, "repair", "check", t.agent, cfg, t.was, t.row)
    BY <1>1, <1>9, <2>1, Fields DEF Locked
  <2>4. "repair" \in Ensuring /\ "check" \in PlacesOf(t.op) \cap {"read", "check", "lock"}
    BY <1>9 DEF Ensuring, PlacesOf
  <2>5. OnItsWay(u) /\ u # None BY <1>2, <1>9, <2>2, <2>3, <2>4, Still
  <2>6. RowFits(u) BY <1>9, <2>3 DEF RowFits, Becomes, Creates
  <2> QED BY <1>9, <2>3, <2>5, <2>6 DEF Becomes, MovesFiles, Holds, Changes
<1> QED BY <1>1, <1>5, <1>6, <1>7, <1>8, <1>9 DEF Changes

LEMMA LockKeeps ==
  ASSUME AgentInv, NEW c \in Clients, LockAgent(c)
  PROVE  AgentTypeOK' /\ TasksFit' /\ SpacesFit'
<1> DEFINE t == tasks[c]
<1>1. t # None /\ t.at = "lock" /\ RowFree(t.agent) /\ Known(t.agent) BY DEF LockAgent, At
<1>2. TaskFits(t, c) /\ OnItsWay(t) /\ RowFits(t) /\ Known(Builtin) /\ None \notin Clients
  BY <1>1, Acting DEF TaskFits
<1>3. t.op # "call" BY <1>1, <1>2, Where DEF Changes
<1>4. t.agent \in Agents BY <1>2, <1>3, Own
<1>5. PICK u : u = Locked(t) /\ tasks' = [tasks EXCEPT ![c] = u] BY DEF LockAgent, Proceeds
<1>6. /\ OnItsWay(u) /\ u # None /\ u.op = t.op /\ u.agent = t.agent /\ RowFits(u)
      /\ MovesFiles(t) <=> u.op \in {"agent.update", "agent.delete"}
      /\ ~TurnsOff(u) \/ u.at \notin {"file", "commit"}
      /\ u.at \in {"bind", "guard", "commit", "quarantine", "repair"}
      /\ u.at = "guard" => u.op = "agent.enable"
      /\ u.at = "commit" => u.op = "agent.pin"
      /\ Holds(u) <=> t.op \in Changes
  BY <1>1, <1>2, <1>3, <1>5, LockedTask
<1>7. /\ rowLock' = [rowLock EXCEPT ![t.agent] = c] /\ UNCHANGED <<agents, spaces, pointer, pointerLock>>
      /\ unrestored' = IF MovesFiles(t) /\ PuttingBack(t.agent) THEN unrestored \cup {t.agent} ELSE unrestored
  BY DEF LockAgent
<1>8. AgentTypeOK' BY <1>4, <1>7 DEF AgentInv, AgentTypeOK
<1>9. rowLock'[t.agent] = c BY <1>4, <1>7 DEF AgentInv, AgentTypeOK
<1>10. Frame(c)
  <2>1. unrestored \subseteq unrestored' BY <1>7
  <2>2. \A a \in Agents : rowLock[a] \in Clients \ {c} => rowLock'[a] = rowLock[a]
    BY <1>1, <1>2, <1>4, <1>7 DEF RowFree, AgentInv, AgentTypeOK
  <2> QED BY <1>5, <1>7, <2>1, <2>2, OneTask DEF Frame, Known
<1>11. tasks'[c] = u BY <1>5, OneTask
<1>12. TasksFit'
  <2>1. RowFits(u)' BY <1>6, <1>7 DEF RowFits, Creates
  <2>2. TaskFits(u, c)'
    BY <1>1, <1>2, <1>6, <1>7, <1>9, <2>1
    DEF TaskFits, OnItsWay, IsTask, Known, Holds, TurnsOff
  <2> QED BY <1>10, <1>11, <2>2, FitsPrimed, FrameKeeps
<1>13. ASSUME NEW a \in Agents, a \notin unrestored'
       PROVE  SpaceFits(a)'
  <2>1. ~Makes(t, a) /\ ~Takes(t, a) /\ ~Writes(t, a) /\ ~Makes(u, a) /\ ~Takes(u, a) /\ ~Writes(u, a)
    BY <1>1, <1>6 DEF Makes, Takes, Writes, Creates
  <2>2. /\ spaces'[a] = spaces[a] /\ agents'[a] = agents[a] /\ Known(a)' = Known(a)
    BY <1>7 DEF Known
  <2>3. CASE ~Touches(u, a)
    <3>1. SameRole(t, u, a) BY <2>1, <2>3 DEF SameRole
    <3> QED BY <1>10, <1>11, <1>13, <2>2, <3>1, SpaceKeeps
  <2>4. CASE Touches(u, a)
    <3>1. a = t.agent /\ MovesFiles(t) BY <1>6, <2>4 DEF Touches, MovesFiles
    <3>2. a \notin unrestored /\ ~PuttingBack(a) BY <1>7, <1>13, <3>1
    <3>3. \A d \in Clients : ~Touches(tasks[d], a) BY <1>1, <3>1, <3>2, AloneAt
    <3>4. (~Makes(tasks[c], a) /\ ~Takes(tasks[c], a) /\ ~Writes(tasks[c], a))'
      BY <1>11, <2>1 DEF Makes, Takes, Writes, Creates
    <3> QED BY <1>1, <1>10, <1>13, <2>1, <2>2, <3>1, <3>3, <3>4, SpaceEnters
  <2> QED BY <2>3, <2>4
<1>14. SpacesFit' BY <1>13 DEF SpacesFit
<1> QED BY <1>8, <1>12, <1>14

LEMMA AdoptKeeps ==
  ASSUME AgentInv, NEW c \in Clients, Adopt(c)
  PROVE  AgentTypeOK' /\ TasksFit' /\ SpacesFit'
<1> DEFINE t == tasks[c]
<1>1. t # None /\ t.at = "target" BY DEF Adopt, At
<1>2. OnItsWay(t) /\ (t.op = "agent.delete" => t.row = None) /\ (Creates(t) => t.was = None)
      /\ Builtin \in Agents /\ None \notin Clients
  BY <1>1, Acting
<1>3. Known(Builtin)' BY DEF Adopt, MayAdopt, Eligible, Known
<1>4. t.after \in PlacesOf(t.op) \cap {"read", "check", "lock"} BY <1>2 DEF OnItsWay
<1>5. PICK u : tasks' = [tasks EXCEPT ![c] = u] /\ Carries(t, u, t.after)
  <2>1. t.op # "call" => t.ver \in Nat /\ t.tries \in Nat BY <1>2, Own
  <2> QED BY <1>2, <1>4, <2>1, WayOn DEF Adopt, Reaches, Proceeds
<1>6. pointer' \in Pointer /\ pointer'.at = Builtin
  BY <1>2 DEF Adopt, AgentInv, AgentTypeOK, Pointer
<1>7. UNCHANGED <<unrestored, agents, spaces, rowLock>> BY DEF Adopt
<1>8. pointerLock' \in Clients \cup {None} BY DEF Adopt, PointerWithout, AgentInv, AgentTypeOK
<1>9. AgentTypeOK' BY <1>6, <1>7, <1>8 DEF AgentInv, AgentTypeOK
<1>10. Frame(c)
  <2>1. rowLock[Builtin] = None BY DEF Adopt, RowFree
  <2> QED BY <1>2, <1>5, <1>6, <1>7, <2>1, OneTask DEF Frame, Known
<1>11. tasks'[c] = u BY <1>5, OneTask
<1>12. TaskFits(u, c)' BY <1>2, <1>3, <1>4, <1>5, EarlyFits DEF Carries, Creates, Early
<1>13. TasksFit' BY <1>10, <1>11, <1>12, FitsPrimed, FrameKeeps
<1>14. \A a \in Agents : SameRole(t, u, a)
  BY <1>1, <1>4, <1>5 DEF Carries, SameRole, Touches, Makes, Takes, Writes, Ensuring, MovesFiles,
     OnItsWay, PlacesOf, Ops, Changes
<1>15. ASSUME NEW a \in Agents, a \notin unrestored'
       PROVE  SpaceFits(a)'
  BY <1>7, <1>10, <1>11, <1>14, <1>15, SpaceKeeps DEF Known
<1> QED BY <1>9, <1>13, <1>15 DEF SpacesFit

LEMMA NoMaker ==
  ASSUME AgentInv, ~Known(Builtin), NEW d \in Clients
  PROVE  ~Makes(tasks[d], Builtin)
<1>1. SUFFICES ASSUME Makes(tasks[d], Builtin) PROVE FALSE OBVIOUS
<1>2. TaskFits(tasks[d], d) /\ tasks[d].at \notin {"repair", "row"} BY <1>1, Acting DEF Makes
<1> QED BY <1>2 DEF TaskFits

LEMMA MakeBuiltinKeeps ==
  ASSUME AgentInv, NEW c \in Clients, MakeBuiltin(c)
  PROVE  AgentTypeOK' /\ TasksFit' /\ SpacesFit'
<1> DEFINE t == tasks[c]
<1>1. t # None /\ t.at = "repair" BY DEF MakeBuiltin, At
<1>2. OnItsWay(t) /\ (t.op = "agent.delete" => t.row = None) /\ (Creates(t) => t.was = None)
      /\ Builtin \in Agents /\ None \notin Texts /\ StdText \in Texts
  BY <1>1, Acting, AgentAssumption
<1>3. PICK u : tasks' = [tasks EXCEPT ![c] = u] /\ Carries(t, u, "row")
  <2>1. t.op # "call" => t.ver \in Nat /\ t.tries \in Nat BY <1>2, Own
  <2> QED BY <1>2, <2>1, WayOn DEF MakeBuiltin, Reaches, Proceeds, Ensuring
<1>4. UNCHANGED <<unrestored, agents, pointer, rowLock, pointerLock>> BY DEF MakeBuiltin
<1>5. /\ spaces' \in [Agents -> Texts \cup {None}]
      /\ \A a \in Agents : a # Builtin => spaces'[a] = spaces[a]
      /\ spaces'[Builtin] = IF spaces[Builtin] = None THEN StdText ELSE spaces[Builtin]
  BY <1>2 DEF MakeBuiltin, AgentInv, AgentTypeOK
<1>6. AgentTypeOK' BY <1>4, <1>5 DEF AgentInv, AgentTypeOK
<1>7. Frame(c) BY <1>2, <1>3, <1>4, <1>5, OneTask DEF Frame, Known
<1>8. tasks'[c] = u BY <1>3, OneTask
<1>9. u.at = "row" /\ \A a \in Agents : ~Touches(u, a) /\ ~Makes(u, a) /\ ~Takes(u, a) /\ ~Writes(u, a)
      /\ ~Touches(t, a) /\ ~Makes(t, a) /\ ~Takes(t, a) /\ ~Writes(t, a)
  BY <1>1, <1>3 DEF Carries, Touches, Makes, Takes, Writes, Ensuring
<1>10. ASSUME ~Known(Builtin)
       PROVE  /\ SpaceFits(Builtin) /\ AtPeace(Builtin)
              /\ \A d \in Clients : /\ ~Touches(tasks[d], Builtin) /\ ~Makes(tasks[d], Builtin)
                                    /\ ~Takes(tasks[d], Builtin) /\ ~Writes(tasks[d], Builtin)
  <2>1. SpaceFits(Builtin) BY <1>2, <1>10 DEF AgentInv, Found, SpacesFit
  <2>2. \A d \in Clients : ~Touches(tasks[d], Builtin) BY <1>10, <2>1 DEF SpaceFits
  <2>3. \A d \in Clients : ~Takes(tasks[d], Builtin) /\ ~Writes(tasks[d], Builtin)
    BY <2>2, MoversTouch
  <2>4. \A d \in Clients : ~Makes(tasks[d], Builtin) BY <1>10, NoMaker
  <2> QED BY <2>1, <2>2, <2>3, <2>4 DEF SpaceFits
<1>11. Known(Builtin)' \/ spaces'[Builtin] = StdText
  BY <1>4, <1>5, <1>10 DEF Known, AtPeace
<1>12. TaskFits(u, c)' BY <1>2, <1>3, <1>11, EarlyFits DEF Carries, Creates, Early, Ensuring
<1>13. TasksFit' BY <1>7, <1>8, <1>12, FitsPrimed, FrameKeeps
<1>14. ASSUME NEW a \in Agents, a \notin unrestored'
       PROVE  SpaceFits(a)'
  <2>1. SameRole(t, u, a) BY <1>9 DEF SameRole
  <2>2. CASE spaces'[a] = spaces[a]
    BY <1>4, <1>7, <1>8, <1>14, <2>1, <2>2, SpaceKeeps DEF Known
  <2>3. CASE a = Builtin /\ spaces[a] = None /\ ~Known(a)
    <3>1. \A d \in Clients : /\ ~Touches(tasks[d], a)' /\ ~Makes(tasks[d], a)'
                             /\ ~Takes(tasks[d], a)' /\ ~Writes(tasks[d], a)'
      <4>1. ASSUME NEW d \in Clients, d # c
            PROVE  /\ ~Touches(tasks[d], a)' /\ ~Makes(tasks[d], a)'
                   /\ ~Takes(tasks[d], a)' /\ ~Writes(tasks[d], a)'
        BY <1>3, <1>10, <2>3, <4>1, Others
      <4>2. /\ ~Touches(tasks[c], a)' /\ ~Makes(tasks[c], a)'
            /\ ~Takes(tasks[c], a)' /\ ~Writes(tasks[c], a)'
        BY <1>8, <1>9 DEF Touches, Makes, Takes, Writes, Ensuring
      <4> QED BY <4>1, <4>2
    <3>2. AtPeace(a)' BY <1>4, <1>5, <2>3 DEF AtPeace, Known
    <3> QED BY <3>1, <3>2 DEF SpaceFits
  <2>4. CASE a = Builtin /\ spaces[a] = None /\ Known(a)
    <3>1. SpaceFits(a) /\ agents[a].text \in Texts
      BY <1>4, <1>14, <2>4 DEF AgentInv, SpacesFit, AgentTypeOK, Agent, Known
    <3>2. \A d \in Clients : tasks[d] # None /\ Creates(tasks[d]) => tasks[d].cfg.text \in Texts
      BY Acting, Own DEF Creates, Config
    <3>3. \A d \in Clients : ~Makes(tasks[d], a) BY <1>2, <2>4, <3>1, <3>2 DEF SpaceFits, Makes
    <3>4. \A d \in Clients : tasks[d] # None /\ tasks[d].op = "agent.update" => tasks[d].cfg.text \in Texts
      BY Acting, Own DEF Config
    <3>5. \A d \in Clients : ~Writes(tasks[d], a) BY <1>2, <2>4, <3>1, <3>4 DEF SpaceFits, Writes
    <3>6. \E d \in Clients : Takes(tasks[d], a)
      BY <1>2, <2>4, <3>1, <3>3, <3>5 DEF SpaceFits, AtPeace
    <3>7. \A d \in Clients : /\ Touches(tasks[d], a)' <=> Touches(tasks[d], a)
                             /\ ~Makes(tasks[d], a)' /\ ~Writes(tasks[d], a)'
                             /\ Takes(tasks[d], a)' <=> Takes(tasks[d], a)
                             /\ Takes(tasks[d], a) => tasks'[d] = tasks[d]
      <4>1. ASSUME NEW d \in Clients, d # c
            PROVE  /\ Touches(tasks[d], a)' <=> Touches(tasks[d], a)
                   /\ ~Makes(tasks[d], a)' /\ ~Writes(tasks[d], a)'
                   /\ Takes(tasks[d], a)' <=> Takes(tasks[d], a)
                   /\ tasks'[d] = tasks[d]
        BY <1>3, <3>3, <3>5, <4>1, Others
      <4>2. /\ ~Touches(tasks[c], a)' /\ ~Makes(tasks[c], a)'
            /\ ~Takes(tasks[c], a)' /\ ~Writes(tasks[c], a)'
        BY <1>8, <1>9 DEF Touches, Makes, Takes, Writes, Ensuring
      <4> QED BY <1>9, <4>1, <4>2
    <3>8. Known(a)' /\ agents'[a] = agents[a] BY <1>4, <2>4 DEF Known
    <3>9. /\ \A d, e \in Clients : Touches(tasks[d], a)' /\ Touches(tasks[e], a)' => d = e
          /\ \A d \in Clients : Takes(tasks[d], a)' => (tasks[d].was = agents[a].text)'
      BY <3>1, <3>7, <3>8 DEF SpaceFits
    <3> QED BY <2>4, <3>6, <3>7, <3>8, <3>9 DEF SpaceFits
  <2> QED BY <1>5, <2>2, <2>3, <2>4
<1> QED BY <1>6, <1>13, <1>14 DEF SpacesFit

LEMMA RepairKeeps ==
  ASSUME AgentInv, NEW c \in Clients, RepairBuiltin(c)
  PROVE  AgentTypeOK' /\ TasksFit' /\ SpacesFit'
<1> DEFINE t == tasks[c]
<1>1. t # None /\ t.at = "row" BY DEF RepairBuiltin, At
<1>2. TaskFits(t, c) /\ OnItsWay(t) /\ (t.op = "agent.delete" => t.row = None)
      /\ (Creates(t) => t.was = None) /\ Builtin \in Agents /\ StdText \in Texts
      /\ None \notin Agent /\ None \notin Clients
  BY <1>1, Acting, AgentAssumption
<1>3. PICK u : tasks' = [tasks EXCEPT ![c] = u] /\ Carries(t, u, "pointer")
  <2>1. t.op # "call" => t.ver \in Nat /\ t.tries \in Nat BY <1>2, Own
  <2> QED BY <1>2, <2>1, WayOn DEF RepairBuiltin, Reaches, Proceeds, Ensuring
<1>4. UNCHANGED <<unrestored, spaces, pointer, rowLock, pointerLock>> /\ rowLock[Builtin] = None
  BY DEF RepairBuiltin, RowFree
<1>5. PICK r : r = IF agents[Builtin] = None THEN AgentRow(BuiltinConfig, {}, TRUE)
                   ELSE [agents[Builtin] EXCEPT !.on = TRUE]
  OBVIOUS
<1>6. agents' = [agents EXCEPT ![Builtin] = r] BY <1>5 DEF RepairBuiltin
<1>7. r \in Agent /\ (Known(Builtin) => r.text = agents[Builtin].text)
      /\ (~Known(Builtin) => r.text = StdText)
  <2>1. CASE Known(Builtin)
    <3>1. agents[Builtin] \in Agent BY <1>2, <2>1 DEF Known, AgentInv, AgentTypeOK
    <3> QED BY <1>5, <2>1, <3>1 DEF Known, Agent
  <2>2. CASE ~Known(Builtin)
    <3>1. r = AgentRow(BuiltinConfig, {}, TRUE) BY <1>5, <2>2 DEF Known
    <3> QED BY <1>2, <2>2, <3>1 DEF AgentRow, BuiltinConfig, Agent
  <2> QED BY <2>1, <2>2
<1>8. /\ agents' \in [Agents -> Agent \cup {None}] /\ agents'[Builtin] = r
      /\ \A a \in Agents : a # Builtin => agents'[a] = agents[a]
  BY <1>2, <1>6, <1>7 DEF AgentInv, AgentTypeOK
<1>9. AgentTypeOK' BY <1>4, <1>8 DEF AgentInv, AgentTypeOK
<1>10. Known(Builtin)' BY <1>2, <1>7, <1>8 DEF Known
<1>11. Frame(c) BY <1>2, <1>3, <1>4, <1>8, <1>10, OneTask DEF Frame
<1>12. tasks'[c] = u BY <1>3, OneTask
<1>13. TaskFits(u, c)' BY <1>2, <1>3, <1>10, EarlyFits DEF Carries, Creates, Early, Ensuring
<1>14. TasksFit' BY <1>11, <1>12, <1>13, FitsPrimed, FrameKeeps
<1>15. u.at = "pointer" /\ \A a \in Agents : /\ ~Touches(u, a) /\ ~Makes(u, a) /\ ~Takes(u, a)
                                             /\ ~Writes(u, a)
                                             /\ ~Touches(t, a) /\ ~Makes(t, a) /\ ~Takes(t, a)
                                             /\ ~Writes(t, a)
  BY <1>1, <1>3 DEF Carries, Touches, Makes, Takes, Writes, Ensuring
<1>16. ASSUME NEW a \in Agents, a \notin unrestored'
       PROVE  SpaceFits(a)'
  <2>1. SameRole(t, u, a) BY <1>15 DEF SameRole
  <2>2. CASE a # Builtin \/ Known(a)
    BY <1>4, <1>7, <1>8, <1>10, <1>11, <1>12, <1>16, <2>1, <2>2, SpaceKeeps DEF Known
  <2>3. CASE a = Builtin /\ ~Known(a)
    <3>1. SpaceFits(a) BY <1>4, <1>16 DEF AgentInv, SpacesFit
    <3>2. \A d \in Clients : ~Touches(tasks[d], a) BY <2>3, <3>1 DEF SpaceFits
    <3>3. \A d \in Clients : ~Takes(tasks[d], a) /\ ~Writes(tasks[d], a) BY <3>2, MoversTouch
    <3>4. \A d \in Clients : ~Makes(tasks[d], a) BY <2>3, NoMaker
    <3>5. spaces[a] = StdText BY <1>1, <1>2, <2>3 DEF TaskFits
    <3>6. AtPeace(a)' BY <1>4, <1>7, <1>8, <1>10, <2>3, <3>5 DEF AtPeace
    <3>7. \A d \in Clients : /\ ~Touches(tasks[d], a)' /\ ~Makes(tasks[d], a)'
                             /\ ~Takes(tasks[d], a)' /\ ~Writes(tasks[d], a)'
      <4>1. ASSUME NEW d \in Clients, d # c
            PROVE  /\ ~Touches(tasks[d], a)' /\ ~Makes(tasks[d], a)'
                   /\ ~Takes(tasks[d], a)' /\ ~Writes(tasks[d], a)'
        BY <1>3, <3>2, <3>3, <3>4, <4>1, Others
      <4>2. /\ ~Touches(tasks[c], a)' /\ ~Makes(tasks[c], a)'
            /\ ~Takes(tasks[c], a)' /\ ~Writes(tasks[c], a)'
        BY <1>12, <1>15 DEF Touches, Makes, Takes, Writes, Ensuring
      <4> QED BY <4>1, <4>2
    <3> QED BY <3>6, <3>7 DEF SpaceFits
  <2> QED BY <2>2, <2>3
<1> QED BY <1>9, <1>14, <1>16 DEF SpacesFit

(* What a creation, a deletion and an update know of the workspace they work on. *)
LEMMA TextsOnly ==
  ASSUME AgentInv, NEW d \in Clients, NEW a, Makes(tasks[d], a) \/ Writes(tasks[d], a)
  PROVE  tasks[d].cfg.text \in Texts
<1>1. tasks[d] # None /\ tasks[d].op # "call" BY DEF Makes, Writes, Creates
<1> QED BY <1>1, Acting, Own DEF Config

LEMMA MakeSpaceKeeps ==
  ASSUME AgentInv, NEW c \in Clients, MakeSpace(c)
  PROVE  AgentTypeOK' /\ TasksFit' /\ SpacesFit'
<1> DEFINE t == tasks[c]
<1>n. PICK n : n = t.new OBVIOUS
<1>1. t # None /\ t.at = "mkdir" /\ spaces[n] = None BY <1>n DEF MakeSpace, At
<1>2. TaskFits(t, c) /\ OnItsWay(t) /\ RowFits(t) /\ Known(Builtin) /\ Creates(t)
      /\ None \notin Texts
  BY <1>1, Acting, Where DEF TaskFits
<1>3. t.op # "call" BY <1>2 DEF Creates
<1>4. n \in Agents /\ t.cfg.text \in Texts /\ n # Builtin
  BY <1>n, <1>1, <1>2, <1>3, Own DEF Config, RowFits
<1>5. PICK u : tasks' = [tasks EXCEPT ![c] = u] /\ Carries(t, u, "commit")
  <2>1. t.ver \in Nat /\ t.tries \in Nat /\ "commit" \in PlacesOf(t.op)
    BY <1>2, <1>3, Own DEF Creates, PlacesOf
  <2> QED BY <1>2, <2>1, WayOn DEF MakeSpace, Reaches, Proceeds
<1>6. UNCHANGED <<unrestored, agents, pointer, rowLock, pointerLock>> BY DEF MakeSpace
<1>7. /\ spaces' \in [Agents -> Texts \cup {None}] /\ spaces'[n] = t.cfg.text
      /\ \A a \in Agents : a # n => spaces'[a] = spaces[a]
  BY <1>n, <1>4 DEF MakeSpace, AgentInv, AgentTypeOK
<1>8. AgentTypeOK' BY <1>6, <1>7 DEF AgentInv, AgentTypeOK
<1>9. Frame(c) BY <1>2, <1>4, <1>5, <1>6, <1>7, OneTask, AgentAssumption DEF Frame, Known
<1>10. tasks'[c] = u BY <1>5, OneTask
<1>11. Creates(u) /\ u # None BY <1>2, <1>3, <1>5, Own DEF Carries, Creates
<1>12. TasksFit'
  <2>1. RowFits(u)' BY <1>1, <1>2, <1>5, <1>11 DEF RowFits, Carries, Creates
  <2>2. ~Holds(u) BY <1>11 DEF Holds, Changes, Creates
  <2>3. TaskFits(u, c)'
    BY <1>2, <1>5, <1>6, <2>1, <2>2 DEF TaskFits, Carries, Known, OnItsWay, IsTask, Holds
  <2> QED BY <1>9, <1>10, <2>3, FitsPrimed, FrameKeeps
<1>13. ASSUME NEW a \in Agents, a \notin unrestored', a # n
       PROVE  SpaceFits(a)'
  <2>1. SameRole(t, u, a)
    BY <1>n, <1>1, <1>2, <1>5, <1>11, <1>13
    DEF Carries, SameRole, Touches, Makes, Takes, Writes, MovesFiles, Creates
  <2> QED BY <1>6, <1>7, <1>9, <1>10, <1>13, <2>1, SpaceKeeps DEF Known
<1>14. ASSUME n \notin unrestored'
       PROVE  SpaceFits(n)'
  <2>1. SpaceFits(n) BY <1>4, <1>6, <1>14 DEF AgentInv, SpacesFit
  <2>2. \A d \in Clients : ~Makes(tasks[d], n) /\ ~Writes(tasks[d], n)
    BY <1>1, <1>2, <2>1, TextsOnly DEF SpaceFits
  <2>3. ~Touches(t, n) /\ ~Takes(t, n) BY <1>2 DEF Touches, Takes, MovesFiles, Creates
  <2>4. ~Touches(u, n) /\ ~Takes(u, n) /\ ~Writes(u, n) /\ Makes(u, n)
    BY <1>n, <1>1, <1>5, <1>11 DEF Touches, Takes, Writes, Makes, MovesFiles, Creates, Carries
  <2>5. ~Touches(tasks[c], n)' /\ ~Takes(tasks[c], n)' /\ ~Writes(tasks[c], n)' /\ Makes(tasks[c], n)'
    BY <1>10, <2>4 DEF Touches, Takes, Writes, Makes, MovesFiles, Creates
  <2>6. ASSUME NEW d \in Clients, d # c
        PROVE  /\ tasks'[d] = tasks[d]
               /\ Touches(tasks[d], n)' <=> Touches(tasks[d], n)
               /\ ~Makes(tasks[d], n)' /\ ~Writes(tasks[d], n)'
               /\ Takes(tasks[d], n)' <=> Takes(tasks[d], n)
    BY <1>5, <2>2, <2>6, Others
  <2>7. Known(n) => \E d \in Clients : Takes(tasks[d], n)
    <3>1. SUFFICES ASSUME Known(n), \A d \in Clients : ~Takes(tasks[d], n) PROVE FALSE OBVIOUS
    <3>2. agents[n].text \in Texts BY <1>4, <3>1 DEF Known, AgentInv, AgentTypeOK, Agent
    <3>3. AtPeace(n) BY <2>1, <2>2, <3>1 DEF SpaceFits
    <3> QED BY <1>1, <1>2, <1>4, <3>1, <3>2, <3>3 DEF AtPeace
  <2>8. Known(n)' = Known(n) /\ agents'[n] = agents[n] BY <1>6 DEF Known
  <2>9. tasks'[c].cfg = t.cfg BY <1>5, <1>10 DEF Carries
  <2>10. \A d, e \in Clients : Touches(tasks[d], n)' /\ Touches(tasks[e], n)' => d = e
    BY <2>1, <2>5, <2>6 DEF SpaceFits
  <2>11. \A d \in Clients : Touches(tasks[d], n)' => Known(n)'
    BY <2>1, <2>5, <2>6, <2>8 DEF SpaceFits
  <2>12. \A d, e \in Clients : Makes(tasks[d], n)' /\ Makes(tasks[e], n)' => d = e BY <2>6
  <2>13. \A d \in Clients : Makes(tasks[d], n)' =>
           /\ spaces'[n] = tasks'[d].cfg.text
           /\ Known(n)' => \E e \in Clients : Takes(tasks[e], n)'
    BY <1>7, <2>3, <2>6, <2>7, <2>8, <2>9
  <2>14. \A d \in Clients : Takes(tasks[d], n)' =>
           /\ tasks'[d].was = agents'[n].text
           /\ \E e \in Clients : Makes(tasks[e], n)'
    BY <2>1, <2>5, <2>6, <2>8 DEF SpaceFits
  <2>15. \A d \in Clients : ~Writes(tasks[d], n)' BY <2>5, <2>6
  <2> QED BY <2>5, <2>10, <2>11, <2>12, <2>13, <2>14, <2>15 DEF SpaceFits
<1> QED BY <1>8, <1>12, <1>13, <1>14 DEF SpacesFit

LEMMA QuarantineKeeps ==
  ASSUME AgentInv, NEW c \in Clients, Quarantine(c)
  PROVE  AgentTypeOK' /\ TasksFit' /\ SpacesFit'
<1> DEFINE t == tasks[c]
<1>n. PICK n : n = t.agent OBVIOUS
<1>1. t # None /\ t.at = "quarantine" /\ spaces[n] # None BY <1>n DEF Quarantine, At
<1>2. TaskFits(t, c) /\ OnItsWay(t) /\ IsTask(t) /\ RowFits(t) /\ Known(Builtin)
      /\ t.op = "agent.delete"
  BY <1>1, Acting, Where DEF TaskFits
<1>3. n \in Agents /\ None \notin Texts BY <1>n, <1>2, Own, AgentAssumption
<1>4. rowLock[n] = c /\ Known(n) BY <1>n, <1>1, <1>2 DEF TaskFits, Holds, Changes
<1>5. spaces[n] \in Texts BY <1>1, <1>3 DEF AgentInv, AgentTypeOK
<1>6. PICK w : w = spaces[n] OBVIOUS
<1>7. PICK u : tasks' = [tasks EXCEPT ![c] = u] /\ u = [t EXCEPT !.at = "guard", !.was = w]
  BY <1>n, <1>6 DEF Quarantine, Proceeds
<1>8. Becomes(t, u, "guard", t.after, t.agent, t.cfg, w, t.row) BY <1>2, <1>7, Fields
<1>9. OnItsWay(u) /\ u # None
  <2>1. t.op # "call" /\ "guard" \in PlacesOf(t.op) BY <1>2 DEF PlacesOf
  <2>2. t.after \in PlacesOf(t.op) \cap {"read", "check", "lock"} BY <1>2 DEF OnItsWay
  <2>3. t.agent \in Agents /\ t.cfg \in Config /\ w \in Texts \cup {None}
        /\ t.row \in Agent \cup {None}
    BY <1>2, <1>5, <1>6, Own
  <2> QED BY <1>2, <1>8, <2>1, <2>2, <2>3, Still
<1>10. UNCHANGED <<unrestored, agents, pointer, rowLock, pointerLock>> BY DEF Quarantine
<1>11. /\ spaces' \in [Agents -> Texts \cup {None}] /\ spaces'[n] = None
       /\ \A a \in Agents : a # n => spaces'[a] = spaces[a]
  BY <1>n, <1>3 DEF Quarantine, AgentInv, AgentTypeOK
<1>12. AgentTypeOK' BY <1>10, <1>11 DEF AgentInv, AgentTypeOK
<1>13. Frame(c) BY <1>2, <1>7, <1>10, OneTask DEF Frame, Known
<1>14. tasks'[c] = u BY <1>7, OneTask
<1>15. TasksFit'
  <2>1. RowFits(u)' BY <1>2, <1>8 DEF RowFits, Becomes, Creates
  <2>2. TaskFits(u, c)'
    BY <1>n, <1>2, <1>4, <1>8, <1>9, <1>10, <2>1
    DEF TaskFits, Becomes, Known, OnItsWay, IsTask, Holds
  <2> QED BY <1>13, <1>14, <2>2, FitsPrimed, FrameKeeps
<1>16. ASSUME NEW a \in Agents, a \notin unrestored', a # n
       PROVE  SpaceFits(a)'
  <2>1. SameRole(t, u, a)
    BY <1>n, <1>1, <1>2, <1>8, <1>16
    DEF Becomes, SameRole, Touches, Makes, Takes, Writes, MovesFiles, Creates
  <2> QED BY <1>10, <1>11, <1>13, <1>14, <1>16, <2>1, SpaceKeeps DEF Known
<1>17. ASSUME n \notin unrestored'
       PROVE  SpaceFits(n)'
  <2>1. Touches(t, n) /\ ~Takes(t, n) /\ ~Writes(t, n)
    BY <1>n, <1>1, <1>2 DEF Touches, Takes, Writes, MovesFiles, Ensuring
  <2>2. /\ spaces[n] = agents[n].text /\ \A d \in Clients : ~Makes(tasks[d], n)
        /\ \A d \in Clients : d # c => ~Touches(tasks[d], n) /\ ~Takes(tasks[d], n) /\ ~Writes(tasks[d], n)
    BY <1>3, <1>10, <1>17, <2>1, Alone
  <2>3. ASSUME NEW d \in Clients, d # c
        PROVE  /\ ~Touches(tasks[d], n)' /\ ~Takes(tasks[d], n)' /\ ~Makes(tasks[d], n)'
               /\ ~Writes(tasks[d], n)'
    BY <1>7, <2>2, <2>3, Others
  <2>4. Takes(u, n) /\ ~Makes(u, n) /\ ~Writes(u, n)
    BY <1>n, <1>2, <1>8, <1>9 DEF Takes, Makes, Writes, Becomes, Creates
  <2>5. Takes(tasks[c], n)' /\ ~Makes(tasks[c], n)' /\ ~Writes(tasks[c], n)'
    BY <1>14, <2>4 DEF Takes, Makes, Writes, Creates
  <2>6. tasks'[c].was = agents'[n].text BY <1>6, <1>8, <1>10, <1>14, <2>2 DEF Becomes
  <2>7. Known(n)' BY <1>4, <1>10 DEF Known
  <2> QED BY <1>11, <2>3, <2>5, <2>6, <2>7 DEF SpaceFits
<1> QED BY <1>12, <1>15, <1>16, <1>17 DEF SpacesFit

LEMMA WriteKeeps ==
  ASSUME AgentInv, NEW c \in Clients, WriteSpace(c)
  PROVE  AgentTypeOK' /\ TasksFit' /\ SpacesFit'
<1> DEFINE t == tasks[c]
<1>n. PICK n : n = t.agent OBVIOUS
<1>1. t # None /\ t.at = "file" /\ spaces[n] # None BY <1>n DEF WriteSpace, At
<1>2. TaskFits(t, c) /\ OnItsWay(t) /\ IsTask(t) /\ RowFits(t) /\ Known(Builtin)
      /\ t.op = "agent.update"
  BY <1>1, Acting, Where DEF TaskFits
<1>3. n \in Agents /\ None \notin Texts /\ t.cfg.text \in Texts
  BY <1>n, <1>2, Own, AgentAssumption DEF Config
<1>4. rowLock[n] = c /\ Known(n) /\ (TurnsOff(t) => pointer.at # n)
  BY <1>n, <1>1, <1>2 DEF TaskFits, Holds, Changes
<1>5. spaces[n] \in Texts BY <1>1, <1>3 DEF AgentInv, AgentTypeOK
<1>6. PICK w : w = spaces[n] OBVIOUS
<1>7. PICK u : tasks' = [tasks EXCEPT ![c] = u] /\ u = [t EXCEPT !.at = "commit", !.was = w]
  BY <1>n, <1>6 DEF WriteSpace, Proceeds
<1>8. Becomes(t, u, "commit", t.after, t.agent, t.cfg, w, t.row) BY <1>2, <1>7, Fields
<1>9. OnItsWay(u) /\ u # None
  <2>1. t.op # "call" /\ "commit" \in PlacesOf(t.op) BY <1>2 DEF PlacesOf
  <2>2. t.after \in PlacesOf(t.op) \cap {"read", "check", "lock"} BY <1>2 DEF OnItsWay
  <2>3. t.agent \in Agents /\ t.cfg \in Config /\ w \in Texts \cup {None}
        /\ t.row \in Agent \cup {None}
    BY <1>2, <1>5, <1>6, Own
  <2> QED BY <1>2, <1>8, <2>1, <2>2, <2>3, Still
<1>10. UNCHANGED <<unrestored, agents, pointer, rowLock, pointerLock>> BY DEF WriteSpace
<1>11. /\ spaces' \in [Agents -> Texts \cup {None}] /\ spaces'[n] = t.cfg.text
       /\ \A a \in Agents : a # n => spaces'[a] = spaces[a]
  BY <1>n, <1>3 DEF WriteSpace, AgentInv, AgentTypeOK
<1>12. AgentTypeOK' BY <1>10, <1>11 DEF AgentInv, AgentTypeOK
<1>13. Frame(c) BY <1>2, <1>7, <1>10, OneTask DEF Frame, Known
<1>14. tasks'[c] = u BY <1>7, OneTask
<1>15. TasksFit'
  <2>1. RowFits(u)' BY <1>1, <1>2, <1>8, <1>10 DEF RowFits, Becomes, Creates
  <2>2. TurnsOff(u) => pointer.at # n BY <1>4, <1>8 DEF TurnsOff, Becomes
  <2>3. TaskFits(u, c)'
    BY <1>n, <1>2, <1>4, <1>8, <1>9, <1>10, <2>1, <2>2
    DEF TaskFits, Becomes, Known, OnItsWay, IsTask, Holds, TurnsOff
  <2> QED BY <1>13, <1>14, <2>3, FitsPrimed, FrameKeeps
<1>16. ASSUME NEW a \in Agents, a \notin unrestored', a # n
       PROVE  SpaceFits(a)'
  <2>1. SameRole(t, u, a)
    BY <1>n, <1>1, <1>2, <1>8, <1>16
    DEF Becomes, SameRole, Touches, Makes, Takes, Writes, MovesFiles, Creates
  <2> QED BY <1>10, <1>11, <1>13, <1>14, <1>16, <2>1, SpaceKeeps DEF Known
<1>17. ASSUME n \notin unrestored'
       PROVE  SpaceFits(n)'
  <2>1. Touches(t, n) /\ ~Takes(t, n) /\ ~Writes(t, n)
    BY <1>n, <1>1, <1>2 DEF Touches, Takes, Writes, MovesFiles, Ensuring
  <2>2. /\ spaces[n] = agents[n].text /\ \A d \in Clients : ~Makes(tasks[d], n)
        /\ \A d \in Clients : d # c => ~Touches(tasks[d], n) /\ ~Takes(tasks[d], n) /\ ~Writes(tasks[d], n)
    BY <1>3, <1>10, <1>17, <2>1, Alone
  <2>3. ASSUME NEW d \in Clients, d # c
        PROVE  /\ ~Touches(tasks[d], n)' /\ ~Takes(tasks[d], n)' /\ ~Makes(tasks[d], n)'
               /\ ~Writes(tasks[d], n)'
    BY <1>7, <2>2, <2>3, Others
  <2>4. Writes(u, n) /\ ~Makes(u, n) /\ ~Takes(u, n)
    BY <1>n, <1>2, <1>8, <1>9 DEF Takes, Makes, Writes, Becomes, Creates
  <2>5. Writes(tasks[c], n)' /\ ~Makes(tasks[c], n)' /\ ~Takes(tasks[c], n)'
    BY <1>14, <2>4 DEF Takes, Makes, Writes, Creates
  <2>6. tasks'[c].was = agents'[n].text /\ spaces'[n] = tasks'[c].cfg.text
    BY <1>6, <1>8, <1>10, <1>11, <1>14, <2>2 DEF Becomes
  <2>7. Known(n)' BY <1>4, <1>10 DEF Known
  <2> QED BY <1>11, <2>3, <2>5, <2>6, <2>7 DEF SpaceFits
<1> QED BY <1>12, <1>15, <1>16, <1>17 DEF SpacesFit

(* The end of a request: it has no role any more. *)
LEMMA Leaving ==
  ASSUME AgentInv, NEW c \in Clients, tasks' = [tasks EXCEPT ![c] = None], NEW a
  PROVE  /\ ~Touches(tasks[c], a)' /\ ~Makes(tasks[c], a)' /\ ~Takes(tasks[c], a)'
         /\ ~Writes(tasks[c], a)'
         /\ ~Touches(tasks'[c], a) /\ ~Makes(tasks'[c], a) /\ ~Takes(tasks'[c], a)
         /\ ~Writes(tasks'[c], a)
         /\ tasks'[c] = None
<1>1. tasks'[c] = None BY OneTask
<1> QED BY <1>1 DEF Touches, Makes, Takes, Writes

(* The last to move the files of an agent leaves them as the row says. *)
LEMMA LastLeaves ==
  ASSUME AgentInv, NEW c \in Clients, tasks' = [tasks EXCEPT ![c] = None],
         NEW a \in Agents \ unrestored, Touches(tasks[c], a), ~Takes(tasks[c], a) \/ spaces[a] = None,
         Known(a)', spaces'[a] = agents'[a].text
  PROVE  SpaceFits(a)'
<1>1. SpaceFits(a) BY DEF AgentInv, SpacesFit
<1>2. \A d \in Clients : ~Makes(tasks[d], a)
  <2>1. CASE ~Takes(tasks[c], a) BY <2>1, Alone
  <2>2. CASE spaces[a] = None BY <1>1, <2>2, TextsOnly, AgentAssumption DEF SpaceFits
  <2> QED BY <2>1, <2>2
<1>3. \A d \in Clients : d # c => ~Touches(tasks[d], a) /\ ~Takes(tasks[d], a) /\ ~Writes(tasks[d], a)
  BY Alone
<1>4. ASSUME NEW d \in Clients
      PROVE  /\ ~Touches(tasks[d], a)' /\ ~Makes(tasks[d], a)' /\ ~Takes(tasks[d], a)'
             /\ ~Writes(tasks[d], a)'
  <2>1. CASE d = c BY <2>1, Leaving
  <2>2. CASE d # c BY <1>2, <1>3, <2>2, Others
  <2> QED BY <2>1, <2>2
<1>5. AtPeace(a)' BY DEF AtPeace
<1> QED BY <1>4, <1>5 DEF SpaceFits

LEMMA CommitKeeps ==
  ASSUME AgentInv, NEW c \in Clients, CommitTask(c)
  PROVE  AgentTypeOK' /\ TasksFit' /\ SpacesFit'
<1> DEFINE t == tasks[c]
<1>n. PICK n : n = Target(t) OBVIOUS
<1>1. t # None /\ t.at = "commit" /\ (Creates(t) => ~Known(n)) BY <1>n DEF CommitTask, At, Target
<1>2. TaskFits(t, c) /\ OnItsWay(t) /\ RowFits(t) /\ Known(Builtin) /\ (t.op \in Changes \/ Creates(t))
      /\ None \notin Clients /\ None \notin Agent /\ None \notin Texts
  BY <1>1, Acting, Where DEF TaskFits
<1>3. t.op # "call" /\ (t.op \in Changes => ~Creates(t)) BY <1>2 DEF Creates, Changes
<1>4. n \in Agents /\ t.row \in Agent \cup {None} BY <1>n, <1>2, <1>3, Own DEF Target
<1>5. t.op \in Changes => n = t.agent /\ rowLock[n] = c /\ Known(n)
  BY <1>n, <1>1, <1>2, <1>3 DEF TaskFits, Holds, Target
<1>6. Creates(t) => n = t.new /\ n # Builtin /\ t.row \in Agent /\ t.row.text = t.cfg.text
  BY <1>n, <1>1, <1>2 DEF RowFits, Target
<1>7. PICK r : r = t.row OBVIOUS
<1>8. /\ agents' \in [Agents -> Agent \cup {None}] /\ agents'[n] = r
      /\ \A a \in Agents : a # n => agents'[a] = agents[a]
  BY <1>n, <1>4, <1>7 DEF CommitTask, AgentInv, AgentTypeOK
<1>9. Releases(c) /\ UNCHANGED <<unrestored, spaces, pointer>> /\ tasks' = [tasks EXCEPT ![c] = None]
  BY <1>3 DEF CommitTask, Finishes
<1>10. LocksKept(c) BY <1>9, ReleasesKeeps
<1>11. AgentTypeOK' BY <1>8, <1>9, <1>10 DEF LocksKept, AgentInv, AgentTypeOK
<1>12. r = None \/ r \in Agent BY <1>4, <1>7
<1>13. t.op # "agent.delete" => r \in Agent
  BY <1>1, <1>2, <1>6, <1>7 DEF RowFits, Changes
<1>14. Known(Builtin)'
  <2>1. t.op = "agent.delete" => n # Builtin
    BY <1>1, <1>2, <1>5 DEF RowFits, Changes
  <2>2. Builtin \in Agents BY AgentAssumption
  <2> QED BY <1>2, <1>8, <1>13, <2>1, <2>2 DEF Known
<1>15. Frame(c)
  <2>1. ASSUME NEW a \in Agents, rowLock[a] \in Clients \ {c}, Known(a)
        PROVE  agents'[a] = agents[a]
    BY <1>1, <1>2, <1>5, <1>8, <2>1
  <2> QED BY <1>9, <1>10, <1>14, <2>1, OneTask DEF Frame, LocksKept
<1>16. tasks'[c] = None BY <1>9, OneTask
<1>17. TasksFit' BY <1>15, <1>16, FrameKeeps
<1>18. ASSUME NEW a \in Agents, a \notin unrestored', a # n
       PROVE  SpaceFits(a)'
  <2>1. ~Touches(t, a) /\ ~Makes(t, a) /\ ~Takes(t, a) /\ ~Writes(t, a)
    BY <1>2, <1>3, <1>5, <1>6, <1>18
    DEF Touches, Makes, Takes, Writes, MovesFiles, Changes, Creates
  <2>2. SameRole(t, tasks'[c], a) BY <1>9, <2>1, Leaving DEF SameRole
  <2> QED BY <1>8, <1>9, <1>15, <1>18, <2>2, SpaceKeeps DEF Known
<1>19. ASSUME n \notin unrestored'
       PROVE  SpaceFits(n)'
  <2>1. SpaceFits(n) /\ n \notin unrestored BY <1>4, <1>9, <1>19 DEF AgentInv, SpacesFit
  <2>2. CASE Creates(t)
    <3>1. Makes(t, n) BY <1>1, <1>6, <2>2 DEF Makes
    <3>2. ~Known(n) BY <1>1, <2>2
    <3>3. \A d \in Clients : ~Touches(tasks[d], n) BY <2>1, <3>2 DEF SpaceFits
    <3>4. \A d \in Clients : ~Takes(tasks[d], n) /\ ~Writes(tasks[d], n) BY <3>3, MoversTouch
    <3>5. spaces[n] = t.cfg.text /\ \A d \in Clients : d # c => ~Makes(tasks[d], n)
      BY <2>1, <3>1 DEF SpaceFits
    <3>6. ASSUME NEW d \in Clients
          PROVE  /\ ~Touches(tasks[d], n)' /\ ~Makes(tasks[d], n)' /\ ~Takes(tasks[d], n)'
                 /\ ~Writes(tasks[d], n)'
      <4>1. CASE d = c BY <1>9, <4>1, Leaving
      <4>2. CASE d # c BY <1>9, <3>3, <3>4, <3>5, <4>2, Others
      <4> QED BY <4>1, <4>2
    <3>7. AtPeace(n)' BY <1>2, <1>6, <1>7, <1>8, <1>9, <2>2, <3>5 DEF AtPeace, Known
    <3> QED BY <3>6, <3>7 DEF SpaceFits
  <2>3. CASE t.op = "agent.update"
    <3>1. Touches(t, n) /\ Writes(t, n) /\ ~Takes(t, n)
      BY <1>1, <1>5, <2>3 DEF Touches, Writes, Takes, MovesFiles, Ensuring, Changes
    <3>2. spaces[n] = t.cfg.text BY <2>1, <3>1 DEF SpaceFits
    <3>3. r \in Agent /\ r.text = t.cfg.text BY <1>1, <1>2, <1>7, <2>3 DEF RowFits
    <3>4. Known(n)' /\ spaces'[n] = agents'[n].text BY <1>2, <1>8, <1>9, <3>2, <3>3 DEF Known
    <3> QED BY <1>4, <1>9, <2>1, <3>1, <3>4, LastLeaves
  <2>4. CASE t.op = "agent.delete"
    <3>1. Touches(t, n) /\ Takes(t, n)
      BY <1>1, <1>5, <2>4 DEF Touches, Takes, MovesFiles, Ensuring, Changes
    <3>2. n # Builtin /\ r = None BY <1>1, <1>2, <1>5, <1>7, <2>4 DEF RowFits, Changes
    <3>3. ~Known(n)' BY <1>8, <3>2 DEF Known
    <3>4. \A d \in Clients : d # c => ~Touches(tasks[d], n) /\ ~Takes(tasks[d], n) /\ ~Writes(tasks[d], n)
      BY <1>4, <2>1, <3>1, Alone
    <3>5. ASSUME NEW d \in Clients
          PROVE  /\ ~Touches(tasks[d], n)' /\ ~Takes(tasks[d], n)' /\ ~Writes(tasks[d], n)'
                 /\ Makes(tasks[d], n)' <=> Makes(tasks[d], n)
                 /\ Makes(tasks[d], n) => tasks'[d] = tasks[d]
      <4>1. CASE d = c
        <5>1. ~Makes(t, n) BY <2>4 DEF Makes, Creates
        <5> QED BY <1>9, <4>1, <5>1, Leaving
      <4>2. CASE d # c BY <1>9, <3>4, <4>2, Others
      <4> QED BY <4>1, <4>2
    <3>6. spaces[n] = None \/ \E d \in Clients : Makes(tasks[d], n)
      BY <2>1, <3>1, <3>2 DEF SpaceFits
    <3>7. (\A d \in Clients : ~Makes(tasks[d], n)') => AtPeace(n)'
      BY <1>9, <3>3, <3>5, <3>6 DEF AtPeace
    <3>8. \A d, e \in Clients : Makes(tasks[d], n)' /\ Makes(tasks[e], n)' => d = e
      BY <2>1, <3>5 DEF SpaceFits
    <3>9. \A d \in Clients : Makes(tasks[d], n)' => spaces'[n] = tasks'[d].cfg.text
      BY <1>9, <2>1, <3>5 DEF SpaceFits
    <3> QED BY <3>3, <3>5, <3>7, <3>8, <3>9 DEF SpaceFits
  <2>5. CASE t.op \in {"agent.enable", "agent.migrate", "agent.pin"}
    <3>1. ~Touches(t, n) /\ ~Makes(t, n) /\ ~Takes(t, n) /\ ~Writes(t, n)
      BY <2>5 DEF Touches, Makes, Takes, Writes, MovesFiles, Creates
    <3>2. SameRole(t, tasks'[c], n) BY <1>9, <3>1, Leaving DEF SameRole
    <3>3. n = t.agent /\ Known(n) BY <1>5, <2>5 DEF Changes
    <3>4. r \in Agent /\ r.text = agents[n].text BY <1>1, <1>2, <1>7, <2>5, <3>3 DEF RowFits
    <3>5. Known(n)' = Known(n) /\ agents'[n].text = agents[n].text
      BY <1>2, <1>8, <3>3, <3>4 DEF Known
    <3> QED BY <1>4, <1>9, <1>15, <1>19, <3>2, <3>5, SpaceKeeps
  <2> QED BY <1>2, <2>2, <2>3, <2>4, <2>5 DEF Changes
<1> QED BY <1>11, <1>17, <1>18, <1>19 DEF SpacesFit

LEMMA RestoreKeeps ==
  ASSUME AgentInv, NEW c \in Clients, Restore(c)
  PROVE  AgentTypeOK' /\ TasksFit' /\ SpacesFit'
<1> DEFINE t == tasks[c]
<1>n. PICK n : n = Target(t) OBVIOUS
<1>1. t # None /\ t.at = "restore" BY DEF Restore, At
<1>2. TaskFits(t, c) /\ OnItsWay(t) /\ RowFits(t) /\ Known(Builtin) /\ (t.op \in Changes \/ Creates(t))
      /\ None \notin Clients /\ None \notin Texts
  BY <1>1, Acting, Where DEF TaskFits
<1>3. t.op # "call" /\ (t.op \in Changes => ~Creates(t)) BY <1>2 DEF Creates, Changes
<1>4. n \in Agents /\ t.was \in Texts \cup {None} BY <1>n, <1>2, <1>3, Own DEF Target
<1>5. (t.op \in Changes => n = t.agent) /\ (Creates(t) => n = t.new /\ t.was = None)
  BY <1>n, <1>2, <1>3 DEF RowFits, Target
<1>6. PICK w : w = t.was OBVIOUS
<1>7. /\ InPlace(t) => spaces' = [spaces EXCEPT ![n] = w]
      /\ ~InPlace(t) => spaces' = spaces
  BY <1>n, <1>6 DEF Restore, Restored
<1>8. /\ spaces' \in [Agents -> Texts \cup {None}]
      /\ \A a \in Agents : a # n => spaces'[a] = spaces[a]
      /\ InPlace(t) => spaces'[n] = w
  BY <1>4, <1>6, <1>7 DEF AgentInv, AgentTypeOK
<1>9. Releases(c) /\ UNCHANGED <<agents, pointer>> /\ tasks' = [tasks EXCEPT ![c] = None]
  BY <1>3 DEF Restore, Finishes
<1>10. unrestored' = IF t.op = "agent.delete" /\ ~InPlace(t) THEN unrestored \cup {t.agent} ELSE unrestored
  BY DEF Restore
<1>11. LocksKept(c) BY <1>9, ReleasesKeeps
<1>12. AgentTypeOK' BY <1>8, <1>9, <1>11 DEF LocksKept, AgentInv, AgentTypeOK
<1>13. Frame(c)
  <2>1. unrestored \subseteq unrestored' BY <1>10
  <2> QED BY <1>2, <1>9, <1>11, <2>1, OneTask DEF Frame, LocksKept, Known
<1>14. tasks'[c] = None BY <1>9, OneTask
<1>15. TasksFit' BY <1>13, <1>14, FrameKeeps
<1>16. \A a \in Agents : Known(a)' = Known(a) /\ agents'[a] = agents[a] BY <1>9 DEF Known
<1>17. ASSUME NEW a \in Agents, a \notin unrestored', a # n
       PROVE  SpaceFits(a)'
  <2>1. ~Touches(t, a) /\ ~Makes(t, a) /\ ~Takes(t, a) /\ ~Writes(t, a)
    BY <1>2, <1>3, <1>5, <1>17
    DEF Touches, Makes, Takes, Writes, MovesFiles, Changes, Creates
  <2>2. SameRole(t, tasks'[c], a) BY <1>9, <2>1, Leaving DEF SameRole
  <2> QED BY <1>8, <1>13, <1>16, <1>17, <2>2, SpaceKeeps
<1>18. ASSUME n \notin unrestored'
       PROVE  SpaceFits(n)'
  <2>1. SpaceFits(n) /\ n \notin unrestored
    BY <1>4, <1>10, <1>18 DEF AgentInv, SpacesFit
  <2>2. CASE Creates(t)
    <3>1. Makes(t, n) BY <1>1, <1>5, <2>2 DEF Makes
    <3>2. spaces'[n] = None
      BY <1>3, <1>5, <1>6, <1>8, <2>2 DEF InPlace, Creates
    <3>3. \A d \in Clients : d # c => ~Makes(tasks[d], n) BY <2>1, <3>1 DEF SpaceFits
    <3>4. ~Touches(t, n) /\ ~Takes(t, n) /\ ~Writes(t, n)
      BY <2>2 DEF Touches, Takes, Writes, MovesFiles, Creates
    <3>5. \A d \in Clients : ~Writes(tasks[d], n)
      <4>1. SUFFICES ASSUME NEW d \in Clients, Writes(tasks[d], n) PROVE FALSE OBVIOUS
      <4>2. Touches(tasks[d], n) /\ Known(n) BY <2>1, <4>1, MoversTouch DEF SpaceFits
      <4>3. PICK e \in Clients : Takes(tasks[e], n) BY <2>1, <3>1, <4>2 DEF SpaceFits
      <4>4. e = d BY <2>1, <4>2, <4>3, MoversTouch DEF SpaceFits
      <4> QED BY <4>1, <4>3, <4>4 DEF Takes, Writes
    <3>6. ASSUME NEW d \in Clients
          PROVE  /\ Touches(tasks[d], n)' <=> Touches(tasks[d], n)
                 /\ Takes(tasks[d], n)' <=> Takes(tasks[d], n)
                 /\ ~Makes(tasks[d], n)' /\ ~Writes(tasks[d], n)'
                 /\ Takes(tasks[d], n) => tasks'[d] = tasks[d]
      <4>1. CASE d = c BY <1>9, <3>4, <4>1, Leaving
      <4>2. CASE d # c BY <1>9, <3>3, <3>5, <4>2, Others
      <4> QED BY <4>1, <4>2
    <3>7. Known(n) => \E d \in Clients : Takes(tasks[d], n) BY <2>1, <3>1 DEF SpaceFits
    <3>8. Known(n)' = Known(n) /\ agents'[n] = agents[n] BY <1>4, <1>16
    <3>9. (\A d \in Clients : ~Takes(tasks[d], n)') => AtPeace(n)'
      BY <3>2, <3>6, <3>7, <3>8 DEF AtPeace
    <3>10. \A d, e \in Clients : Touches(tasks[d], n)' /\ Touches(tasks[e], n)' => d = e
      BY <2>1, <3>6 DEF SpaceFits
    <3>11. \A d \in Clients : Touches(tasks[d], n)' => Known(n)'
      BY <2>1, <3>6, <3>8 DEF SpaceFits
    <3>12. \A d \in Clients : Takes(tasks[d], n)' => tasks'[d].was = agents'[n].text
      BY <2>1, <3>6, <3>8 DEF SpaceFits
    <3> QED BY <3>2, <3>6, <3>9, <3>10, <3>11, <3>12 DEF SpaceFits
  <2>3. CASE t.op = "agent.update"
    <3>1. Touches(t, n) /\ Writes(t, n) /\ ~Takes(t, n)
      BY <1>1, <1>5, <2>3 DEF Touches, Writes, Takes, MovesFiles, Ensuring, Changes
    <3>2. /\ spaces[n] = t.cfg.text /\ t.was = agents[n].text /\ Known(n)
      BY <2>1, <3>1 DEF SpaceFits
    <3>3. t.cfg.text \in Texts BY <3>1, TextsOnly
    <3>4. InPlace(t) BY <1>2, <1>5, <2>3, <3>2, <3>3 DEF InPlace, Changes
    <3>5. Known(n)' /\ spaces'[n] = agents'[n].text
      BY <1>4, <1>6, <1>8, <1>16, <3>2, <3>4
    <3> QED BY <1>4, <1>9, <2>1, <3>1, <3>5, LastLeaves
  <2>4. CASE t.op = "agent.delete"
    <3>1. Touches(t, n) /\ Takes(t, n)
      BY <1>1, <1>5, <2>4 DEF Touches, Takes, MovesFiles, Ensuring, Changes
    <3>2. t.was = agents[n].text /\ Known(n) BY <2>1, <3>1 DEF SpaceFits
    <3>3. InPlace(t) BY <1>5, <1>10, <1>18, <2>4 DEF Changes
    <3>4. spaces[n] = None BY <1>5, <2>4, <3>3 DEF InPlace, Changes
    <3>5. Known(n)' /\ spaces'[n] = agents'[n].text
      BY <1>4, <1>6, <1>8, <1>16, <3>2, <3>3
    <3> QED BY <1>4, <1>9, <2>1, <3>1, <3>4, <3>5, LastLeaves
  <2>5. CASE t.op \in {"agent.enable", "agent.migrate", "agent.pin"}
    <3>1. ~Touches(t, n) /\ ~Makes(t, n) /\ ~Takes(t, n) /\ ~Writes(t, n)
      BY <2>5 DEF Touches, Makes, Takes, Writes, MovesFiles, Creates
    <3>2. SameRole(t, tasks'[c], n) BY <1>9, <3>1, Leaving DEF SameRole
    <3>3. ~InPlace(t) BY <2>5 DEF InPlace, Creates
    <3>4. spaces'[n] = spaces[n] BY <1>7, <3>3
    <3> QED BY <1>4, <1>13, <1>16, <1>18, <3>2, <3>4, SpaceKeeps
  <2> QED BY <1>2, <2>2, <2>3, <2>4, <2>5 DEF Changes
<1> QED BY <1>12, <1>15, <1>17, <1>18 DEF SpacesFit

-----------------------------------------------------------------------------
(* Requests of teams, which have agents read for them *)

LEMMA CallKeeps ==
  ASSUME AgentInv, NEW c \in Clients, KeepAgents, tasks[c] = None, NEW a, Calls(c, a)
  PROVE  AgentTypeOK' /\ TasksFit' /\ SpacesFit'
<1>1. PICK u : u = Task("call", a, a, BuiltinConfig, "read") OBVIOUS
<1>2. tasks' = [tasks EXCEPT ![c] = u] BY <1>1 DEF Calls
<1>3. u.op = "call" /\ u.at = "repair" BY <1>1 DEF Task
<1>4. OnItsWay(u) BY <1>1 DEF Task, OnItsWay, IsTask, Ops, PlacesOf, Ensuring
<1>5. Quiet(c) BY SameKeeps DEF KeepAgents, Quiet, AgentInv, AgentTypeOK
<1>6. TaskFits(u, c)' BY <1>3, <1>4, EarlyFits DEF Early, Ensuring, Creates
<1>7. \A x \in Agents : SameRole(tasks[c], u, x)
  BY <1>3 DEF SameRole, Touches, Makes, Takes, Writes, Ensuring
<1> QED BY <1>2, <1>5, <1>6, <1>7, QuietMove

(* A request of teams that ends or puts down the agent it has read. *)
LEMMA PutDownKeeps ==
  ASSUME AgentInv, NEW c \in Clients, works[c] # None, tasks' = [tasks EXCEPT ![c] = None], Quiet(c)
  PROVE  AgentTypeOK' /\ TasksFit' /\ SpacesFit'
<1>1. tasks[c] # None => tasks[c].op = "call" BY DEF AgentInv, OneRequest
<1>2. tasks[c] # None => tasks[c].at \notin {"guard", "commit", "restore"}
  BY <1>1, Acting, Where DEF Changes, Creates
<1> QED BY <1>2, EndKeeps

LEMMA StillKeeps ==
  ASSUME AgentInv, UNCHANGED agentVars
  PROVE  AgentTypeOK' /\ TasksFit' /\ SpacesFit'
<1>1. AgentTypeOK' BY DEF agentVars, AgentInv, AgentTypeOK
<1>2. TasksFit'
  <2>1. ASSUME NEW c \in Clients, tasks'[c] # None
        PROVE  TaskFits(tasks[c], c)'
    BY <2>1 DEF agentVars, AgentInv, TasksFit, TaskFits, OnItsWay, IsTask, RowFits, Holds, TurnsOff,
       Creates, Known
  <2> QED BY <2>1 DEF TasksFit
<1>3. SpacesFit'
  <2>1. ASSUME NEW a \in Agents, a \notin unrestored'
        PROVE  SpaceFits(a)'
    BY <2>1 DEF agentVars, AgentInv, SpacesFit, SpaceFits, AtPeace, Touches, Makes, Takes, Writes,
       MovesFiles, Creates, Known
  <2> QED BY <2>1 DEF SpacesFit
<1> QED BY <1>1, <1>2, <1>3

LEMMA TeamsKeep ==
  ASSUME AgentInv, TeamNext
  PROVE  AgentTypeOK' /\ TasksFit' /\ SpacesFit' /\ Found'
<1>1. ASSUME NEW c \in Clients, TeamBegin(c)
      PROVE  UNCHANGED agentVars
  BY <1>1, TeamBegins DEF KeepTasks, KeepAgents, agentVars
<1>2. ASSUME NEW t \in Teams, CreateTeam(t) \/ \E b \in BOOLEAN : EnableTeam(t, b)
      PROVE  UNCHANGED agentVars
  BY <1>2 DEF CreateTeam, EnableTeam, KeepTasks, KeepAgents, agentVars
<1>3. ASSUME UNCHANGED agentVars
      PROVE  AgentTypeOK' /\ TasksFit' /\ SpacesFit' /\ Found'
  BY <1>3, StillKeeps DEF AgentInv, Found, Known, agentVars
<1>4. ASSUME NEW c \in Clients, TeamGoesOn(c)
      PROVE  AgentTypeOK' /\ TasksFit' /\ SpacesFit' /\ Found'
  <2>1. KeepAgents /\ works[c] # None BY <1>4, TeamWorks
  <2>2. Quiet(c) BY <2>1, SameKeeps DEF KeepAgents, Quiet, AgentInv, AgentTypeOK
  <2>3. \/ tasks' = tasks
        \/ tasks' = [tasks EXCEPT ![c] = None]
        \/ \E a : tasks[c] = None /\ Calls(c, a)
    BY <1>4, TeamWorks, TeamEnds
  <2>4. Found' BY <2>1 DEF KeepAgents, AgentInv, Found, Known
  <2>5. CASE tasks' = tasks BY <1>3, <2>1, <2>5 DEF KeepAgents, agentVars
  <2>6. CASE tasks' = [tasks EXCEPT ![c] = None] BY <2>1, <2>2, <2>4, <2>6, PutDownKeeps
  <2>7. CASE \E a : tasks[c] = None /\ Calls(c, a) BY <2>1, <2>4, <2>7, CallKeeps
  <2> QED BY <2>3, <2>5, <2>6, <2>7
<1>5. ASSUME NEW c \in Clients, BreakWork(c)
      PROVE  AgentTypeOK' /\ TasksFit' /\ SpacesFit' /\ Found'
  <2>1. Quiet(c) BY <1>5, ReleasesKeeps DEF BreakWork, Quiet
  <2>2. works[c] # None /\ tasks' = [tasks EXCEPT ![c] = None] BY <1>5, TeamBreaks
  <2>3. Found' BY <1>5 DEF BreakWork, AgentInv, Found, Known
  <2> QED BY <2>1, <2>2, <2>3, PutDownKeeps
<1> QED BY <1>1, <1>2, <1>3, <1>4, <1>5 DEF TeamNext

-----------------------------------------------------------------------------
(* The invariant *)

LEMMA FoundKeeps ==
  ASSUME AgentInv, NEW c \in Clients, AgentBegin(c) \/ AgentGoesOn(c) \/ CommitFails(c)
  PROVE  Found'
<1>1. CASE UNCHANGED <<unrestored, agents>> BY <1>1 DEF AgentInv, Found, Known
<1>2. CASE LockAgent(c) \/ Restore(c)
  <2>1. Known(Builtin)
    <3>1. tasks[c] # None /\ tasks[c].at \in {"lock", "restore"} BY <1>2 DEF LockAgent, Restore, At
    <3> QED BY <3>1, Acting DEF TaskFits
  <2> QED BY <1>2, <2>1 DEF LockAgent, Restore, Found, Known
<1>3. CASE RepairBuiltin(c)
  <2>1. agents'[Builtin] # None
    <3>1. Builtin \in Agents /\ None \notin Agent /\ StdText \in Texts BY AgentAssumption
    <3>2. CASE agents[Builtin] = None
      <4>1. agents'[Builtin] = AgentRow(BuiltinConfig, {}, TRUE)
        BY <1>3, <3>1, <3>2 DEF RepairBuiltin, AgentInv, AgentTypeOK
      <4>2. AgentRow(BuiltinConfig, {}, TRUE) \in Agent
        BY <3>1 DEF AgentRow, BuiltinConfig, Agent
      <4> QED BY <3>1, <4>1, <4>2
    <3>3. CASE agents[Builtin] # None
      <4>1. agents[Builtin] \in Agent BY <3>1, <3>3 DEF AgentInv, AgentTypeOK
      <4>2. agents'[Builtin] = [agents[Builtin] EXCEPT !.on = TRUE]
        BY <1>3, <3>1, <3>3 DEF RepairBuiltin, AgentInv, AgentTypeOK
      <4> QED BY <3>1, <4>1, <4>2 DEF Agent
    <3> QED BY <3>2, <3>3
  <2> QED BY <2>1 DEF Found, Known
<1>4. CASE CommitTask(c)
  <2>1. unrestored' = unrestored BY <1>4 DEF CommitTask
  <2>2. tasks[c] # None /\ tasks[c].at = "commit" BY <1>4 DEF CommitTask, At
  <2>3. TaskFits(tasks[c], c) /\ OnItsWay(tasks[c]) BY <2>2, Acting
  <2>4. Builtin \in Agents /\ None \notin Agent BY AgentAssumption
  <2>5. agents' = [agents EXCEPT ![Target(tasks[c])] = tasks[c].row] BY <1>4 DEF CommitTask
  <2>6. Target(tasks[c]) = Builtin => tasks[c].row # None
    BY <2>2, <2>3, <2>4, Where DEF TaskFits, RowFits, Target, Changes, Creates
  <2>7. Known(Builtin) BY <2>2, <2>3 DEF TaskFits
  <2>8. Known(Builtin)' BY <2>4, <2>5, <2>6, <2>7 DEF Known, AgentInv, AgentTypeOK
  <2> QED BY <2>8 DEF Found
<1>5. \/ UNCHANGED <<unrestored, agents>> \/ LockAgent(c) \/ Restore(c) \/ RepairBuiltin(c) \/ CommitTask(c)
  <2>1. ASSUME AgentBegin(c)
        PROVE  UNCHANGED <<unrestored, agents>>
    BY <2>1 DEF AgentBegin, BeginTask
  <2>2. CASE MakeBuiltin(c) \/ ReadPointer(c) \/ LockPointer(c) \/ AdoptAgain(c) \/ Adopt(c)
             \/ ReadAgent(c) \/ CheckId(c) \/ Resolve(c) \/ MakeSpace(c) \/ Quarantine(c)
             \/ PassGuard(c) \/ WriteSpace(c)
    BY <2>2 DEF MakeBuiltin, ReadPointer, LockPointer, AdoptAgain, Adopt, ReadAgent, CheckId,
       Resolve, MakeSpace, Quarantine, PassGuard, WriteSpace
  <2>3. CASE AdoptFails(c) \/ NotFound(c) \/ ResolveFails(c) \/ SpaceTaken(c) \/ SpaceMissing(c)
             \/ RefuseChange(c) \/ RefuseDelete(c) \/ Duplicate(c) \/ CommitFails(c)
    BY <2>3 DEF AdoptFails, NotFound, ResolveFails, SpaceTaken, SpaceMissing, RefuseChange,
       RefuseDelete, Duplicate, CommitFails, Refused, RollsBack
  <2> QED BY <2>1, <2>2, <2>3 DEF AgentGoesOn
<1> QED BY <1>1, <1>2, <1>3, <1>4, <1>5

LEMMA AgentsKeep ==
  ASSUME AgentInv, SkillInv, NEW c \in Clients, AgentBegin(c) \/ AgentGoesOn(c) \/ CommitFails(c)
  PROVE  AgentTypeOK' /\ TasksFit' /\ SpacesFit' /\ Found'
<1>1. Found' BY FoundKeeps
<1>2. CASE AgentBegin(c) BY <1>1, <1>2, BeginKeeps
<1>3. CASE MakeBuiltin(c) BY <1>1, <1>3, MakeBuiltinKeeps
<1>4. CASE RepairBuiltin(c) BY <1>1, <1>4, RepairKeeps
<1>5. CASE ReadPointer(c) \/ LockPointer(c) \/ AdoptAgain(c) BY <1>1, <1>5, EnsureKeeps
<1>6. CASE Adopt(c) BY <1>1, <1>6, AdoptKeeps
<1>7. CASE ReadAgent(c) BY <1>1, <1>7, ReadKeeps
<1>8. CASE LockAgent(c) BY <1>1, <1>8, LockKeeps
<1>9. CASE CheckId(c) BY <1>1, <1>9, CheckKeeps
<1>10. CASE Resolve(c) BY <1>1, <1>10, ResolveKeeps
<1>11. CASE MakeSpace(c) BY <1>1, <1>11, MakeSpaceKeeps
<1>12. CASE Quarantine(c) BY <1>1, <1>12, QuarantineKeeps
<1>13. CASE PassGuard(c) BY <1>1, <1>13, PassKeeps
<1>14. CASE WriteSpace(c) BY <1>1, <1>14, WriteKeeps
<1>15. CASE CommitTask(c) BY <1>1, <1>15, CommitKeeps
<1>16. CASE Restore(c) BY <1>1, <1>16, RestoreKeeps
<1>17. CASE AdoptFails(c) \/ NotFound(c) \/ ResolveFails(c) \/ SpaceTaken(c) \/ SpaceMissing(c)
            \/ RefuseChange(c)
  BY <1>1, <1>17, RefusalsKeep
<1>18. CASE RefuseDelete(c) \/ Duplicate(c) \/ CommitFails(c) BY <1>1, <1>18, BackKeeps
<1> QED BY <1>2, <1>3, <1>4, <1>5, <1>6, <1>7, <1>8, <1>9, <1>10, <1>11, <1>12, <1>13, <1>14,
           <1>15, <1>16, <1>17, <1>18 DEF AgentGoesOn

(* A request that breaks off leaves what it did to a workspace; only the agent it
   did it to is no longer spoken of. *)
LEMMA BreakKeeps ==
  ASSUME AgentInv, NEW c \in Clients, BreakTask(c)
  PROVE  AgentTypeOK' /\ TasksFit' /\ SpacesFit' /\ Found'
<1> DEFINE t == tasks[c]
<1>1. /\ t # None /\ tasks' = [tasks EXCEPT ![c] = None]
      /\ UNCHANGED <<agents, spaces, pointer>>
      /\ unrestored' = IF SpaceChanged(t) THEN unrestored \cup {Target(t)} ELSE unrestored
  BY DEF BreakTask
<1>2. LocksKept(c) BY ReleasesKeeps DEF BreakTask
<1>3. tasks'[c] = None BY <1>1, OneTask
<1>4. AgentTypeOK' BY <1>1, <1>2 DEF LocksKept, AgentInv, AgentTypeOK
<1>5. Frame(c) BY <1>1, <1>2, OneTask DEF Frame, LocksKept, Known
<1>6. TasksFit' BY <1>3, <1>5, FrameKeeps
<1>7. ASSUME NEW a \in Agents, a \notin unrestored'
      PROVE  SpaceFits(a)'
  <2>1. ~(SpaceChanged(t) /\ Target(t) = a) BY <1>1, <1>7
  <2>2. t.op \in {"agent.update", "agent.delete"} => ~Creates(t) BY DEF Creates
  <2>3. ~Makes(t, a) /\ ~Takes(t, a) /\ ~Writes(t, a)
    BY <2>1, <2>2 DEF Makes, Takes, Writes, SpaceChanged, Target
  <2>4. SameRole(t, tasks'[c], a)
    BY <1>3, <2>3 DEF SameRole, Touches, Makes, Takes, Writes
  <2>5. spaces'[a] = spaces[a] /\ agents'[a] = agents[a] /\ Known(a)' = Known(a)
    BY <1>1 DEF Known
  <2> QED BY <1>5, <1>7, <2>4, <2>5, SpaceKeeps
<1>8. SpacesFit' BY <1>7 DEF SpacesFit
<1>9. Found'
  <2>1. SpaceChanged(t) => t.at \notin {"repair", "row"} BY DEF SpaceChanged
  <2>2. SpaceChanged(t) => Known(Builtin) BY <1>1, <2>1, Acting DEF TaskFits
  <2> QED BY <1>1, <2>2 DEF AgentInv, Found, Known
<1> QED BY <1>4, <1>6, <1>8, <1>9

LEMMA AgentInvNext ==
  ASSUME AgentInv, SkillInv, [Next]_vars
  PROVE  AgentInv'
<1>1. OneRequest' BY OneRequestStep
<1>2. ASSUME UNCHANGED agentVars
      PROVE  AgentInv'
  BY <1>1, <1>2, StillKeeps DEF AgentInv, Found, Known, agentVars
<1>3. CASE ByAgents(AgentNext)
  BY <1>1, <1>3, AgentsKeep, BreakKeeps DEF ByAgents, AgentNext, AgentInv
<1>4. CASE ByTeams(TeamNext) BY <1>1, <1>4, TeamsKeep DEF ByTeams, AgentInv
<1> QED BY <1>2, <1>3, <1>4 DEF Next, vars, ByIdentity, BySkills

LEMMA AgentInvariant == Spec => []AgentInv
<1>1. Init => AgentInv BY AgentInvInit
<1>2. AgentInv /\ SkillInv /\ [Next]_vars => AgentInv' BY AgentInvNext
<1> QED BY <1>1, <1>2, SkillInvariant, PTL DEF Spec

(* A request that turns off or deletes its agent found another default when it
   passed the guard, and only the built-in agent becomes the default, which is
   there, enabled and not locked then: so a usable default stays usable.  For any
   number of agents, clients, requests and faults. *)
THEOREM DefaultStays == Spec => DefaultStaysUsable
<1>1. ASSUME AgentInv, [Next]_vars
      PROVE  [DefaultUsable => DefaultUsable']_agentVars
  <2>1. SUFFICES ASSUME DefaultUsable PROVE DefaultUsable' OBVIOUS
  <2> DEFINE p == pointer.at
  <2>2. p \in Agents /\ Known(p) /\ agents[p].on /\ agents[p].common
    BY <1>1, <2>1 DEF DefaultUsable, Eligible, AgentInv, AgentTypeOK, Pointer
  <2>3. agents[p] \in Agent BY <1>1, <2>2 DEF Known, AgentInv, AgentTypeOK
  <2>4. CASE UNCHANGED <<agents, pointer>> BY <2>1, <2>4 DEF DefaultUsable, Eligible, Known
  <2>5. ASSUME NEW c \in Clients, RepairBuiltin(c)
        PROVE  DefaultUsable'
    <3>1. pointer' = pointer BY <2>5 DEF RepairBuiltin
    <3>2. p # Builtin => agents'[p] = agents[p]
      BY <1>1, <2>2, <2>5 DEF RepairBuiltin, AgentInv, AgentTypeOK
    <3>3. p = Builtin => agents'[p] = [agents[p] EXCEPT !.on = TRUE]
      BY <1>1, <2>2, <2>5 DEF RepairBuiltin, AgentInv, AgentTypeOK, Known
    <3>4. agents'[p] \in Agent /\ agents'[p].on /\ agents'[p].common
      BY <2>2, <2>3, <3>2, <3>3 DEF Agent
    <3> QED BY <2>2, <3>1, <3>4, AgentAssumption DEF DefaultUsable, Eligible, Known
  <2>6. ASSUME NEW c \in Clients, Adopt(c)
        PROVE  DefaultUsable'
    BY <2>6 DEF Adopt, MayAdopt, DefaultUsable, Eligible, Known
  <2>7. ASSUME NEW c \in Clients, CommitTask(c)
        PROVE  DefaultUsable'
    <3> DEFINE t == tasks[c]
    <3>n. PICK n, r : n = Target(t) /\ r = t.row OBVIOUS
    <3>1. t # None /\ t.at = "commit" /\ (Creates(t) => ~Known(n)) /\ pointer' = pointer
          /\ agents' = [agents EXCEPT ![n] = r]
      BY <2>7, <3>n DEF CommitTask, At, Target
    <3>2. TaskFits(t, c) /\ OnItsWay(t) /\ RowFits(t) /\ (t.op \in Changes \/ Creates(t))
          /\ None \notin Agent
      BY <1>1, <3>1, Acting, Where DEF TaskFits
    <3>3. CASE n # p
      <4>1. agents'[p] = agents[p] BY <1>1, <2>2, <3>1, <3>3 DEF AgentInv, AgentTypeOK
      <4> QED BY <2>1, <3>1, <4>1 DEF DefaultUsable, Eligible, Known
    <3>4. CASE n = p
      <4>1. ~Creates(t) /\ t.op \in Changes /\ n = t.agent
        BY <2>2, <3>n, <3>1, <3>2, <3>4 DEF Target
      <4>2. ~TurnsOff(t) BY <3>1, <3>2, <3>4, <4>1 DEF TaskFits, Holds
      <4>3. r \in Agent /\ r.on /\ r.common
        BY <2>2, <3>n, <3>1, <3>2, <3>4, <4>1, <4>2 DEF RowFits, TurnsOff, Changes
      <4>4. agents'[p] = r BY <1>1, <2>2, <3>1, <3>4 DEF AgentInv, AgentTypeOK
      <4> QED BY <2>2, <3>1, <3>2, <4>3, <4>4, AgentAssumption DEF DefaultUsable, Eligible, Known
    <3> QED BY <3>3, <3>4
  <2>8. ASSUME NEW c \in Clients, AgentBegin(c) \/ AgentGoesOn(c) \/ CommitFails(c)
        PROVE  DefaultUsable'
    <3>1. CASE AgentBegin(c) BY <2>4, <3>1 DEF AgentBegin, BeginTask
    <3>2. CASE MakeBuiltin(c) \/ ReadPointer(c) \/ LockPointer(c) \/ AdoptAgain(c) \/ Restore(c)
               \/ ReadAgent(c) \/ CheckId(c) \/ Resolve(c) \/ MakeSpace(c) \/ Quarantine(c)
               \/ PassGuard(c) \/ WriteSpace(c) \/ LockAgent(c)
      BY <2>4, <3>2 DEF MakeBuiltin, ReadPointer, LockPointer, AdoptAgain, ReadAgent, CheckId,
         Resolve, MakeSpace, Quarantine, PassGuard, WriteSpace, LockAgent, Restore
    <3>3. CASE AdoptFails(c) \/ NotFound(c) \/ ResolveFails(c) \/ SpaceTaken(c) \/ SpaceMissing(c)
               \/ RefuseChange(c) \/ RefuseDelete(c) \/ Duplicate(c) \/ CommitFails(c)
      BY <2>4, <3>3 DEF AdoptFails, NotFound, ResolveFails, SpaceTaken, SpaceMissing,
         RefuseChange, RefuseDelete, Duplicate, CommitFails, Refused, RollsBack
    <3> QED BY <2>5, <2>6, <2>7, <2>8, <3>1, <3>2, <3>3 DEF AgentGoesOn
  <2>9. ASSUME TeamNext
        PROVE  UNCHANGED <<agents, pointer>>
    <3>1. ASSUME NEW c \in Clients, TeamBegin(c) \/ TeamGoesOn(c) \/ BreakWork(c)
          PROVE  UNCHANGED <<agents, pointer>>
      BY <3>1, TeamBegins, TeamWorks DEF KeepTasks, KeepAgents, BreakWork
    <3>2. ASSUME NEW t \in Teams, CreateTeam(t) \/ \E b \in BOOLEAN : EnableTeam(t, b)
          PROVE  UNCHANGED <<agents, pointer>>
      BY <3>2 DEF CreateTeam, EnableTeam, KeepTasks, KeepAgents
    <3> QED BY <2>9, <3>1, <3>2 DEF TeamNext
  <2>10. CASE UNCHANGED vars BY <2>4, <2>10 DEF vars, agentVars
  <2>11. CASE ByIdentity(IdentityNext) \/ BySkills(SkillNext)
    BY <2>4, <2>11 DEF ByIdentity, BySkills, agentVars
  <2>12. CASE ByAgents(AgentNext)
    <3>1. ASSUME NEW c \in Clients, BreakTask(c)
          PROVE  DefaultUsable'
      BY <2>4, <3>1 DEF BreakTask
    <3> QED BY <2>8, <2>12, <3>1 DEF ByAgents, AgentNext
  <2>13. CASE ByTeams(TeamNext) BY <2>4, <2>9, <2>13 DEF ByTeams
  <2> QED BY <1>1, <2>10, <2>11, <2>12, <2>13 DEF Next
<1> QED BY <1>1, AgentInvariant, PTL DEF Spec, DefaultStaysUsable

(* Whoever touches a workspace leaves it as the row says, or the next one puts it
   right: an agent nobody works on has the workspace of its row, unless its
   workspace was not put back (unrestored): a process died or the putting back
   failed after a change of the files, or the files were replaced meanwhile.  For
   any number of agents, clients, requests and faults. *)
THEOREM WorkspacesAgree == Spec => []WorkspaceAgrees
<1>1. AgentInv => WorkspaceAgrees
  <2> SUFFICES ASSUME AgentInv, NEW a \in Agents \ unrestored, Untouched(a)
               PROVE  \/ spaces[a] = IF Known(a) THEN agents[a].text ELSE None
                      \/ a = Builtin /\ ~Known(a)
    BY DEF WorkspaceAgrees
  <2>1. \A c \in Clients : ~Makes(tasks[c], a) /\ ~Takes(tasks[c], a) /\ ~Writes(tasks[c], a)
    BY DEF Untouched, Makes, Takes, Writes
  <2>2. AtPeace(a) BY <2>1 DEF AgentInv, SpacesFit, SpaceFits
  <2> QED BY <2>2 DEF AtPeace
<1> QED BY <1>1, AgentInvariant, PTL
=============================================================================
