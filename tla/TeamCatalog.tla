----------------------------- MODULE TeamCatalog -----------------------------
(***************************************************************************)
(* Teams of agents, published from drafts; the messages of a conversation, *)
(* each with the run it starts; and the execution snapshot of a run, which *)
(* fixes what its worker will see.                                         *)
(*                                                                         *)
(* A handler reads agents through the agent service, which uses sessions   *)
(* of its own ("call" in AgentCatalog), while its own transaction may hold *)
(* the row of a team.  What it has read or decided is in works.            *)
(*                                                                         *)
(* drafts is a history variable: each draft that was saved, and the        *)
(* revision its editor had seen.                                           *)
(***************************************************************************)
EXTENDS AgentCatalog

CONSTANTS
  Teams,        \* team ids
  Drafts,       \* what a client saves: sets of members, the supervisor among them
  Squads        \* what is there at the start: a set of [teams, teamVersions]

VARIABLES
  teams,        \* Team and its draft, None when there is no such team
  teamVersions, \* published TeamVersion rows of each team, in order
  drafts,
  teamLock,     \* who has the row of each team locked
  chat,         \* committed messages of a conversation
  chatLock,     \* who has the row of the conversation locked
  runs,         \* AgentRun rows of the conversation
  snapshots,    \* RuntimeExecutionSnapshot of each run, None before it is made
  works

teamVars == <<teams, teamVersions, drafts, teamLock, chat, chatLock, runs, snapshots, works>>

RunIds == 1..MaxRequests
Rows == UNION {[D -> Agent] : D \in SUBSET Agents}
Team == [rev : Nat \ {0}, draft : SUBSET Agents, on : BOOLEAN, current : Nat]
TeamWork == [op : {"team.save", "team.publish", "message", "answer", "snapshot"},
             at : {"save", "lock", "capture", "resolve", "send", "commit", "look", "read"},
             on : Teams \cup Agents \cup RunIds \cup {None}, rev : Nat, draft : SUBSET Agents,
             rows : Rows, version : Nat, seq : Nat]

(* What is there at the start was saved and published by the same handlers, the
   drafts so far with the same members. *)
ASSUME TeamAssumption ==
  /\ None \notin Teams /\ Teams \cap Agents = {} /\ None \notin Team /\ None \notin TeamWork
  /\ \A D \in Drafts : D \subseteq Agents /\ Cardinality(D) > 1
  /\ \A start \in Squads :
       /\ start.teams \in [Teams -> Team \cup {None}] /\ DOMAIN start.teamVersions = Teams
       /\ \A t \in Teams : LET team == start.teams[t] vs == start.teamVersions[t] IN
            IF team = None THEN vs = <<>>
            ELSE /\ vs \in Seq([rev : 1..team.rev, members : [team.draft -> Agent]])
                 /\ team.current <= Len(vs)
                 /\ \A n \in DOMAIN vs : \A a \in team.draft : vs[n].members[a].on

TeamInit ==
  /\ \E start \in Squads : teams = start.teams /\ teamVersions = start.teamVersions
  /\ drafts = [t \in Teams |-> IF teams[t] = None THEN <<>>
                 ELSE [n \in 1..teams[t].rev |-> [members |-> teams[t].draft, seen |-> n - 1]]]
  /\ teamLock = [t \in Teams |-> None]
  /\ chat = <<>> /\ chatLock = None /\ runs = <<>>
  /\ snapshots = [r \in RunIds |-> None]
  /\ works = [c \in Clients |-> None]

-----------------------------------------------------------------------------
(* Helpers *)

Formed(t) == teams[t] # None
TeamFree(t) == teamLock[t] = None
Work(op, at, on) ==
  [op |-> op, at |-> at, on |-> on, rev |-> 0, draft |-> {}, rows |-> <<>>, version |-> 0, seq |-> 0]
Doing(c, op, at) == works[c] # None /\ works[c].op = op /\ works[c].at = at
BeginWork(c, w) ==
  /\ Begins(c, w.op) /\ works' = [works EXCEPT ![c] = w]
  /\ UNCHANGED <<agentVars, teams, teamVersions, drafts, teamLock, chat, chatLock, runs, snapshots>>
WorksOn(c, w) == works' = [works EXCEPT ![c] = w] /\ GoesOn

(* The request ends, committed or rolled back: its locks are free. *)
TeamsWithout_Mutant(c) == teamLock               \* no rollback in publish
TeamsWithout(c) == [t \in Teams |-> IF teamLock[t] = c THEN None ELSE teamLock[t]]
Leaves(c) ==
  /\ works' = [works EXCEPT ![c] = None]
  /\ teamLock' = TeamsWithout(c) /\ chatLock' = IF chatLock = c THEN None ELSE chatLock
EndsWork(c) == Leaves(c) /\ tasks' = [tasks EXCEPT ![c] = None] /\ Ends(c)
KeepAgents == UNCHANGED <<unrestored, agents, spaces, pointer, rowLock, pointerLock>>
KeepTasks == KeepAgents /\ UNCHANGED tasks

(* agent_service.get of an agent, of the default when a is None. *)
Calls(c, a) == tasks' = [tasks EXCEPT ![c] = Task("call", a, a, BuiltinConfig, "read")]
Called(c) == tasks[c] # None /\ tasks[c].at \in {"done", "failed"}
Enabled(row) == row # None /\ row.on
Usable(c) == tasks[c].at = "done" /\ Enabled(tasks[c].row)

-----------------------------------------------------------------------------
(* Teams *)

CreateTeam(t) ==
  /\ AtOnce("team.create") /\ ~Formed(t)
  /\ teams' = [teams EXCEPT ![t] = [rev |-> 1, draft |-> {}, on |-> FALSE, current |-> 0]]
  /\ drafts' = [drafts EXCEPT ![t] = <<[members |-> {}, seen |-> 0]>>]
  /\ KeepTasks /\ UNCHANGED <<teamVersions, teamLock, chat, chatLock, runs, snapshots, works>>

(* The row is updated when nobody has it locked; to enable it, the team must
   have been published. *)
EnableTeam(t, b) ==
  /\ AtOnce("team.enable") /\ Formed(t) /\ TeamFree(t) /\ (b => teams[t].current # 0)
  /\ teams' = [teams EXCEPT ![t].on = b]
  /\ KeepTasks
  /\ UNCHANGED <<teamVersions, drafts, teamLock, chat, chatLock, runs, snapshots, works>>

(* save_draft: the client sends the revision it has seen. *)
BeginSave(c, t, D) ==
  /\ Formed(t)
  /\ BeginWork(c, [Work("team.save", "save", t) EXCEPT !.rev = teams[t].rev, !.draft = D])

Expected_Mutant(c) == TRUE                       \* the last editor wins
Expected(c) == teams[works[c].on].rev = works[c].rev
SaveTeam(c) ==
  /\ Doing(c, "team.save", "save") /\ TeamFree(works[c].on) /\ Expected(c)
  /\ LET t == works[c].on IN
       /\ teams' = [teams EXCEPT ![t].draft = works[c].draft, ![t].rev = @ + 1]
       /\ drafts' = [drafts EXCEPT ![t] =
                      Append(@, [members |-> works[c].draft, seen |-> works[c].rev])]
  /\ EndsWork(c) /\ KeepAgents /\ UNCHANGED <<teamVersions, chat, runs, snapshots>>
SaveRefused(c) ==
  /\ Doing(c, "team.save", "save") /\ TeamFree(works[c].on) /\ ~Expected(c)
  /\ EndsWork(c) /\ KeepAgents /\ UNCHANGED <<teams, teamVersions, drafts, chat, runs, snapshots>>

(* publish: the row and the draft are locked, then each member is read. *)
BeginPublication(c, t) == Formed(t) /\ BeginWork(c, Work("team.publish", "lock", t))
LockTeam(c) ==
  /\ Doing(c, "team.publish", "lock") /\ TeamFree(works[c].on)
  /\ teams[works[c].on].draft # {}
  /\ LET t == works[c].on IN
       /\ teamLock' = [teamLock EXCEPT ![t] = c]
       /\ WorksOn(c, [works[c] EXCEPT !.at = "capture", !.rev = teams[t].rev, !.draft = teams[t].draft])
  /\ KeepTasks /\ UNCHANGED <<teams, teamVersions, drafts, chat, chatLock, runs, snapshots>>
EmptyDraft(c) ==
  /\ Doing(c, "team.publish", "lock") /\ TeamFree(works[c].on)
  /\ teams[works[c].on].draft = {}
  /\ EndsWork(c) /\ KeepAgents /\ UNCHANGED <<teams, teamVersions, drafts, chat, runs, snapshots>>

Uncaptured(c) == works[c].draft \ DOMAIN works[c].rows
ReadMember(c) ==
  /\ Doing(c, "team.publish", "capture") /\ tasks[c] = None
  /\ \E a \in Uncaptured(c) : Calls(c, a)
  /\ GoesOn /\ KeepAgents
  /\ UNCHANGED teamVars
CaptureMember(c) ==
  /\ Doing(c, "team.publish", "capture") /\ Called(c) /\ Usable(c)
  /\ WorksOn(c, [works[c] EXCEPT !.rows =
       [a \in DOMAIN works[c].rows \cup {tasks[c].agent} |->
          IF a = tasks[c].agent THEN tasks[c].row ELSE works[c].rows[a]]])
  /\ tasks' = [tasks EXCEPT ![c] = None] /\ KeepAgents
  /\ UNCHANGED <<teams, teamVersions, drafts, teamLock, chat, chatLock, runs, snapshots>>
PublishTeam(c) ==
  /\ Doing(c, "team.publish", "capture") /\ tasks[c] = None /\ Uncaptured(c) = {}
  /\ Expected(c)
  /\ LET t == works[c].on IN
       /\ teamVersions' = [teamVersions EXCEPT ![t] =
                            Append(@, [rev |-> works[c].rev, members |-> works[c].rows])]
       /\ teams' = [teams EXCEPT ![t].current = Len(teamVersions[t]) + 1]
  /\ EndsWork(c) /\ KeepAgents /\ UNCHANGED <<drafts, chat, runs, snapshots>>

-----------------------------------------------------------------------------
(* Messages and runs *)

BeginMessage(c, x) == BeginWork(c, Work("message", "resolve", x))

(* _resolve_actor: the published version of a team, or an agent. *)
Runnable(t) == Formed(t) /\ teams[t].on /\ teams[t].current # 0
ResolveTeam(c) ==
  /\ Doing(c, "message", "resolve") /\ works[c].on \in Teams /\ Runnable(works[c].on)
  /\ WorksOn(c, [works[c] EXCEPT !.at = "send", !.version = teams[works[c].on].current])
  /\ KeepTasks /\ UNCHANGED <<teams, teamVersions, drafts, teamLock, chat, chatLock, runs, snapshots>>
TeamUnavailable(c) ==
  /\ Doing(c, "message", "resolve") /\ works[c].on \in Teams /\ ~Runnable(works[c].on)
  /\ EndsWork(c) /\ KeepAgents /\ UNCHANGED <<teams, teamVersions, drafts, chat, runs, snapshots>>
ReadActor(c) ==
  /\ Doing(c, "message", "resolve") /\ works[c].on \notin Teams /\ tasks[c] = None
  /\ Calls(c, works[c].on) /\ GoesOn /\ KeepAgents /\ UNCHANGED teamVars
ResolveAgent(c) ==
  /\ Doing(c, "message", "resolve") /\ Called(c) /\ Usable(c)
  /\ WorksOn(c, [works[c] EXCEPT !.at = "send", !.on = tasks[c].agent])
  /\ tasks' = [tasks EXCEPT ![c] = None] /\ KeepAgents
  /\ UNCHANGED <<teams, teamVersions, drafts, teamLock, chat, chatLock, runs, snapshots>>

(* next_message_sequence: the row of the conversation is locked to the end. *)
ChatFree == chatLock = None
NumberMessage(c) ==
  /\ Doing(c, "message", "send") \/ Doing(c, "answer", "send")
  /\ ChatFree /\ chatLock' = c
  /\ WorksOn(c, [works[c] EXCEPT !.at = "commit", !.seq = Len(chat) + 1])
  /\ KeepTasks /\ UNCHANGED <<teams, teamVersions, drafts, teamLock, chat, runs, snapshots>>

(* create_message: the message, its run and the first event in one commit. *)
SendMessage(c) ==
  /\ Doing(c, "message", "commit")
  /\ chat' = Append(chat, [seq |-> works[c].seq, answers |-> 0])
  /\ runs' = Append(runs, [actor |-> works[c].on, version |-> works[c].version,
                           trigger |-> works[c].seq])
  /\ EndsWork(c) /\ KeepAgents /\ UNCHANGED <<teams, teamVersions, drafts, snapshots>>

(* add_assistant_message, when a run that was started completes. *)
BeginAnswer(c, r) ==
  /\ r <= Len(runs) /\ snapshots[r] # None /\ \A i \in DOMAIN chat : chat[i].answers # r
  /\ \A d \in Clients : works[d] # None => ~(works[d].op = "answer" /\ works[d].on = r)
  /\ BeginWork(c, Work("answer", "send", r))
AddAnswer(c) ==
  /\ Doing(c, "answer", "commit")
  /\ chat' = Append(chat, [seq |-> works[c].seq, answers |-> works[c].on])
  /\ EndsWork(c) /\ KeepAgents /\ UNCHANGED <<teams, teamVersions, drafts, runs, snapshots>>
-----------------------------------------------------------------------------
(* ExecutionSnapshotService.create, when a run is started or started again *)

Selected_Mutant(r) == teams[runs[r].actor].current   \* what is published by now
Selected(r) == runs[r].version
MessagesOf(r) == {chat[i].seq : i \in {j \in DOMAIN chat : chat[j].seq <= runs[r].trigger}}
AgentSnapshot(r, row) ==
  [version |-> 0, members |-> [a \in {runs[r].actor} |-> row], skills |-> row.binds,
   messages |-> MessagesOf(r)]
TeamSnapshot(r) ==
  [version |-> Selected(r), members |-> teamVersions[runs[r].actor][Selected(r)].members,
   skills |-> {}, messages |-> MessagesOf(r)]

BeginSnapshot(c, r) ==
  r <= Len(runs) /\ BeginWork(c, Work("snapshot", "look", r))

(* A snapshot that is there is kept; the skills of an agent must still be
   enabled. *)
StillEnabled(b) == Present(b.skill) /\ skills[b.skill].enabled
KeepSnapshot(c) ==
  /\ Doing(c, "snapshot", "look") /\ snapshots[works[c].on] # None
  /\ EndsWork(c) /\ KeepAgents
  /\ UNCHANGED <<teams, teamVersions, drafts, chat, runs, snapshots>>

(* The version of a team that was selected with the message, although the team
   may be disabled or published again since; an agent as it is now. *)
SnapshotTeam(c) ==
  /\ Doing(c, "snapshot", "look") /\ snapshots[works[c].on] = None
  /\ runs[works[c].on].actor \in Teams
  /\ snapshots' = [snapshots EXCEPT ![works[c].on] = TeamSnapshot(works[c].on)]
  /\ EndsWork(c) /\ KeepAgents /\ UNCHANGED <<teams, teamVersions, drafts, chat, runs>>
ReadRunAgent(c) ==
  /\ Doing(c, "snapshot", "look") /\ snapshots[works[c].on] = None /\ tasks[c] = None
  /\ runs[works[c].on].actor \in Agents
  /\ Calls(c, runs[works[c].on].actor)
  /\ WorksOn(c, [works[c] EXCEPT !.at = "read"]) /\ KeepAgents
  /\ UNCHANGED <<teams, teamVersions, drafts, teamLock, chat, chatLock, runs, snapshots>>

(* Every skill the agent names must be bound, and enabled; one snapshot a run. *)
Startable(row) ==
  /\ row.names = {b.skill : b \in row.binds}
  /\ \A b \in row.binds : StillEnabled(b)
SnapshotAgent(c) ==
  /\ Doing(c, "snapshot", "read") /\ Called(c) /\ Usable(c) /\ Startable(tasks[c].row)
  /\ snapshots[works[c].on] = None
  /\ snapshots' = [snapshots EXCEPT ![works[c].on] = AgentSnapshot(works[c].on, tasks[c].row)]
  /\ EndsWork(c) /\ KeepAgents /\ UNCHANGED <<teams, teamVersions, drafts, chat, runs>>
SnapshotFails(c) ==
  /\ Doing(c, "snapshot", "read") /\ Called(c) /\ Usable(c)
  /\ ~Startable(tasks[c].row) \/ snapshots[works[c].on] # None
  /\ EndsWork(c) /\ KeepAgents
  /\ UNCHANGED <<teams, teamVersions, drafts, chat, runs, snapshots>>

(* The agent a request asked for is gone, disabled or could not be read. *)
AgentUnavailable(c) ==
  /\ works[c] # None /\ Called(c) /\ ~Usable(c)
  /\ EndsWork(c) /\ KeepAgents
  /\ UNCHANGED <<teams, teamVersions, drafts, chat, runs, snapshots>>

(* An error, or a database that is gone, ends a request where it is. *)
BreakWork(c) ==
  /\ works[c] # None /\ BreaksOff(c) /\ Leaves(c)
  /\ Releases(c) /\ tasks' = [tasks EXCEPT ![c] = None]
  /\ UNCHANGED <<unrestored, agents, spaces, pointer, teams, teamVersions, drafts, chat, runs, snapshots>>

-----------------------------------------------------------------------------
TeamBegin(c) ==
  \/ \E t \in Teams : \/ \E D \in Drafts : BeginSave(c, t, D)
                      \/ BeginPublication(c, t)
  \/ \E x \in Teams \cup Agents \cup {None} : BeginMessage(c, x)
  \/ \E r \in RunIds : BeginAnswer(c, r) \/ BeginSnapshot(c, r)
TeamGoesOn(c) ==
  \/ SaveTeam(c) \/ SaveRefused(c) \/ LockTeam(c) \/ EmptyDraft(c) \/ ReadMember(c)
  \/ CaptureMember(c) \/ PublishTeam(c) \/ ResolveTeam(c) \/ TeamUnavailable(c)
  \/ ReadActor(c) \/ ResolveAgent(c) \/ NumberMessage(c) \/ SendMessage(c) \/ AddAnswer(c)
  \/ KeepSnapshot(c) \/ SnapshotTeam(c) \/ ReadRunAgent(c) \/ SnapshotAgent(c)
  \/ SnapshotFails(c) \/ AgentUnavailable(c)
TeamNext ==
  \/ \E c \in Clients : TeamBegin(c) \/ TeamGoesOn(c) \/ BreakWork(c)
  \/ \E t \in Teams : CreateTeam(t) \/ \E b \in BOOLEAN : EnableTeam(t, b)

-----------------------------------------------------------------------------
TeamTypeOK ==
  /\ teams \in [Teams -> Team \cup {None}]
  /\ teamLock \in [Teams -> Clients \cup {None}] /\ chatLock \in Clients \cup {None}
  /\ \A t \in Teams : Formed(t) => Len(drafts[t]) = teams[t].rev
                                   /\ teams[t].current \in 0..Len(teamVersions[t])
  /\ \A r \in DOMAIN runs : runs[r].actor \in Teams \cup Agents

(* TEAM VERSIONS ARE DRAFTS.  No editor of a team loses another one's edit: each
   draft was saved by somebody who had seen the one before.  A version of the
   team is the draft of its revision, although its members are read one by one
   while other requests change them, and each member was enabled when read. *)
TeamVersionsAreDrafts ==
  \A t \in Teams :
    /\ \A n \in DOMAIN drafts[t] : drafts[t][n].seen = n - 1
    /\ \A n \in DOMAIN teamVersions[t] :
         LET v == teamVersions[t][n] IN
         /\ DOMAIN v.members = drafts[t][v.rev].members
         /\ \A a \in DOMAIN v.members : v.members[a].on

(* THE SNAPSHOT IS WHOLE.  A run sees the version of its team that was published
   when its message was sent, or an agent whose skills are all bound to versions
   that exist; and every message of the conversation up to its own, whatever is
   sent, published, disabled or started again meanwhile. *)
SnapshotIsWhole ==
  \A r \in DOMAIN runs : snapshots[r] # None =>
    /\ snapshots[r].messages = 1..runs[r].trigger
    /\ IF runs[r].actor \in Teams
       THEN snapshots[r].members = teamVersions[runs[r].actor][runs[r].version].members
       ELSE /\ snapshots[r].members[runs[r].actor].names = {b.skill : b \in snapshots[r].skills}
            /\ \A b \in snapshots[r].skills : b.version \in DOMAIN versions[b.skill]
=============================================================================
