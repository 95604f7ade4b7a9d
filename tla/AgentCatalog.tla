----------------------------- MODULE AgentCatalog -----------------------------
(***************************************************************************)
(* The agents of the platform: rows, workspaces, and the pointer to the    *)
(* default agent.                                                          *)
(*                                                                         *)
(* Every operation first makes sure that there is a built-in agent and a   *)
(* default (ensure, below), in transactions of its own; a change then      *)
(* locks the agent's row, later the row of the pointer, writes or moves    *)
(* the workspace, and commits in the transaction of the request.  Locks    *)
(* are held to the end; a step whose lock is taken is not enabled, the     *)
(* request waits.  What a transaction has not committed is in tasks.       *)
(***************************************************************************)
EXTENDS SkillCatalog

CONSTANTS
  Agents,       \* agent ids
  Builtin,      \* BUILTIN_AGENT_ID
  Texts,        \* contents of AGENTS.md, made from the instructions
  StdText,      \* that of the built-in agent
  Configs,      \* what a client asks for: a subset of Config
  Catalogs      \* what may be there at the start: a function to [agents, pointer]

VARIABLES
  agents,       \* ManagedAgentRecord, None when there is no such row
  spaces,       \* AGENTS.md in the workspace, None when there is no directory
  pointer,      \* the setting of the default agent; version 0 when it has no row
  rowLock,      \* who has the row of each agent locked
  pointerLock,  \* who has the row of the setting locked
  tasks,        \* what each client is doing
  unrestored    \* history: ids whose workspace was not put back

agentVars == <<agents, spaces, pointer, rowLock, pointerLock, tasks, unrestored>>

Config == [on : BOOLEAN, text : Texts, names : SUBSET Skills]
Binding == [skill : Skills, version : Nat \ {0}]
Agent == [on : BOOLEAN, text : Texts, names : SUBSET Skills, binds : SUBSET Binding,
          common : BOOLEAN]
Pointer == [at : Agents \cup {None}, ver : Nat]
AgentOps == {"agent.get", "agent.create", "agent.copy", "agent.update", "agent.migrate",
             "agent.enable", "agent.pin", "agent.delete"}
Places == {"repair", "row", "pointer", "adopt", "target", "read", "check", "lock", "bind",
           "mkdir", "guard", "quarantine", "file", "commit", "restore"}
AgentTask == [op : AgentOps, at : Places, after : {"read", "check", "lock"}, agent : Agents,
              new : Agents, cfg : Config, ver : Nat, tries : Nat, was : Texts \cup {None},
              row : Agent \cup {None}]
ASSUME AgentAssumption ==
  /\ Builtin \in Agents /\ None \notin Agents /\ StdText \in Texts /\ None \notin Texts
  /\ None \notin Clients /\ None \notin Agent /\ None \notin AgentTask
  /\ Configs \subseteq Config
  /\ \A from \in DOMAIN Catalogs :
       /\ Catalogs[from].agents \in [Agents -> Agent \cup {None}]
       /\ Catalogs[from].pointer \in Pointer
       /\ \A a \in Agents : LET row == Catalogs[from].agents[a] IN   \* bound to what is published
            row # None => row.binds \subseteq [skill : OldSkills, version : {1}]
  /\ \A w \in Workloads : w.from \subseteq DOMAIN Catalogs

AgentRow(cfg, binds, common) ==
  [on |-> cfg.on, text |-> cfg.text, names |-> cfg.names, binds |-> binds, common |-> common]
BuiltinConfig == [on |-> TRUE, text |-> StdText, names |-> {}]

AgentInit ==
  /\ \E from \in workload.from :
       agents = Catalogs[from].agents /\ pointer = Catalogs[from].pointer
  /\ spaces = [a \in Agents |-> IF agents[a] = None THEN None ELSE agents[a].text]
  /\ rowLock = [a \in Agents |-> None] /\ pointerLock = None
  /\ tasks = [c \in Clients |-> None] /\ unrestored = {}

-----------------------------------------------------------------------------
(* Helpers *)

Known(a) == agents[a] # None
At(c, p) == tasks[c] # None /\ tasks[c].at = p

(* is_platform_default_eligible *)
Eligible(a) == a # None /\ Known(a) /\ agents[a].on /\ agents[a].common

RowFree(a) == rowLock[a] = None
PointerFree == pointer.ver = 0 \/ pointerLock = None
RowsWithout(c) == [a \in Agents |-> IF rowLock[a] = c THEN None ELSE rowLock[a]]
PointerWithout(c) == IF pointerLock = c THEN None ELSE pointerLock
PointerTaken(c) == IF pointer.ver = 0 THEN pointerLock ELSE c

(* A task goes on; its request ends, rolled back or committed.  The read of an
   agent for another component ("call") hands over its result instead. *)
Task(op, a, new, cfg, after) ==
  [op |-> op, at |-> "repair", after |-> after, agent |-> a, new |-> new, cfg |-> cfg,
   ver |-> 0, tries |-> 0, was |-> None, row |-> None]
Proceeds(c, t) == tasks' = [tasks EXCEPT ![c] = t] /\ GoesOn
Reaches(c, p) == Proceeds(c, [tasks[c] EXCEPT !.at = p])
Releases(c) == rowLock' = RowsWithout(c) /\ pointerLock' = PointerWithout(c)
Finishes(c) ==
  /\ Releases(c)
  /\ IF tasks[c].op = "call" THEN Reaches(c, "failed")
     ELSE tasks' = [tasks EXCEPT ![c] = None] /\ Ends(c)
Refused(c) == Finishes(c) /\ UNCHANGED <<unrestored, agents, spaces, pointer>>

BeginTask(c, op, a, new, cfg) ==
  /\ Begins(c, op)
  /\ tasks' = [tasks EXCEPT ![c] =
       Task(op, a, new, cfg, CASE op = "agent.get" -> "read" [] op = "agent.create" -> "check"
                               [] OTHER -> "lock")]
  /\ UNCHANGED <<unrestored, agents, spaces, pointer, rowLock, pointerLock>>

-----------------------------------------------------------------------------
(* _ensure_default_agent, each step a transaction of its own *)

(* _ensure_builtin_record: the workspace whoever has the row, then the row,
   for which repair_builtin_agent waits. *)
MakeBuiltin(c) ==
  /\ At(c, "repair")
  /\ spaces' = [spaces EXCEPT ![Builtin] = IF @ = None THEN StdText ELSE @]
  /\ Reaches(c, "row") /\ UNCHANGED <<unrestored, agents, pointer, rowLock, pointerLock>>
RepairBuiltin(c) ==
  /\ At(c, "row") /\ RowFree(Builtin)
  /\ agents' = [agents EXCEPT ![Builtin] =
       IF @ = None THEN AgentRow(BuiltinConfig, {}, TRUE) ELSE [@ EXCEPT !.on = TRUE]]
  /\ Reaches(c, "pointer") /\ UNCHANGED <<unrestored, spaces, pointer, rowLock, pointerLock>>

(* The default is as it should be, or the built-in agent becomes it. *)
ReadPointer(c) ==
  /\ At(c, "pointer")
  /\ IF Eligible(pointer.at) THEN Reaches(c, tasks[c].after)
     ELSE Proceeds(c, [tasks[c] EXCEPT !.at = "adopt", !.ver = pointer.ver])
  /\ UNCHANGED <<unrestored, agents, spaces, pointer, rowLock, pointerLock>>

Adopting(c) == At(c, "adopt") /\ PointerFree /\ tasks[c].tries < 3
LockPointer(c) ==
  /\ Adopting(c) /\ tasks[c].ver = pointer.ver
  /\ pointerLock' = PointerTaken(c) /\ Reaches(c, "target")
  /\ UNCHANGED <<unrestored, agents, spaces, pointer, rowLock>>
AdoptAgain(c) ==
  /\ \/ Adopting(c)
     \/ At(c, "target") /\ RowFree(Builtin)
  /\ tasks[c].ver # pointer.ver
  /\ Proceeds(c, [tasks[c] EXCEPT !.at = "pointer", !.tries = @ + 1])
  /\ UNCHANGED <<unrestored, agents, spaces, pointer, rowLock, pointerLock>>

MayAdopt == Eligible(Builtin)
Adopt(c) ==
  /\ At(c, "target") /\ RowFree(Builtin) /\ MayAdopt /\ tasks[c].ver = pointer.ver
  /\ pointer' = [at |-> Builtin, ver |-> pointer.ver + 1]
  /\ pointerLock' = PointerWithout(c)
  /\ Reaches(c, tasks[c].after) /\ UNCHANGED <<unrestored, agents, spaces, rowLock>>
AdoptFails(c) ==
  /\ \/ At(c, "target") /\ RowFree(Builtin) /\ ~MayAdopt /\ tasks[c].ver = pointer.ver
     \/ At(c, "adopt") /\ tasks[c].tries = 3
  /\ Refused(c)

-----------------------------------------------------------------------------
(* The request's own transaction *)

(* get, get_default: the agent asked for, or the one the pointer names. *)
Asked(t) == IF t.agent = None THEN pointer.at ELSE t.agent
ReadAgent(c) ==
  /\ At(c, "read")
  /\ IF tasks[c].op = "call"
     THEN /\ Proceeds(c, [tasks[c] EXCEPT !.at = "done", !.agent = Asked(tasks[c]),
                                          !.row = agents[Asked(tasks[c])]])
          /\ UNCHANGED <<rowLock, pointerLock>>
     ELSE Finishes(c)
  /\ UNCHANGED <<unrestored, agents, spaces, pointer>>

(* _require_mutation_scope: the row is locked before anything is decided.  A
   copy makes sure of the default again before it creates. *)
Locked(t) ==
  LET row == agents[t.agent] IN
  CASE t.op \in {"agent.update", "agent.migrate"} -> [t EXCEPT !.at = "bind", !.row = row]
    [] t.op = "agent.enable" -> [t EXCEPT !.at = "guard", !.row = [row EXCEPT !.on = t.cfg.on]]
    [] t.op = "agent.pin" -> [t EXCEPT !.at = "commit", !.row = row]
    [] t.op = "agent.delete" -> [t EXCEPT !.at = "quarantine"]
    [] t.op = "agent.copy" -> [t EXCEPT !.at = "repair", !.after = "check",
         !.cfg = [on |-> FALSE, text |-> row.text, names |-> row.names]]
MovesFiles(t) == t.op \in {"agent.update", "agent.delete"}
PuttingBack(a) == \E d \in Clients : At(d, "restore") /\ MovesFiles(tasks[d]) /\ tasks[d].agent = a
LockAgent(c) ==
  /\ At(c, "lock") /\ RowFree(tasks[c].agent) /\ Known(tasks[c].agent)
  /\ rowLock' = [rowLock EXCEPT ![tasks[c].agent] = c]
  /\ unrestored' = IF MovesFiles(tasks[c]) /\ PuttingBack(tasks[c].agent)
                THEN unrestored \cup {tasks[c].agent} ELSE unrestored
  /\ Proceeds(c, Locked(tasks[c])) /\ UNCHANGED <<agents, spaces, pointer, pointerLock>>
NotFound(c) ==
  /\ \/ At(c, "lock") /\ RowFree(tasks[c].agent) /\ ~Known(tasks[c].agent)
     \/ At(c, "check") /\ Known(tasks[c].new)
  /\ Refused(c)

CheckId(c) ==
  /\ At(c, "check") /\ ~Known(tasks[c].new)
  /\ Reaches(c, "bind") /\ UNCHANGED <<unrestored, agents, spaces, pointer, rowLock, pointerLock>>

(* _resolve_skill_bindings: to the versions that are published now. *)
Available(k) == Present(k) /\ skills[k].enabled /\ skills[k].current # 0
Current(S) == {[skill |-> k, version |-> skills[k].current] : k \in S}
Wanted(t) == IF t.op = "agent.migrate" THEN t.row.names ELSE t.cfg.names
Bindable(t) ==
  /\ \A k \in Wanted(t) : Available(k)
  /\ t.op \in {"agent.update", "agent.migrate"} => (Wanted(t) = {} \/ ~t.row.common)
Nothing(t) == t.op = "agent.migrate" /\ (t.row.binds # {} \/ t.row.names = {})
Bound(t) ==
  CASE t.op = "agent.update" ->
         [t EXCEPT !.at = "guard", !.row = AgentRow(t.cfg, Current(Wanted(t)), t.row.common)]
    [] t.op = "agent.migrate" -> [t EXCEPT !.at = "guard", !.row.binds = Current(Wanted(t))]
    [] OTHER -> [t EXCEPT !.at = "mkdir", !.row = AgentRow(t.cfg, Current(Wanted(t)), FALSE)]
Resolve(c) ==
  /\ At(c, "bind") /\ Bindable(tasks[c]) /\ ~Nothing(tasks[c])
  /\ Proceeds(c, Bound(tasks[c])) /\ UNCHANGED <<unrestored, agents, spaces, pointer, rowLock, pointerLock>>
ResolveFails(c) ==
  /\ At(c, "bind") /\ (Nothing(tasks[c]) \/ ~Bindable(tasks[c]))
  /\ Refused(c)

(* The workspace is made for a new agent, moved away for one to be deleted. *)
MakeSpace(c) ==
  /\ At(c, "mkdir") /\ spaces[tasks[c].new] = None
  /\ spaces' = [spaces EXCEPT ![tasks[c].new] = tasks[c].cfg.text]
  /\ Reaches(c, "commit") /\ UNCHANGED <<unrestored, agents, pointer, rowLock, pointerLock>>
SpaceTaken(c) == At(c, "mkdir") /\ spaces[tasks[c].new] # None /\ Refused(c)
Quarantine(c) ==
  /\ At(c, "quarantine") /\ spaces[tasks[c].agent] # None
  /\ spaces' = [spaces EXCEPT ![tasks[c].agent] = None]
  /\ Proceeds(c, [tasks[c] EXCEPT !.at = "guard", !.was = spaces[tasks[c].agent]])
  /\ UNCHANGED <<unrestored, agents, pointer, rowLock, pointerLock>>

(* The store locks the pointer and refuses to disable or delete the default,
   and to delete the built-in agent. *)
TurnsOff(t) == t.op = "agent.delete" \/ (t.op \in {"agent.update", "agent.enable"} /\ ~t.row.on)
Protected_Mutant(t) == t.op = "agent.delete" /\ t.agent = Builtin  \* forgets the default
Protected(t) ==
  \/ TurnsOff(t) /\ pointer.at = t.agent
  \/ t.op = "agent.delete" /\ t.agent = Builtin
PassGuard(c) ==
  /\ At(c, "guard") /\ PointerFree /\ ~Protected(tasks[c])
  /\ pointerLock' = PointerTaken(c)
  /\ Reaches(c, IF tasks[c].op = "agent.update" THEN "file" ELSE "commit")
  /\ UNCHANGED <<unrestored, agents, spaces, pointer, rowLock>>

WriteSpace(c) ==
  /\ At(c, "file") /\ spaces[tasks[c].agent] # None
  /\ spaces' = [spaces EXCEPT ![tasks[c].agent] = tasks[c].cfg.text]
  /\ Proceeds(c, [tasks[c] EXCEPT !.at = "commit", !.was = spaces[tasks[c].agent]])
  /\ UNCHANGED <<unrestored, agents, pointer, rowLock, pointerLock>>

(* _validated_workspace *)
SpaceMissing(c) ==
  /\ At(c, "quarantine") \/ At(c, "file")
  /\ spaces[tasks[c].agent] = None
  /\ Refused(c)

Creates(t) == t.op \in {"agent.create", "agent.copy"}
Target(t) == IF Creates(t) THEN t.new ELSE t.agent
CommitTask(c) ==
  /\ At(c, "commit") /\ (Creates(tasks[c]) => ~Known(tasks[c].new))
  /\ agents' = [agents EXCEPT ![Target(tasks[c])] = tasks[c].row]
  /\ Finishes(c) /\ UNCHANGED <<unrestored, spaces, pointer>>

(* A refusal, an id another request has created since it was looked for, or a
   commit that fails.  A change that touched no file ends there; for one that
   did, the rollback frees the row, and then the workspace is put back. *)
RefuseChange(c) ==
  /\ At(c, "guard") /\ PointerFree /\ Protected(tasks[c])
  /\ tasks[c].op # "agent.delete" /\ Refused(c)
RollsBack(c) ==
  /\ Releases(c) /\ tasks' = [tasks EXCEPT ![c].at = "restore"]
  /\ UNCHANGED <<unrestored, agents, spaces, pointer>>
RefuseDelete(c) ==
  /\ At(c, "guard") /\ PointerFree /\ Protected(tasks[c])
  /\ tasks[c].op = "agent.delete" /\ RollsBack(c) /\ GoesOn
Duplicate(c) ==
  /\ At(c, "commit") /\ Creates(tasks[c]) /\ Known(tasks[c].new)
  /\ RollsBack(c) /\ GoesOn
CommitFails(c) ==
  /\ At(c, "commit") /\ RollsBack(c)
  /\ faults < MaxFaults /\ faults' = faults + 1 /\ UNCHANGED <<workload, busy, served>>

(* A workspace that was moved away comes back if there is no other in its
   place, a file that was written if its directory is still there. *)
InPlace(t) ==
  CASE t.op = "agent.delete" -> spaces[t.agent] = None
    [] t.op = "agent.update" -> spaces[t.agent] # None
    [] OTHER -> Creates(t)
Restored_Mutant(t) == spaces
Restored(t) == IF InPlace(t) THEN [spaces EXCEPT ![Target(t)] = t.was] ELSE spaces
Restore(c) ==
  /\ At(c, "restore")
  /\ spaces' = Restored(tasks[c])
  /\ unrestored' = IF tasks[c].op = "agent.delete" /\ ~InPlace(tasks[c])
                THEN unrestored \cup {tasks[c].agent} ELSE unrestored
  /\ Finishes(c) /\ UNCHANGED <<agents, pointer>>

(* The process dies, the row and the files are no transaction: the change of the
   row is rolled back, that of the workspace stays.  The same when the workspace
   cannot be put back, or is made but cannot be written. *)
SpaceChanged(t) ==
  \/ Creates(t) /\ t.at \in {"commit", "restore"}
  \/ t.op = "agent.update" /\ t.at \in {"commit", "restore"}
  \/ t.op = "agent.delete" /\ t.at \in {"guard", "commit", "restore"}
BreakTask(c) ==
  /\ tasks[c] # None /\ tasks[c].op # "call" /\ BreaksOff(c)
  /\ Releases(c) /\ tasks' = [tasks EXCEPT ![c] = None]
  /\ unrestored' = IF SpaceChanged(tasks[c]) THEN unrestored \cup {Target(tasks[c])}
                   ELSE unrestored
  /\ UNCHANGED <<agents, spaces, pointer>>

-----------------------------------------------------------------------------
AgentBegin(c) ==
  \E a \in Agents \cap workload.about :
    \/ \E op \in {"agent.get", "agent.pin", "agent.migrate", "agent.delete"} :
         BeginTask(c, op, a, a, BuiltinConfig)
    \/ \E cfg \in Configs : BeginTask(c, "agent.update", a, a, cfg)
                            \/ BeginTask(c, "agent.create", a, a, cfg)
    \/ \E b \in BOOLEAN : BeginTask(c, "agent.enable", a, a, [BuiltinConfig EXCEPT !.on = b])
    \/ \E n \in Agents \ {a} : BeginTask(c, "agent.copy", a, n, BuiltinConfig)
AgentGoesOn(c) ==
  \/ MakeBuiltin(c) \/ RepairBuiltin(c) \/ ReadPointer(c) \/ LockPointer(c)
  \/ AdoptAgain(c) \/ Adopt(c) \/ AdoptFails(c) \/ ReadAgent(c) \/ LockAgent(c)
  \/ NotFound(c) \/ CheckId(c) \/ Resolve(c) \/ ResolveFails(c) \/ MakeSpace(c)
  \/ SpaceTaken(c) \/ SpaceMissing(c) \/ Quarantine(c) \/ PassGuard(c) \/ RefuseChange(c)
  \/ RefuseDelete(c) \/ WriteSpace(c) \/ CommitTask(c) \/ Duplicate(c) \/ Restore(c)
AgentNext ==
  \E c \in Clients : AgentBegin(c) \/ AgentGoesOn(c) \/ CommitFails(c) \/ BreakTask(c)

-----------------------------------------------------------------------------
AgentTypeOK ==
  /\ agents \in [Agents -> Agent \cup {None}]
  /\ spaces \in [Agents -> Texts \cup {None}]
  /\ pointer \in Pointer
  /\ rowLock \in [Agents -> Clients \cup {None}] /\ pointerLock \in Clients \cup {None}

(* THE DEFAULT STAYS USABLE.  Once the pointer names an agent that is there,
   enabled and open to every project, it always does: no order of disabling,
   deleting, repairing and adopting leaves the platform without a default. *)
DefaultUsable == Eligible(pointer.at)
DefaultStaysUsable == [][DefaultUsable => DefaultUsable']_agentVars

(* THE WORKSPACE AGREES.  An agent no request is working on has a row exactly
   when it has a workspace, and the instructions in the workspace are those of
   the row: also after a commit that failed, and a refusal after the workspace
   was moved away.  (The workspace of the built-in agent may come before its
   row.)  Except when the workspace was not put back: the process died between
   its change and the commit, or before it was put back, or that failed, which
   nothing repairs; a creation under the same id, or the repair of the built-in
   agent, found it moved away and made its own; or another change took the row
   between the rollback and the putting back. *)
Untouched(a) == \A c \in Clients : tasks[c] # None => (tasks[c].agent # a /\ tasks[c].new # a)
WorkspaceAgrees ==
  \A a \in Agents \ unrestored : Untouched(a) =>
    \/ spaces[a] = IF Known(a) THEN agents[a].text ELSE None
    \/ a = Builtin /\ ~Known(a)
=============================================================================
