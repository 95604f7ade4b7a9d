----------------------------- MODULE ControlPlane -----------------------------
(***************************************************************************)
(* The management API as a whole: identity, skills, agents, teams and      *)
(* conversations, whose requests meet in the rows they share.              *)
(***************************************************************************)
EXTENDS TeamCatalog

vars == <<requestVars, identityVars, skillVars, agentVars, teamVars>>

Init == RequestInit /\ IdentityInit /\ SkillInit /\ AgentInit /\ TeamInit

ByIdentity(A) == A /\ UNCHANGED <<skillVars, agentVars, teamVars>>
BySkills(A) == A /\ UNCHANGED <<identityVars, agentVars, teamVars>>
ByAgents(A) == A /\ UNCHANGED <<identityVars, skillVars, teamVars>>
ByTeams(A) == A /\ UNCHANGED <<identityVars, skillVars>>

Next ==
  \/ ByIdentity(IdentityNext)
  \/ BySkills(SkillNext)
  \/ ByAgents(AgentNext)
  \/ ByTeams(TeamNext)

(* A request that is begun is worked on by its thread; nothing obliges a client
   to make one, or a fault to happen. *)
GoesOnBy(c) ==
  \/ ByIdentity(IdentityEnd(c))
  \/ BySkills(SkillGoesOn(c))
  \/ ByAgents(AgentGoesOn(c))
  \/ ByTeams(TeamGoesOn(c))
Fairness == \A c \in Clients : WF_vars(GoesOnBy(c))

Spec == Init /\ [][Next]_vars /\ Fairness

-----------------------------------------------------------------------------
TypeOK ==
  /\ RequestTypeOK /\ IdentityTypeOK /\ SkillTypeOK /\ AgentTypeOK /\ TeamTypeOK
  /\ \A c \in Clients :
       c \in busy <=> (txs[c] # None \/ edits[c] # None \/ tasks[c] # None \/ works[c] # None)

(* A copy of the built-in agent holds its row and waits for it in another
   session: see CopyEnds. *)
WaitsForItself(c) == At(c, "row") /\ rowLock[Builtin] = c

(* EVERY REQUEST ENDS.  However the requests lock users, skills, agents, the
   default and teams, each one that is begun is answered: no two wait for each
   other, although a change locks an agent and then the default and the repair
   of the default the other way round, and no retry goes on for ever.  Except
   when a copy of the built-in agent has locked its own way. *)
EveryRequestEnds ==
  \A c \in Clients : (c \in busy) ~> (c \notin busy \/ \E d \in Clients : WaitsForItself(d))

(* A COPY ENDS.  A request to copy an agent is answered. *)
CopyEnds ==
  \A c \in Clients :
    (tasks[c] # None /\ tasks[c].op = "agent.copy") ~> tasks[c] = None
=============================================================================
