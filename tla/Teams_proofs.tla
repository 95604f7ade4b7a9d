---------------------------- MODULE Teams_proofs ----------------------------
(***************************************************************************)
(* Proofs about the teams, the conversations and the control plane as a    *)
(* whole, for any numbers of teams, agents, skills, clients, requests and  *)
(* faults: a version of a team is a draft of it, the snapshot of a run is  *)
(* whole, and every component keeps its types.                             *)
(*                                                                         *)
(* The invariant says what a request of teams relies on between its steps: *)
(* the row of a team that is published is locked and the draft is as it    *)
(* was read, the agent that is read is the one that was asked for, the     *)
(* number of a message is the next one as long as the conversation is      *)
(* locked, and what is published, sent or started stays.                   *)
(***************************************************************************)
EXTENDS Agents_proofs, Sessions_proofs

(* The versions of skills that rows are bound to. *)
CurrentExists ==
  \A k \in Skills : Present(k) => skills[k].current \in 0..Len(versions[k])
Exist(B) == \A b \in B : b \in Binding /\ b.version <= Len(versions[b.skill])
BindsExist ==
  /\ \A a \in Agents : Known(a) => Exist(agents[a].binds)
  /\ \A c \in Clients : tasks[c] # None /\ tasks[c].row # None => Exist(tasks[c].row.binds)

(* The rows of a team: each draft saved over the one before, each version the
   draft of its revision. *)
TeamVersion == [rev : Nat \ {0}, members : Rows]
TeamDraft == [members : SUBSET Agents, seen : Nat]
IsDraft(v, ds) == v.rev <= Len(ds) /\ DOMAIN v.members = ds[v.rev].members
AllOn(rows) == \A a \in DOMAIN rows : rows[a].on
RowsFit(x, ds, vs) ==
  /\ x \in Team \cup {None} /\ ds \in Seq(TeamDraft) /\ vs \in Seq(TeamVersion)
  /\ \A n \in 1..Len(ds) : ds[n].seen = n - 1
  /\ \A n \in 1..Len(vs) : IsDraft(vs[n], ds) /\ AllOn(vs[n].members)
  /\ IF x # None
     THEN /\ Len(ds) = x.rev /\ ds[x.rev].members = x.draft
          /\ x.current \in 0..Len(vs)
     ELSE ds = <<>> /\ vs = <<>>
TeamRows(t) == RowsFit(teams[t], drafts[t], teamVersions[t])
TeamsFit ==
  /\ teams \in [Teams -> Team \cup {None}]
  /\ DOMAIN drafts = Teams /\ DOMAIN teamVersions = Teams
  /\ teamLock \in [Teams -> Clients \cup {None}] /\ chatLock \in Clients \cup {None}
  /\ \A t \in Teams : TeamRows(t)

(* The conversation and its runs. *)
Message == [seq : Nat, answers : Nat]
Run == [actor : Teams \cup Agents, version : Nat, trigger : Nat]
Published(x, n) == x \in Teams => n \in 1..Len(teamVersions[x])
ChatFits ==
  /\ chat \in Seq(Message) /\ runs \in Seq(Run)
  /\ \A i \in 1..Len(chat) : chat[i].seq = i
  /\ \A r \in 1..Len(runs) :
       runs[r].trigger \in 1..Len(chat) /\ Published(runs[r].actor, runs[r].version)
(* A run has one request, which is over. *)
Room(n) ==
  /\ workload \in Workloads /\ busy \subseteq Clients /\ IsFiniteSet(busy)
  /\ served \in 0..workload.most /\ faults \in 0..MaxFaults
  /\ n + Cardinality(busy) <= served
Counted == Room(Len(runs))

SnapshotFits(s, x) ==
  /\ s.messages = 1..x.trigger
  /\ IF x.actor \in Teams THEN s.members = teamVersions[x.actor][x.version].members
     ELSE /\ s.members[x.actor].names = {b.skill : b \in s.skills}
          /\ Exist(s.skills)
SnapshotsFit ==
  /\ DOMAIN snapshots = RunIds
  /\ \A r \in RunIds : snapshots[r] # None =>
       r <= Len(runs) /\ SnapshotFits(snapshots[r], runs[r])

(* What a request of teams relies on between its steps. *)
Steps ==
  [op \in {"team.save", "team.publish", "message", "answer", "snapshot"} |->
     CASE op = "team.save" -> {"save"}
       [] op = "team.publish" -> {"lock", "capture"}
       [] op = "message" -> {"resolve", "send", "commit"}
       [] op = "answer" -> {"send", "commit"}
       [] op = "snapshot" -> {"look", "read"}]
Captures(w, c) ==
  /\ teamLock[w.on] = c /\ w.rev = teams[w.on].rev /\ w.draft = teams[w.on].draft
  /\ DOMAIN w.rows \subseteq w.draft /\ AllOn(w.rows)
WorkFits(w, c) ==
  /\ w \in TeamWork /\ w.at \in Steps[w.op]
  /\ w.op \in {"team.save", "team.publish"} => w.on \in Teams /\ Formed(w.on)
  /\ w.at = "lock" => DOMAIN w.rows = {}
  /\ w.at = "capture" => Captures(w, c)
  /\ w.op = "message" => w.on \in Teams \cup Agents \cup {None}
  /\ w.op = "message" /\ w.at # "resolve" => w.on # None /\ Published(w.on, w.version)
  /\ w.at = "commit" => chatLock = c /\ w.seq = Len(chat) + 1
  /\ w.op \in {"answer", "snapshot"} => w.on \in 1..Len(runs)
  /\ w.at = "read" => runs[w.on].actor \in Agents
WorksFit == \A c \in Clients : works[c] # None => WorkFits(works[c], c)

(* The agent that is read for it is the one it asked for. *)
CallFits(t, w) ==
  /\ t.at = "read" => pointer.at \in Agents
  /\ t.at = "done" => t.agent \in Agents /\ t.row \in Agent \cup {None}
  /\ t.at # "done" => t.row = None
  /\ w # None
  /\ \/ w.at = "capture" /\ t.agent \in w.draft \ DOMAIN w.rows
     \/ w.at = "resolve" /\ w.on \notin Teams /\ t.agent \in Agents \cup {None}
     \/ w.at = "read" /\ t.agent = runs[w.on].actor
CallsFit ==
  \A c \in Clients : tasks[c] # None /\ tasks[c].op = "call" => CallFits(tasks[c], works[c])

Served ==
  \A c \in busy : txs[c] # None \/ edits[c] # None \/ tasks[c] # None \/ works[c] # None

TeamInv ==
  /\ CurrentExists /\ BindsExist /\ TeamsFit /\ ChatFits /\ Counted /\ SnapshotsFit
  /\ WorksFit /\ CallsFit /\ Served

-----------------------------------------------------------------------------
(* The start *)

LEMMA Elements ==
  ASSUME NEW S, NEW s \in Seq(S)
  PROVE  Len(s) \in Nat /\ DOMAIN s = 1..Len(s) /\ \A n \in 1..Len(s) : s[n] \in S
OBVIOUS

LEMMA OldDrafts ==
  ASSUME NEW rev \in Nat \ {0}, NEW D \in SUBSET Agents, NEW ds,
         ds = [n \in 1..rev |-> [members |-> D, seen |-> n - 1]]
  PROVE  /\ ds \in Seq(TeamDraft) /\ Len(ds) = rev
         /\ \A n \in 1..rev : ds[n].seen = n - 1 /\ ds[n].members = D
<1>1. \A n \in 1..rev : ds[n] \in TeamDraft BY DEF TeamDraft
<1>2. ds = [n \in 1..rev |-> ds[n]] OBVIOUS
<1>3. ds \in Seq(TeamDraft) /\ Len(ds) = rev BY <1>1, <1>2
<1>4. \A n \in 1..rev : ds[n] = [members |-> D, seen |-> n - 1] OBVIOUS
<1>5. ASSUME NEW n \in 1..rev
      PROVE  ds[n].seen = n - 1 /\ ds[n].members = D
  <2>1. ds[n] = [members |-> D, seen |-> n - 1] BY <1>4
  <2> QED BY <2>1
<1> QED BY <1>3, <1>5

LEMMA TeamRowsInit ==
  ASSUME TeamInit, NEW t \in Teams
  PROVE  TeamRows(t) /\ DOMAIN teams = Teams /\ DOMAIN teamVersions = Teams
<1>1. PICK start \in Squads : teams = start.teams /\ teamVersions = start.teamVersions
  BY DEF TeamInit
<1>2. /\ teams \in [Teams -> Team \cup {None}] /\ DOMAIN teamVersions = Teams
      /\ teams[t] = None => teamVersions[t] = <<>>
      /\ teams[t] # None =>
           /\ teamVersions[t] \in Seq([rev : 1..teams[t].rev, members : [teams[t].draft -> Agent]])
           /\ teams[t].current <= Len(teamVersions[t])
           /\ \A n \in DOMAIN teamVersions[t] : \A a \in teams[t].draft :
                teamVersions[t][n].members[a].on
  BY <1>1, TeamAssumption
<1>3. CASE teams[t] = None
  <2>1. drafts[t] = <<>> BY <1>3 DEF TeamInit
  <2> QED BY <1>2, <1>3, <2>1 DEF TeamRows, RowsFit, Formed
<1>4. CASE teams[t] # None
  <2>1. PICK team, vs, ds, S : /\ team = teams[t] /\ vs = teamVersions[t] /\ ds = drafts[t]
                               /\ S = [rev : 1..team.rev, members : [team.draft -> Agent]]
    OBVIOUS
  <2>2. team \in Team /\ team.rev \in Nat \ {0} /\ team.draft \in SUBSET Agents /\ team.current \in Nat
    BY <1>2, <1>4, <2>1 DEF Team
  <2>3. ds = [n \in 1..team.rev |-> [members |-> team.draft, seen |-> n - 1]]
    BY <1>4, <2>1 DEF TeamInit
  <2>4. /\ ds \in Seq(TeamDraft) /\ Len(ds) = team.rev
        /\ \A n \in 1..team.rev : ds[n].seen = n - 1 /\ ds[n].members = team.draft
    <3>1. PICK rev, D : rev = team.rev /\ D = team.draft OBVIOUS
    <3>2. rev \in Nat \ {0} /\ D \in SUBSET Agents BY <2>2, <3>1
    <3>3. ds = [n \in 1..rev |-> [members |-> D, seen |-> n - 1]] BY <2>3, <3>1
    <3>4. /\ ds \in Seq(TeamDraft) /\ Len(ds) = rev
          /\ \A n \in 1..rev : ds[n].seen = n - 1 /\ ds[n].members = D
      BY <3>2, <3>3, OldDrafts
    <3> QED BY <3>1, <3>4
  <2>5. vs \in Seq(S) /\ team.current <= Len(vs) BY <1>2, <1>4, <2>1
  <2>6. Len(vs) \in Nat /\ DOMAIN vs = 1..Len(vs) /\ \A n \in 1..Len(vs) : vs[n] \in S
    BY <2>5, Elements
  <2>7. \A n \in 1..Len(vs) : \A a \in team.draft : vs[n].members[a].on
    BY <1>2, <1>4, <2>1, <2>6
  <2>8. [team.draft -> Agent] \subseteq Rows BY <2>2 DEF Rows
  <2>9. S \subseteq TeamVersion BY <2>1, <2>2, <2>8 DEF TeamVersion
  <2>10. vs \in Seq(TeamVersion) BY <2>5, <2>9
  <2>11. ASSUME NEW n \in 1..Len(vs)
         PROVE  IsDraft(vs[n], ds) /\ AllOn(vs[n].members)
    <3>1. vs[n].rev \in 1..team.rev /\ vs[n].members \in [team.draft -> Agent]
      BY <2>1, <2>6
    <3> QED BY <2>2, <2>4, <2>7, <3>1 DEF IsDraft, AllOn
  <2>12. team.current \in 0..Len(vs) /\ team.rev \in 1..team.rev BY <2>2, <2>5, <2>6
  <2>13. ds[team.rev].members = team.draft BY <2>4, <2>12
  <2> QED BY <1>2, <1>4, <2>1, <2>2, <2>4, <2>10, <2>11, <2>12, <2>13 DEF TeamRows, RowsFit, Formed
<1>5. DOMAIN teams = Teams BY <1>2
<1> QED BY <1>2, <1>3, <1>4, <1>5

LEMMA TeamInvInit ==
  ASSUME Init
  PROVE  TeamInv
<1> USE DEF Init
<1>1. CurrentExists
  <2>1. SkillInv BY SkillInvInit
  <2>2. ASSUME NEW k \in Skills, Present(k)
        PROVE  skills[k].current = 1 /\ Len(versions[k]) = 1
    BY <2>2 DEF SkillInit, Present
  <2> QED BY <2>2 DEF CurrentExists
<1>2. PICK from \in DOMAIN Catalogs :
        agents = Catalogs[from].agents /\ pointer = Catalogs[from].pointer
  BY AgentAssumption DEF RequestInit, AgentInit
<1>3. BindsExist
  <2>1. ASSUME NEW a \in Agents, Known(a)
        PROVE  Exist(agents[a].binds)
    <3>1. agents[a].binds \subseteq [skill : OldSkills, version : {1}]
      BY <1>2, <2>1, AgentAssumption DEF Known
    <3>2. \A k \in OldSkills : Len(versions[k]) = 1 BY SkillAssumption DEF SkillInit
    <3>3. \A x \in [skill : OldSkills, version : {1}] :
            x \in Binding /\ x.version <= Len(versions[x.skill])
      BY <3>2, SkillAssumption DEF Binding
    <3> QED BY <3>1, <3>3 DEF Exist
  <2> QED BY <2>1 DEF BindsExist, AgentInit
<1>4. TeamsFit
  <2>1. teams \in [Teams -> Team \cup {None}] /\ DOMAIN teamVersions = Teams
    <3>1. PICK start \in Squads : teams = start.teams /\ teamVersions = start.teamVersions
      BY DEF TeamInit
    <3> QED BY <3>1, TeamAssumption
  <2> QED BY <2>1, TeamRowsInit DEF TeamsFit, TeamInit
<1>5. ChatFits BY DEF ChatFits, TeamInit
<1>6. Counted
  <2>1. busy = {} /\ served = 0 /\ faults = 0 /\ workload \in Workloads /\ runs = <<>>
    BY DEF RequestInit, TeamInit
  <2>2. IsFiniteSet(busy) /\ Cardinality(busy) = 0 BY <2>1, FS_EmptySet
  <2>3. workload.most \in Nat /\ MaxFaults \in Nat BY <2>1, RequestAssumption
  <2> QED BY <2>1, <2>2, <2>3 DEF Counted, Room
<1>7. SnapshotsFit BY DEF SnapshotsFit, TeamInit
<1>8. WorksFit BY DEF WorksFit, TeamInit
<1>9. CallsFit BY DEF CallsFit, AgentInit
<1>10. Served BY DEF Served, RequestInit
<1> QED BY <1>1, <1>3, <1>4, <1>5, <1>6, <1>7, <1>8, <1>9, <1>10 DEF TeamInv

-----------------------------------------------------------------------------
(* Versions of skills stay, and the current one is there. *)
Grows(s, z) == Len(s) <= Len(z) /\ \A n \in 1..Len(s) : z[n] = s[n]

LEMMA VersionsGrow ==
  ASSUME SkillInv, SkillNext, NEW k \in Skills
  PROVE  Grows(versions[k], versions'[k])
<1>1. versions[k] \in Seq(Version) BY DEF SkillInv, SkillTypes
<1>2. CASE versions'[k] = versions[k] BY <1>1, <1>2 DEF Grows
<1>3. CASE \E c \in Clients : CommitPublish(c)
  <2>1. PICK j, v : versions' = [versions EXCEPT ![j] = Append(@, v)]
    BY <1>3 DEF CommitPublish
  <2>2. versions'[k] = versions[k] \/ versions'[k] = Append(versions[k], v)
    BY <2>1 DEF SkillInv, SkillTypes
  <2>3. PICK s : s = versions[k] /\ s \in Seq(Version) BY <1>1
  <2>4. Grows(s, Append(s, v))
    <3>1. PICK T : T = Version \cup {v} OBVIOUS
    <3>2. s \in Seq(T) /\ v \in T BY <2>3, <3>1
    <3> HIDE <2>3, <3>1
    <3> QED BY <3>2 DEF Grows
  <2> QED BY <1>2, <2>2, <2>3, <2>4
<1>4. versions' = versions \/ \E c \in Clients : CommitPublish(c)
  BY DEF SkillNext, SkillBegin, SkillGoesOn, BreakEdit, SetAvailable, BeginEdit, BeginPublish,
     PutPackage, CommitEdit, RefuseEdit, ReplayPublish, ReadDraft, ReadPackage, RefusePublish
<1> QED BY <1>2, <1>3, <1>4

LEMMA AdvancedCurrent ==
  ASSUME SkillInv, NEW k \in Skills, Present(k), NEW p
  PROVE  Advanced(k, p).current = skills[k].current
<1>1. skills[k] \in Skill BY DEF Present, SkillInv, SkillTypes
<1>2. PICK r : r = [skills[k] EXCEPT !.rev = @ + 1] OBVIOUS
<1>3. r = [rev |-> r.rev, pkg |-> r.pkg, enabled |-> r.enabled, current |-> skills[k].current]
  BY <1>1, <1>2 DEF Skill
<1>4. Advanced(k, p) = [r EXCEPT !.pkg = p] BY <1>2 DEF Advanced
<1> QED BY <1>3, <1>4

LEMMA CurrentKeeps ==
  ASSUME SkillInv, SkillInv', CurrentExists, SkillNext
  PROVE  CurrentExists'
<1>t. /\ DOMAIN skills = Skills /\ DOMAIN versions = Skills
      /\ \A k \in Skills : Present(k) => skills[k] \in Skill
  BY DEF SkillInv, SkillTypes, Present
<1>g. \A k \in Skills : Len(versions[k]) \in Nat /\ Len(versions'[k]) \in Nat
                        /\ Len(versions[k]) <= Len(versions'[k])
  BY VersionsGrow DEF SkillInv, SkillTypes, Grows
<1>s. SUFFICES ASSUME NEW k \in Skills, Present(k)'
               PROVE  \/ Present(k) /\ skills'[k].current = skills[k].current
                      \/ skills'[k].current = 0
                      \/ skills'[k].current = Len(versions'[k])
  BY <1>g DEF CurrentExists
<1>1. CASE skills' = skills BY <1>1, <1>s DEF Present
<1>2. ASSUME NEW c \in Clients, CommitEdit(c)
      PROVE  \/ Present(k) /\ skills'[k].current = skills[k].current
             \/ skills'[k].current = 0
  <2>1. skills'[k] = IF k \notin edits[c].on THEN skills[k]
                     ELSE IF Present(k) THEN Advanced(k, edits[c].pkgs[k])
                     ELSE [rev |-> 1, pkg |-> edits[c].pkgs[k], enabled |-> TRUE, current |-> 0]
    BY <1>2 DEF CommitEdit
  <2> QED BY <1>s, <2>1, AdvancedCurrent DEF Present
<1>3. ASSUME NEW j \in Skills, NEW x \in BOOLEAN, SetAvailable(j, x)
      PROVE  Present(k) /\ skills'[k].current = skills[k].current
  <2>1. Present(j) /\ skills' = [skills EXCEPT ![j] = [Advanced(j, skills[j].pkg) EXCEPT !.enabled = x]]
    BY <1>3 DEF SetAvailable
  <2>2. CASE k # j
    <3>1. skills'[k] = skills[k] BY <1>t, <2>1, <2>2
    <3>2. Present(k) BY <1>s, <3>1 DEF Present
    <3> QED BY <3>1, <3>2
  <2>3. CASE k = j
    <3>1. PICK r : r = Advanced(j, skills[j].pkg) OBVIOUS
    <3>2. r.current = skills[k].current BY <2>1, <2>3, <3>1, AdvancedCurrent
    <3>3. skills'[k] = [r EXCEPT !.enabled = x] BY <1>t, <2>1, <2>3, <3>1
    <3>4. PICK q : q = skills[j] /\ q \in Skill BY <1>t, <2>1
    <3>5. r = [[q EXCEPT !.rev = @ + 1] EXCEPT !.pkg = q.pkg] BY <3>1, <3>4 DEF Advanced
    <3>6. skills'[k].current = r.current BY <3>3, <3>4, <3>5 DEF Skill
    <3> QED BY <2>1, <2>3, <3>2, <3>6
  <2> QED BY <2>2, <2>3
<1>4. ASSUME NEW c \in Clients, CommitPublish(c)
      PROVE  \/ Present(k) /\ skills'[k].current = skills[k].current
             \/ skills'[k].current = Len(versions'[k])
  <2>0. \A j \in edits[c].on : j \in Skills
    BY <1>4 DEF CommitPublish, SkillStep, SkillInv, SkillTypes, Edits
  <2>1. PICK j, v :
          /\ j \in Skills
          /\ skills' = [skills EXCEPT ![j] = [Advanced(j, skills[j].pkg) EXCEPT
                                           !.current = Len(versions[j]) + 1]]
          /\ versions' = [versions EXCEPT ![j] = Append(@, v)]
          /\ j \in edits[c].on /\ Unchanged(edits[c], j)
    BY <1>4, <2>0 DEF CommitPublish
  <2>p. Present(j)
    <3>1. edits[c] # None /\ edits[c].op = "publish" /\ edits[c].at = "lock"
      BY <1>4 DEF CommitPublish, SkillStep
    <3>2. edits[c].was[j] # None BY <2>1, <3>1 DEF SkillInv, EditsAgree, EditAgrees
    <3> QED BY <2>1, <3>2 DEF Unchanged, Snapshot
  <2>2. CASE k # j
    <3>1. skills'[k] = skills[k] BY <1>t, <2>1, <2>2
    <3>2. Present(k) BY <1>s, <3>1 DEF Present
    <3> QED BY <3>1, <3>2
  <2>3. CASE k = j
    <3>1. PICK s : s = versions[j] OBVIOUS
    <3>2. s \in Seq(Version) BY <2>1, <3>1 DEF SkillInv, SkillTypes
    <3>3. versions'[k] = Append(s, v) BY <1>t, <2>1, <2>3, <3>1
    <3>4. Len(versions'[k]) = Len(s) + 1
      <4>1. PICK T : T = Version \cup {v} OBVIOUS
      <4>2. s \in Seq(T) /\ v \in T BY <3>2, <4>1
      <4> HIDE <3>2, <4>1
      <4> QED BY <3>3, <4>2
    <3>5. PICK r : r = Advanced(j, skills[j].pkg) OBVIOUS
    <3>6. skills'[k] = [r EXCEPT !.current = Len(s) + 1] BY <1>t, <2>1, <2>3, <3>1, <3>5
    <3>7. PICK q : q = skills[j] /\ q \in Skill BY <1>t, <2>1, <2>p
    <3>8. r = [[q EXCEPT !.rev = @ + 1] EXCEPT !.pkg = q.pkg] BY <3>5, <3>7 DEF Advanced
    <3>9. "current" \in DOMAIN r BY <3>7, <3>8 DEF Skill
    <3> QED BY <3>4, <3>6, <3>9
  <2> QED BY <2>2, <2>3
<1>5. \/ skills' = skills \/ \E c \in Clients : CommitEdit(c) \/ CommitPublish(c)
      \/ \E j \in Skills, x \in BOOLEAN : SetAvailable(j, x)
  BY DEF SkillNext, SkillBegin, SkillGoesOn, BreakEdit, BeginEdit, BeginPublish,
     PutPackage, RefuseEdit, ReplayPublish, ReadDraft, ReadPackage, RefusePublish
<1> QED BY <1>1, <1>2, <1>3, <1>4, <1>5

-----------------------------------------------------------------------------
(* Requests: how many there are, and what each one is *)

(* A request that is answered at once or is begun, one that goes on, or ends. *)
Admitted == served < workload.most /\ served' = served + 1 /\ faults' = faults
Faulty == faults' = faults \/ (faults < MaxFaults /\ faults' = faults + 1)
RequestStep ==
  /\ workload' = workload
  /\ \/ busy' = busy /\ (Admitted \/ (served' = served /\ Faulty))
     \/ \E c \in Clients : c \notin busy /\ busy' = busy \cup {c} /\ Admitted
     \/ \E c \in Clients : busy' = busy \ {c} /\ served' = served /\ Faulty
(* The request of one client. *)
Has(c) == txs[c] # None \/ edits[c] # None \/ tasks[c] # None \/ works[c] # None

LEMMA AtOnceStep ==
  ASSUME NEW op, AtOnce(op)
  PROVE  RequestStep /\ busy' = busy
BY DEF AtOnce, Admits, RequestStep, Admitted

LEMMA BeginsStep ==
  ASSUME NEW op, NEW c \in Clients, Begins(c, op)
  PROVE  RequestStep /\ busy' = busy \cup {c} /\ c \notin busy
BY DEF Begins, Admits, RequestStep, Admitted

LEMMA GoesOnStep ==
  ASSUME GoesOn
  PROVE  RequestStep /\ busy' = busy
BY DEF GoesOn, requestVars, RequestStep, Faulty

LEMMA EndsStep ==
  ASSUME NEW c \in Clients, Ends(c) \/ BreaksOff(c)
  PROVE  RequestStep /\ busy' = busy \ {c}
BY DEF Ends, BreaksOff, RequestStep, Faulty

LEMMA FaultStep ==
  ASSUME faults < MaxFaults, faults' = faults + 1, UNCHANGED <<workload, busy, served>>
  PROVE  RequestStep /\ busy' = busy
BY DEF RequestStep, Faulty

LEMMA IdentityRequest ==
  ASSUME OneRequest, SessionInv, IdentityNext
  PROVE  /\ RequestStep
         /\ \A c \in busy' : txs'[c] # None \/ (c \in busy /\ txs'[c] = txs[c])
<1>1. CASE IdentityAtOnce
  BY <1>1, AtOnceStep DEF IdentityAtOnce, CreateUser, SetRoleStatus, DeleteRole, GrantPermission, SetProjectStatus,
     CloseSessions
<1>2. CASE \E u \in Users : LockElapses(u) BY <1>2, GoesOnStep DEF LockElapses
<1>3. ASSUME NEW c \in Clients, IdentityBegin(c)
      PROVE  /\ RequestStep
             /\ \A d \in busy' : txs'[d] # None \/ (d \in busy /\ txs'[d] = txs[d])
  <2>1. PICK op \in TxOps, S \in SUBSET Users, add \in SUBSET Roles, del \in SUBSET Roles :
          Read(c, op, S, add, del)
    BY <1>3, TxBegins
  <2>2. RequestStep /\ busy' = busy \cup {c} BY <2>1, BeginsStep DEF Read
  <2>3. txs' = [txs EXCEPT ![c] = Reading(op, S, add, del)] BY <2>1 DEF Read
  <2>4. Reading(op, S, add, del) \in Tx BY GlanceType DEF SessionInv, Reading, Tx, TxOps
  <2>5. Reading(op, S, add, del) # None BY <2>4, IdentityAssumption
  <2> QED BY <2>2, <2>3, <2>5 DEF OneRequest
<1>4. ASSUME NEW c \in Clients, IdentityEnd(c) \/ BreakTx(c)
      PROVE  /\ RequestStep
             /\ \A d \in busy' : txs'[d] # None \/ (d \in busy /\ txs'[d] = txs[d])
  <2>1. txs' = [txs EXCEPT ![c] = None] /\ (Ends(c) \/ BreaksOff(c))
    BY <1>4 DEF IdentityEnd, OpenSession, CountFailure, Commit, CommitDelete, Abandon, BreakTx
  <2>2. RequestStep /\ busy' = busy \ {c} BY <2>1, EndsStep
  <2> QED BY <2>1, <2>2
<1> QED BY <1>1, <1>2, <1>3, <1>4 DEF IdentityNext

LEMMA SkillRequest ==
  ASSUME OneRequest, SkillInv, SkillNext
  PROVE  /\ RequestStep
         /\ \A c \in busy' : edits'[c] # None \/ (c \in busy /\ edits'[c] = edits[c])
<1>e. None \notin Edits BY SkillAssumption
<1>1. CASE \E k \in Skills, b \in BOOLEAN : SetAvailable(k, b)
  BY <1>1, AtOnceStep DEF SetAvailable
<1>2. ASSUME NEW c \in Clients, SkillBegin(c)
      PROVE  /\ RequestStep
             /\ \A d \in busy' : edits'[d] # None \/ (d \in busy /\ edits'[d] = edits[d])
  <2>1. PICK e, op : e \in Edits /\ Begins(c, op) /\ edits' = [edits EXCEPT ![c] = e]
    <3>1. CASE \E op \in {"create", "save", "import"}, T \in SUBSET Skills : BeginEdit(c, op, T)
      BY <3>1, EditType DEF BeginEdit
    <3>2. ASSUME NEW k \in Skills, NEW key \in Keys, Present(k),
                 NEW r \in {skills[k].rev - 1, skills[k].rev}, BeginPublish(c, k, key, r)
          PROVE  \E e, op : e \in Edits /\ Begins(c, op) /\ edits' = [edits EXCEPT ![c] = e]
      <4>1. skills[k] \in Skill BY <3>2 DEF SkillInv, SkillTypes, Present
      <4>2. r \in Nat BY <3>2, <4>1 DEF BeginPublish, Skill
      <4>3. Edit("publish", "look", {k}) \in Edits BY EditType
      <4>4. PICK e \in Edits : e = [Edit("publish", "look", {k}) EXCEPT !.key = key, !.rev = r]
        BY <4>2, <4>3 DEF Edits
      <4> QED BY <3>2, <4>4 DEF BeginPublish
    <3> QED BY <1>2, <3>1, <3>2 DEF SkillBegin
  <2>2. RequestStep /\ busy' = busy \cup {c} BY <2>1, BeginsStep
  <2> QED BY <1>e, <2>1, <2>2 DEF OneRequest
<1>3. ASSUME NEW c \in Clients, RefuseEdit(c) \/ RefusePublish(c) \/ ReplayPublish(c)
                                \/ CommitEdit(c) \/ CommitPublish(c) \/ BreakEdit(c)
      PROVE  /\ RequestStep
             /\ \A d \in busy' : edits'[d] # None \/ (d \in busy /\ edits'[d] = edits[d])
  <2>1. edits' = [edits EXCEPT ![c] = None] /\ (Ends(c) \/ BreaksOff(c))
    BY <1>3 DEF RefuseEdit, RefusePublish, ReplayPublish, CommitEdit, CommitPublish, BreakEdit, Closes
  <2>2. RequestStep /\ busy' = busy \ {c} BY <2>1, EndsStep
  <2> QED BY <2>1, <2>2
<1>4. ASSUME NEW c \in Clients, PutPackage(c) \/ ReadDraft(c) \/ ReadPackage(c)
      PROVE  /\ RequestStep
             /\ \A d \in busy' : edits'[d] # None \/ (d \in busy /\ edits'[d] = edits[d])
  <2>1. RequestStep /\ busy' = busy
    BY <1>4, GoesOnStep, FaultStep DEF PutPackage, ReadDraft, ReadPackage, Moves
  <2>2. PICK o : o = edits[c] /\ o \in Edits
    BY <1>4 DEF PutPackage, ReadDraft, ReadPackage, SkillStep, SkillInv, SkillTypes
  <2>3. \E e \in Edits : edits' = [edits EXCEPT ![c] = e]
    <3>1. CASE PutPackage(c)
      <4>1. PICK k \in o.on, at \in {"commit", "put"} :
              edits' = [edits EXCEPT ![c].pkgs[k] = stored + 1, ![c].at = at]
        BY <2>2, <3>1 DEF PutPackage
      <4>2. stored + 1 \in Nat BY DEF SkillInv, SkillTypes
      <4>3. PICK n : n = [o.pkgs EXCEPT ![k] = stored + 1] OBVIOUS
      <4>4. n \in [Skills -> Nat] BY <2>2, <4>2, <4>3 DEF Edits
      <4>5. PICK e : e = [o EXCEPT !.pkgs = n, !.at = at] OBVIOUS
      <4>6. e \in Edits BY <2>2, <4>4, <4>5 DEF Edits
      <4>7. edits' = [edits EXCEPT ![c] = e] BY <2>2, <4>1, <4>3, <4>5
      <4> QED BY <4>6, <4>7
    <3>2. CASE ReadDraft(c)
      <4>1. PICK k \in o.on, at \in {"read", "again"} :
              edits' = [edits EXCEPT ![c].was = Snapshots({k}), ![c].at = at]
        BY <2>2, <3>2 DEF ReadDraft
      <4>2. Snapshots({k}) \in [Skills -> Draft \cup {None}] BY <2>2, <4>1, SnapshotType DEF Edits
      <4>3. PICK e : e = [o EXCEPT !.was = Snapshots({k}), !.at = at] OBVIOUS
      <4>4. e \in Edits BY <2>2, <4>2, <4>3 DEF Edits
      <4>5. edits' = [edits EXCEPT ![c] = e] BY <2>2, <4>1, <4>3
      <4> QED BY <4>4, <4>5
    <3>3. CASE ReadPackage(c)
      <4>1. PICK at \in {"lock", "again"} : edits' = [edits EXCEPT ![c].at = at]
        BY <3>3 DEF ReadPackage, Moves
      <4>2. PICK e : e = [o EXCEPT !.at = at] OBVIOUS
      <4>3. e \in Edits BY <2>2, <4>1, <4>2 DEF Edits
      <4>4. edits' = [edits EXCEPT ![c] = e] BY <2>2, <4>1, <4>2
      <4> QED BY <4>3, <4>4
    <3> QED BY <1>4, <3>1, <3>2, <3>3
  <2> QED BY <1>e, <2>1, <2>3 DEF OneRequest
<1> QED BY <1>1, <1>2, <1>3, <1>4 DEF SkillNext, SkillGoesOn

-----------------------------------------------------------------------------
(* How the request of an agent goes on *)

(* The row it carries: the one it had, that of an agent, or one bound to what is
   published now.  The read of an agent for a team ends with its row. *)
RowFrom(t, u) ==
  \/ u.row = t.row
  \/ \E a \in Agents : Known(a) /\ u.row.binds = agents[a].binds
  \/ \E S \in SUBSET Skills : (\A k \in S : Available(k)) /\ u.row.binds = Current(S)
CallMoves(t, u) ==
  \/ u.at = "done" /\ t.at = "read" /\ u.agent = Asked(t) /\ u.row = agents[Asked(t)]
  \/ u.at # "done" /\ u.agent = t.agent /\ u.row = t.row /\ (u.at = "read" => pointer'.at \in Agents)
GoesTo(t, u) ==
  /\ OnItsWay(u) /\ u.op = t.op
  /\ t.op # "call" => u # None /\ RowFrom(t, u)
  /\ t.op = "call" => CallMoves(t, u)
TaskMove(c) ==
  /\ tasks[c] # None
  /\ \/ /\ tasks[c].op # "call" /\ tasks' = [tasks EXCEPT ![c] = None] /\ Ends(c)
     \/ \E u : /\ tasks' = [tasks EXCEPT ![c] = u] /\ GoesTo(tasks[c], u)
               /\ RequestStep /\ busy' = busy

LEMMA CarriesMoves ==
  ASSUME NEW c \in Clients, tasks[c] # None, NEW u, NEW p, tasks' = [tasks EXCEPT ![c] = u],
         Carries(tasks[c], u, p), p # "done", p = "read" => pointer'.at \in Agents,
         RequestStep, busy' = busy
  PROVE  TaskMove(c)
<1> DEFINE t == tasks[c]
<1>1. OnItsWay(u) /\ u.op = t.op /\ u.at = p /\ u.agent = t.agent /\ u.row = t.row BY DEF Carries
<1>2. t.op # "call" => u # None BY <1>1, Own
<1> QED BY <1>1, <1>2 DEF TaskMove, GoesTo, RowFrom, CallMoves

LEMMA EnsureMoves ==
  ASSUME AgentInv, NEW c \in Clients,
         \/ MakeBuiltin(c) \/ RepairBuiltin(c) \/ ReadPointer(c) \/ LockPointer(c)
         \/ AdoptAgain(c) \/ Adopt(c)
  PROVE  TaskMove(c)
<1> DEFINE t == tasks[c]
<1>1. t # None /\ GoesOn
  BY DEF MakeBuiltin, RepairBuiltin, ReadPointer, LockPointer, AdoptAgain, Adopting, Adopt, At,
     Reaches, Proceeds
<1>2. OnItsWay(t) /\ IsTask(t) BY <1>1, Acting
<1>3. t.after \in PlacesOf(t.op) \cap {"read", "check", "lock"} BY <1>2 DEF OnItsWay
<1>4. RequestStep /\ busy' = busy BY <1>1, GoesOnStep
<1>5. ASSUME NEW p \in Ensuring \cup {t.after}, tasks' = [tasks EXCEPT ![c] = [t EXCEPT !.at = p]],
             p = "read" => pointer'.at \in Agents
      PROVE  TaskMove(c)
  <2>1. Carries(t, [t EXCEPT !.at = p], p) BY <1>2, <1>3, <1>5, WayOn
  <2>2. p # "done" BY <1>3, <1>5 DEF Ensuring
  <2> QED BY <1>1, <1>4, <1>5, <2>1, <2>2, CarriesMoves
<1>6. CASE MakeBuiltin(c) \/ RepairBuiltin(c) \/ LockPointer(c)
  <2>1. PICK p \in {"row", "pointer", "target"} : tasks' = [tasks EXCEPT ![c] = [t EXCEPT !.at = p]]
    BY <1>6 DEF MakeBuiltin, RepairBuiltin, LockPointer, Reaches, Proceeds
  <2> QED BY <1>5, <2>1 DEF Ensuring
<1>7. CASE Adopt(c)
  <2>1. pointer'.at \in Agents BY <1>7, AgentAssumption DEF Adopt
  <2>2. tasks' = [tasks EXCEPT ![c] = [t EXCEPT !.at = t.after]]
    BY <1>7 DEF Adopt, Reaches, Proceeds
  <2> QED BY <1>5, <2>1, <2>2
<1>8. CASE ReadPointer(c)
  <2>1. CASE Eligible(pointer.at)
    <3>1. pointer'.at \in Agents BY <1>8, <2>1 DEF ReadPointer, Eligible, AgentInv, AgentTypeOK, Pointer
    <3>2. tasks' = [tasks EXCEPT ![c] = [t EXCEPT !.at = t.after]]
      BY <1>8, <2>1 DEF ReadPointer, Reaches, Proceeds
    <3> QED BY <1>5, <3>1, <3>2
  <2>2. CASE ~Eligible(pointer.at)
    <3>1. tasks' = [tasks EXCEPT ![c] = [t EXCEPT !.at = "adopt", !.ver = pointer.ver]]
      BY <1>8, <2>2 DEF ReadPointer, Proceeds
    <3>2. pointer.ver \in Nat /\ (t.op # "call" => t.tries \in Nat)
      BY <1>2, Own DEF AgentInv, AgentTypeOK, Pointer
    <3>3. PICK u : u = [t EXCEPT !.at = "adopt", !.ver = pointer.ver] OBVIOUS
    <3>4. Carries(t, u, "adopt") BY <1>2, <3>2, <3>3, WayOn DEF Ensuring
    <3>5. tasks' = [tasks EXCEPT ![c] = u] BY <3>1, <3>3
    <3> QED BY <1>1, <1>4, <3>4, <3>5, CarriesMoves
  <2> QED BY <2>1, <2>2
<1>9. CASE AdoptAgain(c)
  <2>1. tasks' = [tasks EXCEPT ![c] = [t EXCEPT !.at = "pointer", !.tries = @ + 1]]
    BY <1>9 DEF AdoptAgain, Proceeds
  <2>2. t.op # "call" => t.ver \in Nat /\ t.tries + 1 \in Nat BY <1>2, Own
  <2>3. PICK u : u = [t EXCEPT !.at = "pointer", !.tries = @ + 1] OBVIOUS
  <2>4. PICK n : n = t.tries + 1 OBVIOUS
  <2>5. u = [t EXCEPT !.at = "pointer", !.tries = n] BY <2>3, <2>4
  <2>6. t.op # "call" => n \in Nat BY <2>2, <2>4
  <2>7. Carries(t, u, "pointer") BY <1>2, <2>5, <2>6, WayOn DEF Ensuring
  <2>8. tasks' = [tasks EXCEPT ![c] = u] BY <2>1, <2>3
  <2> QED BY <1>1, <1>4, <2>7, <2>8, CarriesMoves
<1> QED BY <1>6, <1>7, <1>8, <1>9

LEMMA FinishMoves ==
  ASSUME AgentInv, NEW c \in Clients, Finishes(c), tasks[c] # None
  PROVE  TaskMove(c)
<1> DEFINE t == tasks[c]
<1>1. CASE t.op # "call" BY <1>1 DEF Finishes, TaskMove
<1>2. CASE t.op = "call"
  <2>1. GoesOn /\ tasks' = [tasks EXCEPT ![c] = [t EXCEPT !.at = "failed"]]
    BY <1>2 DEF Finishes, Reaches, Proceeds
  <2>2. OnItsWay(t) BY Acting
  <2>3. Carries(t, [t EXCEPT !.at = "failed"], "failed") BY <1>2, <2>2, WayOn DEF PlacesOf
  <2> QED BY <2>1, <2>3, CarriesMoves, GoesOnStep
<1> QED BY <1>1, <1>2

LEMMA PlaceMoves ==
  ASSUME AgentInv, NEW c \in Clients,
         \/ CheckId(c) \/ MakeSpace(c) \/ PassGuard(c)
         \/ RefuseDelete(c) \/ Duplicate(c) \/ CommitFails(c)
  PROVE  TaskMove(c)
<1> DEFINE t == tasks[c]
<1>1. t # None /\ t.at \in {"check", "mkdir", "guard", "commit"}
  BY DEF CheckId, MakeSpace, PassGuard, RefuseDelete, Duplicate, CommitFails, At
<1>2. OnItsWay(t) BY <1>1, Acting
<1>3. RequestStep /\ busy' = busy
  BY GoesOnStep, FaultStep DEF CheckId, MakeSpace, PassGuard, RefuseDelete, Duplicate,
     CommitFails, Reaches, Proceeds
<1>4. t.op # "call" BY <1>1, <1>2, Where DEF Changes, Creates
<1>5. ASSUME NEW p \in PlacesOf(t.op), tasks' = [tasks EXCEPT ![c] = [t EXCEPT !.at = p]],
             p \notin {"read", "done"}
      PROVE  TaskMove(c)
  <2>1. Carries(t, [t EXCEPT !.at = p], p)
    <3>1. 0 \in Nat OBVIOUS
    <3> QED BY <1>2, <1>5, <3>1, WayOn
  <2> QED BY <1>1, <1>3, <1>5, <2>1, CarriesMoves
<1>6. CASE CheckId(c)
  <2>1. "bind" \in PlacesOf(t.op) BY <1>2, <1>6, Where DEF CheckId, At, PlacesOf, Creates
  <2> QED BY <1>5, <1>6, <2>1 DEF CheckId, Reaches, Proceeds
<1>7. CASE MakeSpace(c)
  <2>1. "commit" \in PlacesOf(t.op) BY <1>2, <1>7, Where DEF MakeSpace, At, PlacesOf, Creates
  <2> QED BY <1>5, <1>7, <2>1 DEF MakeSpace, Reaches, Proceeds
<1>8. CASE PassGuard(c)
  <2>1. PICK p : p = IF t.op = "agent.update" THEN "file" ELSE "commit" OBVIOUS
  <2>2. t.op \in Changes \ {"agent.pin"} BY <1>2, <1>8, Where DEF PassGuard, At
  <2>3. p \in PlacesOf(t.op) /\ p \in {"file", "commit"} BY <2>1, <2>2 DEF PlacesOf, Changes
  <2> QED BY <1>5, <1>8, <2>1, <2>3 DEF PassGuard, Reaches, Proceeds
<1>9. CASE RefuseDelete(c) \/ Duplicate(c) \/ CommitFails(c)
  <2>1. t.op \in Changes \ {"agent.pin"} \/ t.op = "agent.pin" \/ Creates(t)
    BY <1>1, <1>2, <1>9, Where DEF RefuseDelete, Duplicate, CommitFails, At
  <2>2. "restore" \in PlacesOf(t.op) BY <2>1 DEF PlacesOf, Changes, Creates
  <2>3. tasks' = [tasks EXCEPT ![c] = [t EXCEPT !.at = "restore"]]
    BY <1>9 DEF RefuseDelete, Duplicate, CommitFails, RollsBack
  <2> QED BY <1>5, <2>2, <2>3
<1> QED BY <1>6, <1>7, <1>8, <1>9

(* With some fields changed. *)
LEMMA FieldMoves ==
  ASSUME NEW c \in Clients, tasks[c] # None, NEW u, tasks' = [tasks EXCEPT ![c] = u],
         OnItsWay(u), u # None, u.op = tasks[c].op, u.op # "call", RowFrom(tasks[c], u),
         RequestStep, busy' = busy
  PROVE  TaskMove(c)
BY DEF TaskMove, GoesTo

LEMMA FileMoves ==
  ASSUME AgentInv, NEW c \in Clients, Quarantine(c) \/ WriteSpace(c)
  PROVE  TaskMove(c)
<1> DEFINE t == tasks[c]
<1>1. t # None /\ t.at \in {"quarantine", "file"} BY DEF Quarantine, WriteSpace, At
<1>2. OnItsWay(t) /\ IsTask(t) BY <1>1, Acting
<1>3. /\ t.op # "call"
      /\ t.at = "quarantine" => t.op = "agent.delete"
      /\ t.at = "file" => t.op = "agent.update"
  BY <1>1, <1>2, Where
<1>4. t.agent \in Agents /\ t.cfg \in Config /\ t.row \in Agent \cup {None} BY <1>2, <1>3, Own
<1>5. PICK w : w = spaces[t.agent] /\ w \in Texts \cup {None}
  BY <1>4 DEF AgentInv, AgentTypeOK
<1>6. PICK p \in {"guard", "commit"} :
        /\ tasks' = [tasks EXCEPT ![c] = [t EXCEPT !.at = p, !.was = w]]
        /\ p = "guard" => t.at = "quarantine"
        /\ p = "commit" => t.at = "file"
  BY <1>5 DEF Quarantine, WriteSpace, Proceeds, At
<1>7. PICK u : u = [t EXCEPT !.at = p, !.was = w] OBVIOUS
<1>8. Becomes(t, u, p, t.after, t.agent, t.cfg, w, t.row) BY <1>2, <1>7, Fields
<1>9. p \in PlacesOf(t.op) BY <1>3, <1>6 DEF PlacesOf
<1>10. t.after \in PlacesOf(t.op) \cap {"read", "check", "lock"} BY <1>2 DEF OnItsWay
<1>11. OnItsWay(u) /\ u # None BY <1>2, <1>3, <1>4, <1>5, <1>8, <1>9, <1>10, Still
<1>12. RequestStep /\ busy' = busy BY GoesOnStep DEF Quarantine, WriteSpace, Proceeds
<1>13. RowFrom(t, u) /\ u.op = t.op BY <1>8 DEF RowFrom, Becomes
<1> QED BY <1>1, <1>3, <1>6, <1>7, <1>11, <1>12, <1>13, FieldMoves

LEMMA LockMoves ==
  ASSUME AgentInv, NEW c \in Clients, LockAgent(c)
  PROVE  TaskMove(c)
<1> DEFINE t == tasks[c]
<1>1. t # None /\ t.at = "lock" /\ Known(t.agent) BY DEF LockAgent, At
<1>2. OnItsWay(t) /\ IsTask(t) /\ RowFits(t) /\ Known(Builtin) BY <1>1, Acting DEF TaskFits
<1>3. t.op \in Changes \cup {"agent.copy"} /\ t.op # "call" BY <1>1, <1>2, Where DEF Changes
<1>4. t.agent \in Agents BY <1>2, <1>3, Own
<1>5. PICK u : u = Locked(t) OBVIOUS
<1>6. tasks' = [tasks EXCEPT ![c] = u] BY <1>5 DEF LockAgent, Proceeds
<1>7. OnItsWay(u) /\ u # None /\ u.op = t.op BY <1>1, <1>2, <1>3, <1>5, LockedTask
<1>8. RequestStep /\ busy' = busy BY GoesOnStep DEF LockAgent, Proceeds
<1>9. PICK row : row = agents[t.agent] /\ row \in Agent
  BY <1>1, <1>4 DEF Known, AgentInv, AgentTypeOK
<1>10. RowFrom(t, u)
  <2>1. CASE t.op \in {"agent.update", "agent.migrate"}
    <3>1. Becomes(t, u, "bind", t.after, t.agent, t.cfg, t.was, row)
      BY <1>2, <1>5, <1>9, <2>1, Fields DEF Locked
    <3> QED BY <1>1, <1>4, <1>9, <3>1 DEF RowFrom, Becomes
  <2>2. CASE t.op = "agent.enable"
    <3>1. PICK r : r = [row EXCEPT !.on = t.cfg.on] OBVIOUS
    <3>2. Becomes(t, u, "guard", t.after, t.agent, t.cfg, t.was, r)
      BY <1>2, <1>5, <1>9, <2>2, <3>1, Fields DEF Locked
    <3>3. r.binds = row.binds BY <1>9, <3>1 DEF Agent
    <3> QED BY <1>1, <1>4, <1>9, <3>2, <3>3 DEF RowFrom, Becomes
  <2>3. CASE t.op = "agent.pin"
    <3>1. Becomes(t, u, "commit", t.after, t.agent, t.cfg, t.was, row)
      BY <1>2, <1>5, <1>9, <2>3, Fields DEF Locked
    <3> QED BY <1>1, <1>4, <1>9, <3>1 DEF RowFrom, Becomes
  <2>4. CASE t.op = "agent.delete"
    <3>1. u = [t EXCEPT !.at = "quarantine"] BY <1>5, <2>4 DEF Locked
    <3> QED BY <1>2, <3>1 DEF RowFrom, IsTask
  <2>5. CASE t.op = "agent.copy"
    <3>1. PICK cfg : cfg = [on |-> FALSE, text |-> row.text, names |-> row.names] OBVIOUS
    <3>2. Becomes(t, u, "repair", "check", t.agent, cfg, t.was, t.row)
      BY <1>2, <1>5, <1>9, <2>5, <3>1, Fields DEF Locked
    <3> QED BY <3>2 DEF RowFrom, Becomes
  <2> QED BY <1>3, <2>1, <2>2, <2>3, <2>4, <2>5 DEF Changes
<1> QED BY <1>1, <1>3, <1>6, <1>7, <1>8, <1>10, FieldMoves

LEMMA ResolveMoves ==
  ASSUME AgentInv, SkillInv, NEW c \in Clients, Resolve(c)
  PROVE  TaskMove(c)
<1> DEFINE t == tasks[c]
<1>1. t # None /\ t.at = "bind" /\ Bindable(t) BY DEF Resolve, At
<1>2. OnItsWay(t) /\ IsTask(t) /\ TaskFits(t, c) BY <1>1, Acting
<1>3. (t.op \in {"agent.update", "agent.migrate"} \/ Creates(t)) /\ t.op # "call"
  BY <1>1, <1>2, Where DEF Creates
<1>4. t.agent \in Agents /\ t.cfg \in Config /\ t.was \in Texts \cup {None} BY <1>2, <1>3, Own
<1>5. t.op \in {"agent.update", "agent.migrate"} => t.row \in Agent
  <2>1. SUFFICES ASSUME t.op \in {"agent.update", "agent.migrate"} PROVE t.row \in Agent OBVIOUS
  <2>2. Known(t.agent) /\ t.row = agents[t.agent]
    BY <1>1, <1>2, <2>1 DEF TaskFits, Holds, RowFits, Changes
  <2> QED BY <1>4, <2>2 DEF Known, AgentInv, AgentTypeOK
<1>6. PICK S : S = Wanted(t) OBVIOUS
<1>7. S \in SUBSET Skills /\ \A k \in S : Available(k)
  BY <1>1, <1>3, <1>4, <1>5, <1>6 DEF Bindable, Wanted, Agent, Config, Creates
<1>8. Current(S) \in SUBSET Binding BY <1>4, <1>7, RowType
<1>9. PICK p, r : /\ Bound(t) = [t EXCEPT !.at = p, !.row = r] /\ r \in Agent
                  /\ r.binds = Current(S) /\ p \in PlacesOf(t.op)
  <2>1. CASE t.op = "agent.update"
    <3>1. t.row.common \in BOOLEAN BY <1>5, <2>1 DEF Agent
    <3>2. PICK r : r = AgentRow(t.cfg, Current(S), t.row.common) OBVIOUS
    <3>3. r \in Agent BY <1>4, <1>7, <3>1, <3>2, RowType
    <3>4. r.binds = Current(S) BY <3>2 DEF AgentRow
    <3>5. Bound(t) = [t EXCEPT !.at = "guard", !.row = r] BY <1>6, <2>1, <3>2 DEF Bound
    <3> QED BY <2>1, <3>3, <3>4, <3>5 DEF PlacesOf
  <2>2. CASE t.op = "agent.migrate"
    <3>1. PICK r : r = [t.row EXCEPT !.binds = Current(S)] OBVIOUS
    <3>2. r \in Agent /\ r.binds = Current(S) BY <1>5, <1>8, <2>2, <3>1 DEF Agent
    <3>3. Bound(t) = [t EXCEPT !.at = "guard", !.row = r]
      BY <1>2, <1>6, <2>2, <3>1 DEF Bound, IsTask
    <3> QED BY <2>2, <3>2, <3>3 DEF PlacesOf
  <2>3. CASE Creates(t)
    <3>1. PICK r : r = AgentRow(t.cfg, Current(S), FALSE) OBVIOUS
    <3>2. r \in Agent BY <1>4, <1>7, <3>1, RowType
    <3>3. r.binds = Current(S) BY <3>1 DEF AgentRow
    <3>4. Bound(t) = [t EXCEPT !.at = "mkdir", !.row = r] BY <1>6, <2>3, <3>1 DEF Bound, Creates
    <3> QED BY <2>3, <3>2, <3>3, <3>4 DEF PlacesOf, Creates
  <2> QED BY <1>3, <2>1, <2>2, <2>3
<1>10. PICK u : u = [t EXCEPT !.at = p, !.row = r] OBVIOUS
<1>11. Becomes(t, u, p, t.after, t.agent, t.cfg, t.was, r) BY <1>2, <1>10, Fields
<1>12. t.after \in PlacesOf(t.op) \cap {"read", "check", "lock"} BY <1>2 DEF OnItsWay
<1>13. OnItsWay(u) /\ u # None BY <1>2, <1>3, <1>4, <1>9, <1>11, <1>12, Still
<1>14. tasks' = [tasks EXCEPT ![c] = u] BY <1>9, <1>10 DEF Resolve, Proceeds
<1>15. RequestStep /\ busy' = busy BY GoesOnStep DEF Resolve, Proceeds
<1>16. RowFrom(t, u) /\ u.op = t.op BY <1>7, <1>9, <1>11 DEF RowFrom, Becomes
<1> QED BY <1>1, <1>3, <1>13, <1>14, <1>15, <1>16, FieldMoves

LEMMA ReadMoves ==
  ASSUME AgentInv, NEW c \in Clients, ReadAgent(c)
  PROVE  TaskMove(c)
<1> DEFINE t == tasks[c]
<1>1. t # None /\ t.at = "read" BY DEF ReadAgent, At
<1>2. OnItsWay(t) /\ IsTask(t) BY <1>1, Acting
<1>3. CASE t.op # "call" BY <1>1, <1>3, FinishMoves DEF ReadAgent
<1>4. CASE t.op = "call"
  <2>1. PICK a, r : a = Asked(t) /\ r = agents[a] OBVIOUS
  <2>2. PICK u : u = [t EXCEPT !.at = "done", !.agent = a, !.row = r] OBVIOUS
  <2>3. tasks' = [tasks EXCEPT ![c] = u] /\ GoesOn
    BY <1>4, <2>1, <2>2 DEF ReadAgent, Proceeds
  <2>4. Becomes(t, u, "done", t.after, a, t.cfg, t.was, r) BY <1>2, <2>2, Fields
  <2>5. OnItsWay(u) BY <1>2, <1>4, <2>4 DEF OnItsWay, Becomes, PlacesOf
  <2> QED BY <1>1, <1>4, <2>1, <2>3, <2>4, <2>5, GoesOnStep DEF TaskMove, GoesTo, CallMoves, Becomes
<1> QED BY <1>3, <1>4

LEMMA TaskMoves ==
  ASSUME AgentInv, SkillInv, NEW c \in Clients, AgentGoesOn(c) \/ CommitFails(c)
  PROVE  TaskMove(c)
<1>1. CASE AdoptFails(c) \/ NotFound(c) \/ ResolveFails(c) \/ SpaceTaken(c) \/ SpaceMissing(c)
           \/ RefuseChange(c) \/ CommitTask(c) \/ Restore(c)
  BY <1>1, FinishMoves DEF AdoptFails, Adopting, NotFound, ResolveFails, SpaceTaken, SpaceMissing,
     RefuseChange, CommitTask, Restore, Refused, At
<1> QED BY <1>1, EnsureMoves, PlaceMoves, FileMoves, LockMoves, ResolveMoves, ReadMoves
        DEF AgentGoesOn

LEMMA AgentBegins ==
  ASSUME NEW c \in Clients, AgentBegin(c)
  PROVE  /\ \E u \in AgentTask : tasks' = [tasks EXCEPT ![c] = u] /\ u.op # "call" /\ u.row = None
         /\ RequestStep /\ busy' = busy \cup {c}
<1>1. PICK op, a, new, cfg :
        /\ BeginTask(c, op, a, new, cfg)
        /\ op \in Ops \ {"call"} /\ a \in Agents /\ new \in Agents /\ cfg \in Config
  <2>1. BuiltinConfig \in Config /\ \A b \in BOOLEAN : [BuiltinConfig EXCEPT !.on = b] \in Config
    BY AgentAssumption DEF BuiltinConfig, Config
  <2> QED BY <2>1, AgentAssumption DEF AgentBegin, Ops, Changes
<1> DEFINE p == CASE op = "agent.get" -> "read" [] op = "agent.create" -> "check" [] OTHER -> "lock"
<1>2. PICK u : u = Task(op, a, new, cfg, p) OBVIOUS
<1>3. tasks' = [tasks EXCEPT ![c] = u] BY <1>1, <1>2 DEF BeginTask
<1>4. p \in {"read", "check", "lock"} OBVIOUS
<1> HIDE DEF p
<1>5. op \in AgentOps BY <1>1 DEF Ops, Changes, AgentOps
<1>6. u \in AgentTask BY <1>1, <1>2, <1>4, <1>5, AgentAssumption DEF Task, AgentTask, Places
<1>7. u.op # "call" /\ u.row = None BY <1>1, <1>2 DEF Task
<1>8. RequestStep /\ busy' = busy \cup {c} BY <1>1, BeginsStep DEF BeginTask
<1> QED BY <1>3, <1>6, <1>7, <1>8

-----------------------------------------------------------------------------
(* The other components *)

LEMMA RequestCounts ==
  ASSUME NEW n \in Nat, Room(n), RequestStep
  PROVE  Room(n)'
<1>1. workload.most \in Nat /\ MaxFaults \in Nat BY RequestAssumption DEF Room
<1>2. Cardinality(busy) \in Nat BY FS_CardinalityType DEF Room
<1>3. ASSUME NEW S, IsFiniteSet(S), NEW c
      PROVE  /\ IsFiniteSet(S \ {c}) /\ Cardinality(S \ {c}) <= Cardinality(S)
             /\ c \notin S => IsFiniteSet(S \cup {c}) /\ Cardinality(S \cup {c}) = Cardinality(S) + 1
  BY <1>3, FS_AddElement, FS_RemoveElement, FS_CardinalityType
<1>4. workload' = workload /\ served' \in 0..workload.most /\ faults' \in 0..MaxFaults
  BY <1>1 DEF Room, RequestStep, Admitted, Faulty
<1>5. /\ busy' \subseteq Clients /\ IsFiniteSet(busy') /\ n + Cardinality(busy') <= served'
  <2>1. CASE busy' = busy BY <1>1, <1>2, <2>1 DEF Room, RequestStep, Admitted
  <2>2. ASSUME NEW c \in Clients, c \notin busy, busy' = busy \cup {c}, Admitted
        PROVE  <1>5!:
    BY <1>1, <1>2, <1>3, <2>2 DEF Room, Admitted
  <2>3. ASSUME NEW c \in Clients, busy' = busy \ {c}, served' = served
        PROVE  <1>5!:
    <3>1. IsFiniteSet(busy') /\ Cardinality(busy') <= Cardinality(busy) /\ Cardinality(busy') \in Nat
      BY <1>3, <2>3, FS_CardinalityType DEF Room
    <3> QED BY <1>1, <1>2, <2>3, <3>1 DEF Room
  <2> QED BY <2>1, <2>2, <2>3 DEF RequestStep
<1> QED BY <1>4, <1>5 DEF Room

(* A request that starts a run ends. *)
LEMMA EndCounts ==
  ASSUME NEW n \in Nat, Room(n), NEW c \in busy, Ends(c)
  PROVE  Room(n + 1)'
<1>1. IsFiniteSet(busy) /\ Cardinality(busy) \in Nat BY FS_CardinalityType DEF Room
<1>2. IsFiniteSet(busy \ {c}) /\ Cardinality(busy \ {c}) = Cardinality(busy) - 1
  BY <1>1, FS_RemoveElement
<1>3. served \in Nat BY RequestAssumption DEF Room
<1> QED BY <1>1, <1>2, <1>3 DEF Room, Ends

LEMMA Length ==
  ASSUME ChatFits
  PROVE  Len(runs) \in Nat /\ Len(chat) \in Nat
BY DEF ChatFits

(* What is published stays, so what is bound to it does. *)
LEMMA ExistLater ==
  ASSUME \A k \in Skills : Grows(versions[k], versions'[k]), NEW B, Exist(B),
         \A k \in Skills : Len(versions[k]) \in Nat /\ Len(versions'[k]) \in Nat
  PROVE  \A b \in B : b \in Binding /\ b.version <= Len(versions'[b.skill])
<1> SUFFICES ASSUME NEW b \in B PROVE b \in Binding /\ b.version <= Len(versions'[b.skill]) OBVIOUS
<1>1. b \in Binding /\ b.version <= Len(versions[b.skill]) BY DEF Exist
<1>2. b.skill \in Skills /\ b.version \in Nat BY <1>1 DEF Binding
<1>3. Len(versions[b.skill]) <= Len(versions'[b.skill]) BY <1>2 DEF Grows
<1> QED BY <1>1, <1>2, <1>3

(* The rows of the teams and the conversation do not change. *)
LEMMA TeamsStay ==
  ASSUME TeamInv, UNCHANGED teamVars
  PROVE  TeamsFit' /\ ChatFits' /\ WorksFit'
<1>1. TeamsFit' BY DEF TeamInv, TeamsFit, TeamRows, RowsFit, IsDraft, Formed, teamVars
<1>2. ChatFits' BY DEF TeamInv, ChatFits, Published, teamVars
<1>3. WorksFit'
  BY DEF TeamInv, WorksFit, WorkFits, Published, Formed, Captures, teamVars
<1> QED BY <1>1, <1>2, <1>3

LEMMA SnapshotsStay ==
  ASSUME TeamInv, UNCHANGED teamVars, NEW r \in RunIds, snapshots[r] # None,
         \A B : Exist(B) => \A b \in B : b \in Binding /\ b.version <= Len(versions'[b.skill])
  PROVE  r <= Len(runs') /\ SnapshotFits(snapshots[r], runs[r])'
<1>1. r <= Len(runs) /\ SnapshotFits(snapshots[r], runs[r]) BY DEF TeamInv, SnapshotsFit
<1>2. snapshots'[r] = snapshots[r] /\ runs' = runs /\ teamVersions' = teamVersions BY DEF teamVars
<1> QED BY <1>1, <1>2 DEF SnapshotFits, Exist

LEMMA RowExists ==
  ASSUME BindsExist, CurrentExists, SkillInv, NEW c \in Clients, tasks[c] # None,
         NEW u, RowFrom(tasks[c], u), u.row # None
  PROVE  Exist(u.row.binds)
<1>1. CASE u.row = tasks[c].row BY <1>1 DEF BindsExist
<1>2. CASE \E a \in Agents : Known(a) /\ u.row.binds = agents[a].binds BY <1>2 DEF BindsExist
<1>3. ASSUME NEW S \in SUBSET Skills, \A k \in S : Available(k), u.row.binds = Current(S)
      PROVE  Exist(u.row.binds)
  <2>1. ASSUME NEW k \in S
        PROVE  skills[k].current \in Nat \ {0} /\ skills[k].current <= Len(versions[k])
    <3>1. Present(k) /\ skills[k].current # 0 BY <1>3, <2>1 DEF Available
    <3>2. skills[k].current \in 0..Len(versions[k]) /\ Len(versions[k]) \in Nat
      BY <2>1, <3>1 DEF CurrentExists, SkillInv, SkillTypes
    <3> QED BY <3>1, <3>2
  <2>2. ASSUME NEW b \in u.row.binds
        PROVE  b \in Binding /\ b.version <= Len(versions[b.skill])
    <3>1. PICK k \in S : b = [skill |-> k, version |-> skills[k].current] BY <1>3, <2>2 DEF Current
    <3>2. b.skill = k /\ b.version = skills[k].current BY <3>1
    <3>3. b \in Binding BY <2>1, <3>1 DEF Binding
    <3> QED BY <2>1, <3>2, <3>3
  <2> QED BY <2>2 DEF Exist
<1> QED BY <1>1, <1>2, <1>3 DEF RowFrom

LEMMA ActsOn ==
  ASSUME NEW c \in Clients, AgentGoesOn(c) \/ CommitFails(c)
  PROVE  tasks[c].at \notin {"done", "failed"}
BY DEF AgentGoesOn, MakeBuiltin, RepairBuiltin, ReadPointer, LockPointer, AdoptAgain, Adopting,
   Adopt, AdoptFails, ReadAgent, LockAgent, NotFound, CheckId, Resolve, ResolveFails, MakeSpace,
   SpaceTaken, SpaceMissing, Quarantine, PassGuard, RefuseChange, RefuseDelete, WriteSpace,
   CommitTask, Duplicate, Restore, CommitFails, At

LEMMA PointerStays ==
  ASSUME NEW c \in Clients, AgentBegin(c) \/ AgentGoesOn(c) \/ CommitFails(c)
  PROVE  pointer' = pointer \/ pointer'.at = Builtin
<1>1. CASE AgentBegin(c) BY <1>1 DEF AgentBegin, BeginTask
<1>2. CASE MakeBuiltin(c) \/ ReadPointer(c) \/ LockPointer(c) \/ AdoptAgain(c) \/ Restore(c)
           \/ ReadAgent(c) \/ CheckId(c) \/ Resolve(c) \/ MakeSpace(c) \/ Quarantine(c)
           \/ PassGuard(c) \/ WriteSpace(c) \/ LockAgent(c) \/ RepairBuiltin(c)
  BY <1>2 DEF MakeBuiltin, ReadPointer, LockPointer, AdoptAgain, ReadAgent, CheckId,
     Resolve, MakeSpace, Quarantine, PassGuard, WriteSpace, LockAgent, Restore, RepairBuiltin
<1>3. CASE AdoptFails(c) \/ NotFound(c) \/ ResolveFails(c) \/ SpaceTaken(c) \/ SpaceMissing(c)
           \/ RefuseChange(c) \/ RefuseDelete(c) \/ Duplicate(c) \/ CommitFails(c) \/ CommitTask(c)
  BY <1>3 DEF AdoptFails, NotFound, ResolveFails, SpaceTaken, SpaceMissing, RefuseChange,
     RefuseDelete, Duplicate, CommitFails, Refused, RollsBack, CommitTask
<1>4. CASE Adopt(c) BY <1>4 DEF Adopt
<1> QED BY <1>1, <1>2, <1>3, <1>4 DEF AgentGoesOn

(* The rows after a step of an agent's request: the built-in one is repaired, or
   what a request carries is committed. *)
LEMMA RowsAfter ==
  ASSUME AgentInv, NEW c \in Clients, AgentBegin(c) \/ AgentGoesOn(c) \/ CommitFails(c),
         NEW a \in Agents, Known(a)'
  PROVE  \/ Known(a) /\ agents'[a].binds = agents[a].binds
         \/ agents'[a].binds = {}
         \/ tasks[c] # None /\ tasks[c].row # None /\ agents'[a].binds = tasks[c].row.binds
<1>1. CASE agents' = agents BY <1>1 DEF Known
<1>2. CASE RepairBuiltin(c)
  <2>1. CASE a # Builtin
    <3>1. agents'[a] = agents[a] BY <1>2, <2>1 DEF RepairBuiltin, AgentInv, AgentTypeOK
    <3> QED BY <3>1 DEF Known
  <2>2. CASE a = Builtin
    <3>1. PICK row : row = agents[a] /\ row \in Agent \cup {None} BY DEF AgentInv, AgentTypeOK
    <3>2. agents'[a] = IF row = None THEN AgentRow(BuiltinConfig, {}, TRUE)
                       ELSE [row EXCEPT !.on = TRUE]
      BY <1>2, <2>2, <3>1 DEF RepairBuiltin, AgentInv, AgentTypeOK
    <3>3. row = None => agents'[a].binds = {} BY <3>2 DEF AgentRow
    <3>4. row # None => agents'[a].binds = row.binds BY <3>1, <3>2 DEF Agent
    <3> QED BY <3>1, <3>3, <3>4 DEF Known
  <2> QED BY <2>1, <2>2
<1>3. CASE CommitTask(c)
  <2>1. agents' = [agents EXCEPT ![Target(tasks[c])] = tasks[c].row] /\ tasks[c] # None
    BY <1>3 DEF CommitTask, At
  <2>2. agents'[a] = agents[a] \/ agents'[a] = tasks[c].row
    BY <2>1 DEF AgentInv, AgentTypeOK
  <2> QED BY <2>1, <2>2 DEF Known
<1>4. agents' = agents \/ RepairBuiltin(c) \/ CommitTask(c)
  <2>1. CASE AgentBegin(c) BY <2>1 DEF AgentBegin, BeginTask
  <2>2. CASE MakeBuiltin(c) \/ ReadPointer(c) \/ LockPointer(c) \/ AdoptAgain(c) \/ Restore(c)
             \/ ReadAgent(c) \/ CheckId(c) \/ Resolve(c) \/ MakeSpace(c) \/ Quarantine(c)
             \/ PassGuard(c) \/ WriteSpace(c) \/ LockAgent(c) \/ Adopt(c)
    BY <2>2 DEF MakeBuiltin, ReadPointer, LockPointer, AdoptAgain, ReadAgent, CheckId,
       Resolve, MakeSpace, Quarantine, PassGuard, WriteSpace, LockAgent, Restore, Adopt
  <2>3. CASE AdoptFails(c) \/ NotFound(c) \/ ResolveFails(c) \/ SpaceTaken(c) \/ SpaceMissing(c)
             \/ RefuseChange(c) \/ RefuseDelete(c) \/ Duplicate(c) \/ CommitFails(c)
    BY <2>3 DEF AdoptFails, NotFound, ResolveFails, SpaceTaken, SpaceMissing, RefuseChange,
       RefuseDelete, Duplicate, CommitFails, Refused, RollsBack
  <2> QED BY <2>1, <2>2, <2>3 DEF AgentGoesOn
<1> QED BY <1>1, <1>2, <1>3, <1>4

(* What the request of c becomes. *)
TaskStep(c) ==
  \/ TaskMove(c)
  \/ /\ \E u \in AgentTask : tasks' = [tasks EXCEPT ![c] = u] /\ u.op # "call" /\ u.row = None
     /\ RequestStep /\ busy' = busy \cup {c}

LEMMA TaskSteps ==
  ASSUME AgentInv, SkillInv, NEW c \in Clients, AgentBegin(c) \/ AgentGoesOn(c) \/ CommitFails(c)
  PROVE  TaskStep(c)
BY TaskMoves, AgentBegins DEF TaskStep

LEMMA AskedRow ==
  ASSUME TeamInv, NEW c \in Clients, tasks[c] # None, tasks[c].op = "call"
  PROVE  /\ tasks[c].at = "read" => Asked(tasks[c]) \in Agents
         /\ tasks[c].at = "read" /\ works[c].at # "resolve" => Asked(tasks[c]) = tasks[c].agent
<1>1. CallFits(tasks[c], works[c]) BY DEF TeamInv, CallsFit
<1>2. WorkFits(works[c], c) BY <1>1 DEF CallFits, TeamInv, WorksFit
<1>3. None \notin Agents BY AgentAssumption
<1>4. CASE works[c].at = "capture" /\ tasks[c].agent \in works[c].draft \ DOMAIN works[c].rows
  BY <1>1, <1>2, <1>3, <1>4 DEF Asked, WorkFits, TeamWork
<1>5. CASE works[c].at = "resolve" /\ tasks[c].agent \in Agents \cup {None}
  BY <1>1, <1>3, <1>5 DEF Asked, CallFits
<1>6. CASE works[c].at = "read" /\ tasks[c].agent = runs[works[c].on].actor
  BY <1>1, <1>2, <1>3, <1>6 DEF Asked, WorkFits
<1> QED BY <1>1, <1>4, <1>5, <1>6 DEF CallFits

LEMMA AgentBindsKeep ==
  ASSUME AgentInv, SkillInv, TeamInv, versions' = versions,
         NEW c \in Clients, AgentBegin(c) \/ AgentGoesOn(c) \/ CommitFails(c)
  PROVE  BindsExist'
<1>0. BindsExist /\ CurrentExists BY DEF TeamInv
<1>1. ASSUME NEW a \in Agents, Known(a)'
      PROVE  Exist(agents'[a].binds)
  BY <1>0, <1>1, RowsAfter DEF BindsExist, Exist
<1>2. TaskStep(c) BY TaskSteps
<1>3. PICK u : tasks' = [tasks EXCEPT ![c] = u] BY <1>2 DEF TaskStep, TaskMove
<1>4. DOMAIN tasks = Clients BY DEF AgentInv, OneRequest
<1>5. ASSUME tasks'[c] # None, tasks'[c].row # None
      PROVE  Exist(tasks'[c].row.binds)
  <2>1. CASE TaskMove(c)
    <3>1. tasks[c] # None /\ GoesTo(tasks[c], tasks'[c]) BY <1>4, <1>5, <2>1 DEF TaskMove
    <3>2. CASE tasks[c].op # "call" BY <1>0, <1>5, <3>1, <3>2, RowExists DEF GoesTo
    <3>3. CASE tasks[c].op = "call"
      <4>1. CASE tasks'[c].row = tasks[c].row BY <1>0, <1>5, <3>1, <4>1 DEF BindsExist
      <4>2. CASE tasks[c].at = "read" /\ tasks'[c].row = agents[Asked(tasks[c])]
        <5>1. Asked(tasks[c]) \in Agents BY <3>1, <3>3, <4>2, AskedRow
        <5> QED BY <1>0, <1>5, <4>2, <5>1 DEF BindsExist, Known
      <4> QED BY <3>1, <3>3, <4>1, <4>2 DEF GoesTo, CallMoves
    <3> QED BY <3>2, <3>3
  <2> QED BY <1>2, <1>4, <1>5, <2>1 DEF TaskStep
<1>6. ASSUME NEW d \in Clients, tasks'[d] # None, tasks'[d].row # None
      PROVE  Exist(tasks'[d].row.binds)
  BY <1>0, <1>3, <1>4, <1>5, <1>6 DEF BindsExist
<1>7. \A B : Exist(B)' <=> Exist(B) BY DEF Exist
<1> QED BY <1>1, <1>6, <1>7 DEF BindsExist, Exist

LEMMA AgentCallsKeep ==
  ASSUME AgentInv, SkillInv, TeamInv, UNCHANGED teamVars,
         NEW c \in Clients, AgentBegin(c) \/ AgentGoesOn(c) \/ CommitFails(c)
  PROVE  CallsFit'
<1>1. works' = works /\ runs' = runs BY DEF teamVars
<1>2. TaskStep(c) BY TaskSteps
<1>3. PICK u : tasks' = [tasks EXCEPT ![c] = u] BY <1>2 DEF TaskStep, TaskMove
<1>4. DOMAIN tasks = Clients BY DEF AgentInv, OneRequest
<1>5. pointer'.at \in Agents \/ pointer' = pointer BY PointerStays, AgentAssumption
<1>6. ASSUME NEW d \in Clients, d # c, tasks'[d] # None, tasks'[d].op = "call"
      PROVE  CallFits(tasks[d], works[d])'
  <2>1. tasks'[d] = tasks[d] BY <1>3, <1>4, <1>6
  <2>2. CallFits(tasks[d], works[d]) BY <1>6, <2>1 DEF TeamInv, CallsFit
  <2> QED BY <1>1, <1>5, <2>1, <2>2 DEF CallFits
<1>7. ASSUME tasks'[c] # None, tasks'[c].op = "call"
      PROVE  CallFits(tasks[c], works[c])'
  <2>1. PICK t, v : t = tasks[c] /\ v = tasks'[c] OBVIOUS
  <2>2. AgentBegin(c) => t = None
    <3>1. AgentBegin(c) => c \notin busy BY DEF AgentBegin, BeginTask, Begins
    <3> QED BY <2>1, <3>1 DEF AgentInv, OneRequest
  <2>3. TaskMove(c) BY <1>2, <1>4, <1>7 DEF TaskStep
  <2>4. t # None /\ GoesTo(t, v) BY <1>4, <1>7, <2>1, <2>3 DEF TaskMove
  <2>5. t.op = "call" BY <1>7, <2>1, <2>4 DEF GoesTo
  <2>6. CallFits(t, works[c]) BY <2>1, <2>4, <2>5 DEF TeamInv, CallsFit
  <2>7. t.at # "done" BY <2>1, <2>2, <2>4, ActsOn
  <2>8. CASE v.at = "done" /\ t.at = "read" /\ v.agent = Asked(t) /\ v.row = agents[Asked(t)]
    <3>1. Asked(t) \in Agents /\ (works[c].at # "resolve" => Asked(t) = t.agent)
      BY <2>1, <2>4, <2>5, <2>8, AskedRow
    <3>2. v.row \in Agent \cup {None} BY <2>8, <3>1 DEF AgentInv, AgentTypeOK
    <3> QED BY <1>1, <2>1, <2>6, <2>8, <3>1, <3>2 DEF CallFits
  <2>9. CASE v.at # "done" /\ v.agent = t.agent /\ v.row = t.row /\ (v.at = "read" => pointer'.at \in Agents)
    BY <1>1, <2>1, <2>6, <2>7, <2>9 DEF CallFits
  <2> QED BY <2>4, <2>5, <2>8, <2>9 DEF GoesTo, CallMoves
<1> QED BY <1>6, <1>7 DEF CallsFit

LEMMA AgentBreakKeeps ==
  ASSUME AgentInv, SkillInv, TeamInv, UNCHANGED <<identityVars, skillVars, teamVars>>,
         NEW c \in Clients, BreakTask(c)
  PROVE  TeamInv'
<1>1. tasks' = [tasks EXCEPT ![c] = None] /\ busy' = busy \ {c} BY AgentBreaks
<1>2. \A d \in Clients : tasks'[d] = IF d = c THEN None ELSE tasks[d]
  BY <1>1 DEF AgentInv, OneRequest
<1>3. agents' = agents /\ pointer' = pointer BY DEF BreakTask
<1>4. CurrentExists' BY DEF TeamInv, CurrentExists, Present, skillVars
<1>5. BindsExist' BY <1>2, <1>3 DEF TeamInv, BindsExist, Exist, Known, skillVars
<1>6. TeamsFit' /\ ChatFits' /\ WorksFit' BY TeamsStay
<1>7. SnapshotsFit'
  <2>1. \A B : Exist(B) => \A b \in B : b \in Binding /\ b.version <= Len(versions'[b.skill])
    BY DEF Exist, skillVars
  <2> QED BY <2>1, SnapshotsStay DEF TeamInv, SnapshotsFit, teamVars
<1>8. CallsFit' BY <1>2, <1>3 DEF TeamInv, CallsFit, CallFits, teamVars
<1>9. Counted'
  <2>1. RequestStep BY EndsStep DEF BreakTask
  <2>2. PICK n : n = Len(runs) /\ n \in Nat BY Length DEF TeamInv
  <2>3. Room(n)' BY <2>1, <2>2, RequestCounts DEF TeamInv, Counted
  <2> QED BY <2>2, <2>3 DEF Counted, teamVars
<1>10. Served'
  <2>1. txs' = txs /\ edits' = edits /\ works' = works BY DEF identityVars, skillVars, teamVars
  <2> QED BY <1>1, <1>2, <2>1 DEF TeamInv, Served
<1> QED BY <1>4, <1>5, <1>6, <1>7, <1>8, <1>9, <1>10 DEF TeamInv

LEMMA ByAgentsKeeps ==
  ASSUME AgentInv, SkillInv, TeamInv, ByAgents(AgentNext)
  PROVE  TeamInv'
<1>1. UNCHANGED <<identityVars, skillVars, teamVars>> BY DEF ByAgents
<1>a. CASE \E c \in Clients : BreakTask(c) BY <1>1, <1>a, AgentBreakKeeps
<1>b. SUFFICES ASSUME ~\E c \in Clients : BreakTask(c) PROVE TeamInv' BY <1>a
<1>2. PICK c \in Clients : AgentBegin(c) \/ AgentGoesOn(c) \/ CommitFails(c)
  BY <1>b DEF ByAgents, AgentNext
<1>3. CurrentExists' BY <1>1 DEF TeamInv, CurrentExists, Present, skillVars
<1>4. BindsExist' BY <1>1, <1>2, AgentBindsKeep DEF skillVars
<1>5. TeamsFit' /\ ChatFits' /\ WorksFit' BY <1>1, TeamsStay
<1>6. SnapshotsFit'
  <2>1. \A B : Exist(B) => \A b \in B : b \in Binding /\ b.version <= Len(versions'[b.skill])
    BY <1>1 DEF Exist, skillVars
  <2> QED BY <1>1, <2>1, SnapshotsStay DEF TeamInv, SnapshotsFit, teamVars
<1>7. CallsFit' BY <1>1, <1>2, AgentCallsKeep
<1>8. TaskStep(c) BY <1>2, TaskSteps
<1>9. Counted'
  <2>1. RequestStep BY <1>8, EndsStep DEF TaskStep, TaskMove
  <2>2. PICK n : n = Len(runs) /\ n \in Nat BY Length DEF TeamInv
  <2>3. Room(n)' BY <2>1, <2>2, RequestCounts DEF TeamInv, Counted
  <2> QED BY <1>1, <2>2, <2>3 DEF Counted, teamVars
<1>10. Served'
  <2>1. txs' = txs /\ edits' = edits /\ works' = works
    BY <1>1 DEF identityVars, skillVars, teamVars
  <2>2. DOMAIN tasks = Clients BY DEF AgentInv, OneRequest
  <2>3. Served BY DEF TeamInv
  <2>4. CASE TaskMove(c)
    <3>1. CASE tasks' = [tasks EXCEPT ![c] = None] /\ Ends(c)
      BY <2>1, <2>2, <2>3, <3>1 DEF Served, Ends
    <3>2. ASSUME NEW u, tasks' = [tasks EXCEPT ![c] = u], GoesTo(tasks[c], u), busy' = busy
          PROVE  Served'
      <4>1. CASE tasks[c].op # "call" BY <2>1, <2>2, <2>3, <3>2, <4>1 DEF Served, GoesTo
      <4>2. CASE tasks[c].op = "call"
        <5>1. works[c] # None BY <2>4, <4>2 DEF TaskMove, TeamInv, CallsFit, CallFits
        <5> QED BY <2>1, <2>2, <2>3, <3>2, <5>1 DEF Served
      <4> QED BY <4>1, <4>2
    <3> QED BY <2>4, <3>1, <3>2 DEF TaskMove
  <2>5. CASE \E u \in AgentTask : tasks' = [tasks EXCEPT ![c] = u] /\ busy' = busy \cup {c}
    BY <2>1, <2>2, <2>3, <2>5, AgentAssumption DEF Served
  <2> QED BY <1>8, <2>4, <2>5 DEF TaskStep
<1> QED BY <1>3, <1>4, <1>5, <1>6, <1>7, <1>9, <1>10 DEF TeamInv

LEMMA BySkillsKeeps ==
  ASSUME AgentInv, SkillInv, SkillInv', TeamInv, BySkills(SkillNext)
  PROVE  TeamInv'
<1>1. UNCHANGED <<identityVars, agentVars, teamVars>> /\ SkillNext BY DEF BySkills
<1>2. CurrentExists' BY <1>1, CurrentKeeps DEF TeamInv
<1>3. \A B : Exist(B) => \A b \in B : b \in Binding /\ b.version <= Len(versions'[b.skill])
  <2>1. \A k \in Skills : Grows(versions[k], versions'[k]) BY <1>1, VersionsGrow
  <2>2. \A k \in Skills : Len(versions[k]) \in Nat /\ Len(versions'[k]) \in Nat
    BY DEF SkillInv, SkillTypes
  <2> QED BY <2>1, <2>2, ExistLater
<1>4. BindsExist'
  <2>1. agents' = agents /\ tasks' = tasks BY <1>1 DEF agentVars
  <2> QED BY <1>3, <2>1 DEF TeamInv, BindsExist, Exist, Known
<1>5. TeamsFit' /\ ChatFits' /\ WorksFit' BY <1>1, TeamsStay
<1>6. SnapshotsFit' BY <1>1, <1>3, SnapshotsStay DEF TeamInv, SnapshotsFit, teamVars
<1>7. CallsFit' BY <1>1 DEF TeamInv, CallsFit, CallFits, agentVars, teamVars
<1>8. /\ RequestStep
      /\ \A c \in busy' : edits'[c] # None \/ (c \in busy /\ edits'[c] = edits[c])
  BY <1>1, SkillRequest DEF AgentInv
<1>9. Counted'
  <2>1. PICK n : n = Len(runs) /\ n \in Nat BY Length DEF TeamInv
  <2>2. Room(n)' BY <1>8, <2>1, RequestCounts DEF TeamInv, Counted
  <2> QED BY <1>1, <2>1, <2>2 DEF Counted, teamVars
<1>10. Served' BY <1>1, <1>8 DEF TeamInv, Served, identityVars, agentVars, teamVars
<1> QED BY <1>2, <1>4, <1>5, <1>6, <1>7, <1>9, <1>10 DEF TeamInv

LEMMA ByIdentityKeeps ==
  ASSUME AgentInv, SessionInv, TeamInv, ByIdentity(IdentityNext)
  PROVE  TeamInv'
<1>1. UNCHANGED <<skillVars, agentVars, teamVars>> /\ IdentityNext BY DEF ByIdentity
<1>2. CurrentExists' BY <1>1 DEF TeamInv, CurrentExists, Present, skillVars
<1>3. BindsExist' BY <1>1 DEF TeamInv, BindsExist, Exist, Known, skillVars, agentVars
<1>5. TeamsFit' /\ ChatFits' /\ WorksFit' BY <1>1, TeamsStay
<1>6. SnapshotsFit'
  <2>1. \A B : Exist(B) => \A b \in B : b \in Binding /\ b.version <= Len(versions'[b.skill])
    BY <1>1 DEF Exist, skillVars
  <2> QED BY <1>1, <2>1, SnapshotsStay DEF TeamInv, SnapshotsFit, teamVars
<1>7. CallsFit' BY <1>1 DEF TeamInv, CallsFit, CallFits, agentVars, teamVars
<1>8. /\ RequestStep
      /\ \A c \in busy' : txs'[c] # None \/ (c \in busy /\ txs'[c] = txs[c])
  BY <1>1, IdentityRequest DEF AgentInv
<1>9. Counted'
  <2>1. PICK n : n = Len(runs) /\ n \in Nat BY Length DEF TeamInv
  <2>2. Room(n)' BY <1>8, <2>1, RequestCounts DEF TeamInv, Counted
  <2> QED BY <1>1, <2>1, <2>2 DEF Counted, teamVars
<1>10. Served' BY <1>1, <1>8 DEF TeamInv, Served, skillVars, agentVars, teamVars
<1> QED BY <1>2, <1>3, <1>5, <1>6, <1>7, <1>9, <1>10 DEF TeamInv

LEMMA NothingKeeps ==
  ASSUME TeamInv, UNCHANGED vars
  PROVE  TeamInv'
<1>1. UNCHANGED <<requestVars, identityVars, skillVars, agentVars, teamVars>> BY DEF vars
<1>2. CurrentExists' BY <1>1 DEF TeamInv, CurrentExists, Present, skillVars
<1>3. BindsExist' BY <1>1 DEF TeamInv, BindsExist, Exist, Known, skillVars, agentVars
<1>5. TeamsFit' /\ ChatFits' /\ WorksFit' BY <1>1, TeamsStay
<1>6. SnapshotsFit'
  <2>1. \A B : Exist(B) => \A b \in B : b \in Binding /\ b.version <= Len(versions'[b.skill])
    BY <1>1 DEF Exist, skillVars
  <2> QED BY <1>1, <2>1, SnapshotsStay DEF TeamInv, SnapshotsFit, teamVars
<1>7. CallsFit' BY <1>1 DEF TeamInv, CallsFit, CallFits, agentVars, teamVars
<1>8. Counted' BY <1>1 DEF TeamInv, Counted, Room, requestVars, teamVars
<1>9. Served'
  BY <1>1 DEF TeamInv, Served, requestVars, identityVars, skillVars, agentVars, teamVars
<1> QED BY <1>2, <1>3, <1>5, <1>6, <1>7, <1>8, <1>9 DEF TeamInv

-----------------------------------------------------------------------------
(* What a step of the request of c leaves to the others; for a request that is
   answered at once, c is None. *)
Leave(c) ==
  /\ \A t \in Teams :
       /\ Formed(t) => Formed(t)'
       /\ Len(teamVersions[t]) <= Len(teamVersions'[t])
       /\ Formed(t) /\ teamLock[t] \in Clients \ {c} =>
            /\ teamLock'[t] = teamLock[t]
            /\ teams'[t].rev = teams[t].rev /\ teams'[t].draft = teams[t].draft
  /\ chatLock \in Clients \ {c} => chatLock' = chatLock /\ chat' = chat
  /\ Grows(runs, runs')
  /\ \A d \in Clients \ {c} : works'[d] = works[d] /\ tasks'[d] = tasks[d]
  /\ busy' \ {c} \subseteq busy
(* The request of c after it. *)
Mine(c) ==
  /\ works'[c] # None => WorkFits(works[c], c)'
  /\ tasks'[c] # None /\ tasks'[c].op = "call" => CallFits(tasks[c], works[c])'
  /\ tasks'[c] # None => tasks'[c] = tasks[c] \/ tasks'[c].row = None
  /\ c \in busy' => works'[c] # None
Rest == UNCHANGED <<identityVars, skillVars, agents, pointer>>

LEMMA WhereWorks ==
  ASSUME NEW w, w \in TeamWork, w.at \in Steps[w.op]
  PROVE  /\ w.at \in {"lock", "capture"} => w.op = "team.publish"
         /\ w.at = "save" => w.op = "team.save"
         /\ w.at = "resolve" => w.op = "message"
         /\ w.at \in {"send", "commit"} => w.op \in {"message", "answer"}
         /\ w.at \in {"look", "read"} => w.op = "snapshot"
<1>1. w.op \in {"team.save", "team.publish", "message", "answer", "snapshot"} BY DEF TeamWork
<1>2. CASE w.op = "team.save" BY <1>2 DEF Steps
<1>3. CASE w.op = "team.publish" BY <1>3 DEF Steps
<1>4. CASE w.op = "message" BY <1>4 DEF Steps
<1>5. CASE w.op = "answer" BY <1>5 DEF Steps
<1>6. CASE w.op = "snapshot" BY <1>6 DEF Steps
<1> QED BY <1>1, <1>2, <1>3, <1>4, <1>5, <1>6

LEMMA Working ==
  ASSUME TeamInv, NEW c \in Clients, works[c] # None
  PROVE  /\ WorkFits(works[c], c) /\ works[c] \in TeamWork /\ works[c].at \in Steps[works[c].op]
         /\ None \notin Clients /\ None \notin Teams /\ None \notin Agents /\ None \notin TeamWork
BY TeamAssumption, AgentAssumption DEF TeamInv, WorksFit, WorkFits

LEMMA OthersWork ==
  ASSUME AgentInv, TeamInv, NEW c, Leave(c), NEW d \in Clients, d # c, works'[d] # None
  PROVE  WorkFits(works[d], d)'
<1>1. PICK w : w = works[d] OBVIOUS
<1>2. works'[d] = w BY <1>1 DEF Leave
<1>3. WorkFits(w, d) BY <1>1, <1>2 DEF TeamInv, WorksFit
<1>4. w \in TeamWork /\ w.at \in Steps[w.op] BY <1>3 DEF WorkFits
<1>5. w.op \in {"team.save", "team.publish"} => w.on \in Teams /\ Formed(w.on)'
  BY <1>3 DEF WorkFits, Leave
<1>6. w.at = "capture" => Captures(w, d)'
  <2> SUFFICES ASSUME w.at = "capture" PROVE Captures(w, d)' OBVIOUS
  <2>1. w.on \in Teams /\ Formed(w.on) BY <1>3, <1>4, WhereWorks DEF WorkFits
  <2>2. Captures(w, d) BY <1>3 DEF WorkFits
  <2>3. teamLock[w.on] \in Clients \ {c} BY <2>2 DEF Captures
  <2> QED BY <2>1, <2>2, <2>3 DEF Captures, Leave
<1>7. \A x, n : Published(x, n) => Published(x, n)'
  <2> SUFFICES ASSUME NEW x \in Teams, NEW n, Published(x, n) PROVE n \in 1..Len(teamVersions'[x])
    BY DEF Published
  <2>1. Len(teamVersions[x]) <= Len(teamVersions'[x]) BY DEF Leave
  <2>2. Len(teamVersions[x]) \in Nat BY DEF TeamInv, TeamsFit, TeamRows, RowsFit
  <2>3. n \in 1..Len(teamVersions[x]) BY DEF Published
  <2> QED BY <2>1, <2>2, <2>3
<1>8. w.at = "commit" => chatLock' = d /\ w.seq = Len(chat') + 1 BY <1>3 DEF WorkFits, Leave
<1>9. w.op \in {"answer", "snapshot"} => w.on \in 1..Len(runs')
  BY <1>3, Length DEF WorkFits, Leave, Grows, TeamInv
<1>10. w.at = "read" => runs'[w.on].actor \in Agents
  BY <1>3, <1>4, WhereWorks DEF WorkFits, Leave, Grows
<1> QED BY <1>2, <1>3, <1>4, <1>5, <1>6, <1>7, <1>8, <1>9, <1>10 DEF WorkFits

LEMMA StepKeeps ==
  ASSUME AgentInv, AgentInv', TeamInv, Rest, NEW c, Leave(c), c \in Clients => Mine(c),
         TeamsFit', ChatFits', SnapshotsFit', Counted'
  PROVE  TeamInv'
<1>1. CurrentExists' BY DEF TeamInv, CurrentExists, Present, Rest, skillVars
<1>2. \A d \in Clients : tasks'[d] # None => tasks'[d] = tasks[d] \/ tasks'[d].row = None
  BY DEF Leave, Mine
<1>3. BindsExist' BY <1>2 DEF TeamInv, BindsExist, Exist, Known, Rest, skillVars
<1>4. WorksFit' BY OthersWork DEF WorksFit, Mine
<1>5. CallsFit'
  <2>1. ASSUME NEW d \in Clients, d # c, tasks'[d] # None, tasks'[d].op = "call"
        PROVE  CallFits(tasks[d], works[d])'
    <3>1. PICK t, w : t = tasks[d] /\ w = works[d] OBVIOUS
    <3>2. tasks'[d] = t /\ works'[d] = w BY <2>1, <3>1 DEF Leave
    <3>3. CallFits(t, w) BY <2>1, <3>1, <3>2 DEF TeamInv, CallsFit
    <3>4. w # None BY <3>3 DEF CallFits
    <3>5. WorkFits(w, d) BY <3>1, <3>4 DEF TeamInv, WorksFit
    <3>6. w.at = "read" => runs'[w.on] = runs[w.on]
      BY <3>5, WhereWorks DEF WorkFits, Leave, Grows
    <3>7. pointer' = pointer BY DEF Rest
    <3> QED BY <3>2, <3>3, <3>6, <3>7 DEF CallFits
  <2> QED BY <2>1 DEF CallsFit, Mine
<1>6. Served'
  <2>1. ASSUME NEW d \in busy', d # c
        PROVE  (txs[d] # None \/ edits[d] # None \/ tasks[d] # None \/ works[d] # None)'
    <3>1. d \in busy BY <2>1 DEF Leave
    <3>2. d \in Clients BY <3>1 DEF TeamInv, Counted, Room
    <3>3. txs' = txs /\ edits' = edits BY DEF Rest, identityVars, skillVars
    <3> QED BY <2>1, <3>1, <3>2, <3>3 DEF Leave, TeamInv, Served
  <2>2. c \in busy' => works'[c] # None BY DEF Counted, Room, Mine
  <2> QED BY <2>1, <2>2 DEF Served
<1> QED BY <1>1, <1>3, <1>4, <1>5, <1>6 DEF TeamInv

(* The request of c ends: what it holds is free. *)
LEMMA Freed ==
  ASSUME TeamInv, NEW c \in Clients, Leaves(c)
  PROVE  /\ \A t \in Teams : teamLock[t] \in Clients \ {c} => teamLock'[t] = teamLock[t]
         /\ chatLock \in Clients \ {c} => chatLock' = chatLock
         /\ teamLock' \in [Teams -> Clients \cup {None}] /\ chatLock' \in Clients \cup {None}
BY DEF Leaves, TeamsWithout, TeamInv, TeamsFit

LEMMA RunsStay ==
  ASSUME TeamInv, runs' = runs, RequestStep
  PROVE  Grows(runs, runs') /\ Counted'
<1>1. PICK n : n = Len(runs) /\ n \in Nat BY Length DEF TeamInv
<1>2. Room(n)' BY <1>1, RequestCounts DEF TeamInv, Counted
<1> QED BY <1>1, <1>2 DEF Counted, Grows

LEMMA SnapshotsKept ==
  ASSUME TeamInv, snapshots' = snapshots, Grows(runs, runs'), UNCHANGED skillVars,
         \A t \in Teams : Grows(teamVersions[t], teamVersions'[t])
  PROVE  SnapshotsFit'
<1>1. DOMAIN snapshots' = RunIds BY DEF TeamInv, SnapshotsFit
<1>2. ASSUME NEW r \in RunIds, snapshots'[r] # None
      PROVE  r <= Len(runs') /\ SnapshotFits(snapshots[r], runs[r])'
  <2>1. PICK s, x : s = snapshots[r] /\ x = runs[r] OBVIOUS
  <2>2. r <= Len(runs) /\ SnapshotFits(s, x) BY <1>2, <2>1 DEF TeamInv, SnapshotsFit
  <2>3. Len(runs) \in Nat /\ r \in Nat /\ r >= 1 BY Length DEF TeamInv, RunIds
  <2>4. r \in 1..Len(runs) BY <2>2, <2>3
  <2>5. snapshots'[r] = s /\ runs'[r] = x BY <2>1, <2>4 DEF Grows
  <2>6. r <= Len(runs')
    <3>1. Len(runs) <= Len(runs') BY DEF Grows
    <3>2. 1..Len(runs) \subseteq 1..Len(runs') BY <2>3, <3>1
    <3> QED BY <2>4, <3>2
  <2>7. SnapshotFits(s, x)'
    <3>1. CASE x.actor \in Teams
      <4>1. Published(x.actor, x.version) BY <2>1, <2>4 DEF TeamInv, ChatFits
      <4>2. x.version \in 1..Len(teamVersions[x.actor]) BY <3>1, <4>1 DEF Published
      <4>3. teamVersions'[x.actor][x.version] = teamVersions[x.actor][x.version]
        BY <3>1, <4>2 DEF Grows
      <4> QED BY <2>2, <3>1, <4>3 DEF SnapshotFits
    <3>2. CASE x.actor \notin Teams
      BY <2>2, <3>2 DEF SnapshotFits, Exist, skillVars
    <3> QED BY <3>1, <3>2
  <2> QED BY <2>5, <2>6, <2>7
<1> QED BY <1>1, <1>2 DEF SnapshotsFit

(* Steps that change no row of a team and none of the conversation. *)
RowsStill == UNCHANGED <<teams, drafts, teamVersions, chat, runs, snapshots>>
LEMMA StillRows ==
  ASSUME TeamInv, Rest, RowsStill, RequestStep,
         teamLock' \in [Teams -> Clients \cup {None}], chatLock' \in Clients \cup {None}
  PROVE  /\ TeamsFit' /\ ChatFits' /\ SnapshotsFit' /\ Counted'
         /\ Grows(runs, runs') /\ \A t \in Teams : Len(teamVersions[t]) <= Len(teamVersions'[t])
<1> USE DEF RowsStill
<1>1. TeamsFit' BY DEF TeamInv, TeamsFit, TeamRows, RowsFit, IsDraft, Formed
<1>2. ChatFits' BY DEF TeamInv, ChatFits, Published
<1>3. Counted' /\ Grows(runs, runs') BY RunsStay
<1>4. \A t \in Teams : Len(teamVersions[t]) \in Nat BY DEF TeamInv, TeamsFit, TeamRows, RowsFit
<1>5. \A t \in Teams : Grows(teamVersions[t], teamVersions'[t]) BY <1>4 DEF Grows
<1>6. SnapshotsFit' BY <1>3, <1>5, SnapshotsKept DEF Rest
<1> QED BY <1>1, <1>2, <1>3, <1>4, <1>6

LEMMA LeavesKeeps ==
  ASSUME AgentInv, AgentInv', TeamInv, Rest, NEW c \in Clients, Leaves(c), RowsStill,
         tasks' = [tasks EXCEPT ![c] = None], Ends(c) \/ BreaksOff(c)
  PROVE  TeamInv'
<1>1. RequestStep /\ busy' = busy \ {c} BY EndsStep
<1>2. DOMAIN works = Clients /\ DOMAIN tasks = Clients BY DEF AgentInv, OneRequest
<1>3. works' = [works EXCEPT ![c] = None] BY DEF Leaves
<1>4. Leave(c) BY <1>1, <1>2, <1>3, Freed, StillRows DEF Leave, RowsStill, Formed
<1>5. Mine(c) BY <1>1, <1>2, <1>3 DEF Mine
<1> QED BY <1>1, <1>4, <1>5, Freed, StillRows, StepKeeps

-----------------------------------------------------------------------------
(* The steps of a request that change no row *)

LEMMA WorkType ==
  ASSUME NEW op \in {"team.save", "team.publish", "message", "answer", "snapshot"},
         NEW at \in {"save", "lock", "resolve", "send", "look"},
         NEW on \in Teams \cup Agents \cup RunIds \cup {None}
  PROVE  /\ Work(op, at, on) \in TeamWork /\ Work(op, at, on).op = op /\ Work(op, at, on).at = at
         /\ Work(op, at, on).on = on /\ DOMAIN Work(op, at, on).rows = {}
         /\ Work(op, at, on) # None
<1>1. <<>> \in Rows /\ DOMAIN <<>> = {}
  <2>1. DOMAIN <<>> = {} OBVIOUS
  <2>2. <<>> \in [{} -> Agent] OBVIOUS
  <2> QED BY <2>1, <2>2 DEF Rows
<1>2. Work(op, at, on) \in TeamWork BY <1>1 DEF Work, TeamWork
<1>3. Work(op, at, on).rows = <<>> BY DEF Work
<1>4. DOMAIN Work(op, at, on).rows = {} BY <1>1, <1>3
<1> QED BY <1>2, <1>4, TeamAssumption DEF Work

LEMMA BeginWorkKeeps ==
  ASSUME AgentInv, AgentInv', TeamInv, UNCHANGED <<identityVars, skillVars>>, NEW c \in Clients,
         NEW w, BeginWork(c, w), w # None, WorkFits(w, c)
  PROVE  TeamInv'
<1>1. RequestStep /\ busy' = busy \cup {c} /\ c \notin busy BY BeginsStep DEF BeginWork
<1>2. DOMAIN works = Clients /\ DOMAIN tasks = Clients /\ tasks[c] = None
  BY <1>1 DEF AgentInv, OneRequest
<1>3. works' = [works EXCEPT ![c] = w] /\ tasks' = tasks /\ Rest BY DEF BeginWork, agentVars, Rest
<1>4. UNCHANGED <<teams, teamVersions, drafts, teamLock, chat, chatLock, runs, snapshots>>
  BY DEF BeginWork
<1>5. teamLock' \in [Teams -> Clients \cup {None}] /\ chatLock' \in Clients \cup {None}
  BY <1>4 DEF TeamInv, TeamsFit
<1>6. RowsStill BY <1>4 DEF RowsStill
<1>7. Leave(c) BY <1>1, <1>2, <1>3, <1>4, <1>5, <1>6, StillRows DEF Leave, Formed
<1>8. WorkFits(w, c)' BY <1>4 DEF WorkFits, Captures, Published, Formed
<1>9. Mine(c) BY <1>2, <1>3, <1>8 DEF Mine
<1> QED BY <1>1, <1>3, <1>5, <1>6, <1>7, <1>9, StillRows, StepKeeps

LEMMA TeamBeginKeeps ==
  ASSUME AgentInv, AgentInv', TeamInv, UNCHANGED <<identityVars, skillVars>>, NEW c \in Clients,
         TeamBegin(c)
  PROVE  TeamInv'
<1>s. SUFFICES \E w : BeginWork(c, w) /\ w # None /\ WorkFits(w, c) BY BeginWorkKeeps
<1>1. ASSUME NEW t \in Teams, NEW D \in Drafts, BeginSave(c, t, D)
      PROVE  \E w : BeginWork(c, w) /\ w # None /\ WorkFits(w, c)
  <2>1. PICK v : v = Work("team.save", "save", t) OBVIOUS
  <2>2. v \in TeamWork /\ v.op = "team.save" /\ v.at = "save" /\ v.on = t BY <2>1, WorkType
  <2>3. teams[t].rev \in Nat BY <1>1 DEF BeginSave, Formed, TeamInv, TeamsFit, TeamRows, RowsFit, Team
  <2>4. D \in SUBSET Agents BY TeamAssumption
  <2>5. PICK w : w = [v EXCEPT !.rev = teams[t].rev, !.draft = D] OBVIOUS
  <2>6. w \in TeamWork /\ w.op = "team.save" /\ w.at = "save" /\ w.on = t
    BY <2>2, <2>3, <2>4, <2>5 DEF TeamWork
  <2>7. WorkFits(w, c) BY <1>1, <2>6 DEF WorkFits, Steps, BeginSave
  <2>8. w # None BY <2>6, TeamAssumption
  <2> QED BY <1>1, <2>1, <2>5, <2>7, <2>8 DEF BeginSave
<1>2. ASSUME NEW t \in Teams, BeginPublication(c, t)
      PROVE  \E w : BeginWork(c, w) /\ w # None /\ WorkFits(w, c)
  <2>1. PICK w : w = Work("team.publish", "lock", t) OBVIOUS
  <2>2. WorkFits(w, c) /\ w # None
    BY <1>2, <2>1, WorkType DEF WorkFits, Steps, BeginPublication
  <2> QED BY <1>2, <2>1, <2>2 DEF BeginPublication
<1>3. ASSUME NEW x \in Teams \cup Agents \cup {None}, BeginMessage(c, x)
      PROVE  \E w : BeginWork(c, w) /\ w # None /\ WorkFits(w, c)
  <2>1. PICK w : w = Work("message", "resolve", x) OBVIOUS
  <2>2. WorkFits(w, c) /\ w # None BY <1>3, <2>1, WorkType DEF WorkFits, Steps
  <2> QED BY <1>3, <2>1, <2>2 DEF BeginMessage
<1>4. ASSUME NEW r \in RunIds, BeginAnswer(c, r) \/ BeginSnapshot(c, r)
      PROVE  \E w : BeginWork(c, w) /\ w # None /\ WorkFits(w, c)
  <2>1. r \in 1..Len(runs) BY <1>4, Length DEF BeginAnswer, BeginSnapshot, RunIds, TeamInv
  <2>2. PICK w : BeginWork(c, w) /\ (w = Work("answer", "send", r) \/ w = Work("snapshot", "look", r))
    BY <1>4 DEF BeginAnswer, BeginSnapshot
  <2>3. WorkFits(w, c) /\ w # None BY <2>1, <2>2, WorkType DEF WorkFits, Steps
  <2> QED BY <2>2, <2>3
<1> QED BY <1>1, <1>2, <1>3, <1>4 DEF TeamBegin

LEMMA GoesOnKeeps ==
  ASSUME AgentInv, AgentInv', TeamInv, Rest, RowsStill, GoesOn, NEW c \in Clients, works[c] # None,
         NEW w, works' = works \/ works' = [works EXCEPT ![c] = w], works'[c] = w, w # None,
         WorkFits(w, c)',
         NEW u, tasks' = [tasks EXCEPT ![c] = u], u = None \/ u = tasks[c] \/ u.row = None,
         u # None => u.op = "call" /\ CallFits(u, w)',
         teamLock' \in [Teams -> Clients \cup {None}], chatLock' \in Clients \cup {None},
         \A t \in Teams : teamLock[t] \in Clients \ {c} => teamLock'[t] = teamLock[t],
         chatLock \in Clients \ {c} => chatLock' = chatLock
  PROVE  TeamInv'
<1>1. RequestStep /\ busy' = busy BY GoesOnStep
<1>2. DOMAIN works = Clients /\ DOMAIN tasks = Clients BY DEF AgentInv, OneRequest
<1>3. Leave(c) BY <1>1, <1>2, StillRows DEF Leave, RowsStill, Formed
<1>4. Mine(c) BY <1>2 DEF Mine
<1> QED BY <1>1, <1>3, <1>4, StillRows, StepKeeps

(* A request that has no agent read for it now. *)
LEMMA NoCall ==
  ASSUME AgentInv, TeamInv, NEW c \in Clients, works[c] # None
  PROVE  /\ tasks[c] # None => tasks[c].op = "call" /\ CallFits(tasks[c], works[c])
         /\ works[c].at \notin {"capture", "resolve", "read"} => tasks[c] = None
         /\ works[c].at = "resolve" /\ works[c].on \in Teams => tasks[c] = None
         /\ DOMAIN works = Clients /\ DOMAIN tasks = Clients
         /\ tasks = [tasks EXCEPT ![c] = tasks[c]]
<1>1. tasks[c] # None => tasks[c].op = "call" BY DEF AgentInv, OneRequest
<1>2. tasks[c] # None => CallFits(tasks[c], works[c]) BY <1>1 DEF TeamInv, CallsFit
<1>3. DOMAIN works = Clients /\ tasks = [d \in Clients |-> tasks[d]] BY DEF AgentInv, OneRequest
<1>4. WorkFits(works[c], c) BY DEF TeamInv, WorksFit
<1> QED BY <1>1, <1>2, <1>3, <1>4, WhereWorks DEF CallFits, WorkFits

LEMMA LockTeamKeeps ==
  ASSUME AgentInv, AgentInv', TeamInv, Rest, NEW c \in Clients, LockTeam(c)
  PROVE  TeamInv'
<1>1. works[c] # None /\ works[c].op = "team.publish" /\ works[c].at = "lock" BY DEF LockTeam, Doing
<1>2. PICK v, t : v = works[c] /\ t = v.on OBVIOUS
<1>3. v \in TeamWork /\ WorkFits(v, c) /\ t \in Teams /\ Formed(t) /\ DOMAIN v.rows = {}
  BY <1>1, <1>2, Working DEF WorkFits
<1>4. teams[t].rev \in Nat /\ teams[t].draft \in SUBSET Agents
  BY <1>3 DEF Formed, TeamInv, TeamsFit, TeamRows, RowsFit, Team
<1>5. PICK w : w = [v EXCEPT !.at = "capture", !.rev = teams[t].rev, !.draft = teams[t].draft] OBVIOUS
<1>6. /\ w \in TeamWork /\ w.op = "team.publish" /\ w.at = "capture" /\ w.on = t
      /\ w.rows = v.rows /\ w.rev = teams[t].rev /\ w.draft = teams[t].draft
  BY <1>1, <1>2, <1>3, <1>4, <1>5 DEF TeamWork
<1>7. /\ works' = [works EXCEPT ![c] = w] /\ teamLock' = [teamLock EXCEPT ![t] = c] /\ TeamFree(t)
      /\ GoesOn /\ RowsStill /\ chatLock' = chatLock /\ tasks' = tasks
  BY <1>2, <1>5 DEF LockTeam, WorksOn, KeepTasks, RowsStill
<1>8. teamLock \in [Teams -> Clients \cup {None}] /\ chatLock \in Clients \cup {None}
  BY DEF TeamInv, TeamsFit
<1>9. teamLock' \in [Teams -> Clients \cup {None}] /\ teamLock'[t] = c BY <1>3, <1>7, <1>8
<1>10. Captures(w, c)' BY <1>3, <1>6, <1>7, <1>9 DEF Captures, AllOn, RowsStill
<1>11. WorkFits(w, c)' BY <1>3, <1>6, <1>7, <1>10 DEF WorkFits, Steps, Formed, RowsStill
<1>12. tasks[c] = None /\ DOMAIN works = Clients /\ tasks' = [tasks EXCEPT ![c] = None]
  BY <1>1, <1>7, NoCall
<1>13. works'[c] = w BY <1>7, <1>12
<1>14. \A x \in Teams : teamLock[x] \in Clients \ {c} => teamLock'[x] = teamLock[x]
  BY <1>7, <1>8, Working, <1>1 DEF TeamFree
<1>15. w # None BY <1>6, TeamAssumption
<1> QED BY <1>1, <1>7, <1>8, <1>9, <1>11, <1>12, <1>13, <1>14, <1>15, GoesOnKeeps

LEMMA CallType ==
  ASSUME NEW c \in Clients, NEW a, Calls(c, a)
  PROVE  \E u : /\ tasks' = [tasks EXCEPT ![c] = u] /\ u.op = "call" /\ u.at = "repair"
                /\ u.agent = a /\ u.row = None
<1>1. PICK u : u = Task("call", a, a, BuiltinConfig, "read") OBVIOUS
<1>2. tasks' = [tasks EXCEPT ![c] = u] /\ u.op = "call" /\ u.at = "repair" /\ u.agent = a /\ u.row = None
  BY <1>1 DEF Calls, Task
<1> QED BY <1>2

LEMMA ReadMemberKeeps ==
  ASSUME AgentInv, AgentInv', TeamInv, Rest, NEW c \in Clients, ReadMember(c)
  PROVE  TeamInv'
<1>1. works[c] # None /\ works[c].op = "team.publish" /\ works[c].at = "capture"
  BY DEF ReadMember, Doing
<1>2. PICK w : w = works[c] OBVIOUS
<1>3. PICK a \in w.draft \ DOMAIN w.rows : Calls(c, a) BY <1>2 DEF ReadMember, Uncaptured
<1>4. UNCHANGED teamVars /\ GoesOn BY DEF ReadMember
<1>5. RowsStill /\ works' = works /\ teamLock' = teamLock /\ chatLock' = chatLock
  BY <1>4 DEF teamVars, RowsStill
<1>6. PICK u : tasks' = [tasks EXCEPT ![c] = u] /\ u.op = "call" /\ u.at = "repair"
               /\ u.agent = a /\ u.row = None
  BY <1>3, CallType
<1>7. CallFits(u, w)' BY <1>1, <1>2, <1>3, <1>6 DEF CallFits
<1>8. WorkFits(w, c)' BY <1>1, <1>2, <1>4, TeamsStay, <1>5 DEF WorksFit
<1>9. teamLock' \in [Teams -> Clients \cup {None}] /\ chatLock' \in Clients \cup {None}
  BY <1>5 DEF TeamInv, TeamsFit
<1> QED BY <1>1, <1>2, <1>4, <1>5, <1>6, <1>7, <1>8, <1>9, GoesOnKeeps

LEMMA ReadActorKeeps ==
  ASSUME AgentInv, AgentInv', TeamInv, Rest, NEW c \in Clients, ReadActor(c)
  PROVE  TeamInv'
<1>1. works[c] # None /\ works[c].op = "message" /\ works[c].at = "resolve"
  BY DEF ReadActor, Doing
<1>2. PICK w : w = works[c] OBVIOUS
<1>3. w.on \in Agents \cup {None} /\ w.on \notin Teams
  BY <1>1, <1>2, Working DEF WorkFits, ReadActor
<1>4. UNCHANGED teamVars /\ GoesOn /\ Calls(c, w.on) BY <1>2 DEF ReadActor
<1>5. RowsStill /\ works' = works /\ teamLock' = teamLock /\ chatLock' = chatLock
  BY <1>4 DEF teamVars, RowsStill
<1>6. PICK u : tasks' = [tasks EXCEPT ![c] = u] /\ u.op = "call" /\ u.at = "repair"
               /\ u.agent = w.on /\ u.row = None
  BY <1>4, CallType
<1>7. CallFits(u, w)' BY <1>1, <1>2, <1>3, <1>6 DEF CallFits
<1>8. WorkFits(w, c)' BY <1>1, <1>2, <1>4, TeamsStay, <1>5 DEF WorksFit
<1>9. teamLock' \in [Teams -> Clients \cup {None}] /\ chatLock' \in Clients \cup {None}
  BY <1>5 DEF TeamInv, TeamsFit
<1> QED BY <1>1, <1>2, <1>4, <1>5, <1>6, <1>7, <1>8, <1>9, GoesOnKeeps

LEMMA ReadRunAgentKeeps ==
  ASSUME AgentInv, AgentInv', TeamInv, Rest, NEW c \in Clients, ReadRunAgent(c)
  PROVE  TeamInv'
<1>1. works[c] # None /\ works[c].op = "snapshot" /\ works[c].at = "look"
  BY DEF ReadRunAgent, Doing
<1>2. PICK v, a : v = works[c] /\ a = runs[v.on].actor OBVIOUS
<1>3. v \in TeamWork /\ WorkFits(v, c) /\ v.on \in 1..Len(runs)
  BY <1>1, <1>2, Working DEF WorkFits
<1>4. a \in Agents /\ Calls(c, a) BY <1>2 DEF ReadRunAgent
<1>5. PICK w : w = [v EXCEPT !.at = "read"] OBVIOUS
<1>6. w \in TeamWork /\ w.op = "snapshot" /\ w.at = "read" /\ w.on = v.on
  BY <1>1, <1>2, <1>3, <1>5 DEF TeamWork
<1>7. works' = [works EXCEPT ![c] = w] /\ GoesOn BY <1>2, <1>5 DEF ReadRunAgent, WorksOn
<1>8. RowsStill /\ teamLock' = teamLock /\ chatLock' = chatLock BY DEF ReadRunAgent, RowsStill
<1>9. PICK u : tasks' = [tasks EXCEPT ![c] = u] /\ u.op = "call" /\ u.at = "repair"
               /\ u.agent = a /\ u.row = None
  BY <1>4, CallType
<1>10. CallFits(u, w)'
  <2>1. w # None BY <1>6, TeamAssumption
  <2> QED BY <1>2, <1>6, <1>8, <1>9, <2>1 DEF CallFits, RowsStill
<1>11. WorkFits(w, c)' BY <1>2, <1>3, <1>4, <1>6, <1>8 DEF WorkFits, Steps, RowsStill
<1>12. teamLock' \in [Teams -> Clients \cup {None}] /\ chatLock' \in Clients \cup {None}
  BY <1>8 DEF TeamInv, TeamsFit
<1>13. works'[c] = w /\ w # None BY <1>1, <1>6, <1>7, NoCall, TeamAssumption
<1> QED BY <1>1, <1>7, <1>8, <1>9, <1>10, <1>11, <1>12, <1>13, GoesOnKeeps

LEMMA CaptureKeeps ==
  ASSUME AgentInv, AgentInv', TeamInv, Rest, NEW c \in Clients, CaptureMember(c)
  PROVE  TeamInv'
<1>1. /\ works[c] # None /\ works[c].op = "team.publish" /\ works[c].at = "capture"
      /\ tasks[c] # None /\ tasks[c].at = "done" /\ Enabled(tasks[c].row)
  BY DEF CaptureMember, Doing, Called, Usable
<1>2. PICK v, t : v = works[c] /\ t = tasks[c] OBVIOUS
<1>3. v \in TeamWork /\ WorkFits(v, c) BY <1>1, <1>2, Working
<1>4. CallFits(t, v) BY <1>1, <1>2, NoCall
<1>5. t.agent \in v.draft \ DOMAIN v.rows /\ t.agent \in Agents /\ t.row \in Agent /\ t.row.on
  BY <1>1, <1>2, <1>4 DEF CallFits, Enabled
<1>6. PICK rows : rows = [a \in DOMAIN v.rows \cup {t.agent} |->
                            IF a = t.agent THEN t.row ELSE v.rows[a]]
  OBVIOUS
<1>7. Captures(v, c) BY <1>1, <1>2, <1>3 DEF WorkFits
<1>8. /\ rows \in Rows /\ DOMAIN rows \subseteq v.draft /\ AllOn(rows)
  <2>1. PICK D \in SUBSET Agents : v.rows \in [D -> Agent] BY <1>3 DEF TeamWork, Rows
  <2>2. rows \in [D \cup {t.agent} -> Agent] /\ D \cup {t.agent} \in SUBSET Agents
    BY <1>5, <1>6, <2>1
  <2>3. rows \in Rows BY <2>2 DEF Rows
  <2>4. DOMAIN rows \subseteq v.draft BY <1>5, <1>6, <1>7 DEF Captures
  <2>5. AllOn(rows) BY <1>5, <1>6, <1>7 DEF Captures, AllOn
  <2> QED BY <2>3, <2>4, <2>5
<1>9. PICK w : w = [v EXCEPT !.rows = rows] OBVIOUS
<1>10. /\ w \in TeamWork /\ w.op = "team.publish" /\ w.at = "capture" /\ w.on = v.on
       /\ w.rows = rows /\ w.rev = v.rev /\ w.draft = v.draft
  BY <1>1, <1>2, <1>3, <1>8, <1>9 DEF TeamWork
<1>11. /\ works' = [works EXCEPT ![c] = w] /\ GoesOn /\ RowsStill /\ teamLock' = teamLock
       /\ chatLock' = chatLock /\ tasks' = [tasks EXCEPT ![c] = None]
  BY <1>2, <1>6, <1>9 DEF CaptureMember, WorksOn, RowsStill
<1>12. Captures(w, c)' BY <1>7, <1>8, <1>10, <1>11 DEF Captures, RowsStill, AllOn
<1>13. WorkFits(w, c)'
  BY <1>1, <1>2, <1>3, <1>10, <1>11, <1>12 DEF WorkFits, Steps, Formed, RowsStill
<1>14. teamLock' \in [Teams -> Clients \cup {None}] /\ chatLock' \in Clients \cup {None}
  BY <1>11 DEF TeamInv, TeamsFit
<1>15. works'[c] = w /\ w # None BY <1>1, <1>10, <1>11, NoCall, TeamAssumption
<1> QED BY <1>1, <1>11, <1>13, <1>14, <1>15, GoesOnKeeps

LEMMA ResolveKeepsTeams ==
  ASSUME AgentInv, AgentInv', TeamInv, Rest, NEW c \in Clients, ResolveTeam(c) \/ ResolveAgent(c)
  PROVE  TeamInv'
<1>1. works[c] # None /\ works[c].op = "message" /\ works[c].at = "resolve"
  BY DEF ResolveTeam, ResolveAgent, Doing
<1>2. PICK v : v = works[c] OBVIOUS
<1>3. v \in TeamWork /\ WorkFits(v, c) BY <1>1, <1>2, Working
<1>4. PICK x, n : /\ WorksOn(c, [v EXCEPT !.at = "send", !.on = x, !.version = n])
                  /\ x \in Teams \cup Agents /\ n \in Nat /\ Published(x, n)
                  /\ tasks' = [tasks EXCEPT ![c] = None]
  <2>1. CASE ResolveTeam(c)
    <3>1. PICK x : x = v.on OBVIOUS
    <3>2. x \in Teams /\ Runnable(x) BY <1>2, <2>1, <3>1 DEF ResolveTeam
    <3>3. PICK n : n = teams[x].current OBVIOUS
    <3>4. n \in 0..Len(teamVersions[x]) /\ n # 0 /\ Len(teamVersions[x]) \in Nat
      BY <3>2, <3>3 DEF Runnable, Formed, TeamInv, TeamsFit, TeamRows, RowsFit
    <3>5. n \in Nat /\ Published(x, n) BY <3>4 DEF Published
    <3>6. [v EXCEPT !.at = "send", !.on = x, !.version = n] = [v EXCEPT !.at = "send", !.version = n]
      BY <1>3, <3>1 DEF TeamWork
    <3>7. WorksOn(c, [v EXCEPT !.at = "send", !.on = x, !.version = n])
      BY <1>2, <2>1, <3>1, <3>3, <3>6 DEF ResolveTeam
    <3>8. tasks' = tasks BY <2>1 DEF ResolveTeam, KeepTasks
    <3>9. tasks' = [tasks EXCEPT ![c] = None] BY <1>1, <1>2, <3>1, <3>2, <3>8, NoCall
    <3> QED BY <3>2, <3>5, <3>7, <3>9
  <2>2. CASE ResolveAgent(c)
    <3>1. tasks[c] # None /\ tasks[c].at = "done" BY <2>2 DEF ResolveAgent, Called, Usable
    <3>2. PICK x : x = tasks[c].agent /\ x \in Agents BY <1>1, <3>1, NoCall DEF CallFits
    <3>3. PICK n : n = v.version /\ n \in Nat BY <1>3 DEF TeamWork
    <3>4. [v EXCEPT !.at = "send", !.on = x, !.version = n] = [v EXCEPT !.at = "send", !.on = x]
      BY <1>3, <3>3 DEF TeamWork
    <3>5. WorksOn(c, [v EXCEPT !.at = "send", !.on = x, !.version = n])
      BY <1>2, <2>2, <3>2, <3>4 DEF ResolveAgent
    <3>6. x \notin Teams BY <3>2, TeamAssumption
    <3>7. tasks' = [tasks EXCEPT ![c] = None] BY <2>2 DEF ResolveAgent
    <3> QED BY <3>2, <3>3, <3>5, <3>6, <3>7 DEF Published
  <2> QED BY <2>1, <2>2
<1>5. PICK w : w = [v EXCEPT !.at = "send", !.on = x, !.version = n] OBVIOUS
<1>6. /\ w \in TeamWork /\ w.op = "message" /\ w.at = "send" /\ w.on = x /\ w.version = n
  BY <1>1, <1>2, <1>3, <1>4, <1>5 DEF TeamWork
<1>7. /\ works' = [works EXCEPT ![c] = w] /\ GoesOn /\ RowsStill /\ teamLock' = teamLock
      /\ chatLock' = chatLock
  BY <1>4, <1>5 DEF WorksOn, ResolveTeam, ResolveAgent, RowsStill
<1>8. x # None BY <1>4, TeamAssumption, AgentAssumption
<1>9. WorkFits(w, c)' BY <1>4, <1>6, <1>7, <1>8 DEF WorkFits, Steps, Published, RowsStill
<1>10. teamLock' \in [Teams -> Clients \cup {None}] /\ chatLock' \in Clients \cup {None}
  BY <1>7 DEF TeamInv, TeamsFit
<1>11. works'[c] = w /\ w # None BY <1>1, <1>6, <1>7, NoCall, TeamAssumption
<1> QED BY <1>1, <1>4, <1>7, <1>9, <1>10, <1>11, GoesOnKeeps

LEMMA NumberKeeps ==
  ASSUME AgentInv, AgentInv', TeamInv, Rest, NEW c \in Clients, NumberMessage(c)
  PROVE  TeamInv'
<1>1. works[c] # None /\ works[c].op \in {"message", "answer"} /\ works[c].at = "send"
  BY DEF NumberMessage, Doing
<1>2. PICK v : v = works[c] OBVIOUS
<1>3. v \in TeamWork /\ WorkFits(v, c) BY <1>1, <1>2, Working
<1>4. PICK n : n = Len(chat) + 1 /\ n \in Nat BY Length DEF TeamInv
<1>5. PICK w : w = [v EXCEPT !.at = "commit", !.seq = n] OBVIOUS
<1>6. /\ w \in TeamWork /\ w.op = v.op /\ w.at = "commit" /\ w.on = v.on /\ w.version = v.version
      /\ w.seq = n
  BY <1>1, <1>2, <1>3, <1>4, <1>5 DEF TeamWork
<1>7. /\ works' = [works EXCEPT ![c] = w] /\ GoesOn /\ RowsStill /\ teamLock' = teamLock
      /\ chatLock' = c /\ chatLock = None /\ tasks' = tasks
  BY <1>2, <1>4, <1>5 DEF NumberMessage, WorksOn, RowsStill, KeepTasks, ChatFree
<1>8. WorkFits(w, c)'
  BY <1>1, <1>2, <1>3, <1>4, <1>6, <1>7 DEF WorkFits, Steps, Published, RowsStill
<1>9. teamLock' \in [Teams -> Clients \cup {None}] /\ chatLock' \in Clients \cup {None}
  BY <1>7 DEF TeamInv, TeamsFit
<1>10. works'[c] = w /\ w # None BY <1>1, <1>6, <1>7, NoCall, TeamAssumption
<1>11. tasks' = [tasks EXCEPT ![c] = None] BY <1>1, <1>7, NoCall
<1>12. chatLock \notin Clients BY <1>1, <1>7, Working
<1> QED BY <1>1, <1>7, <1>8, <1>9, <1>10, <1>11, <1>12, GoesOnKeeps

-----------------------------------------------------------------------------
(* The steps that change rows *)

LEMMA Appends ==
  ASSUME NEW S, NEW s \in Seq(S), NEW x \in S
  PROVE  /\ Append(s, x) \in Seq(S) /\ Len(Append(s, x)) = Len(s) + 1 /\ Len(s) \in Nat
         /\ Append(s, x)[Len(s) + 1] = x /\ Grows(s, Append(s, x))
         /\ \A n \in 1..(Len(s) + 1) : n = Len(s) + 1 \/ (n \in 1..Len(s) /\ Append(s, x)[n] = s[n])
BY DEF Grows

LEMMA RowsKeep ==
  ASSUME TeamInv, NEW t \in Teams, NEW x, NEW ds, NEW vs, RowsFit(x, ds, vs),
         teams' = [teams EXCEPT ![t] = x],
         drafts' = drafts \/ drafts' = [drafts EXCEPT ![t] = ds], drafts'[t] = ds,
         teamVersions' = teamVersions \/ teamVersions' = [teamVersions EXCEPT ![t] = vs],
         teamVersions'[t] = vs, x # None,
         Grows(teamVersions[t], vs),
         teamLock' \in [Teams -> Clients \cup {None}], chatLock' \in Clients \cup {None}
  PROVE  /\ TeamsFit'
         /\ \A y \in Teams : /\ Formed(y) => Formed(y)'
                             /\ Grows(teamVersions[y], teamVersions'[y])
                             /\ y # t => teams'[y] = teams[y]
<1>1. /\ teams \in [Teams -> Team \cup {None}] /\ x \in Team \cup {None}
      /\ DOMAIN drafts = Teams /\ DOMAIN teamVersions = Teams
  BY DEF TeamInv, TeamsFit, RowsFit
<1>2. /\ teams' \in [Teams -> Team \cup {None}]
      /\ DOMAIN drafts' = Teams /\ DOMAIN teamVersions' = Teams
  BY <1>1
<1>3. ASSUME NEW y \in Teams
      PROVE  /\ TeamRows(y)' /\ (Formed(y) => Formed(y)')
             /\ Grows(teamVersions[y], teamVersions'[y]) /\ (y # t => teams'[y] = teams[y])
  <2>1. TeamRows(y) BY DEF TeamInv, TeamsFit
  <2>2. CASE y = t
    <3>1. teams'[y] = x /\ drafts'[y] = ds /\ teamVersions'[y] = vs BY <1>1, <2>2
    <3> QED BY <2>2, <3>1 DEF TeamRows, RowsFit, IsDraft, Formed
  <2>3. CASE y # t
    <3>1. teams'[y] = teams[y] /\ drafts'[y] = drafts[y] /\ teamVersions'[y] = teamVersions[y]
      BY <1>1, <2>3
    <3>2. TeamRows(y)' BY <2>1, <3>1 DEF TeamRows, RowsFit, IsDraft
    <3>3. Len(teamVersions[y]) \in Nat BY <2>1 DEF TeamRows, RowsFit
    <3> QED BY <2>3, <3>1, <3>2, <3>3 DEF Formed, Grows
  <2> QED BY <2>2, <2>3
<1> QED BY <1>2, <1>3 DEF TeamsFit

LEMMA ChatKept ==
  ASSUME TeamInv, chat' = chat, runs' = runs,
         \A t \in Teams : Grows(teamVersions[t], teamVersions'[t])
  PROVE  ChatFits'
<1>1. ASSUME NEW x, NEW n, Published(x, n)
      PROVE  Published(x, n)'
  <2>1. SUFFICES ASSUME x \in Teams PROVE n \in 1..Len(teamVersions'[x]) BY DEF Published
  <2>2. n \in 1..Len(teamVersions[x]) BY <1>1, <2>1 DEF Published
  <2>3. Len(teamVersions[x]) <= Len(teamVersions'[x]) BY <2>1 DEF Grows
  <2>4. Len(teamVersions[x]) \in Nat BY <2>1 DEF TeamInv, TeamsFit, TeamRows, RowsFit
  <2> QED BY <2>2, <2>3, <2>4
<1> QED BY <1>1 DEF TeamInv, ChatFits

(* A request that ends with a change to the rows. *)
LEMMA EndsKeeps ==
  ASSUME AgentInv, AgentInv', TeamInv, Rest, NEW c \in Clients, EndsWork(c),
         TeamsFit', ChatFits', SnapshotsFit', Counted', Grows(runs, runs'),
         \A t \in Teams : /\ Formed(t) => Formed(t)'
                          /\ Grows(teamVersions[t], teamVersions'[t])
                          /\ Formed(t) /\ teamLock[t] \in Clients \ {c} => teams'[t] = teams[t],
         chatLock \in Clients \ {c} => chat' = chat
  PROVE  TeamInv'
<1>1. Leaves(c) /\ tasks' = [tasks EXCEPT ![c] = None] /\ busy' = busy \ {c}
  BY DEF EndsWork, Ends
<1>2. DOMAIN works = Clients /\ DOMAIN tasks = Clients BY DEF AgentInv, OneRequest
<1>3. works' = [works EXCEPT ![c] = None] BY <1>1 DEF Leaves
<1>4. \A t \in Teams : Len(teamVersions[t]) <= Len(teamVersions'[t]) BY DEF Grows
<1>5. Leave(c) BY <1>1, <1>2, <1>3, <1>4, Freed DEF Leave
<1>6. Mine(c) BY <1>1, <1>2, <1>3 DEF Mine
<1> QED BY <1>5, <1>6, StepKeeps

LEMMA CreateKeepsTeams ==
  ASSUME AgentInv, AgentInv', TeamInv, Rest, NEW t \in Teams, CreateTeam(t)
  PROVE  TeamInv'
<1>1. RequestStep /\ busy' = busy BY AtOnceStep DEF CreateTeam
<1>2. PICK x : x = [rev |-> 1, draft |-> {}, on |-> FALSE, current |-> 0] OBVIOUS
<1>3. x \in Team /\ x.rev = 1 /\ x.draft = {} /\ x.current = 0 BY <1>2 DEF Team
<1>4. PICK d : d = [members |-> {}, seen |-> 0] OBVIOUS
<1>d. d \in TeamDraft /\ d.members = {} /\ d.seen = 0 BY <1>4 DEF TeamDraft
<1>5. PICK ds : ds = <<d>> OBVIOUS
<1>6. ds \in Seq(TeamDraft) /\ Len(ds) = 1 /\ ds[1] = d BY <1>d, <1>5
<1>7. /\ teams' = [teams EXCEPT ![t] = x] /\ drafts' = [drafts EXCEPT ![t] = ds]
      /\ ~Formed(t)
      /\ UNCHANGED <<teamVersions, teamLock, chat, chatLock, runs, snapshots, works, tasks>>
  BY <1>2, <1>4, <1>5 DEF CreateTeam, KeepTasks
<1>8. teamVersions[t] = <<>> BY <1>7 DEF TeamInv, TeamsFit, TeamRows, RowsFit, Formed
<1>9. PICK vs : vs = teamVersions[t] /\ vs = <<>> BY <1>8
<1>11. x # None BY <1>3, TeamAssumption
<1>10. RowsFit(x, ds, vs)
  <2>1. vs \in Seq(TeamVersion) /\ Len(vs) = 0 BY <1>9
  <2>2. \A n \in 1..Len(ds) : ds[n].seen = n - 1 BY <1>d, <1>6
  <2>3. \A n \in 1..Len(vs) : FALSE BY <2>1
  <2>4. ds[x.rev].members = x.draft /\ Len(ds) = x.rev /\ x.current \in 0..Len(vs)
    BY <1>d, <1>3, <1>6, <2>1
  <2> QED BY <1>3, <1>6, <1>11, <2>1, <2>2, <2>3, <2>4 DEF RowsFit
<1>12. Grows(teamVersions[t], vs) BY <1>9 DEF Grows
<1>13. teamLock' \in [Teams -> Clients \cup {None}] /\ chatLock' \in Clients \cup {None}
  BY <1>7 DEF TeamInv, TeamsFit
<1>14. drafts'[t] = ds BY <1>7 DEF TeamInv, TeamsFit
<1>15. /\ TeamsFit'
       /\ \A y \in Teams : /\ Formed(y) => Formed(y)'
                           /\ Grows(teamVersions[y], teamVersions'[y])
                           /\ y # t => teams'[y] = teams[y]
  BY <1>7, <1>9, <1>10, <1>11, <1>12, <1>13, <1>14, RowsKeep
<1>16. Counted' /\ Grows(runs, runs') BY <1>1, <1>7, RunsStay
<1>17. SnapshotsFit' BY <1>7, <1>15, <1>16, SnapshotsKept DEF Rest
<1>18. ChatFits' BY <1>7, <1>15, ChatKept
<1>19. Leave(None) BY <1>1, <1>7, <1>15, <1>16 DEF Leave, Grows
<1>20. None \notin Clients BY AgentAssumption
<1> QED BY <1>15, <1>16, <1>17, <1>18, <1>19, <1>20, StepKeeps

LEMMA EnableKeepsTeams ==
  ASSUME AgentInv, AgentInv', TeamInv, Rest, NEW t \in Teams, NEW b \in BOOLEAN, EnableTeam(t, b)
  PROVE  TeamInv'
<1>1. RequestStep /\ busy' = busy BY AtOnceStep DEF EnableTeam
<1>2. PICK y, ds, vs : y = teams[t] /\ ds = drafts[t] /\ vs = teamVersions[t] OBVIOUS
<1>3. y \in Team /\ y # None /\ RowsFit(y, ds, vs)
  BY <1>2 DEF EnableTeam, Formed, TeamInv, TeamsFit, TeamRows, RowsFit
<1>4. PICK x : x = [y EXCEPT !.on = b] OBVIOUS
<1>5. x \in Team /\ x.rev = y.rev /\ x.draft = y.draft /\ x.current = y.current
  BY <1>3, <1>4 DEF Team
<1>6. /\ teams' = [teams EXCEPT ![t] = x] /\ TeamFree(t)
      /\ UNCHANGED <<drafts, teamVersions, teamLock, chat, chatLock, runs, snapshots, works, tasks>>
  BY <1>2, <1>4 DEF EnableTeam, KeepTasks
<1>7. x # None BY <1>5, TeamAssumption
<1>8. RowsFit(x, ds, vs) BY <1>3, <1>5, <1>7 DEF RowsFit
<1>9. Grows(teamVersions[t], vs) BY <1>2, <1>3 DEF Grows, RowsFit
<1>10. teamLock' \in [Teams -> Clients \cup {None}] /\ chatLock' \in Clients \cup {None}
  BY <1>6 DEF TeamInv, TeamsFit
<1>11. /\ TeamsFit'
       /\ \A z \in Teams : /\ Formed(z) => Formed(z)'
                           /\ Grows(teamVersions[z], teamVersions'[z])
                           /\ z # t => teams'[z] = teams[z]
  BY <1>2, <1>6, <1>7, <1>8, <1>9, <1>10, RowsKeep
<1>12. Counted' /\ Grows(runs, runs') BY <1>1, <1>6, RunsStay
<1>13. SnapshotsFit' BY <1>6, <1>11, <1>12, SnapshotsKept DEF Rest
<1>14. ChatFits' BY <1>6, <1>11, ChatKept
<1>15. None \notin Clients BY AgentAssumption
<1>16. Leave(None) BY <1>1, <1>6, <1>11, <1>12, <1>15 DEF Leave, Grows, TeamFree
<1> QED BY <1>11, <1>12, <1>13, <1>14, <1>15, <1>16, StepKeeps

LEMMA SaveKeepsTeams ==
  ASSUME AgentInv, AgentInv', TeamInv, Rest, NEW c \in Clients, SaveTeam(c)
  PROVE  TeamInv'
<1>1. /\ works[c] # None /\ works[c].op = "team.save" /\ TeamFree(works[c].on) /\ Expected(c)
      /\ EndsWork(c)
  BY DEF SaveTeam, Doing
<1>2. PICK w, t, y, ds, vs : /\ w = works[c] /\ t = w.on /\ y = teams[t] /\ ds = drafts[t]
                             /\ vs = teamVersions[t]
  OBVIOUS
<1>3. w \in TeamWork /\ WorkFits(w, c) /\ t \in Teams /\ Formed(t)
  BY <1>1, <1>2, Working DEF WorkFits
<1>4. y \in Team /\ y # None /\ RowsFit(y, ds, vs)
  BY <1>2, <1>3 DEF Formed, TeamInv, TeamsFit, TeamRows, RowsFit
<1>5. y.rev = w.rev /\ y.rev \in Nat \ {0} /\ w.draft \in SUBSET Agents
  BY <1>1, <1>2, <1>3, <1>4 DEF Expected, Team, TeamWork
<1>6. PICK x : x = [y EXCEPT !.draft = w.draft, !.rev = @ + 1] OBVIOUS
<1>7. x \in Team /\ x.rev = y.rev + 1 /\ x.draft = w.draft /\ x.current = y.current
  <2>1. PICK r, D : r = y.rev + 1 /\ D = w.draft OBVIOUS
  <2>2. r \in Nat \ {0} /\ D \in SUBSET Agents BY <1>5, <2>1
  <2>3. x = [y EXCEPT !.draft = D, !.rev = r] BY <1>4, <1>6, <2>1 DEF Team
  <2> QED BY <1>4, <2>1, <2>2, <2>3 DEF Team
<1>8. PICK d : d = [members |-> w.draft, seen |-> w.rev] OBVIOUS
<1>9. d \in TeamDraft /\ d.members = w.draft /\ d.seen = w.rev BY <1>5, <1>8 DEF TeamDraft
<1>10. PICK es : es = Append(ds, d) OBVIOUS
<1>11. /\ teams' = [teams EXCEPT ![t] = x] /\ drafts' = [drafts EXCEPT ![t] = es]
       /\ UNCHANGED <<teamVersions, chat, runs, snapshots>>
  BY <1>2, <1>6, <1>8, <1>10 DEF SaveTeam
<1>12. ds \in Seq(TeamDraft) /\ Len(ds) = y.rev BY <1>4 DEF RowsFit
<1>13. /\ es \in Seq(TeamDraft) /\ Len(es) = y.rev + 1 /\ es[y.rev + 1] = d
       /\ \A n \in 1..(y.rev + 1) : n = y.rev + 1 \/ (n \in 1..y.rev /\ es[n] = ds[n])
  BY <1>9, <1>10, <1>12, Appends
<1>14. x # None BY <1>7, TeamAssumption
<1>15. RowsFit(x, es, vs)
  <2>1. ASSUME NEW n \in 1..Len(es)
        PROVE  es[n].seen = n - 1
    BY <1>4, <1>5, <1>9, <1>12, <1>13 DEF RowsFit
  <2>2. ASSUME NEW n \in 1..Len(vs)
        PROVE  IsDraft(vs[n], es) /\ AllOn(vs[n].members)
    <3>1. IsDraft(vs[n], ds) /\ AllOn(vs[n].members) /\ vs[n] \in TeamVersion BY <1>4 DEF RowsFit
    <3>2. vs[n].rev \in 1..y.rev BY <1>12, <3>1 DEF IsDraft, TeamVersion
    <3>3. es[vs[n].rev] = ds[vs[n].rev] /\ vs[n].rev <= y.rev + 1
      BY <1>5, <1>13, <3>2
    <3> QED BY <1>13, <3>1, <3>3 DEF IsDraft
  <2>3. /\ Len(es) = x.rev /\ es[x.rev].members = x.draft /\ x.current \in 0..Len(vs)
    BY <1>4, <1>7, <1>9, <1>13 DEF RowsFit
  <2> QED BY <1>4, <1>7, <1>13, <1>14, <2>1, <2>2, <2>3 DEF RowsFit
<1>16. Grows(teamVersions[t], vs) BY <1>2, <1>4 DEF Grows, RowsFit
<1>17. Leaves(c) /\ RequestStep BY <1>1, EndsStep DEF EndsWork
<1>18. drafts'[t] = es BY <1>3, <1>11 DEF TeamInv, TeamsFit
<1>19. /\ TeamsFit'
       /\ \A z \in Teams : /\ Formed(z) => Formed(z)'
                           /\ Grows(teamVersions[z], teamVersions'[z])
                           /\ z # t => teams'[z] = teams[z]
  BY <1>2, <1>3, <1>11, <1>14, <1>15, <1>16, <1>17, <1>18, Freed, RowsKeep
<1>20. Counted' /\ Grows(runs, runs') BY <1>11, <1>17, RunsStay
<1>21. SnapshotsFit' BY <1>11, <1>19, <1>20, SnapshotsKept DEF Rest
<1>22. ChatFits' BY <1>11, <1>19, ChatKept
<1>23. teamLock[t] \notin Clients BY <1>1, <1>2, Working DEF TeamFree
<1> QED BY <1>1, <1>11, <1>19, <1>20, <1>21, <1>22, <1>23, EndsKeeps

LEMMA PublishKeepsTeams ==
  ASSUME AgentInv, AgentInv', TeamInv, Rest, NEW c \in Clients, PublishTeam(c)
  PROVE  TeamInv'
<1>1. /\ works[c] # None /\ works[c].op = "team.publish" /\ works[c].at = "capture"
      /\ Uncaptured(c) = {} /\ EndsWork(c)
  BY DEF PublishTeam, Doing
<1>2. PICK w, t, y, ds, vs : /\ w = works[c] /\ t = w.on /\ y = teams[t] /\ ds = drafts[t]
                             /\ vs = teamVersions[t]
  OBVIOUS
<1>3. /\ w \in TeamWork /\ WorkFits(w, c) /\ t \in Teams /\ Formed(t) /\ Captures(w, c)
  BY <1>1, <1>2, Working DEF WorkFits
<1>4. y \in Team /\ y # None /\ RowsFit(y, ds, vs)
  BY <1>2, <1>3 DEF Formed, TeamInv, TeamsFit, TeamRows, RowsFit
<1>5. /\ w.rev = y.rev /\ y.rev \in Nat \ {0} /\ w.draft = y.draft /\ DOMAIN w.rows = w.draft
      /\ AllOn(w.rows) /\ w.rows \in Rows /\ teamLock[t] = c
  BY <1>1, <1>2, <1>3, <1>4 DEF Captures, Uncaptured, Team, TeamWork
<1>6. vs \in Seq(TeamVersion) /\ Len(vs) \in Nat BY <1>4 DEF RowsFit
<1>7. PICK x, n : n = Len(vs) + 1 /\ x = [y EXCEPT !.current = n] OBVIOUS
<1>8. x \in Team /\ x.rev = y.rev /\ x.draft = y.draft /\ x.current = n
  BY <1>4, <1>6, <1>7 DEF Team
<1>9. PICK v : v = [rev |-> w.rev, members |-> w.rows] OBVIOUS
<1>10. v \in TeamVersion /\ v.rev = w.rev /\ v.members = w.rows BY <1>5, <1>9 DEF TeamVersion
<1>11. PICK us : us = Append(vs, v) OBVIOUS
<1>12. /\ teams' = [teams EXCEPT ![t] = x] /\ teamVersions' = [teamVersions EXCEPT ![t] = us]
       /\ UNCHANGED <<drafts, chat, runs, snapshots>>
  BY <1>2, <1>7, <1>9, <1>11 DEF PublishTeam
<1>13. /\ us \in Seq(TeamVersion) /\ Len(us) = n /\ us[n] = v /\ Grows(vs, us)
       /\ \A m \in 1..n : m = n \/ (m \in 1..Len(vs) /\ us[m] = vs[m])
  BY <1>6, <1>7, <1>10, <1>11, Appends
<1>14. x # None BY <1>8, TeamAssumption
<1>15. RowsFit(x, ds, us)
  <2>1. IsDraft(v, ds) /\ AllOn(v.members)
    <3>1. Len(ds) = y.rev /\ ds[y.rev].members = y.draft BY <1>4 DEF RowsFit
    <3> QED BY <1>5, <1>10, <3>1 DEF IsDraft
  <2>2. ASSUME NEW m \in 1..Len(us)
        PROVE  IsDraft(us[m], ds) /\ AllOn(us[m].members)
    BY <1>4, <1>13, <2>1 DEF RowsFit
  <2>3. x.current \in 0..Len(us) BY <1>6, <1>7, <1>8, <1>13
  <2> QED BY <1>4, <1>8, <1>13, <1>14, <2>2, <2>3 DEF RowsFit
<1>16. Leaves(c) /\ RequestStep BY <1>1, EndsStep DEF EndsWork
<1>17. teamVersions'[t] = us BY <1>3, <1>12 DEF TeamInv, TeamsFit
<1>18. /\ TeamsFit'
       /\ \A z \in Teams : /\ Formed(z) => Formed(z)'
                           /\ Grows(teamVersions[z], teamVersions'[z])
                           /\ z # t => teams'[z] = teams[z]
  <2>1. teamLock' \in [Teams -> Clients \cup {None}] /\ chatLock' \in Clients \cup {None}
    BY <1>16, Freed
  <2>2. Grows(teamVersions[t], us) BY <1>2, <1>13
  <2>3. drafts' = drafts /\ drafts'[t] = ds BY <1>2, <1>12
  <2> QED BY <1>3, <1>12, <1>14, <1>15, <1>17, <2>1, <2>2, <2>3, RowsKeep
<1>19. Counted' /\ Grows(runs, runs') BY <1>12, <1>16, RunsStay
<1>20. SnapshotsFit' BY <1>12, <1>18, <1>19, SnapshotsKept DEF Rest
<1>21. ChatFits' BY <1>12, <1>18, ChatKept
<1> QED BY <1>1, <1>5, <1>12, <1>18, <1>19, <1>20, <1>21, EndsKeeps

(* A message is added, with or without a run. *)
LEMMA MessageKeeps ==
  ASSUME AgentInv, AgentInv', TeamInv, Rest, NEW c \in Clients, SendMessage(c) \/ AddAnswer(c)
  PROVE  TeamInv'
<1>1. works[c] # None /\ works[c].at = "commit" /\ EndsWork(c) /\ works[c].op \in {"message", "answer"}
  BY DEF SendMessage, AddAnswer, Doing
<1>2. PICK w : w = works[c] OBVIOUS
<1>3. w \in TeamWork /\ WorkFits(w, c) BY <1>1, <1>2, Working
<1>4. chatLock = c /\ w.seq = Len(chat) + 1 BY <1>1, <1>2, <1>3 DEF WorkFits
<1>5. chat \in Seq(Message) /\ runs \in Seq(Run) /\ Len(chat) \in Nat /\ Len(runs) \in Nat
  BY Length DEF TeamInv, ChatFits
<1>6. PICK m \in Message : chat' = Append(chat, m) /\ m.seq = Len(chat) + 1
  <2>1. PICK a \in Nat : chat' = Append(chat, [seq |-> w.seq, answers |-> a])
    <3>1. CASE SendMessage(c) BY <1>2, <3>1 DEF SendMessage
    <3>2. CASE AddAnswer(c)
      <4>1. w.op = "answer" BY <1>2, <3>2 DEF AddAnswer, Doing
      <4>2. w.on \in Nat BY <1>3, <1>5, <4>1 DEF WorkFits
      <4> QED BY <1>2, <3>2, <4>2 DEF AddAnswer
    <3> QED BY <3>1, <3>2
  <2>2. PICK m : m = [seq |-> w.seq, answers |-> a] OBVIOUS
  <2>3. m \in Message /\ m.seq = w.seq BY <1>4, <1>5, <2>2 DEF Message
  <2> QED BY <1>4, <2>1, <2>2, <2>3
<1>7. /\ chat' \in Seq(Message) /\ Len(chat') = Len(chat) + 1
      /\ \A i \in 1..Len(chat') : chat'[i].seq = i
  <2>1. /\ chat' \in Seq(Message) /\ Len(chat') = Len(chat) + 1 /\ chat'[Len(chat) + 1] = m
        /\ \A i \in 1..(Len(chat) + 1) : i = Len(chat) + 1 \/ (i \in 1..Len(chat) /\ chat'[i] = chat[i])
    BY <1>5, <1>6, Appends
  <2> QED BY <1>6, <2>1 DEF TeamInv, ChatFits
<1>8. UNCHANGED <<teams, teamVersions, drafts, snapshots>> BY DEF SendMessage, AddAnswer
<1>9. /\ runs' \in Seq(Run) /\ Grows(runs, runs')
      /\ \A r \in 1..Len(runs') : runs'[r].trigger \in 1..Len(chat')
                                  /\ Published(runs'[r].actor, runs'[r].version)
      /\ Counted'
  <2>1. \A r \in 1..Len(runs) : runs[r].trigger \in 1..Len(chat')
                                /\ Published(runs[r].actor, runs[r].version)
    BY <1>5, <1>7 DEF TeamInv, ChatFits
  <2>2. CASE AddAnswer(c)
    <3>1. runs' = runs BY <2>2 DEF AddAnswer
    <3>2. RequestStep BY <1>1, EndsStep DEF EndsWork
    <3> QED BY <1>5, <2>1, <3>1, <3>2, RunsStay
  <2>3. CASE SendMessage(c)
    <3>1. PICK x : x = [actor |-> w.on, version |-> w.version, trigger |-> w.seq] OBVIOUS
    <3>2. w.op = "message" BY <1>2, <2>3 DEF SendMessage, Doing
    <3>3. w.on \in Teams \cup Agents /\ Published(w.on, w.version) /\ w.version \in Nat
      BY <1>1, <1>2, <1>3, <3>2 DEF WorkFits, TeamWork
    <3>4. /\ x \in Run /\ x.trigger \in 1..Len(chat') /\ x.actor = w.on /\ x.version = w.version
      BY <1>4, <1>5, <1>7, <3>1, <3>3 DEF Run
    <3>5. runs' = Append(runs, x) BY <1>2, <2>3, <3>1 DEF SendMessage
    <3>6. /\ runs' \in Seq(Run) /\ Len(runs') = Len(runs) + 1 /\ runs'[Len(runs) + 1] = x
          /\ Grows(runs, runs')
          /\ \A r \in 1..(Len(runs) + 1) :
               r = Len(runs) + 1 \/ (r \in 1..Len(runs) /\ runs'[r] = runs[r])
      BY <1>5, <3>4, <3>5, Appends
    <3>7. \A r \in 1..Len(runs') : runs'[r].trigger \in 1..Len(chat')
                                   /\ Published(runs'[r].actor, runs'[r].version)
      BY <2>1, <3>3, <3>4, <3>6
    <3>8. Counted'
      <4>1. PICK n : n = Len(runs) /\ n \in Nat BY <1>5
      <4>2. c \in busy BY <1>1 DEF AgentInv, OneRequest
      <4>3. Room(n + 1)' BY <1>1, <4>1, <4>2, EndCounts DEF EndsWork, TeamInv, Counted
      <4> QED BY <3>6, <4>1, <4>3 DEF Counted
    <3> QED BY <3>6, <3>7, <3>8
  <2> QED BY <2>2, <2>3
<1>10. ChatFits' BY <1>7, <1>8, <1>9 DEF ChatFits, Published
<1>11. Leaves(c) BY <1>1 DEF EndsWork
<1>12. TeamsFit' BY <1>8, <1>11, Freed DEF TeamInv, TeamsFit, TeamRows, RowsFit, IsDraft
<1>13. \A t \in Teams : Grows(teamVersions[t], teamVersions'[t])
  BY <1>8 DEF Grows, TeamInv, TeamsFit, TeamRows, RowsFit
<1>14. SnapshotsFit' BY <1>8, <1>9, <1>13, SnapshotsKept DEF Rest
<1>15. \A t \in Teams : (Formed(t) => Formed(t)') /\ teams'[t] = teams[t] BY <1>8 DEF Formed
<1> QED BY <1>1, <1>4, <1>9, <1>10, <1>12, <1>13, <1>14, <1>15, EndsKeeps

LEMMA SnapshotsEnd ==
  ASSUME AgentInv, AgentInv', TeamInv, Rest, NEW c \in Clients, EndsWork(c),
         UNCHANGED <<teams, teamVersions, drafts, chat, runs>>,
         NEW r \in 1..Len(runs), NEW s, snapshots' = [snapshots EXCEPT ![r] = s],
         SnapshotFits(s, runs[r])
  PROVE  TeamInv'
<1>1. RequestStep /\ Leaves(c) BY EndsStep DEF EndsWork
<1>2. Counted' /\ Grows(runs, runs') BY <1>1, RunsStay
<1>3. \A t \in Teams : Grows(teamVersions[t], teamVersions'[t])
  BY DEF Grows, TeamInv, TeamsFit, TeamRows, RowsFit
<1>4. TeamsFit' BY <1>1, Freed DEF TeamInv, TeamsFit, TeamRows, RowsFit, IsDraft
<1>5. ChatFits' BY <1>3, ChatKept
<1>6. SnapshotsFit'
  <2>1. \A z, x : SnapshotFits(z, x) => SnapshotFits(z, x)'
    BY DEF SnapshotFits, Exist, Rest, skillVars
  <2>2. ASSUME NEW q \in RunIds, snapshots'[q] # None
        PROVE  q <= Len(runs) /\ SnapshotFits(snapshots'[q], runs[q])
    <3>1. CASE q = r BY <3>1 DEF TeamInv, SnapshotsFit
    <3>2. CASE q # r BY <2>2, <3>2 DEF TeamInv, SnapshotsFit
    <3> QED BY <3>1, <3>2
  <2> QED BY <2>1, <2>2 DEF TeamInv, SnapshotsFit
<1>7. \A t \in Teams : (Formed(t) => Formed(t)') /\ teams'[t] = teams[t] BY DEF Formed
<1> QED BY <1>2, <1>3, <1>4, <1>5, <1>6, <1>7, EndsKeeps

LEMMA AllMessages ==
  ASSUME ChatFits, NEW r \in 1..Len(runs)
  PROVE  MessagesOf(r) = 1..runs[r].trigger
<1>1. runs[r].trigger \in 1..Len(chat) /\ Len(chat) \in Nat /\ DOMAIN chat = 1..Len(chat)
  BY DEF ChatFits
<1>2. PICK k : k = runs[r].trigger /\ k \in 1..Len(chat) BY <1>1
<1>3. ASSUME NEW i \in 1..k
      PROVE  i \in MessagesOf(r)
  <2>1. i \in DOMAIN chat /\ chat[i].seq = i /\ i <= k BY <1>1, <1>2 DEF ChatFits
  <2> QED BY <1>2, <2>1 DEF MessagesOf
<1>4. ASSUME NEW n \in MessagesOf(r)
      PROVE  n \in 1..k
  <2>1. PICK i \in DOMAIN chat : chat[i].seq <= k /\ n = chat[i].seq BY <1>2 DEF MessagesOf
  <2>2. chat[i].seq = i BY <1>1 DEF ChatFits
  <2> QED BY <1>1, <1>2, <2>1, <2>2
<1> QED BY <1>2, <1>3, <1>4

LEMMA SnapshotKeeps ==
  ASSUME AgentInv, AgentInv', TeamInv, Rest, NEW c \in Clients, SnapshotTeam(c) \/ SnapshotAgent(c)
  PROVE  TeamInv'
<1>1. works[c] # None /\ works[c].op = "snapshot" /\ EndsWork(c)
  BY DEF SnapshotTeam, SnapshotAgent, Doing
<1>2. PICK w, r : w = works[c] /\ r = w.on OBVIOUS
<1>3. WorkFits(w, c) /\ r \in 1..Len(runs) BY <1>1, <1>2, Working DEF WorkFits
<1>4. MessagesOf(r) = 1..runs[r].trigger BY <1>3, AllMessages DEF TeamInv
<1>5. UNCHANGED <<teams, teamVersions, drafts, chat, runs>> BY DEF SnapshotTeam, SnapshotAgent
<1>6. CASE SnapshotTeam(c)
  <2>1. PICK s : s = TeamSnapshot(r) OBVIOUS
  <2>2. snapshots' = [snapshots EXCEPT ![r] = s] /\ runs[r].actor \in Teams
    BY <1>2, <1>6, <2>1 DEF SnapshotTeam
  <2>3. /\ s.messages = MessagesOf(r)
        /\ s.members = teamVersions[runs[r].actor][runs[r].version].members
    BY <2>1 DEF TeamSnapshot, Selected
  <2>4. SnapshotFits(s, runs[r]) BY <1>4, <2>2, <2>3 DEF SnapshotFits
  <2> QED BY <1>1, <1>3, <1>5, <2>2, <2>4, SnapshotsEnd
<1>7. CASE SnapshotAgent(c)
  <2>1. /\ w.at = "read" /\ tasks[c] # None /\ tasks[c].at = "done" /\ Enabled(tasks[c].row)
        /\ Startable(tasks[c].row)
    BY <1>2, <1>7 DEF SnapshotAgent, Doing, Called, Usable
  <2>2. PICK row, s, a : row = tasks[c].row /\ s = AgentSnapshot(r, row) /\ a = runs[r].actor OBVIOUS
  <2>3. snapshots' = [snapshots EXCEPT ![r] = s] BY <1>2, <1>7, <2>2 DEF SnapshotAgent
  <2>4. a \in Agents /\ a \notin Teams BY <1>2, <1>3, <2>1, <2>2, TeamAssumption DEF WorkFits
  <2>5. row # None /\ Exist(row.binds) BY <2>1, <2>2 DEF Enabled, TeamInv, BindsExist
  <2>6. row.names = {b.skill : b \in row.binds} BY <2>1, <2>2 DEF Startable
  <2>7. s.messages = MessagesOf(r) /\ s.skills = row.binds /\ s.members[a] = row
    BY <2>2 DEF AgentSnapshot
  <2>8. s.members[a].names = {b.skill : b \in s.skills} BY <2>6, <2>7
  <2>9. SnapshotFits(s, runs[r]) BY <1>4, <2>2, <2>4, <2>5, <2>7, <2>8 DEF SnapshotFits
  <2> QED BY <1>1, <1>3, <1>5, <2>3, <2>9, SnapshotsEnd
<1> QED BY <1>6, <1>7

-----------------------------------------------------------------------------
(* The invariant *)

LEMMA TeamRest ==
  ASSUME ByTeams(TeamNext)
  PROVE  UNCHANGED <<identityVars, skillVars>> /\ Rest
<1>1. UNCHANGED <<identityVars, skillVars>> BY DEF ByTeams
<1>2. ASSUME NEW c \in Clients, TeamBegin(c) \/ TeamGoesOn(c) \/ BreakWork(c)
      PROVE  UNCHANGED <<agents, pointer>>
  BY <1>2, TeamBegins, TeamWorks DEF KeepTasks, KeepAgents, BreakWork
<1>3. ASSUME NEW t \in Teams, CreateTeam(t) \/ \E b \in BOOLEAN : EnableTeam(t, b)
      PROVE  UNCHANGED <<agents, pointer>>
  BY <1>3 DEF CreateTeam, EnableTeam, KeepTasks, KeepAgents
<1>4. UNCHANGED <<agents, pointer>> BY <1>2, <1>3 DEF ByTeams, TeamNext
<1> QED BY <1>1, <1>4 DEF Rest

LEMMA TeamGoesOnKeeps ==
  ASSUME AgentInv, AgentInv', TeamInv, Rest, NEW c \in Clients, TeamGoesOn(c) \/ BreakWork(c)
  PROVE  TeamInv'
<1>1. CASE SaveRefused(c) \/ EmptyDraft(c) \/ TeamUnavailable(c) \/ KeepSnapshot(c)
           \/ SnapshotFails(c) \/ AgentUnavailable(c) \/ BreakWork(c)
  <2>1. /\ Leaves(c) /\ RowsStill /\ tasks' = [tasks EXCEPT ![c] = None]
        /\ Ends(c) \/ BreaksOff(c)
    BY <1>1 DEF SaveRefused, EmptyDraft, TeamUnavailable, KeepSnapshot, SnapshotFails,
       AgentUnavailable, BreakWork, EndsWork, RowsStill
  <2> QED BY <2>1, LeavesKeeps
<1>2. CASE ReadMember(c) \/ ReadActor(c) \/ ReadRunAgent(c)
  BY <1>2, ReadMemberKeeps, ReadActorKeeps, ReadRunAgentKeeps
<1>3. CASE LockTeam(c) \/ CaptureMember(c) \/ ResolveTeam(c) \/ ResolveAgent(c) \/ NumberMessage(c)
  BY <1>3, LockTeamKeeps, CaptureKeeps, ResolveKeepsTeams, NumberKeeps
<1>4. CASE SaveTeam(c) \/ PublishTeam(c) BY <1>4, SaveKeepsTeams, PublishKeepsTeams
<1>5. CASE SendMessage(c) \/ AddAnswer(c) BY <1>5, MessageKeeps
<1>6. CASE SnapshotTeam(c) \/ SnapshotAgent(c) BY <1>6, SnapshotKeeps
<1> QED BY <1>1, <1>2, <1>3, <1>4, <1>5, <1>6 DEF TeamGoesOn

LEMMA TeamInvNext ==
  ASSUME AgentInv, AgentInv', SkillInv, SkillInv', SessionInv, TeamInv, [Next]_vars
  PROVE  TeamInv'
<1>1. CASE ByTeams(TeamNext)
  <2>1. UNCHANGED <<identityVars, skillVars>> /\ Rest BY <1>1, TeamRest
  <2> QED BY <1>1, <2>1, TeamBeginKeeps, TeamGoesOnKeeps, CreateKeepsTeams, EnableKeepsTeams
          DEF ByTeams, TeamNext
<1> QED BY <1>1, ByIdentityKeeps, BySkillsKeeps, ByAgentsKeeps, NothingKeeps DEF Next

LEMMA TeamInvariant == Spec => []TeamInv
<1>1. Init => TeamInv BY TeamInvInit
<1>2. /\ AgentInv /\ AgentInv' /\ SkillInv /\ SkillInv' /\ SessionInv
      /\ TeamInv /\ [Next]_vars
      => TeamInv'
  BY TeamInvNext
<1> QED BY <1>1, <1>2, AgentInvariant, SkillInvariant, SessionInvariant, PTL DEF Spec

(* A draft is saved only over the one its editor has seen, and from the lock of
   the team to the commit of its publication neither the draft nor the revision
   moves, although the members are read one by one: so each version is the draft
   of its revision, of members that were enabled.  For any number of teams,
   agents, clients, requests and faults. *)
THEOREM VersionsOfTeams == Spec => []TeamVersionsAreDrafts
<1>1. TeamInv => TeamVersionsAreDrafts
  <2> SUFFICES ASSUME TeamInv, NEW t \in Teams
               PROVE  /\ \A n \in DOMAIN drafts[t] : drafts[t][n].seen = n - 1
                      /\ \A n \in DOMAIN teamVersions[t] :
                           LET v == teamVersions[t][n] IN
                           /\ DOMAIN v.members = drafts[t][v.rev].members
                           /\ \A a \in DOMAIN v.members : v.members[a].on
    BY DEF TeamVersionsAreDrafts
  <2>1. PICK ds, vs : ds = drafts[t] /\ vs = teamVersions[t] OBVIOUS
  <2>2. RowsFit(teams[t], ds, vs) BY <2>1 DEF TeamInv, TeamsFit, TeamRows
  <2>3. DOMAIN ds = 1..Len(ds) /\ DOMAIN vs = 1..Len(vs) BY <2>2 DEF RowsFit
  <2> QED BY <2>1, <2>2, <2>3 DEF RowsFit, IsDraft, AllOn
<1> QED BY <1>1, TeamInvariant, PTL

(* The version of a team that a message selects stays, messages are numbered in
   order under the lock of the conversation, and what an agent's row is bound to
   was published and stays: so a snapshot has the version selected, every message
   up to its own, and no skill that is not there.  For any number of messages,
   runs, teams, agents, skills, clients and faults. *)
THEOREM SnapshotsWhole == Spec => []SnapshotIsWhole
<1>1. TeamInv /\ SkillInv => SnapshotIsWhole
  <2> SUFFICES ASSUME TeamInv, SkillInv, NEW r \in DOMAIN runs, snapshots[r] # None
               PROVE  /\ snapshots[r].messages = 1..runs[r].trigger
                      /\ IF runs[r].actor \in Teams
                         THEN snapshots[r].members = teamVersions[runs[r].actor][runs[r].version].members
                         ELSE /\ snapshots[r].members[runs[r].actor].names
                                   = {b.skill : b \in snapshots[r].skills}
                              /\ \A b \in snapshots[r].skills : b.version \in DOMAIN versions[b.skill]
    BY DEF SnapshotIsWhole
  <2>1. r \in 1..Len(runs) /\ Len(runs) \in Nat BY DEF TeamInv, ChatFits
  <2>2. Len(runs) <= MaxRequests
    <3>1. Cardinality(busy) \in Nat BY FS_CardinalityType DEF TeamInv, Counted, Room
    <3> QED BY <2>1, <3>1, RequestAssumption DEF TeamInv, Counted, Room
  <2>3. r \in RunIds BY <2>1, <2>2, RequestAssumption DEF RunIds
  <2>4. SnapshotFits(snapshots[r], runs[r]) BY <2>3 DEF TeamInv, SnapshotsFit
  <2>5. ASSUME NEW b, b \in Binding, b.version <= Len(versions[b.skill])
        PROVE  b.version \in DOMAIN versions[b.skill]
    <3>1. b.skill \in Skills /\ b.version \in Nat \ {0} BY <2>5 DEF Binding
    <3>2. versions[b.skill] \in Seq(Version) BY <3>1 DEF SkillInv, SkillTypes
    <3> QED BY <2>5, <3>1, <3>2
  <2> QED BY <2>4, <2>5 DEF SnapshotFits, Exist
<1> QED BY <1>1, TeamInvariant, SkillInvariant, PTL

(* Every component keeps its types, and a client is busy exactly when one of them
   works on a request of its. *)
THEOREM TypesKept == Spec => []TypeOK
<1>1. AgentInv /\ SkillInv /\ SessionInv /\ TeamInv => TypeOK
  <2> SUFFICES ASSUME AgentInv, SkillInv, SessionInv, TeamInv PROVE TypeOK OBVIOUS
  <2>1. RequestTypeOK BY DEF TeamInv, Counted, Room, RequestTypeOK
  <2>2. IdentityTypeOK BY DEF SessionInv
  <2>3. SkillTypeOK BY DEF SkillInv, SkillTypes, DraftsAgree, TeamInv, CurrentExists, SkillTypeOK
  <2>4. AgentTypeOK BY DEF AgentInv
  <2>5. TeamTypeOK
    <3>1. \A t \in Teams : RowsFit(teams[t], drafts[t], teamVersions[t])
      BY DEF TeamInv, TeamsFit, TeamRows
    <3>2. PICK x : x = runs /\ x \in Seq(Run) BY DEF TeamInv, ChatFits
    <3>3. \A r \in DOMAIN x : x[r] \in Run BY <3>2, Elements
    <3>4. \A r \in DOMAIN runs : runs[r].actor \in Teams \cup Agents BY <3>2, <3>3 DEF Run
    <3> QED BY <3>1, <3>4 DEF TeamTypeOK, TeamInv, TeamsFit, RowsFit, Formed
  <2>6. ASSUME NEW c \in Clients
        PROVE  c \in busy <=> (txs[c] # None \/ edits[c] # None \/ tasks[c] # None \/ works[c] # None)
    BY DEF AgentInv, OneRequest, TeamInv, Served
  <2> QED BY <2>1, <2>2, <2>3, <2>4, <2>5, <2>6 DEF TypeOK
<1> QED BY <1>1, AgentInvariant, SkillInvariant, SessionInvariant, TeamInvariant, PTL
=============================================================================
