------------------------ MODULE RunnerGateway_proofs ------------------------
(***************************************************************************)
(* Proofs about the Runner Gateway for any number of threads, keys, calls, *)
(* requests, faults and restarts.                                          *)
(*                                                                         *)
(* The invariant has these parts, each proved with the help of those       *)
(* before it: Typed, what the state and what a thread carries are made of; *)
(* Fenced, what a thread relies on that holds the row or marks a deletion; *)
(* ToolsRun, what a thread knows of the call it serves; Logged, that what  *)
(* the log says was done; Counted, for the events; ReservationEnds; and    *)
(* FilesInv, which relates uploads, objects and rows.                      *)
(***************************************************************************)
EXTENDS RunnerGateway, FiniteSetTheorems, TLAPS

Bodied == (UNION {Bodies[s] : s \in Slots}) \cup Paths \cup {None}
Jobs == [at : Steps, slot : Slots \cup {None}, body : Bodied, id : 0..MaxRequests,
         out : {"none", "completed", "failed"}]
Stored == [body : Bodied, resp : {Pending} \cup Answers]
Tooling == {"run", "store"} \cup Saving

(* What a thread carries from one step to the next. *)
CarriesFor(j, op, S) ==
  j.slot \in Slots /\ j.slot.op = op /\ j.body \in Bodies[j.slot] /\ j.body \in S /\ j.id \in Ids
Carries(j) ==
  /\ j.at = "model" => CarriesFor(j, "model.invoke", Prompts)
  /\ j.at \in Tooling => CarriesFor(j, "tool.invoke", Calls \ Asked)
  /\ j.at \in Saving => j.out \in {"completed", "failed"}
  /\ j.at = "store" => j.out = "completed"
  /\ j.at \in {"put", "row", "undo"} => CarriesFor(j, "artifact.create", Paths)
  /\ j.at = "userRow" => j.body \in Paths /\ j.id \in Ids
  /\ j.at = "userDelete" => j.id \in Ids
  /\ j.at = "commit" => CarriesFor(j, "result.complete", Reports)
Working == job \in [Threads -> Jobs] /\ \A t \in Threads : Carries(job[t])

LogTyped ==
  /\ log \in [Slots -> Stored \cup {None}] /\ answers \in [Slots -> SUBSET Stored]
  /\ \A s \in Slots : log[s] # None => log[s] \in Entries(s)
  /\ \A s \in Slots : log[s] # None /\ log[s].resp = Pending => s.op = "model.invoke"
  /\ \A s \in Slots : answers[s] \subseteq Entries(s)
StateTyped ==
  /\ run \in RunStatus /\ late \in BOOLEAN
  /\ inv \in [Calls -> [st : InvStatus, by : {0} \cup Answers]] /\ effects \in [Calls -> Nat]
  /\ audits \subseteq AuditRecords /\ events \in Seq(Ids)
  /\ cp \in Checkpoints \cup {NoCheckpoint} /\ caps \subseteq Branches
  /\ lock \in Threads \cup {None} /\ sent \in 0..MaxRequests /\ faults \in 0..MaxFaults
RowsTyped == rows \in [Ids -> ArtifactRows \cup {None}] /\ objects \subseteq Ids
(* What a thread relies on that holds the row of the run, or is to mark an
   artifact as deleted. *)
Fenced ==
  \A t \in Threads :
    /\ At(t, "commit") => lock = t /\ run \notin Terminal /\ log[job[t].slot] = None
    /\ At(t, "userDelete") => rows[job[t].id] # None
Typed == Working /\ StateTyped /\ RowsTyped

-----------------------------------------------------------------------------
(* What may be asked in a slot. *)
LEMMA BodiesOf ==
  ASSUME NEW s \in Slots
  PROVE  /\ s.op = "model.invoke" => Bodies[s] = Prompts
         /\ s.op = "tool.invoke" => Bodies[s] = Calls
         /\ s.op = "artifact.create" => Bodies[s] = Paths
         /\ s.op = "event.append" => Bodies[s] = Ids
         /\ s.op = "checkpoint.write" => Bodies[s] = Checkpoints
         /\ s.op = "result.complete" => Bodies[s] = Reports
         /\ s \in [op : Ops, key : Keys]
         /\ Bodies[s] \subseteq Bodied
<1>1. s \in [op : Ops, key : Keys] BY SlotAssumption
<1>2. Bodies[s] \subseteq Bodied BY DEF Bodied
<1> QED BY <1>1, <1>2 DEF Bodies, Ids

(* An entry of a slot is one, and is told from no entry. *)
LEMMA EntryOf ==
  ASSUME NEW s \in Slots, NEW b \in Bodies[s], NEW n \in {Pending} \cup Answers
  PROVE  /\ Entry(b, n) \in Entries(s) /\ Entry(b, n) \in Stored /\ Entry(b, n) # None
         /\ Entry(b, n).body = b /\ Entry(b, n).resp = n
<1>1. b \in Bodied BY BodiesOf
<1>2. n \in Nat BY ConstantAssumption DEF Pending, Answers, Ids, Resumed
<1> QED BY <1>1, <1>2, ConstantAssumption DEF Entry, Entries, Stored

LEMMA Numbers == Pending = 0 /\ Pending \notin Answers /\ Ids \subseteq Answers /\ Resumed \in Answers
BY ConstantAssumption DEF Pending, Answers, Ids, Resumed

-----------------------------------------------------------------------------
(* What threads carry, through the steps that change it. *)
LEMMA WorkKept ==
  ASSUME Working, NEW t \in Threads, NEW j \in Jobs, Carries(j), job' = [job EXCEPT ![t] = j]
  PROVE  Working'
<1> USE DEF Working
<1>1. job' \in [Threads -> Jobs] OBVIOUS
<1>2. \A u \in Threads : job'[u] = job[u] \/ job'[u] = j OBVIOUS
<1>3. \A u \in Threads : Carries(job'[u]) BY <1>2
<1> QED BY <1>1, <1>3

LEMMA IdleWork == Idle \in Jobs /\ Carries(Idle)
<1>1. 0 \in 0..MaxRequests BY ConstantAssumption
<1> QED BY <1>1 DEF Idle, Jobs, Bodied, Steps, Carries, Saving, Tooling

LEMMA DoneKeeps ==
  ASSUME Working, NEW t \in Threads, Done(t)
  PROVE  Working' /\ sent' = sent
BY WorkKept, IdleWork DEF Done

LEMMA GoKeeps ==
  ASSUME Working, NEW t \in Threads, NEW p \in Steps, Go(t, p),
         Carries([job[t] EXCEPT !.at = p])
  PROVE  Working' /\ sent' = sent
<1>1. [job[t] EXCEPT !.at = p] \in Jobs BY DEF Working, Jobs
<1>2. job' = [job EXCEPT ![t] = [job[t] EXCEPT !.at = p]] BY DEF Go
<1> QED BY <1>1, <1>2, WorkKept DEF Go

LEMMA TakeKeeps ==
  ASSUME Working, sent \in 0..MaxRequests, NEW t \in Threads, NEW p \in Steps,
         NEW s \in Slots \cup {None}, NEW b \in Bodied, Take(t, p, s, b),
         Carries(Job(p, s, b))
  PROVE  Working' /\ sent' \in 0..MaxRequests /\ sent + 1 \in Ids
<1>1. sent + 1 \in Ids /\ sent' \in 0..MaxRequests BY ConstantAssumption DEF Take, Ids
<1>2. Job(p, s, b) \in Jobs BY <1>1 DEF Job, Jobs, Ids
<1> QED BY <1>1, <1>2, WorkKept DEF Take

(* The log, when a request is put into it, answered, or released. *)
LEMMA PutKeeps ==
  ASSUME LogTyped, NEW s \in Slots, NEW b \in Bodies[s], NEW n \in Answers,
         Put(s, b, n), Answer(s, b, n)
  PROVE  LogTyped'
<1>1. Entry(b, n) \in Entries(s) /\ Entry(b, n) \in Stored BY EntryOf
<1>2. Entry(b, n).resp # Pending BY Numbers DEF Entry
<1> QED BY <1>1, <1>2 DEF LogTyped, Put, Answer

LEMMA AnswerKeeps ==
  ASSUME LogTyped, NEW s \in Slots, NEW b \in Bodies[s], NEW n \in Answers,
         Answer(s, b, n), UNCHANGED log
  PROVE  LogTyped'
<1>1. Entry(b, n) \in Entries(s) /\ Entry(b, n) \in Stored BY EntryOf
<1> QED BY <1>1 DEF LogTyped, Answer

LEMMA FaultKeeps == ASSUME faults \in 0..MaxFaults, Fault PROVE faults' \in 0..MaxFaults
BY ConstantAssumption DEF Fault

LEMMA AuditsOf ==
  /\ \A k \in Keys, o \in {"succeeded", "failed"} : <<"llm", k, o>> \in AuditRecords
  /\ \A c \in Calls, o \in {"started", "completed", "failed"} : <<"tool", c, o>> \in AuditRecords
  /\ \A o \in Terminal : <<"run", o, "terminal">> \in AuditRecords
BY DEF AuditRecords
-----------------------------------------------------------------------------
LEMMA TypedInit == ASSUME Init PROVE Typed
<1>1. Working BY IdleWork DEF Init, Working
<1>2. StateTyped
  <2>1. run \in RunStatus /\ late \in BOOLEAN BY DEF Init, RunStatus
  <2>2. inv \in [Calls -> [st : InvStatus, by : {0} \cup Answers]] BY DEF Init, InvStatus
  <2>3. effects \in [Calls -> Nat] /\ audits \subseteq AuditRecords /\ events \in Seq(Ids)
    BY DEF Init
  <2>4. sent \in 0..MaxRequests /\ faults \in 0..MaxFaults BY ConstantAssumption DEF Init
  <2> QED BY <2>1, <2>2, <2>3, <2>4 DEF Init, StateTyped
<1>3. RowsTyped BY DEF Init, RowsTyped
<1> QED BY <1>1, <1>2, <1>3 DEF Typed

LEMMA TypedModel ==
  ASSUME Typed, NEW t \in Threads,
         \/ \E s \in Slots, b \in Prompts : ModelReserve(t, s, b)
         \/ ModelAnswered(t) \/ ModelFailed(t) \/ ModelDropped(t)
  PROVE  Typed'
<1>1. Working /\ StateTyped /\ RowsTyped /\ sent \in 0..MaxRequests
  BY DEF Typed, StateTyped
<1>2. ASSUME NEW s \in Slots, NEW b \in Prompts, ModelReserve(t, s, b) PROVE Typed'
  <2>1. s.op = "model.invoke" /\ Take(t, "model", s, b) BY <1>2 DEF ModelReserve
  <2>2. b \in Bodies[s] /\ b \in Bodied BY <2>1, BodiesOf
  <2>3. sent + 1 \in Ids BY <1>1, <2>1, ConstantAssumption DEF Take, Ids
  <2>4. Carries(Job("model", s, b))
    BY <2>1, <2>2, <2>3 DEF Carries, CarriesFor, Job, Tooling, Saving
  <2>5. Working' /\ sent' \in 0..MaxRequests
    BY <1>1, <2>1, <2>2, <2>4, TakeKeeps DEF Steps
  <2> QED BY <1>1, <1>2, <2>5 DEF Typed, StateTyped, RowsTyped, ModelReserve, state, files
<1>3. ASSUME ModelAnswered(t) \/ ModelFailed(t) PROVE Typed'
  <2>1. job[t].slot.key \in Keys
    BY <1>1, <1>3, BodiesOf DEF At, Working, Carries, CarriesFor, ModelAnswered, ModelFailed
  <2>2. Working' /\ sent' = sent BY <1>1, <1>3, DoneKeeps DEF ModelAnswered, ModelFailed
  <2>3. /\ <<"llm", job[t].slot.key, "succeeded">> \in AuditRecords
        /\ <<"llm", job[t].slot.key, "failed">> \in AuditRecords
    BY <2>1, AuditsOf
  <2>4. audits' \subseteq AuditRecords
    BY <1>1, <1>3, <2>3 DEF ModelAnswered, ModelFailed, StateTyped
  <2> QED BY <1>1, <1>3, <2>2, <2>4
    DEF Typed, StateTyped, RowsTyped, ModelAnswered, ModelFailed, files
<1>4. CASE ModelDropped(t)
  <2>1. Working' /\ sent' = sent BY <1>1, <1>4, DoneKeeps DEF ModelDropped
  <2>2. faults' \in 0..MaxFaults BY <1>1, <1>4, FaultKeeps DEF ModelDropped, StateTyped
  <2> QED BY <1>1, <1>4, <2>1, <2>2 DEF Typed, StateTyped, RowsTyped, ModelDropped, state, files
<1> QED BY <1>2, <1>3, <1>4

LEMMA TypedToolRequest ==
  ASSUME Typed, NEW t \in Threads, NEW s \in Slots, NEW c \in Calls,
         ToolStart(t, s, c) \/ ToolPause(t, s, c) \/ ToolResumed(t, s, c)
  PROVE  Typed'
<1>1. Working /\ StateTyped /\ RowsTyped /\ sent \in 0..MaxRequests
  BY DEF Typed, StateTyped
<1>2. CASE ToolStart(t, s, c)
  <2>1. sent + 1 \in Ids BY <1>1, <1>2, ConstantAssumption DEF ToolStart, Take, Ids
  <2>2. c \in Bodies[s] /\ c \in Bodied BY <1>2, BodiesOf DEF ToolStart
  <2>3. Carries(Job("run", s, c))
    BY <1>2, <2>1, <2>2 DEF Carries, CarriesFor, Job, Tooling, Saving, ToolStart
  <2>4. Working' /\ sent' \in 0..MaxRequests
    BY <1>1, <1>2, <2>2, <2>3, TakeKeeps DEF Steps, ToolStart
  <2>5. inv' \in [Calls -> [st : InvStatus, by : {0} \cup Answers]]
    BY <1>1, <1>2, <2>1, Numbers DEF ToolStart, StateTyped, InvStatus
  <2>6. audits' \subseteq AuditRecords BY <1>1, <1>2, AuditsOf DEF ToolStart, StateTyped
  <2> QED BY <1>1, <1>2, <2>4, <2>5, <2>6 DEF Typed, StateTyped, RowsTyped, ToolStart, files
<1>3. CASE ToolPause(t, s, c)
  <2>1. inv' \in [Calls -> [st : InvStatus, by : {0} \cup Answers]]
    BY <1>1, <1>3 DEF ToolPause, StateTyped, InvStatus
  <2>2. Working' BY <1>1, <1>3 DEF ToolPause, Working
  <2> QED BY <1>1, <1>3, <2>1, <2>2
    DEF Typed, StateTyped, RunStatus, RowsTyped, ToolPause, files
<1>4. CASE ToolResumed(t, s, c)
  BY <1>1, <1>4 DEF Typed, Working, StateTyped, RowsTyped, ToolResumed, state, files
<1> QED BY <1>2, <1>3, <1>4

LEMMA TypedTool ==
  ASSUME Typed, NEW t \in Threads,
         \/ ToolRun(t) \/ ToolSave(t) \/ ToolSaveBare(t) \/ ToolSaveFails(t)
         \/ ToolFenced(t) \/ ToolStore(t)
  PROVE  Typed'
<1>1. Working /\ StateTyped /\ RowsTyped /\ job[t] \in Jobs /\ Carries(job[t])
  BY DEF Typed, Working
<1>2. CASE ToolRun(t)
  <2>1. job[t].at = "run" /\ CarriesFor(job[t], "tool.invoke", Calls \ Asked)
    BY <1>1, <1>2 DEF ToolRun, At, Carries, Tooling
  <2>0. job[t].body \in Calls BY <2>1 DEF CarriesFor
  <2>2. PICK o \in {"completed", "failed"} :
          job' = [job EXCEPT ![t] = [job[t] EXCEPT !.at = "save", !.out = o]]
    BY <1>2 DEF ToolRun
  <2>3. [job[t] EXCEPT !.at = "save", !.out = o] \in Jobs BY <1>1 DEF Jobs, Steps, Saving
  <2>4. Carries([job[t] EXCEPT !.at = "save", !.out = o])
    BY <1>1, <2>1 DEF Carries, CarriesFor, Jobs, Tooling, Saving
  <2>5. Working' BY <1>1, <2>2, <2>3, <2>4, WorkKept
  <2>6. effects' \in [Calls -> Nat] BY <1>1, <1>2, <2>0 DEF ToolRun, StateTyped
  <2> QED BY <1>1, <1>2, <2>5, <2>6 DEF Typed, StateTyped, RowsTyped, ToolRun, files
<1>3. ASSUME ToolSave(t) \/ ToolSaveBare(t) PROVE Typed'
  <2>1. job[t].at \in Saving BY <1>3 DEF ToolSave, ToolSaveBare, At, Saving
  <2>2. /\ CarriesFor(job[t], "tool.invoke", Calls \ Asked)
        /\ job[t].out \in {"completed", "failed"} /\ job[t].body \in Calls
    BY <1>1, <2>1 DEF Carries, CarriesFor, Tooling
  <2>3. \/ Done(t)
        \/ Go(t, "store") /\ job[t].out = "completed"
    BY <1>3 DEF ToolSave, ToolSaveBare, AfterBare, AfterSave
  <2>4. ASSUME Go(t, "store"), job[t].out = "completed" PROVE Working' /\ sent' = sent
    <3>1. Carries([job[t] EXCEPT !.at = "store"])
      BY <1>1, <2>2, <2>4 DEF Carries, CarriesFor, Jobs, Tooling, Saving
    <3> QED BY <1>1, <2>4, <3>1, GoKeeps DEF Steps
  <2>5. Working' /\ sent' = sent BY <1>1, <2>3, <2>4, DoneKeeps
  <2>6. inv' \in [Calls -> [st : InvStatus, by : {0} \cup Answers]]
    BY <1>1, <1>3, <2>2 DEF ToolSave, ToolSaveBare, Outcome, StateTyped, InvStatus
  <2>7. audits' \subseteq AuditRecords
    <3>1. <<"tool", job[t].body, job[t].out>> \in AuditRecords BY <2>2, AuditsOf
    <3> QED BY <1>1, <1>3, <3>1 DEF ToolSave, ToolSaveBare, StateTyped
  <2> QED BY <1>1, <1>3, <2>5, <2>6, <2>7
    DEF Typed, StateTyped, RowsTyped, ToolSave, ToolSaveBare, files
<1>4. CASE ToolSaveFails(t)
  <2>1. CarriesFor(job[t], "tool.invoke", Calls \ Asked) /\ job[t].out \in {"completed", "failed"}
    BY <1>1, <1>4 DEF ToolSaveFails, At, Carries, Tooling, Saving
  <2>2. ASSUME NEW p \in {"saveAgain", "saveBare"}, Go(t, p) PROVE Working' /\ sent' = sent
    <3>1. Carries([job[t] EXCEPT !.at = p])
      BY <1>1, <2>1 DEF Carries, CarriesFor, Jobs, Tooling, Saving
    <3> QED BY <1>1, <2>2, <3>1, GoKeeps DEF Steps, Saving
  <2>3. Working' /\ sent' = sent BY <1>1, <1>4, <2>2, DoneKeeps DEF ToolSaveFails
  <2>4. faults' \in 0..MaxFaults BY <1>1, <1>4, FaultKeeps DEF ToolSaveFails, StateTyped
  <2> QED BY <1>1, <1>4, <2>3, <2>4 DEF Typed, StateTyped, RowsTyped, ToolSaveFails, state, files
<1>5. ASSUME ToolFenced(t) \/ ToolStore(t) PROVE Typed'
  <2>1. Working' /\ sent' = sent BY <1>1, <1>5, DoneKeeps DEF ToolFenced, ToolStore
  <2> QED BY <1>1, <1>5, <2>1
    DEF Typed, StateTyped, RowsTyped, ToolFenced, ToolStore, state, files
<1> QED BY <1>2, <1>3, <1>4, <1>5

LEMMA TypedServe ==
  ASSUME Typed, NEW t \in Threads, NEW s \in Slots,
         \/ \E n \in Ids : AppendEvent(t, s, n)
         \/ \E b \in Checkpoints : SaveCheckpoint(t, s, b)
         \/ \E b \in Bodies[s] : Replay(t, s, b)
  PROVE  Typed'
<1>1. Working /\ StateTyped /\ RowsTyped BY DEF Typed
<1>2. ASSUME NEW n \in Ids, AppendEvent(t, s, n) PROVE Typed'
  <2>1. sent' \in 0..MaxRequests BY <1>1, <1>2, ConstantAssumption DEF AppendEvent, Serve, StateTyped
  <2>2. events' \in Seq(Ids) BY <1>1, <1>2 DEF AppendEvent, StateTyped
  <2> QED BY <1>1, <1>2, <2>1, <2>2
    DEF Typed, Working, StateTyped, RowsTyped, AppendEvent, Serve, files
<1>3. ASSUME NEW b \in Checkpoints, SaveCheckpoint(t, s, b) PROVE Typed'
  <2>1. sent' \in 0..MaxRequests
    BY <1>1, <1>3, ConstantAssumption DEF SaveCheckpoint, Serve, StateTyped
  <2> QED BY <1>1, <1>3, <2>1 DEF Typed, Working, StateTyped, RowsTyped, SaveCheckpoint, Serve, files
<1>4. ASSUME NEW b \in Bodies[s], Replay(t, s, b) PROVE Typed'
  BY <1>1, <1>4 DEF Typed, Working, StateTyped, RowsTyped, Replay, state, files
<1> QED BY <1>2, <1>3, <1>4

LEMMA TypedArtifact ==
  ASSUME Typed, NEW t \in Threads,
         \/ \E s \in Slots, p \in Paths : ArtifactAdmit(t, s, p)
         \/ ArtifactPut(t) \/ ArtifactPutFails(t) \/ ArtifactRow(t) \/ ArtifactReplay(t)
         \/ ArtifactRejected(t) \/ ArtifactUndo(t)
  PROVE  Typed'
<1>1. /\ Working /\ StateTyped /\ RowsTyped /\ job[t] \in Jobs /\ Carries(job[t])
      /\ sent \in 0..MaxRequests
  BY DEF Typed, Working, StateTyped
<1>2. ASSUME NEW s \in Slots, NEW p \in Paths, ArtifactAdmit(t, s, p) PROVE Typed'
  <2>1. sent + 1 \in Ids BY <1>1, <1>2, ConstantAssumption DEF ArtifactAdmit, Take, Ids
  <2>2. p \in Bodies[s] /\ p \in Bodied BY <1>2, BodiesOf DEF ArtifactAdmit
  <2>3. Carries(Job("put", s, p))
    BY <1>2, <2>1, <2>2 DEF Carries, CarriesFor, Job, Tooling, Saving, ArtifactAdmit
  <2>4. Working' /\ sent' \in 0..MaxRequests
    BY <1>1, <1>2, <2>2, <2>3, TakeKeeps DEF Steps, ArtifactAdmit
  <2> QED BY <1>1, <1>2, <2>4 DEF Typed, StateTyped, RowsTyped, ArtifactAdmit, state, files
<1>3. ASSUME job[t].at \in {"put", "row", "undo"}
      PROVE  /\ job[t].id \in Ids /\ job[t].body \in Paths
             /\ \A p \in {"row", "undo"} : Carries([job[t] EXCEPT !.at = p])
  BY <1>1, <1>3 DEF Carries, CarriesFor, Jobs, Tooling, Saving
<1>4. ASSUME NEW p \in {"row", "undo"}, job[t].at \in {"put", "row", "undo"}, Go(t, p)
      PROVE  Working' /\ sent' = sent
  BY <1>1, <1>3, <1>4, GoKeeps DEF Steps
<1>5. ASSUME Done(t) PROVE Working' /\ sent' = sent
  BY <1>1, <1>5, DoneKeeps
<1>6. ASSUME Fault PROVE faults' \in 0..MaxFaults
  BY <1>1, <1>6, FaultKeeps DEF StateTyped
<1>7. CASE ArtifactPut(t)
  <2>1. Working' /\ sent' = sent BY <1>4, <1>7 DEF ArtifactPut, At
  <2> QED BY <1>1, <1>3, <1>7, <2>1 DEF Typed, StateTyped, RowsTyped, ArtifactPut, At, state
<1>8. CASE ArtifactPutFails(t)
  <2>1. Working' /\ sent' = sent BY <1>5, <1>8 DEF ArtifactPutFails
  <2> QED BY <1>1, <1>3, <1>6, <1>8, <2>1
    DEF Typed, StateTyped, RowsTyped, ArtifactPutFails, At, state
<1>9. CASE ArtifactRow(t)
  <2>1. Working' /\ sent' = sent BY <1>5, <1>9 DEF ArtifactRow
  <2>2. rows' \in [Ids -> ArtifactRows \cup {None}]
    BY <1>1, <1>3, <1>9 DEF ArtifactRow, At, RowsTyped, Row, ArtifactRows
  <2> QED BY <1>1, <1>9, <2>1, <2>2 DEF Typed, StateTyped, RowsTyped, ArtifactRow, state
<1>10. CASE ArtifactReplay(t)
  <2>1. Working' /\ sent' = sent BY <1>4, <1>10 DEF ArtifactReplay, AfterReplay, At
  <2> QED BY <1>1, <1>10, <2>1 DEF Typed, StateTyped, RowsTyped, ArtifactReplay, state, files
<1>11. CASE ArtifactRejected(t)
  <2>1. Working' /\ sent' = sent BY <1>4, <1>11 DEF ArtifactRejected, At
  <2> QED BY <1>1, <1>6, <1>11, <2>1
    DEF Typed, StateTyped, RowsTyped, ArtifactRejected, state, files
<1>12. CASE ArtifactUndo(t)
  <2>1. Working' /\ sent' = sent BY <1>5, <1>12 DEF ArtifactUndo
  <2> QED BY <1>1, <1>6, <1>12, <2>1 DEF Typed, StateTyped, RowsTyped, ArtifactUndo, state
<1> QED BY <1>2, <1>7, <1>8, <1>9, <1>10, <1>11, <1>12

LEMMA TypedUser ==
  ASSUME Typed, Fenced, NEW t \in Threads,
         \/ \E p \in Paths : UserUpload(t, p)
         \/ \E n \in Ids : UserDelete(t, n)
         \/ UserRow(t) \/ UserDeleteRow(t) \/ UserFails(t)
  PROVE  Typed'
<1>1. /\ Working /\ StateTyped /\ RowsTyped /\ job[t] \in Jobs /\ Carries(job[t])
      /\ sent \in 0..MaxRequests
  BY DEF Typed, Working, StateTyped
<1>2. ASSUME NEW p \in Paths, UserUpload(t, p) PROVE Typed'
  <2>1. sent + 1 \in Ids BY <1>1, <1>2, ConstantAssumption DEF UserUpload, Take, Ids
  <2>2. Carries(Job("userRow", None, p))
    BY <2>1 DEF Carries, CarriesFor, Job, Tooling, Saving
  <2>3. p \in Bodied BY DEF Bodied
  <2>4. Working' /\ sent' \in 0..MaxRequests
    BY <1>1, <1>2, <2>2, <2>3, TakeKeeps DEF Steps, UserUpload
  <2> QED BY <1>1, <1>2, <2>1, <2>4 DEF Typed, StateTyped, RowsTyped, UserUpload, state
<1>3. ASSUME NEW n \in Ids, UserDelete(t, n) PROVE Typed'
  <2>1. [Idle EXCEPT !.at = "userDelete", !.id = n] \in Jobs
    <3>1. n \in 0..MaxRequests BY ConstantAssumption DEF Ids
    <3> QED BY <3>1 DEF Idle, Jobs, Steps, Bodied
  <2>2. Carries([Idle EXCEPT !.at = "userDelete", !.id = n])
    BY DEF Carries, Idle, Tooling, Saving
  <2>3. Working' BY <1>1, <1>3, <2>1, <2>2, WorkKept DEF UserDelete
  <2> QED BY <1>1, <1>3, <2>3 DEF Typed, StateTyped, RowsTyped, UserDelete, state
<1>4. ASSUME Done(t) PROVE Working' /\ sent' = sent
  BY <1>1, <1>4, DoneKeeps
<1>5. CASE UserRow(t)
  <2>1. Working' /\ sent' = sent BY <1>4, <1>5 DEF UserRow
  <2>2. job[t].body \in Paths /\ job[t].id \in Ids BY <1>1, <1>5 DEF UserRow, At, Carries
  <2>3. rows' \in [Ids -> ArtifactRows \cup {None}]
    BY <1>1, <1>5, <2>2 DEF UserRow, RowsTyped, Row, ArtifactRows
  <2> QED BY <1>1, <1>5, <2>1, <2>3 DEF Typed, StateTyped, RowsTyped, UserRow, state
<1>6. CASE UserDeleteRow(t)
  <2>1. Working' /\ sent' = sent BY <1>4, <1>6 DEF UserDeleteRow
  <2>2. job[t].id \in Ids /\ rows[job[t].id] \in ArtifactRows
    BY <1>1, <1>6 DEF UserDeleteRow, At, Carries, Fenced, RowsTyped
  <2>3. rows' \in [Ids -> ArtifactRows \cup {None}]
    BY <1>1, <1>6, <2>2 DEF UserDeleteRow, RowsTyped, ArtifactRows
  <2> QED BY <1>1, <1>6, <2>1, <2>3 DEF Typed, StateTyped, RowsTyped, UserDeleteRow, state
<1>7. CASE UserFails(t)
  <2>1. Working' /\ sent' = sent BY <1>4, <1>7 DEF UserFails
  <2>2. faults' \in 0..MaxFaults BY <1>1, <1>7, FaultKeeps DEF UserFails, StateTyped
  <2> QED BY <1>1, <1>7, <2>1, <2>2 DEF Typed, StateTyped, RowsTyped, UserFails, state, files
<1> QED BY <1>2, <1>3, <1>5, <1>6, <1>7

LEMMA TypedComplete ==
  ASSUME Typed, NEW t \in Threads,
         \/ \E s \in Slots, r \in Reports : CompleteBegin(t, s, r)
         \/ CompleteCommit(t)
  PROVE  Typed'
<1>1. /\ Working /\ StateTyped /\ RowsTyped /\ job[t] \in Jobs /\ Carries(job[t])
      /\ sent \in 0..MaxRequests
  BY DEF Typed, Working, StateTyped
<1>2. ASSUME NEW s \in Slots, NEW r \in Reports, CompleteBegin(t, s, r) PROVE Typed'
  <2>1. sent + 1 \in Ids BY <1>1, <1>2, ConstantAssumption DEF CompleteBegin, Take, Ids
  <2>2. r \in Bodies[s] /\ r \in Bodied BY <1>2, BodiesOf DEF CompleteBegin
  <2>3. Carries(Job("commit", s, r))
    BY <1>2, <2>1, <2>2 DEF Carries, CarriesFor, Job, Tooling, Saving, CompleteBegin
  <2>4. Working' /\ sent' \in 0..MaxRequests
    BY <1>1, <1>2, <2>2, <2>3, TakeKeeps DEF Steps, CompleteBegin
  <2> QED BY <1>1, <1>2, <2>4 DEF Typed, StateTyped, RowsTyped, CompleteBegin, state, files
<1>3. CASE CompleteCommit(t)
  <2>1. Working' /\ sent' = sent BY <1>1, <1>3, DoneKeeps DEF CompleteCommit
  <2>2. job[t].body \in Terminal \cup {"interrupted"}
    BY <1>1, <1>3, ConstantAssumption DEF CompleteCommit, At, Carries, CarriesFor
  <2>3. run' \in RunStatus
    BY <1>1, <1>3, <2>2 DEF CompleteCommit, Target, RunStatus, StateTyped
  <2>4. audits' \subseteq AuditRecords
    <3>1. job[t].body \in Terminal => <<"run", job[t].body, "terminal">> \in AuditRecords
      BY AuditsOf
    <3> QED BY <1>1, <1>3, <2>2, <3>1 DEF CompleteCommit, StateTyped
  <2> QED BY <1>1, <1>3, <2>1, <2>3, <2>4 DEF Typed, StateTyped, RowsTyped, CompleteCommit, files
<1> QED BY <1>2, <1>3

LEMMA TypedRest ==
  ASSUME Typed, End \/ DeadlinePasses \/ Restart \/ \E c \in Calls : Decide(c)
  PROVE  Typed'
<1>1. Working /\ StateTyped /\ RowsTyped BY DEF Typed
<1>2. CASE End
  BY <1>1, <1>2 DEF Typed, Working, StateTyped, RunStatus, Terminal, RowsTyped, End, files
<1>3. CASE DeadlinePasses
  BY <1>1, <1>3 DEF Typed, Working, StateTyped, RowsTyped, DeadlinePasses, files
<1>4. CASE Restart
  <2>1. Working' BY <1>4, IdleWork DEF Restart, Working
  <2>2. faults' \in 0..MaxFaults BY <1>1, <1>4, FaultKeeps DEF Restart, StateTyped
  <2> QED BY <1>1, <1>4, <2>1, <2>2 DEF Typed, StateTyped, RowsTyped, Restart, state, files
<1>5. ASSUME NEW c \in Calls, Decide(c) PROVE Typed'
  <2>1. inv' \in [Calls -> [st : InvStatus, by : {0} \cup Answers]]
    BY <1>1, <1>5, Numbers DEF Decide, StateTyped, InvStatus
  <2>2. effects' \in [Calls -> Nat] BY <1>1, <1>5 DEF Decide, StateTyped
  <2>3. audits' \subseteq AuditRecords
    <3>1. <<"tool", c, "completed">> \in AuditRecords BY AuditsOf
    <3> QED BY <1>1, <1>5, <3>1 DEF Decide, StateTyped
  <2> QED BY <1>1, <1>5, <2>1, <2>2, <2>3
    DEF Typed, Working, StateTyped, RunStatus, RowsTyped, Decide, files
<1> QED BY <1>2, <1>3, <1>4, <1>5

LEMMA TypedStep == ASSUME Typed, Fenced, [Next]_vars PROVE Typed'
<1>1. CASE UNCHANGED vars
  BY <1>1 DEF Typed, Working, StateTyped, RowsTyped, vars, state, files
<1>2. ASSUME NEW t \in Threads, NEW s \in Slots, Request(t, s) PROVE Typed'
  BY <1>2, TypedModel, TypedToolRequest, TypedServe, TypedArtifact, TypedComplete DEF Request
<1>3. ASSUME NEW t \in Threads, Other(t) PROVE Typed'
  <2>1. ASSUME NEW b \in Branches, RegisterCapability(t, b) PROVE Typed'
    BY <2>1 DEF Typed, Working, StateTyped, RowsTyped, RegisterCapability, files
  <2> QED BY <1>3, <2>1, TypedUser DEF Other
<1>4. ASSUME NEW t \in Threads, Continue(t) PROVE Typed'
  BY <1>4, TypedModel, TypedTool, TypedArtifact, TypedUser, TypedComplete DEF Continue
<1> QED BY <1>1, <1>2, <1>3, <1>4, TypedRest DEF Next

-----------------------------------------------------------------------------
(* Every thread stays where it is or goes to one of these steps. *)
JobsMove(P) == \A u \in Threads : job'[u] = job[u] \/ job'[u].at \in P

LEMMA Moving ==
  ASSUME Working, NEW t \in Threads
  PROVE  /\ job' = job => JobsMove({})
         /\ Done(t) => JobsMove({"idle"})
         /\ \A p \in Steps : Go(t, p) => JobsMove({p})
         /\ \A p, s, b : Take(t, p, s, b) => JobsMove({p})
<1>1. job \in [Threads -> Jobs] /\ job[t] \in Jobs BY DEF Working
<1>2. Done(t) => JobsMove({"idle"}) BY <1>1 DEF Done, JobsMove, Idle
<1>3. ASSUME NEW p \in Steps, Go(t, p) PROVE JobsMove({p})
  BY <1>1, <1>3 DEF Go, JobsMove, Jobs
<1>4. ASSUME NEW p, NEW s, NEW b, Take(t, p, s, b) PROVE JobsMove({p})
  BY <1>1, <1>4 DEF Take, JobsMove, Job
<1> QED BY <1>1, <1>2, <1>3, <1>4 DEF JobsMove

Quietly ==
  /\ JobsMove(Steps \ {"commit", "userDelete"})
  /\ lock = None \/ UNCHANGED <<lock, run, log>>
  /\ \A n \in Ids : rows[n] # None => rows'[n] # None
LEMMA QuietKeeps ==
  ASSUME Typed, Typed', Fenced, Quietly
  PROVE  Fenced'
<1>1. \A u \in Threads : job'[u].at \in {"commit", "userDelete"} => job'[u] = job[u]
  BY DEF Quietly, JobsMove
<1>2. \A u \in Threads : At(u, "userDelete") => job[u].id \in Ids
  BY DEF Typed, Working, Carries, At
<1>3. \A u \in Threads : At(u, "commit") => lock # None
  BY ConstantAssumption DEF Fenced
<1>4. ASSUME NEW u \in Threads, At(u, "commit")'
      PROVE  (lock = u /\ run \notin Terminal /\ log[job[u].slot] = None)'
  BY <1>1, <1>3, <1>4 DEF Fenced, Quietly, At
<1>5. ASSUME NEW u \in Threads, At(u, "userDelete")'
      PROVE  (rows[job[u].id] # None)'
  BY <1>1, <1>2, <1>5 DEF Fenced, Quietly, At
<1> QED BY <1>4, <1>5 DEF Fenced

LEMMA QuietRequests ==
  ASSUME Typed, NEW t \in Threads, NEW s \in Slots, Request(t, s),
         ~(\E r \in Reports : CompleteBegin(t, s, r))
  PROVE  Quietly
<1>1. Working BY DEF Typed
<1>2. ASSUME NEW b \in Bodies[s], Replay(t, s, b) PROVE Quietly
  BY <1>1, <1>2, Moving DEF Replay, Quietly, JobsMove, Free, files
<1>3. ASSUME NEW b \in Prompts, ModelReserve(t, s, b) PROVE Quietly
  BY <1>1, <1>3, Moving DEF ModelReserve, Opens, Free, Quietly, JobsMove, Steps, files
<1>4. ASSUME NEW c \in Calls, ToolStart(t, s, c) PROVE Quietly
  BY <1>1, <1>4, Moving DEF ToolStart, Opens, Free, Quietly, JobsMove, Steps, files
<1>5. ASSUME NEW c \in Calls, ToolPause(t, s, c) \/ ToolResumed(t, s, c) PROVE Quietly
  BY <1>1, <1>5, Moving DEF ToolPause, ToolResumed, Opens, Free, Quietly, JobsMove, files
<1>6. ASSUME NEW n \in Ids, AppendEvent(t, s, n) PROVE Quietly
  BY <1>1, <1>6, Moving DEF AppendEvent, Serve, Opens, Free, Quietly, JobsMove, files
<1>7. ASSUME NEW b \in Checkpoints, SaveCheckpoint(t, s, b) PROVE Quietly
  BY <1>1, <1>7, Moving DEF SaveCheckpoint, Serve, Opens, Free, Quietly, JobsMove, files
<1>8. ASSUME NEW p \in Paths, ArtifactAdmit(t, s, p) PROVE Quietly
  BY <1>1, <1>8, Moving DEF ArtifactAdmit, Opens, Free, Quietly, JobsMove, Steps, files
<1> QED BY <1>2, <1>3, <1>4, <1>5, <1>6, <1>7, <1>8 DEF Request

LEMMA QuietModelAndTool ==
  ASSUME Typed, NEW t \in Threads,
         \/ ModelAnswered(t) \/ ModelFailed(t) \/ ModelDropped(t)
         \/ ToolRun(t) \/ ToolSave(t) \/ ToolSaveBare(t) \/ ToolSaveFails(t)
         \/ ToolFenced(t) \/ ToolStore(t)
  PROVE  Quietly
<1>1. Working BY DEF Typed
<1>2. ASSUME ModelAnswered(t) \/ ModelFailed(t) \/ ModelDropped(t) PROVE Quietly
  BY <1>1, <1>2, Moving
  DEF ModelAnswered, ModelFailed, ModelDropped, Quietly, JobsMove, Steps, files
<1>3. CASE ToolRun(t)
  <2>1. PICK o \in {"completed", "failed"} : job' = [job EXCEPT ![t].at = "save", ![t].out = o]
    BY <1>3 DEF ToolRun
  <2>2. JobsMove({"save"}) BY <1>1, <2>1 DEF JobsMove, Working, Jobs
  <2> QED BY <1>3, <2>2 DEF ToolRun, Quietly, JobsMove, Steps, Saving, requests, files
<1>4. ASSUME ToolSave(t) \/ ToolSaveBare(t) PROVE Quietly
  <2>1. Go(t, "store") \/ Done(t) BY <1>4 DEF ToolSave, ToolSaveBare, AfterSave, AfterBare
  <2>2. JobsMove({"store"}) \/ JobsMove({"idle"}) BY <1>1, <2>1, Moving DEF Steps
  <2> QED BY <1>4, <2>2 DEF ToolSave, ToolSaveBare, Quietly, JobsMove, Steps, requests, files
<1>5. CASE ToolSaveFails(t)
  <2>1. JobsMove({"saveAgain"}) \/ JobsMove({"saveBare"}) \/ JobsMove({"idle"})
    BY <1>1, <1>5, Moving DEF ToolSaveFails, Steps, Saving
  <2> QED BY <1>5, <2>1 DEF ToolSaveFails, Quietly, JobsMove, Steps, Saving, files
<1>6. ASSUME ToolFenced(t) \/ ToolStore(t) PROVE Quietly
  BY <1>1, <1>6, Moving DEF ToolFenced, ToolStore, Quietly, JobsMove, Steps, files
<1> QED BY <1>2, <1>3, <1>4, <1>5, <1>6

LEMMA QuietFiles ==
  ASSUME Typed, Fenced, NEW t \in Threads,
         \/ ArtifactPut(t) \/ ArtifactPutFails(t) \/ ArtifactRow(t) \/ ArtifactReplay(t)
         \/ ArtifactRejected(t) \/ ArtifactUndo(t)
         \/ \E p \in Paths : UserUpload(t, p)
         \/ UserRow(t) \/ UserDeleteRow(t) \/ UserFails(t)
  PROVE  Quietly
<1>1. Working /\ RowsTyped /\ job[t] \in Jobs /\ Carries(job[t]) BY DEF Typed, Working
<1>2. ASSUME ArtifactPut(t) \/ ArtifactPutFails(t) \/ ArtifactUndo(t) PROVE Quietly
  <2>1. JobsMove({"row"}) \/ JobsMove({"idle"})
    BY <1>1, <1>2, Moving DEF ArtifactPut, ArtifactPutFails, ArtifactUndo, Steps
  <2> QED BY <1>2, <2>1
    DEF ArtifactPut, ArtifactPutFails, ArtifactUndo, Quietly, JobsMove, Steps, state, requests
<1>3. ASSUME ArtifactReplay(t) \/ ArtifactRejected(t) PROVE Quietly
  <2>1. JobsMove({"undo"})
    BY <1>1, <1>3, Moving DEF ArtifactReplay, ArtifactRejected, AfterReplay, Steps
  <2> QED BY <1>3, <2>1 DEF ArtifactReplay, ArtifactRejected, Quietly, JobsMove, Steps, files
<1>4. ASSUME NEW p \in Paths, UserUpload(t, p) PROVE Quietly
  BY <1>1, <1>4, Moving DEF UserUpload, Quietly, JobsMove, Steps, state, requests
<1>5. CASE UserFails(t)
  BY <1>1, <1>5, Moving DEF UserFails, Quietly, JobsMove, Steps, state, requests, files
<1>6. ASSUME ArtifactRow(t) \/ UserRow(t) PROVE Quietly
  <2>1. JobsMove({"idle"}) BY <1>1, <1>6, Moving DEF ArtifactRow, UserRow
  <2>2. job[t].body \in Paths /\ job[t].id \in Ids
    BY <1>1, <1>6 DEF ArtifactRow, UserRow, At, Carries, CarriesFor
  <2>3. \A w \in {"worker", "user"} : Row(job[t].body, w) # None
    BY <2>2, ConstantAssumption DEF Row, ArtifactRows
  <2>4. \A n \in Ids : rows[n] # None => rows'[n] # None
    BY <1>1, <1>6, <2>3 DEF ArtifactRow, UserRow, RowsTyped
  <2> QED BY <1>6, <2>1, <2>4
    DEF ArtifactRow, UserRow, Quietly, JobsMove, Steps, state, requests
<1>7. CASE UserDeleteRow(t)
  <2>1. JobsMove({"idle"}) BY <1>1, <1>7, Moving DEF UserDeleteRow
  <2>2. job[t].id \in Ids /\ rows[job[t].id] \in ArtifactRows
    BY <1>1, <1>7 DEF UserDeleteRow, At, Carries, Fenced, RowsTyped
  <2>3. [rows[job[t].id] EXCEPT !.st = "deleted"] \in ArtifactRows BY <2>2 DEF ArtifactRows
  <2>4. \A n \in Ids : rows[n] # None => rows'[n] # None
    BY <1>1, <1>7, <2>3, ConstantAssumption DEF UserDeleteRow, RowsTyped
  <2> QED BY <1>7, <2>1, <2>4 DEF UserDeleteRow, Quietly, JobsMove, Steps, state, requests
<1> QED BY <1>2, <1>3, <1>4, <1>5, <1>6, <1>7

LEMMA FencedStep == ASSUME Typed, Typed', Fenced, [Next]_vars PROVE Fenced'
<1>1. CASE UNCHANGED vars BY <1>1 DEF Fenced, At, vars, state, requests, files
<1>2. ASSUME NEW t \in Threads, NEW s \in Slots, NEW r \in Reports, CompleteBegin(t, s, r)
      PROVE  Fenced'
  <2>1. \A u \in Threads : ~At(u, "commit")
    BY <1>2, ConstantAssumption DEF Fenced, CompleteBegin, Free
  <2>2. job' = [job EXCEPT ![t] = Job("commit", s, r)] /\ lock' = t /\ run' = run /\ rows' = rows
        /\ log' = log /\ log[s] = None /\ run \notin Terminal
    BY <1>2 DEF CompleteBegin, Take, state, requests, files
  <2> QED BY <2>1, <2>2 DEF Fenced, Typed, Working, At, Job
<1>3. ASSUME NEW t \in Threads, CompleteCommit(t) PROVE Fenced'
  <2>1. \A u \in Threads \ {t} : ~At(u, "commit") BY <1>3 DEF Fenced, CompleteCommit
  <2>2. job' = [job EXCEPT ![t] = Idle] /\ rows' = rows
    BY <1>3 DEF CompleteCommit, Done, files
  <2> QED BY <2>1, <2>2 DEF Fenced, Typed, Working, At, Idle
<1>4. ASSUME NEW t \in Threads, NEW n \in Ids, UserDelete(t, n) PROVE Fenced'
  <2>1. job' = [job EXCEPT ![t] = [Idle EXCEPT !.at = "userDelete", !.id = n]] /\ rows[n] # None
        /\ UNCHANGED <<lock, run, log, rows>>
    BY <1>4 DEF UserDelete, ActiveRow, state, requests
  <2> QED BY <2>1 DEF Fenced, Typed, Working, At, Idle
<1>5. ASSUME NEW t \in Threads, NEW b \in Branches, RegisterCapability(t, b) PROVE Fenced'
  BY <1>5 DEF RegisterCapability, Fenced, At, requests, files
<1>6. ASSUME End \/ DeadlinePasses \/ \E c \in Calls : Decide(c) PROVE Fenced'
  <2>1. Quietly BY <1>6 DEF End, DeadlinePasses, Decide, Quietly, JobsMove, requests, files
  <2> QED BY <2>1, QuietKeeps
<1>7. CASE Restart BY <1>7 DEF Restart, Fenced, At, Idle
<1>8. ASSUME NEW t \in Threads, NEW s \in Slots, Request(t, s) PROVE Fenced'
  BY <1>2, <1>8, QuietRequests, QuietKeeps
<1>9. ASSUME NEW t \in Threads, Other(t) PROVE Fenced'
  BY <1>4, <1>5, <1>9, QuietFiles, QuietKeeps DEF Other
<1>10. ASSUME NEW t \in Threads, Continue(t) PROVE Fenced'
  BY <1>3, <1>10, QuietModelAndTool, QuietFiles, QuietKeeps DEF Continue
<1> QED BY <1>1, <1>6, <1>7, <1>8, <1>9, <1>10 DEF Next

-----------------------------------------------------------------------------
LEMMA FencedInit == ASSUME Init PROVE Fenced
BY DEF Init, Fenced, At, Idle

LEMMA Safe == Spec => [](Typed /\ Fenced)
<1>1. Init => Typed /\ Fenced BY TypedInit, FencedInit
<1>2. Typed /\ Fenced /\ [Next]_vars => (Typed /\ Fenced)' BY TypedStep, FencedStep
<1> QED BY <1>1, <1>2, PTL DEF Spec

-----------------------------------------------------------------------------
(* A run that has ended: what its late requests and handlers leave alone. *)
Frozen ==
  /\ run' = run /\ log' = log /\ inv' = inv /\ events' = events /\ cp' = cp
  /\ \A n \in Ids : rows'[n] # rows[n] => rows[n] # None \/ rows'[n].by = "user"

LEMMA FrozenStep == ASSUME Typed, Fenced, Ended, [Next]_vars PROVE Frozen
<1> run \notin {"running", "waiting_approval"} /\ run \in Terminal BY DEF Ended, Terminal
<1>1. CASE UNCHANGED vars BY <1>1 DEF Frozen, vars, state, requests, files
<1>2. ASSUME NEW t \in Threads, NEW s \in Slots, Request(t, s) PROVE Frozen
  BY <1>2
  DEF Request, Replay, ModelReserve, ToolStart, ToolPause, ToolResumed, AppendEvent,
      SaveCheckpoint, ArtifactAdmit, CompleteBegin, Opens, Frozen, state, requests, files
<1>3. ASSUME NEW t \in Threads, Other(t) PROVE Frozen
  BY <1>3 DEF Other, RegisterCapability, UserUpload, UserDelete, Frozen, state, requests, files
<1>4. ASSUME NEW t \in Threads, Continue(t) PROVE Frozen
  <2>1. CASE UserRow(t)
    <3>1. job[t].id \in Ids BY <2>1 DEF UserRow, At, Typed, Working, Carries
    <3> QED BY <2>1, <3>1 DEF UserRow, Row, Typed, RowsTyped, Frozen, state, requests
  <2>2. CASE UserDeleteRow(t)
    <3>1. job[t].id \in Ids /\ rows[job[t].id] # None
      BY <2>2 DEF UserDeleteRow, Typed, Working, Carries, Fenced, At
    <3> QED BY <2>2, <3>1 DEF UserDeleteRow, Typed, RowsTyped, Frozen, state, requests
  <2>3. ~CompleteCommit(t) BY DEF CompleteCommit, Fenced
  <2>4. ~ModelAnswered(t) /\ ~ModelFailed(t) /\ ~ToolSave(t) /\ ~ToolSaveBare(t)
        /\ ~ToolSaveFails(t) /\ ~ArtifactRow(t)
    BY DEF ModelAnswered, MayAnswer, ModelFailed, ToolSave, ToolSaveBare, ToolSaveFails,
           MaySave, ArtifactRow
  <2>5. ASSUME \/ ModelDropped(t) \/ ToolRun(t) \/ ToolFenced(t) \/ ToolStore(t)
               \/ ArtifactPut(t) \/ ArtifactPutFails(t) \/ ArtifactReplay(t)
               \/ ArtifactRejected(t) \/ ArtifactUndo(t) \/ UserFails(t)
        PROVE  Frozen
    BY <2>5
    DEF ModelDropped, ToolRun, ToolFenced, ToolStore, ArtifactPut, ArtifactPutFails,
        ArtifactReplay, ArtifactRejected, ArtifactUndo, UserFails, Frozen, state, requests, files
  <2> QED BY <1>4, <2>1, <2>2, <2>3, <2>4, <2>5 DEF Continue
<1>5. ASSUME End \/ DeadlinePasses \/ Restart \/ \E c \in Calls : Decide(c) PROVE Frozen
  BY <1>5 DEF End, DeadlinePasses, Restart, Decide, Frozen, state, requests, files
<1> QED BY <1>1, <1>2, <1>3, <1>4, <1>5 DEF Next

(* A request that outlives its run changes neither the log of requests, an
   invocation, an event, the checkpoint nor an artifact of the worker, however
   many threads are still at work when the run ends (_require_active_run). *)
THEOREM LateWorkChangesNothing == Spec => EndedRunIsFrozen
<1>1. Typed /\ Fenced /\ [Next]_vars => [Ended => Frozen]_vars BY FrozenStep
<1> QED BY <1>1, Safe, PTL DEF Spec, EndedRunIsFrozen, Frozen

LEMMA InTimeStep ==
  ASSUME Typed, Fenced, [Next]_vars, late
  PROVE  /\ run' = "completed" => run = "completed"
         /\ \A c \in Calls : inv'[c].st = "completed" => inv[c].st = "completed"
<1> DEFINE OnTime == /\ run' = "completed" => run = "completed"
                     /\ \A c \in Calls : inv'[c].st = "completed" => inv[c].st = "completed"
<1>0. inv \in [Calls -> [st : InvStatus, by : {0} \cup Answers]] BY DEF Typed, StateTyped
<1>1. CASE UNCHANGED vars BY <1>1 DEF vars, state
<1>2. ASSUME NEW t \in Threads, NEW s \in Slots, Request(t, s) PROVE OnTime
  <2>1. ASSUME NEW c \in Calls, ToolStart(t, s, c) \/ ToolPause(t, s, c) PROVE OnTime
    <3>1. CASE ToolStart(t, s, c) BY <1>0, <3>1 DEF ToolStart, state
    <3>2. CASE ToolPause(t, s, c) BY <1>0, <3>2 DEF ToolPause, state
    <3> QED BY <2>1, <3>1, <3>2
  <2>2. \/ run' = run /\ inv' = inv
        \/ \E c \in Calls : ToolStart(t, s, c) \/ ToolPause(t, s, c)
    BY <1>2 DEF Request, Replay, ModelReserve, ToolResumed, AppendEvent, SaveCheckpoint,
                ArtifactAdmit, CompleteBegin, state
  <2> QED BY <2>1, <2>2
<1>3. ASSUME NEW t \in Threads, Other(t) PROVE OnTime
  BY <1>3 DEF Other, RegisterCapability, UserUpload, UserDelete, state
<1>4. ASSUME NEW t \in Threads, Continue(t) PROVE OnTime
  <2>1. ASSUME ToolSave(t) \/ ToolSaveBare(t) PROVE OnTime
    <3>1. job[t].out # "completed" BY <2>1 DEF ToolSave, ToolSaveBare, MaySave, InTime
    <3> QED BY <1>0, <2>1, <3>1 DEF ToolSave, ToolSaveBare, Outcome
  <2>2. CASE CompleteCommit(t) BY <2>2 DEF CompleteCommit, InTime, Target
  <2>3. \/ run' = run /\ inv' = inv
        \/ ToolSave(t) \/ ToolSaveBare(t) \/ CompleteCommit(t)
    BY <1>4
    DEF Continue, ModelAnswered, ModelFailed, ModelDropped, ToolRun, ToolSaveFails, ToolFenced,
        ToolStore, ArtifactPut, ArtifactPutFails, ArtifactRow, ArtifactReplay, ArtifactRejected,
        ArtifactUndo, UserRow, UserDeleteRow, UserFails, state
  <2> QED BY <2>1, <2>2, <2>3
<1>5. ASSUME End \/ DeadlinePasses \/ Restart \/ \E c \in Calls : Decide(c) PROVE OnTime
  BY <1>5 DEF End, DeadlinePasses, Restart, Decide, state
<1> QED BY <1>1, <1>2, <1>3, <1>4, <1>5 DEF Next

(* After the deadline neither the run nor a tool call is recorded as completed,
   though the checks and the commit are steps of their own and time passes
   between them (commit_status_transition_before_deadline). *)
THEOREM NothingCompletesLate == Spec => CompletedInTime
<1>1. Typed /\ Fenced /\ [Next]_vars =>
        [late => /\ run' = "completed" => run = "completed"
                 /\ \A c \in Calls : inv'[c].st = "completed" => inv[c].st = "completed"]_vars
  BY InTimeStep
<1> QED BY <1>1, Safe, PTL DEF Spec, CompletedInTime

-----------------------------------------------------------------------------
(* The tool of a call: what its invocation says of it, and what the thread
   that serves the call may rely on. *)
ToolAudited(c) == <<"tool", c, "completed">> \in audits
CallKnown(c) ==
  /\ effects[c] <= 1
  /\ inv[c].st \in {"none", "waiting_approval"} => effects[c] = 0
  /\ inv[c].st = "completed" => effects[c] = 1 /\ inv[c].by \in Answers
  /\ inv[c].st = "waiting_approval" => c \in Asked
  /\ c \in Asked => /\ inv[c].st \in {"none", "waiting_approval", "completed"}
                    /\ inv[c].st = "completed" => ToolAudited(c)
Serves(j) ==
  /\ inv[j.body].by = j.id
  /\ j.at = "run" => inv[j.body].st = "started" /\ effects[j.body] = 0
  /\ j.at \in Saving => inv[j.body].st = "started" /\ effects[j.body] = 1
  /\ j.at = "store" => inv[j.body].st = "completed" /\ ToolAudited(j.body)
AtTool(t) == job[t].at \in Tooling
ToolsRun ==
  /\ \A c \in Calls : CallKnown(c)
  /\ \A t \in Threads : AtTool(t) => Serves(job[t])
  /\ \A t, u \in Threads : AtTool(t) /\ AtTool(u) /\ job[t].body = job[u].body => t = u

(* No step undoes a completed call or takes back an audit record. *)
Lasting ==
  /\ audits \subseteq audits'
  /\ \A c \in Calls : inv[c].st = "completed" => inv'[c] = inv[c]

LEMMA ToolsInit == ASSUME Init PROVE ToolsRun
BY ConstantAssumption DEF Init, ToolsRun, CallKnown, AtTool, Idle, Tooling, Saving

ToolsRest ==
  /\ JobsMove(Steps \ Tooling) /\ inv' = inv /\ effects' = effects /\ audits \subseteq audits'
LEMMA ToolsRestKeep == ASSUME Typed, ToolsRun, ToolsRest PROVE ToolsRun' /\ Lasting
<1>1. \A u \in Threads : AtTool(u)' => job'[u] = job[u] /\ AtTool(u)
  BY DEF ToolsRest, JobsMove, AtTool
<1>2. \A c \in Calls : CallKnown(c)' BY DEF ToolsRun, ToolsRest, CallKnown, ToolAudited
<1>3. \A u \in Threads : AtTool(u)' => Serves(job[u])'
  BY <1>1 DEF ToolsRun, ToolsRest, Serves, ToolAudited
<1>4. \A u, v \in Threads : AtTool(u)' /\ AtTool(v)' /\ job'[u].body = job'[v].body => u = v
  BY <1>1 DEF ToolsRun
<1> QED BY <1>2, <1>3, <1>4 DEF ToolsRun, Lasting, ToolsRest

LEMMA ToolsStart ==
  ASSUME Typed, ToolsRun, NEW t \in Threads, NEW s \in Slots, NEW c \in Calls, ToolStart(t, s, c)
  PROVE  ToolsRun' /\ Lasting
<1>1. /\ job \in [Threads -> Jobs] /\ job' = [job EXCEPT ![t] = Job("run", s, c)]
      /\ inv \in [Calls -> [st : InvStatus, by : {0} \cup Answers]]
      /\ inv' = [inv EXCEPT ![c] = [st |-> "started", by |-> sent + 1]]
      /\ inv[c].st = "none" /\ c \notin Asked /\ effects' = effects /\ audits \subseteq audits'
  BY DEF Typed, Working, StateTyped, ToolStart, Take, NewCall
<1>2. ~AtTool(t) BY DEF ToolStart, Opens, Free, At, AtTool, Tooling, Saving
<1>3. \A u \in Threads : AtTool(u) => job[u].body # c
  BY <1>1 DEF ToolsRun, Serves, AtTool, Tooling
<1>4. \A d \in Calls : CallKnown(d)' BY <1>1 DEF ToolsRun, CallKnown, ToolAudited
<1>5. \A u \in Threads \ {t} : job'[u] = job[u] BY <1>1
<1>6. job'[t].at = "run" /\ job'[t].body = c /\ job'[t].id = sent + 1 BY <1>1 DEF Job
<1>7. \A u \in Threads : AtTool(u) => job[u].body \in Calls
  BY DEF AtTool, Typed, Working, Carries, CarriesFor
<1>8. ASSUME NEW u \in Threads, AtTool(u)' PROVE Serves(job[u])'
  <2>1. CASE u = t
    <3>1. effects[c] = 0 BY <1>1 DEF ToolsRun, CallKnown
    <3> QED BY <1>1, <1>6, <2>1, <3>1 DEF Serves, Saving
  <2>2. CASE u # t
    <3>1. AtTool(u) /\ job'[u] = job[u] BY <1>5, <1>8, <2>2 DEF AtTool
    <3>2. inv'[job[u].body] = inv[job[u].body] BY <1>1, <1>3, <1>7, <3>1
    <3> QED BY <1>1, <3>1, <3>2 DEF ToolsRun, Serves, ToolAudited
  <2> QED BY <2>1, <2>2
<1>9. \A u, v \in Threads : AtTool(u)' /\ AtTool(v)' /\ job'[u].body = job'[v].body => u = v
  BY <1>3, <1>5, <1>6 DEF ToolsRun, AtTool
<1>10. Lasting BY <1>1 DEF Lasting
<1> QED BY <1>4, <1>8, <1>9, <1>10 DEF ToolsRun

(* A thread that goes on with the call it serves, or is done with it. *)
ServesOn(t) ==
  /\ \A u \in Threads \ {t} : job'[u] = job[u]
  /\ AtTool(t)' => job'[t].body = job[t].body /\ Serves(job[t])'
  /\ \A c \in Calls \ {job[t].body} : inv'[c] = inv[c] /\ effects'[c] = effects[c]
  /\ audits \subseteq audits'
LEMMA ServesOnKeeps ==
  ASSUME Typed, ToolsRun, NEW t \in Threads, AtTool(t), ServesOn(t),
         NEW c \in Calls, job[t].body = c, CallKnown(c)', inv[c].st = "started"
  PROVE  ToolsRun' /\ Lasting
<1>1. \A u \in Threads : AtTool(u) => job[u].body \in Calls
  BY DEF AtTool, Typed, Working, Carries, CarriesFor
<1>2. ASSUME NEW d \in Calls \ {c} PROVE CallKnown(d)'
  <2>1. CallKnown(d) BY DEF ToolsRun
  <2>2. inv'[d] = inv[d] /\ effects'[d] = effects[d] /\ audits \subseteq audits'
    BY DEF ServesOn
  <2> QED BY <2>1, <2>2 DEF CallKnown, ToolAudited
<1>3. ASSUME NEW u \in Threads, AtTool(u)' PROVE Serves(job[u])'
  <2>1. CASE u # t
    <3>1. job'[u] = job[u] /\ AtTool(u) BY <1>3, <2>1 DEF ServesOn, AtTool
    <3>2. job[u].body # job[t].body BY <2>1, <3>1 DEF ToolsRun
    <3>3. inv'[job[u].body] = inv[job[u].body] /\ effects'[job[u].body] = effects[job[u].body]
      BY <1>1, <3>1, <3>2 DEF ServesOn
    <3> QED BY <3>1, <3>3 DEF ToolsRun, Serves, ServesOn, ToolAudited
  <2> QED BY <1>3, <2>1 DEF ServesOn
<1>4. \A u, v \in Threads : AtTool(u)' /\ AtTool(v)' /\ job'[u].body = job'[v].body => u = v
  BY DEF ToolsRun, ServesOn, AtTool
<1>5. Lasting BY DEF Lasting, ServesOn
<1> QED BY <1>2, <1>3, <1>4, <1>5 DEF ToolsRun

LEMMA ToolsContinue ==
  ASSUME Typed, ToolsRun, NEW t \in Threads,
         ToolRun(t) \/ ToolSave(t) \/ ToolSaveBare(t) \/ ToolSaveFails(t)
  PROVE  ToolsRun' /\ Lasting
<1>1. AtTool(t)
  BY DEF ToolRun, ToolSave, ToolSaveBare, ToolSaveFails, At, AtTool, Tooling, Saving
<1>2. /\ job[t].body \in Calls /\ job[t].body \notin Asked /\ job[t].id \in Answers
      /\ job \in [Threads -> Jobs] /\ job[t] \in Jobs
      /\ inv \in [Calls -> [st : InvStatus, by : {0} \cup Answers]] /\ effects \in [Calls -> Nat]
      /\ job[t].at \in Saving => job[t].out \in {"completed", "failed"}
  BY <1>1, Numbers DEF Typed, Working, StateTyped, AtTool, Carries, CarriesFor
<1>3. Serves(job[t]) /\ CallKnown(job[t].body) BY <1>1, <1>2 DEF ToolsRun
<1>4. inv[job[t].body].st = "started"
  BY <1>3 DEF Serves, ToolRun, ToolSave, ToolSaveBare, ToolSaveFails, At, Saving
<1>5. CASE ToolRun(t)
  <2>1. PICK o \in {"completed", "failed"} : job' = [job EXCEPT ![t].at = "save", ![t].out = o]
    BY <1>5 DEF ToolRun
  <2>2. job'[t].at = "save" /\ job'[t].body = job[t].body /\ job'[t].id = job[t].id
    BY <1>2, <2>1 DEF Jobs
  <2>3. inv' = inv /\ effects' = [effects EXCEPT ![job[t].body] = @ + 1] /\ audits' = audits
        /\ effects[job[t].body] = 0
    BY <1>3, <1>5 DEF ToolRun, Serves, At
  <2>4. Serves(job[t])' BY <1>2, <1>3, <1>4, <2>2, <2>3 DEF Serves, Saving
  <2>5. ServesOn(t) BY <1>2, <2>1, <2>2, <2>3, <2>4 DEF ServesOn
  <2>6. \A c \in Calls : job[t].body = c => CallKnown(c)' BY <1>2, <1>4, <2>3 DEF CallKnown
  <2> QED BY <1>2, <1>1, <1>4, <2>5, <2>6, ServesOnKeeps
<1>6. ASSUME ToolSave(t) \/ ToolSaveBare(t) PROVE ToolsRun' /\ Lasting
  <2>1. /\ job[t].at \in Saving /\ audits \subseteq audits' /\ effects' = effects
        /\ inv' = [inv EXCEPT ![job[t].body].st = job[t].out]
    BY <1>6 DEF ToolSave, ToolSaveBare, Saving, Outcome, At
  <2>2. effects[job[t].body] = 1 /\ inv[job[t].body].by = job[t].id BY <1>3, <2>1 DEF Serves
  <2>3. \/ job' = [job EXCEPT ![t] = Idle]
        \/ /\ job' = [job EXCEPT ![t].at = "store"]
           /\ job[t].out = "completed" /\ <<"tool", job[t].body, "completed">> \in audits'
    BY <1>6 DEF ToolSave, ToolSaveBare, AfterSave, AfterBare, Go, Done
  <2>4. inv'[job[t].body].st = job[t].out /\ inv'[job[t].body].by = job[t].id
    BY <1>2, <2>1, <2>2
  <2>5. ASSUME AtTool(t)' PROVE job'[t].body = job[t].body /\ Serves(job[t])'
    <3>1. job' = [job EXCEPT ![t].at = "store"]
      BY <1>2, <2>3, <2>5 DEF AtTool, Idle, Tooling, Saving
    <3>2. job'[t].at = "store" /\ job'[t].body = job[t].body /\ job'[t].id = job[t].id
      BY <1>2, <3>1 DEF Jobs
    <3>3. job[t].out = "completed" /\ <<"tool", job[t].body, "completed">> \in audits'
      BY <1>2, <2>3, <2>5 DEF AtTool, Idle, Tooling, Saving
    <3> QED BY <2>4, <3>2, <3>3 DEF Serves, ToolAudited, Saving
  <2>6. ServesOn(t) BY <1>2, <2>1, <2>3, <2>5 DEF ServesOn
  <2>7. \A c \in Calls : job[t].body = c => CallKnown(c)'
    BY <1>2, <2>1, <2>2, <2>4 DEF CallKnown
  <2> QED BY <1>1, <1>2, <1>4, <2>6, <2>7, ServesOnKeeps
<1>7. CASE ToolSaveFails(t)
  <2>1. inv' = inv /\ effects' = effects /\ audits' = audits /\ job[t].at = "save"
    BY <1>7 DEF ToolSaveFails, state, At
  <2>2. \/ job' = [job EXCEPT ![t] = Idle]
        \/ \E p \in {"saveAgain", "saveBare"} : job' = [job EXCEPT ![t].at = p]
    BY <1>7 DEF ToolSaveFails, Go, Done
  <2>3. ASSUME AtTool(t)' PROVE job'[t].body = job[t].body /\ Serves(job[t])'
    <3>1. PICK p \in {"saveAgain", "saveBare"} : job' = [job EXCEPT ![t].at = p]
      BY <1>2, <2>2, <2>3 DEF AtTool, Idle, Tooling, Saving
    <3>2. job'[t].at = p /\ job'[t].body = job[t].body /\ job'[t].id = job[t].id
      BY <1>2, <3>1 DEF Jobs
    <3> QED BY <1>3, <2>1, <3>2 DEF Serves, Saving
  <2>4. ServesOn(t) BY <1>2, <2>1, <2>2, <2>3 DEF ServesOn
  <2>5. \A c \in Calls : job[t].body = c => CallKnown(c)'
    BY <1>3, <2>1 DEF CallKnown, ToolAudited
  <2> QED BY <1>1, <1>2, <1>4, <2>4, <2>5, ServesOnKeeps
<1> QED BY <1>5, <1>6, <1>7

LEMMA ToolsPauseAndDecide ==
  ASSUME Typed, ToolsRun, NEW c \in Calls,
         Decide(c) \/ \E t \in Threads, s \in Slots : ToolPause(t, s, c)
  PROVE  ToolsRun' /\ Lasting
<1>1. /\ inv \in [Calls -> [st : InvStatus, by : {0} \cup Answers]] /\ effects \in [Calls -> Nat]
      /\ CallKnown(c)
  BY DEF Typed, StateTyped, ToolsRun
<1>2. /\ inv[c].st \in {"none", "waiting_approval"} /\ effects[c] = 0 /\ c \in Asked
      /\ job' = job /\ audits \subseteq audits'
      /\ \A d \in Calls \ {c} : inv'[d] = inv[d] /\ effects'[d] = effects[d]
  BY <1>1 DEF CallKnown, Decide, ToolPause, NewCall
<1>3. CallKnown(c)'
  <2>1. CASE Decide(c)
    <3>1. inv'[c] = [st |-> "completed", by |-> Resumed] /\ effects'[c] = 1
          /\ <<"tool", c, "completed">> \in audits'
      BY <1>1, <1>2, <2>1 DEF Decide
    <3> QED BY <3>1, Numbers DEF CallKnown, ToolAudited
  <2>2. ASSUME NEW t \in Threads, NEW s \in Slots, ToolPause(t, s, c) PROVE CallKnown(c)'
    <3>1. inv'[c].st = "waiting_approval" /\ effects'[c] = 0 BY <1>1, <1>2, <2>2 DEF ToolPause
    <3> QED BY <1>2, <3>1 DEF CallKnown
  <2> QED BY <2>1, <2>2
<1>4. \A t \in Threads : AtTool(t) => job[t].body \in Calls \ {c}
  BY <1>2 DEF AtTool, Typed, Working, Carries, CarriesFor
<1>5. ASSUME NEW d \in Calls \ {c} PROVE CallKnown(d)'
  <2>1. CallKnown(d) BY DEF ToolsRun
  <2> QED BY <1>2, <2>1 DEF CallKnown, ToolAudited
<1>6. ASSUME NEW t \in Threads, AtTool(t)' PROVE Serves(job[t])'
  <2>1. AtTool(t) /\ Serves(job[t]) BY <1>2, <1>6 DEF AtTool, ToolsRun
  <2>2. inv'[job[t].body] = inv[job[t].body] /\ effects'[job[t].body] = effects[job[t].body]
    BY <1>2, <1>4, <2>1
  <2> QED BY <1>2, <2>1, <2>2 DEF Serves, ToolAudited
<1>7. \A t, u \in Threads : AtTool(t)' /\ AtTool(u)' /\ job'[t].body = job'[u].body => t = u
  BY <1>2 DEF ToolsRun, AtTool
<1>8. Lasting BY <1>2 DEF Lasting
<1> QED BY <1>3, <1>5, <1>6, <1>7, <1>8 DEF ToolsRun

LEMMA ToolsRestRequests ==
  ASSUME Typed, NEW t \in Threads, NEW s \in Slots, Request(t, s),
         ~(\E c \in Calls : ToolStart(t, s, c) \/ ToolPause(t, s, c))
  PROVE  ToolsRest
<1>1. Working BY DEF Typed
<1>2. \/ job' = job
      \/ \E b : Take(t, "model", s, b) \/ Take(t, "put", s, b) \/ Take(t, "commit", s, b)
  BY DEF Request, Replay, ModelReserve, ToolResumed, AppendEvent, SaveCheckpoint, Serve,
         ArtifactAdmit, CompleteBegin
<1>3. JobsMove(Steps \ Tooling) BY <1>1, <1>2, Moving DEF JobsMove, Steps, Tooling, Saving
<1>4. inv' = inv /\ effects' = effects /\ audits \subseteq audits'
  BY DEF Request, Replay, ModelReserve, ToolResumed, AppendEvent, SaveCheckpoint, ArtifactAdmit,
         CompleteBegin, state
<1> QED BY <1>3, <1>4 DEF ToolsRest

LEMMA ToolsRestContinue ==
  ASSUME Typed, NEW t \in Threads, Continue(t) \/ Other(t),
         ~(ToolRun(t) \/ ToolSave(t) \/ ToolSaveBare(t) \/ ToolSaveFails(t))
  PROVE  ToolsRest
<1>1. Working BY DEF Typed
<1>2. \/ job' = job \/ Done(t) \/ Go(t, "row") \/ Go(t, "undo")
      \/ \E p \in Paths : Take(t, "userRow", None, p)
      \/ \E n \in Ids : job' = [job EXCEPT ![t] = [Idle EXCEPT !.at = "userDelete", !.id = n]]
  BY DEF Continue, Other, ModelAnswered, ModelFailed, ModelDropped, ToolFenced, ToolStore,
         ArtifactPut, ArtifactPutFails, ArtifactRow, ArtifactReplay, AfterReplay,
         ArtifactRejected, ArtifactUndo, UserRow, UserDeleteRow, UserFails, CompleteCommit,
         RegisterCapability, UserUpload, UserDelete
<1>3. ASSUME NEW n \in Ids, job' = [job EXCEPT ![t] = [Idle EXCEPT !.at = "userDelete", !.id = n]]
      PROVE  JobsMove({"userDelete"})
  BY <1>1, <1>3 DEF JobsMove, Working, Idle
<1>4. JobsMove(Steps \ Tooling)
  <2>1. \/ JobsMove({}) \/ JobsMove({"idle"}) \/ JobsMove({"row"}) \/ JobsMove({"undo"})
        \/ JobsMove({"userRow"}) \/ JobsMove({"userDelete"})
    BY <1>1, <1>2, <1>3, Moving DEF Steps
  <2> QED BY <2>1 DEF JobsMove, Steps, Tooling, Saving
<1>5. inv' = inv /\ effects' = effects /\ audits \subseteq audits'
  BY DEF Continue, Other, ModelAnswered, ModelFailed, ModelDropped, ToolFenced, ToolStore,
         ArtifactPut, ArtifactPutFails, ArtifactRow, ArtifactReplay, ArtifactRejected,
         ArtifactUndo, UserRow, UserDeleteRow, UserFails, CompleteCommit, RegisterCapability,
         UserUpload, UserDelete, state
<1> QED BY <1>4, <1>5 DEF ToolsRest

LEMMA ToolsStep == ASSUME Typed, ToolsRun, [Next]_vars PROVE ToolsRun' /\ Lasting
<1>1. ASSUME UNCHANGED vars \/ End \/ DeadlinePasses \/ Restart PROVE ToolsRest
  BY <1>1 DEF vars, state, End, DeadlinePasses, Restart, ToolsRest, JobsMove, Idle, Steps,
              Tooling, Saving
<1>2. ASSUME NEW t \in Threads, NEW s \in Slots, Request(t, s) PROVE ToolsRun' /\ Lasting
  BY <1>2, ToolsStart, ToolsPauseAndDecide, ToolsRestRequests, ToolsRestKeep
<1>3. ASSUME NEW t \in Threads, Continue(t) \/ Other(t) PROVE ToolsRun' /\ Lasting
  BY <1>3, ToolsContinue, ToolsRestContinue, ToolsRestKeep
<1> QED BY <1>1, <1>2, <1>3, ToolsRestKeep, ToolsPauseAndDecide DEF Next

-----------------------------------------------------------------------------
(* What the log says of the audit trail, the invocations and the answers. *)
Backed(s, b, n) ==
  /\ s.op = "tool.invoke" => inv[b].st = "completed" /\ inv[b].by = n /\ ToolAudited(b)
  /\ s.op = "model.invoke" => <<"llm", s.key, "succeeded">> \in audits
LogBacked ==
  \A s \in Slots : log[s] # None /\ log[s].resp # Pending => Backed(s, log[s].body, log[s].resp)
Logged == LogTyped /\ LogBacked /\ AnsweredIsAudited

(* A step of the log is one of the abstract log, and what it records is
   backed by what the handler has done. *)
Events(s) == IF s.op = "event.append" THEN events' = Append(events, NextEvent) ELSE events' = events
Reserves(s, b) ==
  /\ s.op = "model.invoke" /\ Log!Reserve(s, b) /\ events' = events
  /\ \E t \in Threads : At(t, "model")' /\ job'[t].slot = s
GivesUp(s, b) == s.op = "model.invoke" /\ Log!GiveUp(s, b) /\ events' = events
Records(s, b, n) ==
  /\ Log!Record(s, b, n) /\ Backed(s, b, n)' /\ Events(s)
  /\ log[s] = None \/ s.op = "model.invoke"
Repeats(s, b, n) == Log!Repeat(s, b, n) /\ events' = events
LogStep ==
  \/ UNCHANGED <<log, answers, events>>
  \/ \E s \in Slots : \E b \in Bodies[s] :
       \/ Reserves(s, b) \/ GivesUp(s, b)
       \/ \E n \in Answers : Records(s, b, n) \/ Repeats(s, b, n)

LEMMA LogInit == ASSUME Init PROVE Logged
BY DEF Init, Logged, LogTyped, LogBacked, AnsweredIsAudited

(* Known, for an entry that has its answer. *)
LEMMA KnownEntry ==
  ASSUME LogTyped, NEW s \in Slots, NEW b \in Bodies[s], Known(s, b),
         log[s].resp # Pending
  PROVE  log[s] = Entry(b, log[s].resp) /\ log[s].resp \in Answers
BY DEF LogTyped, Known, Entries, Entry

LEMMA RepeatsEntry ==
  ASSUME LogTyped, NEW s \in Slots, NEW b \in Bodies[s], Known(s, b), log[s].resp # Pending,
         Answer(s, b, log[s].resp), UNCHANGED <<log, events>>
  PROVE  LogStep
<1>1. log[s] = Entry(b, log[s].resp) /\ log[s].resp \in Answers BY KnownEntry
<1>2. Repeats(s, b, log[s].resp) BY <1>1 DEF Repeats, Log!Repeat, Log!Entry, Answer, Entry
<1> QED BY <1>1, <1>2 DEF LogStep

LEMMA RecordsEntry ==
  ASSUME NEW s \in Slots, NEW b \in Bodies[s], NEW n \in Answers, Put(s, b, n), Answer(s, b, n),
         Backed(s, b, n)', Events(s),
         log[s] = None \/ (s.op = "model.invoke" /\ log[s] = Entry(b, Pending))
  PROVE  LogStep
<1>1. Log!Record(s, b, n)
  BY DEF Log!Record, Log!Entry, Log!Pending, Put, Answer, Entry, Pending
<1> QED BY <1>1 DEF LogStep, Records

LEMMA LogRequests ==
  ASSUME Typed, ToolsRun, Logged, NEW t \in Threads, NEW s \in Slots, Request(t, s)
  PROVE  LogStep
<1>1. sent \in 0..MaxRequests /\ LogTyped BY DEF Typed, StateTyped, Logged
<1>2. ASSUME NEW b \in Bodies[s], Replay(t, s, b) PROVE LogStep
  BY <1>1, <1>2, RepeatsEntry DEF Replay, state
<1>3. ASSUME NEW b \in Prompts, ModelReserve(t, s, b) PROVE LogStep
  <2>0. At(t, "model")' /\ job'[t].slot = s
    BY <1>3 DEF ModelReserve, Take, Job, At, Typed, Working
  <2>1. Reserves(s, b)
    BY <1>3, <2>0 DEF ModelReserve, Opens, Put, Reserves, Log!Reserve, Log!Entry, Log!Pending, Entry,
                Pending, state
  <2>2. b \in Bodies[s] BY <1>3, BodiesOf DEF ModelReserve
  <2> QED BY <2>1, <2>2 DEF LogStep
<1>4. ASSUME NEW c \in Calls, ToolResumed(t, s, c) PROVE LogStep
  <2>1. c \in Bodies[s] /\ s.op = "tool.invoke" BY <1>4, BodiesOf DEF ToolResumed
  <2>0. inv[c].by \in Answers /\ ToolAudited(c) BY <1>4 DEF ToolResumed, ToolsRun, CallKnown
  <2>2. PICK n \in Answers : n = inv[c].by BY <2>0
  <2>3. Backed(s, c, n)'
    BY <1>4, <2>0, <2>1, <2>2 DEF ToolResumed, Backed, ToolAudited, state
  <2>4. Events(s) BY <1>4, <2>1 DEF ToolResumed, Events, state
  <2> QED BY <1>4, <2>1, <2>2, <2>3, <2>4, RecordsEntry DEF ToolResumed, Opens
<1>5. ASSUME NEW n \in Ids, AppendEvent(t, s, n) PROVE LogStep
  <2>1. n \in Bodies[s] /\ s.op = "event.append" BY <1>5, BodiesOf DEF AppendEvent
  <2>2. PICK m \in Answers : m = sent + 1
    BY <1>1, <1>5, ConstantAssumption, Numbers DEF AppendEvent, Serve, Ids
  <2>3. Backed(s, n, m)' BY <2>1 DEF Backed
  <2>4. Events(s) BY <1>5, <2>1 DEF AppendEvent, Events
  <2> QED BY <1>5, <2>1, <2>2, <2>3, <2>4, RecordsEntry DEF AppendEvent, Opens, Serve
<1>6. ASSUME NEW b \in Checkpoints, SaveCheckpoint(t, s, b) PROVE LogStep
  <2>1. b \in Bodies[s] /\ s.op = "checkpoint.write" BY <1>6, BodiesOf DEF SaveCheckpoint
  <2>2. PICK m \in Answers : m = sent + 1
    BY <1>1, <1>6, ConstantAssumption, Numbers DEF SaveCheckpoint, Serve, Ids
  <2>3. Backed(s, b, m)' BY <2>1 DEF Backed
  <2>4. Events(s) BY <1>6, <2>1 DEF SaveCheckpoint, Events
  <2> QED BY <1>6, <2>1, <2>2, <2>3, <2>4, RecordsEntry DEF SaveCheckpoint, Opens, Serve
<1>7. ASSUME \/ \E c \in Calls : ToolStart(t, s, c) \/ ToolPause(t, s, c)
             \/ \E p \in Paths : ArtifactAdmit(t, s, p)
             \/ \E r \in Reports : CompleteBegin(t, s, r)
      PROVE  LogStep
  BY <1>7 DEF ToolStart, ToolPause, ArtifactAdmit, CompleteBegin, LogStep, state, requests
<1> QED BY <1>2, <1>3, <1>4, <1>5, <1>6, <1>7 DEF Request

LEMMA LogContinues ==
  ASSUME Typed, Fenced, ToolsRun, Logged, NEW t \in Threads, Continue(t)
  PROVE  LogStep
<1>1. LogTyped /\ Carries(job[t]) BY DEF Typed, Working, Logged
<1>2. CASE ModelAnswered(t)
  <2>1. /\ job[t].slot \in Slots /\ job[t].slot.op = "model.invoke"
        /\ job[t].body \in Bodies[job[t].slot] /\ job[t].id \in Answers
        /\ log[job[t].slot] = Entry(job[t].body, Pending)
    BY <1>1, <1>2, Numbers DEF ModelAnswered, MayAnswer, At, Carries, CarriesFor
  <2>9. PICK s \in Slots : s = job[t].slot BY <2>1
  <2>2. PICK b \in Bodies[s], n \in Answers : b = job[t].body /\ n = job[t].id
    BY <2>1, <2>9
  <2>3. Backed(s, b, n)' BY <1>2, <2>1, <2>9, <2>2 DEF ModelAnswered, Backed
  <2>4. Events(s) BY <1>2, <2>1, <2>9, <2>2 DEF ModelAnswered, Events
  <2> QED BY <1>2, <2>1, <2>9, <2>2, <2>3, <2>4, RecordsEntry DEF ModelAnswered
<1>3. CASE ModelFailed(t)
  <2>1. /\ job[t].slot \in Slots /\ job[t].slot.op = "model.invoke"
        /\ job[t].body \in Bodies[job[t].slot]
        /\ log[job[t].slot] = Entry(job[t].body, Pending)
    BY <1>1, <1>3 DEF ModelFailed, At, Carries, CarriesFor
  <2>2. GivesUp(job[t].slot, job[t].body)
    BY <1>3, <2>1 DEF ModelFailed, Release, GivesUp, Log!GiveUp, Log!Entry, Log!Pending, Entry, Pending
  <2> QED BY <2>1, <2>2 DEF LogStep
<1>4. ASSUME ToolStore(t), job[t].slot \in Slots, log[job[t].slot] = None,
             Put(job[t].slot, job[t].body, job[t].id), Answer(job[t].slot, job[t].body, job[t].id)
      PROVE  LogStep
  <2>1. /\ job[t].slot.op = "tool.invoke" /\ job[t].body \in Bodies[job[t].slot]
        /\ job[t].id \in Answers /\ Serves(job[t]) /\ job[t].at = "store"
    BY <1>1, <1>4, Numbers DEF ToolStore, At, Carries, CarriesFor, Tooling, ToolsRun, AtTool
  <2>9. PICK s \in Slots : s = job[t].slot BY <1>4
  <2>2. PICK b \in Bodies[s], n \in Answers : b = job[t].body /\ n = job[t].id
    BY <2>1, <2>9
  <2>3. Backed(s, b, n)' BY <1>4, <2>1, <2>9, <2>2 DEF ToolStore, Backed, Serves, ToolAudited, state
  <2>4. Events(s) BY <1>4, <2>1, <2>9, <2>2 DEF ToolStore, Events, state
  <2> QED BY <1>4, <2>9, <2>2, <2>3, <2>4, RecordsEntry
<1>5. CASE ToolStore(t)
  <2>1. job[t].slot \in Slots BY <1>1, <1>5 DEF ToolStore, At, Carries, CarriesFor, Tooling
  <2>2. \/ UNCHANGED <<log, answers, events>>
        \/ /\ log[job[t].slot] = None
           /\ Put(job[t].slot, job[t].body, job[t].id) /\ Answer(job[t].slot, job[t].body, job[t].id)
    BY <1>5 DEF ToolStore, requests, state
  <2> QED BY <1>4, <1>5, <2>1, <2>2 DEF LogStep
<1>6. CASE ArtifactRow(t)
  <2>1. /\ job[t].slot \in Slots /\ job[t].slot.op = "artifact.create"
        /\ job[t].body \in Bodies[job[t].slot] /\ job[t].id \in Answers
    BY <1>1, <1>6, Numbers DEF ArtifactRow, At, Carries, CarriesFor
  <2>9. PICK s \in Slots : s = job[t].slot BY <2>1
  <2>2. PICK b \in Bodies[s], n \in Answers : b = job[t].body /\ n = job[t].id
    BY <2>1, <2>9
  <2>3. Backed(s, b, n)' BY <2>1, <2>9, <2>2 DEF Backed
  <2>4. Events(s) BY <1>6, <2>1, <2>9, <2>2 DEF ArtifactRow, Events, state
  <2> QED BY <1>6, <2>9, <2>2, <2>3, <2>4, RecordsEntry DEF ArtifactRow
<1>7. CASE ArtifactReplay(t)
  <2>1. /\ job[t].slot \in Slots /\ job[t].slot.op = "artifact.create"
        /\ job[t].body \in Bodies[job[t].slot]
    BY <1>1, <1>7 DEF ArtifactReplay, At, Carries, CarriesFor
  <2>2. log[job[t].slot].resp # Pending BY <1>1, <1>7, <2>1 DEF ArtifactReplay, Known, LogTyped
  <2> QED BY <1>1, <1>7, <2>1, <2>2, RepeatsEntry DEF ArtifactReplay, state
<1>8. CASE CompleteCommit(t)
  <2>1. /\ job[t].slot \in Slots /\ job[t].slot.op = "result.complete"
        /\ job[t].body \in Bodies[job[t].slot] /\ job[t].id \in Answers /\ log[job[t].slot] = None
    BY <1>1, <1>8, Numbers DEF CompleteCommit, At, Carries, CarriesFor, Fenced
  <2>9. PICK s \in Slots : s = job[t].slot BY <2>1
  <2>2. PICK b \in Bodies[s], n \in Answers : b = job[t].body /\ n = job[t].id
    BY <2>1, <2>9
  <2>3. Backed(s, b, n)' BY <2>1, <2>9, <2>2 DEF Backed
  <2>4. events' = events BY <1>8 DEF CompleteCommit
  <2>5. UNCHANGED requests \/ (Put(s, b, n) /\ Answer(s, b, n))
    BY <1>8, <2>9, <2>2 DEF CompleteCommit
  <2> QED BY <2>1, <2>9, <2>2, <2>3, <2>4, <2>5, RecordsEntry DEF Events, LogStep, requests
<1>9. ASSUME \/ ModelDropped(t) \/ ToolRun(t) \/ ToolSave(t) \/ ToolSaveBare(t)
             \/ ToolSaveFails(t) \/ ToolFenced(t) \/ ArtifactPut(t) \/ ArtifactPutFails(t)
             \/ ArtifactRejected(t) \/ ArtifactUndo(t) \/ UserRow(t) \/ UserDeleteRow(t)
             \/ UserFails(t)
      PROVE  LogStep
  BY <1>9
  DEF ModelDropped, ToolRun, ToolSave, ToolSaveBare, ToolSaveFails, ToolFenced, ArtifactPut,
      ArtifactPutFails, ArtifactRejected, ArtifactUndo, UserRow, UserDeleteRow, UserFails,
      LogStep, state, requests
<1> QED BY <1>2, <1>3, <1>5, <1>6, <1>7, <1>8, <1>9 DEF Continue

LEMMA LogSteps ==
  ASSUME Typed, Fenced, ToolsRun, Logged, [Next]_vars
  PROVE  LogStep
<1>1. ASSUME \/ UNCHANGED vars \/ End \/ DeadlinePasses \/ Restart \/ \E c \in Calls : Decide(c)
             \/ \E t \in Threads : Other(t)
      PROVE  LogStep
  BY <1>1 DEF vars, state, requests, End, DeadlinePasses, Restart, Decide, Other,
              RegisterCapability, UserUpload, UserDelete, LogStep
<1> QED BY <1>1, LogRequests, LogContinues DEF Next

-----------------------------------------------------------------------------
LEMMA BackedStays ==
  ASSUME Lasting, NEW s \in Slots, NEW b \in Bodies[s], NEW n, Backed(s, b, n)
  PROVE  Backed(s, b, n)'
<1>1. s.op = "tool.invoke" => b \in Calls BY BodiesOf
<1> QED BY <1>1 DEF Lasting, Backed, ToolAudited

(* The log and the answers stay backed when one entry is put, and answers are
   those of the log. *)
LEMMA LoggedKept ==
  ASSUME Logged, Lasting, LogTyped', NEW s \in Slots,
         \A r \in Slots \ {s} : log'[r] = log[r] /\ answers'[r] = answers[r],
         log'[s] # None /\ log'[s].resp # Pending => Backed(s, log[s].body, log[s].resp)',
         \A e \in answers'[s] : e \in answers[s] \/ (log'[s] = e /\ e # None /\ e.resp # Pending)
  PROVE  Logged'
<1>1. ASSUME NEW r \in Slots, log'[r] # None, log'[r].resp # Pending
      PROVE  Backed(r, log[r].body, log[r].resp)'
  <2>1. CASE r = s BY <1>1, <2>1
  <2>2. CASE r # s
    <3>1. log'[r] = log[r] /\ log[r].body \in Bodies[r] BY <1>1, <2>2 DEF Logged, LogTyped, Entries
    <3>2. Backed(r, log[r].body, log[r].resp) BY <1>1, <3>1 DEF Logged, LogBacked
    <3>3. PICK b \in Bodies[r], n \in {Pending} \cup Answers : b = log[r].body /\ n = log[r].resp
      BY <1>1, <3>1 DEF Logged, LogTyped, Entries
    <3>4. Backed(r, b, n)' BY <3>2, <3>3, BackedStays
    <3> QED BY <3>1, <3>3, <3>4 DEF Backed, ToolAudited
  <2> QED BY <2>1, <2>2
<1>2. AnsweredIsAudited'
  <2> SUFFICES ASSUME NEW r \in Slots, NEW e \in answers'[r]
               PROVE  /\ r.op = "model.invoke" => <<"llm", r.key, "succeeded">> \in audits'
                      /\ r.op = "tool.invoke" => <<"tool", e.body, "completed">> \in audits'
    BY DEF AnsweredIsAudited
  <2>1. CASE e \in answers[r] BY <2>1 DEF Logged, AnsweredIsAudited, Lasting
  <2>2. CASE e \notin answers[r]
    <3>1. r = s /\ log'[s] = e /\ Backed(s, log[s].body, log[s].resp)' BY <2>2
    <3> QED BY <3>1 DEF Backed, ToolAudited
  <2> QED BY <2>1, <2>2
<1> QED BY <1>1, <1>2 DEF Logged, LogBacked

LEMMA LoggedStep == ASSUME Logged, LogStep, Lasting PROVE Logged'
<1>0. LogTyped BY DEF Logged
<1>1. ASSUME UNCHANGED <<log, answers, events>> PROVE Logged'
  <2>1. LogTyped' BY <1>0, <1>1 DEF LogTyped
  <2>2. ASSUME NEW s \in Slots, log[s] # None, log[s].resp # Pending
        PROVE  Backed(s, log[s].body, log[s].resp)'
    <3>1. PICK b \in Bodies[s], n \in Answers : b = log[s].body /\ n = log[s].resp
      BY <1>0, <2>2 DEF LogTyped, Entries
    <3>2. Backed(s, b, n) BY <2>2, <3>1 DEF Logged, LogBacked
    <3>3. Backed(s, b, n)' BY <3>2, BackedStays
    <3> QED BY <1>1, <3>1, <3>3 DEF Backed, ToolAudited
  <2>3. AnsweredIsAudited' BY <1>1 DEF Logged, AnsweredIsAudited, Lasting
  <2> QED BY <1>1, <2>1, <2>2, <2>3 DEF Logged, LogBacked
<1>2. ASSUME NEW s \in Slots, NEW b \in Bodies[s], Reserves(s, b) PROVE Logged'
  <2>1. log' = [log EXCEPT ![s] = Entry(b, Pending)] /\ answers' = answers /\ s.op = "model.invoke"
    BY <1>2 DEF Reserves, Log!Reserve, Log!Entry, Log!Pending, Entry, Pending
  <2>2. Entry(b, Pending) \in Entries(s) /\ Entry(b, Pending) \in Stored
        /\ Entry(b, Pending).resp = Pending
    BY EntryOf
  <2>3. LogTyped' BY <1>0, <2>1, <2>2 DEF LogTyped
  <2>4. log'[s] = Entry(b, Pending) BY <1>0, <2>1 DEF LogTyped
  <2>5. \A r \in Slots \ {s} : log'[r] = log[r] BY <1>0, <2>1 DEF LogTyped
  <2> QED BY <2>1, <2>2, <2>3, <2>4, <2>5, LoggedKept
<1>3. ASSUME NEW s \in Slots, NEW b \in Bodies[s], GivesUp(s, b) PROVE Logged'
  <2>1. log' = [log EXCEPT ![s] = None] /\ answers' = answers
    BY <1>3 DEF GivesUp, Log!GiveUp
  <2>2. LogTyped' BY <1>0, <2>1 DEF LogTyped
  <2>3. log'[s] = None BY <1>0, <2>1 DEF LogTyped
  <2>4. \A r \in Slots \ {s} : log'[r] = log[r] BY <1>0, <2>1 DEF LogTyped
  <2> QED BY <2>1, <2>2, <2>3, <2>4, LoggedKept
<1>4. ASSUME NEW s \in Slots, NEW b \in Bodies[s], NEW n \in Answers, Records(s, b, n)
      PROVE  Logged'
  <2>1. Put(s, b, n) /\ Answer(s, b, n)
    BY <1>4 DEF Records, Log!Record, Log!Entry, Put, Answer, Entry
  <2>2. LogTyped' BY <1>0, <2>1, PutKeeps
  <2>3. Entry(b, n) # None /\ Entry(b, n).body = b /\ Entry(b, n).resp = n /\ n # Pending
    <3>1. n # Pending BY Numbers
    <3> QED BY <3>1, EntryOf
  <2>4. log'[s] = Entry(b, n) BY <1>0, <2>1 DEF LogTyped, Put
  <2>5. Backed(s, log[s].body, log[s].resp)'
    BY <1>4, <2>3, <2>4 DEF Records, Backed, ToolAudited
  <2>6. \A r \in Slots \ {s} : log'[r] = log[r] /\ answers'[r] = answers[r]
    BY <1>0, <2>1 DEF LogTyped, Put, Answer
  <2>7. \A e \in answers'[s] : e \in answers[s] \/ e = Entry(b, n)
    BY <1>0, <2>1 DEF LogTyped, Answer
  <2> QED BY <2>2, <2>3, <2>4, <2>5, <2>6, <2>7, LoggedKept
<1>5. ASSUME NEW s \in Slots, NEW b \in Bodies[s], NEW n \in Answers, Repeats(s, b, n)
      PROVE  Logged'
  <2>1. log[s] = Entry(b, n) /\ log' = log /\ Answer(s, b, n)
    BY <1>5 DEF Repeats, Log!Repeat, Log!Entry, Answer, Entry
  <2>2. LogTyped' BY <1>0, <2>1, AnswerKeeps
  <2>3. Entry(b, n) # None /\ Entry(b, n).body = b /\ Entry(b, n).resp = n /\ n # Pending
    <3>1. n # Pending BY Numbers
    <3> QED BY <3>1, EntryOf
  <2>4. Backed(s, b, n) BY <2>1, <2>3 DEF Logged, LogBacked
  <2>5. Backed(s, b, n)' BY <2>4, BackedStays
  <2>6. Backed(s, log[s].body, log[s].resp)' BY <2>1, <2>3, <2>5 DEF Backed, ToolAudited
  <2>7. \A r \in Slots \ {s} : answers'[r] = answers[r] BY <1>0, <2>1 DEF LogTyped, Answer
  <2>8. \A e \in answers'[s] : e \in answers[s] \/ e = Entry(b, n)
    BY <1>0, <2>1 DEF LogTyped, Answer
  <2> QED BY <2>1, <2>2, <2>3, <2>6, <2>7, <2>8, LoggedKept
<1> QED BY <1>1, <1>2, <1>3, <1>4, <1>5 DEF LogStep

-----------------------------------------------------------------------------
(* The events of the worker: as many as requests to append one were taken. *)
EventSlots == {s \in Slots : s.op = "event.append" /\ log[s] # None}
Counted ==
  IsFiniteSet(EventSlots) /\ Cardinality(EventSlots) = Len(events) /\ EventsInOrder

LEMMA CountedInit == ASSUME Init PROVE Counted
<1>1. EventSlots = {} /\ events = <<>> BY DEF Init, EventSlots
<1> QED BY <1>1, FS_EmptySet DEF Counted, EventsInOrder

LEMMA CountedStep == ASSUME Typed, Logged, Counted, LogStep PROVE Counted'
<1>0. LogTyped /\ events \in Seq(Ids) BY DEF Logged, Typed, StateTyped
<1>1. ASSUME events' = events, EventSlots' = EventSlots PROVE Counted'
  BY <1>1 DEF Counted, EventsInOrder
<1>2. CASE UNCHANGED <<log, answers, events>> BY <1>1, <1>2 DEF EventSlots
<1>3. ASSUME NEW s \in Slots, NEW b \in Bodies[s], Reserves(s, b) \/ GivesUp(s, b) PROVE Counted'
  <2>1. s.op = "model.invoke" /\ events' = events /\ \A r \in Slots \ {s} : log'[r] = log[r]
    BY <1>0, <1>3 DEF Reserves, GivesUp, Log!Reserve, Log!GiveUp, LogTyped
  <2> QED BY <1>1, <2>1 DEF EventSlots
<1>4. ASSUME NEW s \in Slots, NEW b \in Bodies[s], NEW n \in Answers, Repeats(s, b, n)
      PROVE  Counted'
  BY <1>1, <1>4 DEF Repeats, Log!Repeat, EventSlots
<1>5. ASSUME NEW s \in Slots, NEW b \in Bodies[s], NEW n \in Answers, Records(s, b, n)
      PROVE  Counted'
  <2>1. /\ \A r \in Slots \ {s} : log'[r] = log[r]
        /\ log'[s] = Entry(b, n) /\ Entry(b, n) # None
    BY <1>0, <1>5, EntryOf DEF Records, Log!Record, Log!Entry, Entry, LogTyped
  <2>2. CASE s.op # "event.append"
    BY <1>1, <1>5, <2>1, <2>2 DEF Records, Events, EventSlots
  <2>3. CASE s.op = "event.append"
    <3>1. log[s] = None /\ events' = Append(events, NextEvent)
      BY <1>5, <2>3 DEF Records, Events
    <3>2. EventSlots' = EventSlots \cup {s} /\ s \notin EventSlots
      BY <2>1, <2>3, <3>1 DEF EventSlots
    <3>3. IsFiniteSet(EventSlots') /\ Cardinality(EventSlots') = Cardinality(EventSlots) + 1
      BY <3>2, FS_AddElement DEF Counted
    <3>4. NextEvent = Len(events) + 1 BY DEF NextEvent, EventSlots, Counted
    <3>5. Len(events') = Len(events) + 1 BY <1>0, <3>1, <3>4
    <3>6. EventsInOrder' BY <1>0, <3>1, <3>4 DEF Counted, EventsInOrder
    <3> QED BY <3>3, <3>5, <3>6 DEF Counted
  <2> QED BY <2>2, <2>3
<1> QED BY <1>2, <1>3, <1>4, <1>5 DEF LogStep

-----------------------------------------------------------------------------
(* Reservations of model calls *)
Reserved(s) == log[s] # None /\ log[s].resp = Pending
Uninterrupted == run = "running" /\ faults = 0 /\ \A c \in Asked : inv[c].st = "none"

(* A run that is uninterrupted was so before. *)
LEMMA UninterruptedBefore ==
  ASSUME Typed, ToolsRun, [Next]_vars, Uninterrupted'
  PROVE  Uninterrupted /\ ~Restart
<1>0. /\ inv \in [Calls -> [st : InvStatus, by : {0} \cup Answers]] /\ faults \in Nat
      /\ Asked \subseteq Calls
  BY ConstantAssumption DEF Typed, StateTyped
<1>1. CASE UNCHANGED vars BY <1>0, <1>1 DEF Uninterrupted, vars, state, Restart, Fault
<1>2. ASSUME NEW t \in Threads, NEW s \in Slots, Request(t, s)
      PROVE  Uninterrupted /\ faults' = faults
  <2>1. ASSUME NEW c \in Calls, ToolStart(t, s, c) PROVE Uninterrupted /\ faults' = faults
    BY <1>0, <2>1 DEF ToolStart, Opens, Uninterrupted
  <2>2. ~(\E c \in Calls : ToolPause(t, s, c)) BY DEF ToolPause, Uninterrupted
  <2> QED
    BY <1>2, <2>1, <2>2
    DEF Request, Replay, ModelReserve, ToolResumed, AppendEvent, SaveCheckpoint, ArtifactAdmit,
        CompleteBegin, Uninterrupted, state
<1>3. ASSUME NEW t \in Threads, Other(t) PROVE Uninterrupted /\ faults' = faults
  BY <1>3 DEF Other, RegisterCapability, UserUpload, UserDelete, Uninterrupted, state
<1>4. ASSUME NEW t \in Threads, Continue(t) PROVE Uninterrupted
  <2>0. faults' = faults \/ faults' = faults + 1
    BY <1>4
    DEF Continue, ModelAnswered, ModelFailed, ModelDropped, ToolRun, ToolSave, ToolSaveBare,
        ToolSaveFails, ToolFenced, ToolStore, ArtifactPut, ArtifactPutFails, ArtifactRow,
        ArtifactReplay, ArtifactRejected, ArtifactUndo, UserRow, UserDeleteRow, UserFails,
        CompleteCommit, Fault
  <2>1. faults = 0 BY <1>0, <2>0 DEF Uninterrupted
  <2>2. ASSUME ToolSave(t) \/ ToolSaveBare(t) PROVE Uninterrupted
    <3>1. job[t].body \in Calls \ Asked
      BY <2>2 DEF ToolSave, ToolSaveBare, At, Typed, Working, Carries, CarriesFor, Tooling, Saving
    <3> QED BY <1>0, <2>1, <2>2, <3>1 DEF ToolSave, ToolSaveBare, Outcome, Uninterrupted
  <2>3. ~CompleteCommit(t) \/ UNCHANGED <<run, inv>>
    <3>1. CompleteCommit(t) => job[t].body \in Terminal \cup {"interrupted"}
      BY ConstantAssumption DEF CompleteCommit, At, Typed, Working, Carries, CarriesFor
    <3> QED BY <3>1 DEF CompleteCommit, Target, Terminal, Uninterrupted
  <2>4. UNCHANGED <<run, inv>> \/ ToolSave(t) \/ ToolSaveBare(t)
    BY <1>4, <2>3
    DEF Continue, ModelAnswered, ModelFailed, ModelDropped, ToolRun, ToolSaveFails, ToolFenced,
        ToolStore, ArtifactPut, ArtifactPutFails, ArtifactRow, ArtifactReplay, ArtifactRejected,
        ArtifactUndo, UserRow, UserDeleteRow, UserFails, state
  <2> QED BY <2>1, <2>2, <2>4 DEF Uninterrupted
<1>5. ~End BY DEF End, Uninterrupted
<1>6. ASSUME DeadlinePasses PROVE Uninterrupted BY <1>6 DEF DeadlinePasses, Uninterrupted
<1>7. ~Restart BY <1>0 DEF Restart, Fault, Uninterrupted
<1>8. ASSUME NEW c \in Calls, Decide(c) PROVE FALSE
  <2>1. c \in Asked BY <1>8 DEF Decide, ToolsRun, CallKnown
  <2> QED BY <1>0, <1>8, <2>1 DEF Decide, Uninterrupted
<1> QED BY <1>1, <1>2, <1>3, <1>4, <1>5, <1>6, <1>7, <1>8 DEF Next

(* A thread that has a model call under way stays with it until it is over. *)
LEMMA ModelStays ==
  ASSUME Typed, [Next]_vars, ~Restart, NEW u \in Threads, At(u, "model")
  PROVE  job'[u] = job[u] \/ ModelAnswered(u) \/ ModelFailed(u) \/ ModelDropped(u)
<1>0. job \in [Threads -> Jobs] BY DEF Typed, Working
<1>1. ASSUME NEW t \in Threads, NEW s \in Slots, Request(t, s) PROVE job'[u] = job[u]
  <2>1. t # u
    BY <1>1 DEF Request, Replay, ModelReserve, ToolStart, ToolPause, ToolResumed, AppendEvent,
                SaveCheckpoint, ArtifactAdmit, CompleteBegin, Opens, Free, At
  <2> QED BY <1>0, <1>1, <2>1
      DEF Request, Replay, ModelReserve, ToolStart, ToolPause, ToolResumed, AppendEvent,
          SaveCheckpoint, Serve, ArtifactAdmit, CompleteBegin, Take
<1>2. ASSUME NEW t \in Threads, Other(t) PROVE job'[u] = job[u]
  BY <1>0, <1>2 DEF Other, RegisterCapability, UserUpload, UserDelete, Take, At
<1>3. ASSUME NEW t \in Threads, Continue(t)
      PROVE  job'[u] = job[u] \/ ModelAnswered(u) \/ ModelFailed(u) \/ ModelDropped(u)
  <2>1. CASE t = u
    BY <1>3, <2>1
    DEF Continue, ToolRun, ToolSave, ToolSaveBare, ToolSaveFails, ToolFenced, ToolStore,
        ArtifactPut, ArtifactPutFails, ArtifactRow, ArtifactReplay, ArtifactRejected,
        ArtifactUndo, UserRow, UserDeleteRow, UserFails, CompleteCommit, At, Saving
  <2>2. CASE t # u
    BY <1>0, <1>3, <2>2
    DEF Continue, ModelAnswered, ModelFailed, ModelDropped, ToolRun, ToolSave, ToolSaveBare,
        ToolSaveFails, ToolFenced, ToolStore, ArtifactPut, ArtifactPutFails, ArtifactRow,
        ArtifactReplay, AfterReplay, ArtifactRejected, ArtifactUndo, UserRow, UserDeleteRow,
        UserFails, CompleteCommit, AfterSave, AfterBare, Go, Done
  <2> QED BY <2>1, <2>2
<1> QED BY <1>1, <1>2, <1>3 DEF Next, End, DeadlinePasses, Decide, vars

LEMMA ReservationStep ==
  ASSUME Typed, ToolsRun, Logged, ReservationEnds, LogStep, [Next]_vars
  PROVE  ReservationEnds'
<1>0. LogTyped BY DEF Logged
<1> SUFFICES ASSUME NEW s \in Slots, Reserved(s)', Uninterrupted'
             PROVE  \E t \in Threads : At(t, "model")' /\ job'[t].slot = s
  BY DEF ReservationEnds, Reserved, Uninterrupted
<1>1. Uninterrupted /\ ~Restart BY UninterruptedBefore
<1>2. Reserved(s) \/ \E b \in Bodies[s] : Reserves(s, b)
  <2>1. ASSUME NEW r \in Slots, NEW b \in Bodies[r], NEW n \in Answers, Records(r, b, n)
        PROVE  Reserved(s)
    <3>1. log' = [log EXCEPT ![r] = Entry(b, n)] BY <2>1 DEF Records, Log!Record, Log!Entry, Entry
    <3>2. Entry(b, n).resp # Pending BY Numbers DEF Entry
    <3> QED BY <1>0, <3>1, <3>2 DEF Reserved, LogTyped
  <2>2. ASSUME NEW r \in Slots, NEW b \in Bodies[r], GivesUp(r, b) PROVE Reserved(s)
    BY <1>0, <2>2 DEF GivesUp, Log!GiveUp, Reserved, LogTyped
  <2>3. ASSUME NEW r \in Slots, NEW b \in Bodies[r], Reserves(r, b), r # s PROVE Reserved(s)
    BY <1>0, <2>3 DEF Reserves, Log!Reserve, Reserved, LogTyped
  <2>4. ASSUME log' = log PROVE Reserved(s) BY <2>4 DEF Reserved
  <2> QED BY <2>1, <2>2, <2>3, <2>4 DEF LogStep, Repeats, Log!Repeat
<1>3. ASSUME NEW b \in Bodies[s], Reserves(s, b)
      PROVE  \E t \in Threads : At(t, "model")' /\ job'[t].slot = s
  BY <1>3 DEF Reserves
<1>4. ASSUME Reserved(s) PROVE \E t \in Threads : At(t, "model")' /\ job'[t].slot = s
  <2>1. PICK t \in Threads : At(t, "model") /\ job[t].slot = s
    BY <1>1, <1>4 DEF ReservationEnds, Reserved, Uninterrupted
  <2>2. job[t].id \in Answers /\ job[t].slot \in Slots /\ job[t].body \in Bodies[job[t].slot]
    BY <2>1, Numbers DEF Typed, Working, Carries, CarriesFor, At
  <2>3. ~ModelAnswered(t)
    <3>1. ModelAnswered(t) => log'[s] = Entry(job[t].body, job[t].id)
      BY <1>0, <2>1 DEF ModelAnswered, Put, LogTyped
    <3> QED BY <2>2, <3>1, Numbers DEF Entry, Reserved
  <2>4. ~ModelFailed(t) BY <1>0, <2>1 DEF ModelFailed, Release, LogTyped, Reserved
  <2>5. ~ModelDropped(t)
    BY <1>1 DEF ModelDropped, Fault, Uninterrupted
  <2>6. job'[t] = job[t] BY <1>1, <2>1, <2>3, <2>4, <2>5, ModelStays
  <2> QED BY <2>1, <2>6 DEF At
<1> QED BY <1>2, <1>3, <1>4

-----------------------------------------------------------------------------
(* Artifacts.  An upload has a number of its own that no row has yet, and while
   nothing fails the object store holds the objects of the active rows that
   are not being deleted and of the uploads on their way. *)
Uploads(t) == job[t].at \in {"put", "row", "undo", "userRow"}
Deletes(t) == At(t, "userDelete")
Stays(n) == ActiveRow(n) /\ \A t \in Threads : Deletes(t) => job[t].id # n
OnTheWay(n) == \E t \in Threads : Uploads(t) /\ ~At(t, "put") /\ job[t].id = n
Numbered ==
  /\ \A n \in Ids : rows[n] # None => n <= sent
  /\ \A t \in Threads : Uploads(t) => job[t].id <= sent /\ rows[job[t].id] = None
  /\ \A t, u \in Threads : Uploads(t) /\ Uploads(u) /\ job[t].id = job[u].id => t = u
  /\ \A n \in objects : n <= sent
Kept == faults = 0 => \A n \in Ids : n \in objects <=> Stays(n) \/ OnTheWay(n)
FilesInv == Numbered /\ Kept /\ OneArtifactPerPath

LEMMA FilesInit == ASSUME Init PROVE FilesInv
BY DEF Init, FilesInv, Numbered, Kept, OneArtifactPerPath, Uploads, Deletes, Stays, OnTheWay,
       ActiveRow, At, Idle

(* Steps that leave files, uploads and deletions alone. *)
FilesRest ==
  /\ rows' = rows /\ objects' = objects /\ sent <= sent' /\ (faults' = 0 => faults = 0)
  /\ \A t \in Threads : \/ job'[t] = job[t]
                        \/ ~Uploads(t) /\ ~Uploads(t)' /\ ~Deletes(t) /\ ~Deletes(t)'
LEMMA FilesRestKeep == ASSUME Typed, Typed', FilesInv, FilesRest PROVE FilesInv'
<1>0. /\ sent \in Nat /\ sent' \in Nat /\ objects \subseteq Ids /\ Ids \subseteq Nat
      /\ \A t \in Threads : Uploads(t) => job[t].id \in Ids
  BY ConstantAssumption
  DEF Typed, StateTyped, RowsTyped, Ids, Working, Uploads, Carries, CarriesFor
<1>1. /\ \A t \in Threads : Uploads(t)' => Uploads(t) /\ job'[t] = job[t]
      /\ \A t \in Threads : Deletes(t)' => Deletes(t) /\ job'[t] = job[t]
      /\ \A t \in Threads : Uploads(t) => Uploads(t)' /\ job'[t] = job[t]
      /\ \A t \in Threads : Deletes(t) => Deletes(t)' /\ job'[t] = job[t]
  BY DEF FilesRest, Uploads, Deletes, At
<1>2. Numbered'
  <2>1. rows' = rows /\ objects' = objects /\ sent <= sent' /\ Numbered BY DEF FilesInv, FilesRest
  <2>2. \A n \in Nat : n <= sent => n <= sent' BY <1>0, <2>1
  <2>3. \A n \in Ids : rows'[n] # None => n <= sent' BY <1>0, <2>1, <2>2 DEF Numbered
  <2>4. \A n \in objects' : n <= sent' BY <1>0, <2>1, <2>2 DEF Numbered
  <2>5. \A t \in Threads : Uploads(t)' => job'[t].id <= sent' /\ rows'[job'[t].id] = None
    BY <1>0, <1>1, <2>1, <2>2 DEF Numbered
  <2>6. \A t, u \in Threads : Uploads(t)' /\ Uploads(u)' /\ job'[t].id = job'[u].id => t = u
    BY <1>1, <2>1 DEF Numbered
  <2> QED BY <2>3, <2>4, <2>5, <2>6 DEF Numbered
<1>3. Kept'
  <2>1. \A n \in Ids : Stays(n)' <=> Stays(n) BY <1>1 DEF Stays, FilesRest, ActiveRow
  <2>2. \A n \in Ids : OnTheWay(n)' <=> OnTheWay(n) BY <1>1 DEF OnTheWay, At
  <2> QED BY <2>1, <2>2 DEF FilesInv, Kept, FilesRest
<1>4. OneArtifactPerPath' BY DEF FilesInv, OneArtifactPerPath, FilesRest, ActiveRow
<1> QED BY <1>2, <1>3, <1>4 DEF FilesInv

(* What the proofs about one thread's step start from. *)
FilesContext ==
  /\ sent \in Nat /\ objects \subseteq Ids /\ Ids \subseteq Nat /\ Numbered /\ Kept
  /\ OneArtifactPerPath /\ rows \in [Ids -> ArtifactRows \cup {None}]
  /\ job \in [Threads -> Jobs]
  /\ \A t \in Threads : Uploads(t) => job[t].id \in Ids /\ job[t].body \in Paths
  /\ \A t \in Threads : Deletes(t) => job[t].id \in Ids /\ rows[job[t].id] \in ArtifactRows
LEMMA FilesKnown == ASSUME Typed, Fenced, FilesInv PROVE FilesContext
<1>1. Ids \subseteq Nat BY ConstantAssumption DEF Ids
<1>2. /\ \A t \in Threads : Uploads(t) => job[t].id \in Ids /\ job[t].body \in Paths
      /\ \A t \in Threads : Deletes(t) => job[t].id \in Ids
  BY DEF Typed, Working, Uploads, Deletes, At, Carries, CarriesFor
<1>3. \A t \in Threads : Deletes(t) => rows[job[t].id] \in ArtifactRows
  BY <1>2 DEF Fenced, Deletes, Typed, RowsTyped
<1> QED BY <1>1, <1>2, <1>3, ConstantAssumption
    DEF FilesContext, FilesInv, Typed, StateTyped, RowsTyped, Working

(* A new upload, by a user or by the worker. *)
LEMMA FilesUpload ==
  ASSUME FilesContext, NEW t \in Threads, NEW p \in {"put", "userRow"}, NEW s, NEW b,
         At(t, "idle"), Take(t, p, s, b), rows' = rows, faults' = faults,
         objects' = IF p = "put" THEN objects ELSE objects \cup {sent + 1}
  PROVE  FilesInv'
<1>1. /\ \A u \in Threads \ {t} : job'[u] = job[u]
      /\ job'[t].at = p /\ job'[t].id = sent + 1 /\ sent' = sent + 1
  BY DEF FilesContext, Take, Job
<1>2. ~Uploads(t) /\ Uploads(t)' /\ ~Deletes(t) /\ ~Deletes(t)'
  BY <1>1 DEF Uploads, Deletes, At
<1>3. \A u \in Threads \ {t} : (Uploads(u)' <=> Uploads(u)) /\ (Deletes(u)' <=> Deletes(u))
  BY <1>1 DEF Uploads, Deletes, At
<1>4. sent + 1 \in Ids BY ConstantAssumption DEF FilesContext, Take, Ids
<1>5. rows[sent + 1] = None BY <1>4 DEF FilesContext, Numbered
<1>6. Numbered'
  <2>1. \A n \in Ids : rows'[n] # None => n <= sent' BY <1>1 DEF FilesContext, Numbered
  <2>2. \A n \in objects' : n <= sent' BY <1>1 DEF FilesContext, Numbered
  <2>3. \A u \in Threads : Uploads(u)' => job'[u].id <= sent' /\ rows'[job'[u].id] = None
    <3>1. sent + 1 <= sent' /\ rows'[sent + 1] = None BY <1>1, <1>5 DEF FilesContext
    <3>2. ASSUME NEW u \in Threads \ {t}, Uploads(u)
          PROVE  job[u].id <= sent' /\ rows'[job[u].id] = None
      <4>1. job[u].id \in Nat /\ job[u].id <= sent /\ sent \in Nat /\ rows[job[u].id] = None
        BY <3>2 DEF FilesContext, Numbered
      <4> QED BY <1>1, <4>1
    <3> QED BY <1>1, <1>3, <3>1, <3>2
  <2>4. \A u \in Threads \ {t} : Uploads(u)' => job'[u].id # sent + 1
    BY <1>1, <1>3 DEF FilesContext, Numbered
  <2>5. \A u, v \in Threads : Uploads(u)' /\ Uploads(v)' /\ job'[u].id = job'[v].id => u = v
    BY <1>1, <1>3, <2>4 DEF FilesContext, Numbered
  <2> QED BY <2>1, <2>2, <2>3, <2>5 DEF Numbered
<1>7. Kept'
  <2>1. \A n \in Ids : Stays(n)' <=> Stays(n)
    BY <1>1, <1>2, <1>3 DEF Stays, ActiveRow
  <2>2. \A n \in Ids : OnTheWay(n)' <=> OnTheWay(n) \/ (n = sent + 1 /\ p # "put")
    BY <1>1, <1>2, <1>3 DEF OnTheWay, At
  <2> QED BY <1>4, <2>1, <2>2 DEF FilesContext, Kept
<1>8. OneArtifactPerPath' BY DEF FilesContext, OneArtifactPerPath, ActiveRow
<1> QED BY <1>6, <1>7, <1>8 DEF FilesInv

(* An upload goes on: the object is stored, or is to be deleted again. *)
LEMMA FilesGoOn ==
  ASSUME FilesContext, NEW t \in Threads, NEW p \in {"row", "undo"}, Uploads(t), Go(t, p),
         rows' = rows, sent' = sent, faults' = 0 => faults = 0,
         \/ At(t, "put") /\ objects' = objects \cup {job[t].id}
         \/ ~At(t, "put") /\ objects' = objects
  PROVE  FilesInv'
<1>1. /\ \A u \in Threads \ {t} : job'[u] = job[u]
      /\ job'[t].at = p /\ job'[t].id = job[t].id
  BY DEF FilesContext, Go, Jobs
<1>2. Uploads(t)' /\ ~Deletes(t) /\ ~Deletes(t)' /\ ~At(t, "put")'
  BY <1>1 DEF Uploads, Deletes, At
<1>3. \A u \in Threads \ {t} : (Uploads(u)' <=> Uploads(u)) /\ (Deletes(u)' <=> Deletes(u))
  BY <1>1 DEF Uploads, Deletes, At
<1>4. \A u \in Threads : job'[u].id = job[u].id BY <1>1
<1>5. job[t].id \in Ids /\ job[t].id <= sent BY DEF FilesContext, Numbered
<1>6. Numbered' BY <1>2, <1>3, <1>4, <1>5 DEF FilesContext, Numbered
<1>7. Kept'
  <2>1. \A n \in Ids : Stays(n)' <=> Stays(n)
    BY <1>2, <1>3, <1>4 DEF Stays, ActiveRow
  <2>2. \A n \in Ids : OnTheWay(n)' <=> OnTheWay(n) \/ n = job[t].id
    BY <1>1, <1>2, <1>3, <1>4 DEF OnTheWay, At
  <2>3. ~At(t, "put") => OnTheWay(job[t].id) BY DEF OnTheWay
  <2> QED BY <1>5, <2>1, <2>2, <2>3 DEF FilesContext, Kept
<1>8. OneArtifactPerPath' BY DEF FilesContext, OneArtifactPerPath, ActiveRow
<1> QED BY <1>6, <1>7, <1>8 DEF FilesInv

(* An upload gets its row. *)
LEMMA FilesRow ==
  ASSUME FilesContext, NEW t \in Threads, NEW w \in {"worker", "user"}, Uploads(t), ~At(t, "put"),
         Done(t), rows' = [rows EXCEPT ![job[t].id] = Row(job[t].body, w)], objects' = objects,
         faults' = faults, w = "worker" => StillFree(job[t].body)
  PROVE  FilesInv'
<1>1. /\ \A u \in Threads \ {t} : job'[u] = job[u]
      /\ job'[t].at = "idle" /\ sent' = sent
  BY DEF FilesContext, Done, Idle
<1>2. ~Uploads(t)' /\ ~Deletes(t) /\ ~Deletes(t)' BY <1>1 DEF Uploads, Deletes, At
<1>3. \A u \in Threads \ {t} : (Uploads(u)' <=> Uploads(u)) /\ (Deletes(u)' <=> Deletes(u))
  BY <1>1 DEF Uploads, Deletes, At
<1>4. /\ job[t].id \in Ids /\ job[t].id <= sent /\ rows[job[t].id] = None
      /\ job[t].body \in Paths
  BY DEF FilesContext, Numbered
<1>5. /\ \A n \in Ids \ {job[t].id} : rows'[n] = rows[n]
      /\ rows'[job[t].id] = Row(job[t].body, w) /\ Row(job[t].body, w) \in ArtifactRows
      /\ Row(job[t].body, w) # None
  BY <1>4, ConstantAssumption DEF FilesContext, Row, ArtifactRows
<1>6. \A u \in Threads \ {t} : (Uploads(u) \/ Deletes(u)) => job[u].id # job[t].id
  BY <1>4, ConstantAssumption DEF FilesContext, Numbered
<1>7. Numbered'
  <2>1. \A n \in Ids : rows'[n] # None => n <= sent' BY <1>1, <1>4, <1>5 DEF FilesContext, Numbered
  <2>2. \A u \in Threads : Uploads(u)' => job'[u].id <= sent' /\ rows'[job'[u].id] = None
    BY <1>1, <1>2, <1>3, <1>5, <1>6 DEF FilesContext, Numbered
  <2> QED BY <1>1, <1>2, <1>3, <2>1, <2>2 DEF FilesContext, Numbered
<1>8. PICK m \in Ids : m = job[t].id BY <1>4
<1>9. ActiveRow(m)' /\ \A n \in Ids \ {m} : ActiveRow(n)' <=> ActiveRow(n)
  BY <1>5, <1>8 DEF ActiveRow, Row
<1>10. Kept'
  <2>1. \A n \in Ids \ {m} : Stays(n)' <=> Stays(n)
    BY <1>1, <1>2, <1>3, <1>9 DEF Stays
  <2>2. \A n \in Ids \ {m} : OnTheWay(n)' <=> OnTheWay(n)
    BY <1>1, <1>2, <1>3, <1>8 DEF OnTheWay, At
  <2>3. Stays(m)'
    BY <1>1, <1>2, <1>3, <1>6, <1>8, <1>9 DEF Stays
  <2>4. OnTheWay(m) BY <1>8 DEF OnTheWay
  <2> QED BY <2>1, <2>2, <2>3, <2>4 DEF FilesContext, Kept
<1>11. OneArtifactPerPath'
  <2>1. w = "worker" => \A n \in Ids : ActiveRow(n) => rows[n].path # job[t].body
    BY DEF StillFree, Taken
  <2> QED BY <1>4, <1>5, <1>8, <1>9, <2>1 DEF FilesContext, OneArtifactPerPath, Row
<1> QED BY <1>7, <1>10, <1>11 DEF FilesInv

(* An upload is taken back. *)
LEMMA FilesUndone ==
  ASSUME FilesContext, NEW t \in Threads, Uploads(t), ~At(t, "put"), Done(t),
         rows' = rows, objects' = objects \ {job[t].id}, faults' = faults
  PROVE  FilesInv'
<1>1. /\ \A u \in Threads \ {t} : job'[u] = job[u]
      /\ job'[t].at = "idle" /\ sent' = sent
  BY DEF FilesContext, Done, Idle
<1>2. ~Uploads(t)' /\ ~Deletes(t) /\ ~Deletes(t)' BY <1>1 DEF Uploads, Deletes, At
<1>3. \A u \in Threads \ {t} : (Uploads(u)' <=> Uploads(u)) /\ (Deletes(u)' <=> Deletes(u))
  BY <1>1 DEF Uploads, Deletes, At
<1>4. PICK m \in Ids : m = job[t].id BY DEF FilesContext
<1>5. rows[m] = None BY <1>4 DEF FilesContext, Numbered
<1>6. Numbered' BY <1>1, <1>2, <1>3 DEF FilesContext, Numbered
<1>7. Kept'
  <2>1. \A n \in Ids : Stays(n)' <=> Stays(n) BY <1>1, <1>2, <1>3 DEF Stays, ActiveRow
  <2>2. \A n \in Ids \ {m} : OnTheWay(n)' <=> OnTheWay(n)
    BY <1>1, <1>2, <1>3, <1>4 DEF OnTheWay, At
  <2>3. ~Stays(m) BY <1>5 DEF Stays, ActiveRow
  <2>4. ~OnTheWay(m)' BY <1>1, <1>2, <1>3, <1>4 DEF FilesContext, Numbered, OnTheWay
  <2> QED BY <1>4, <2>1, <2>2, <2>3, <2>4 DEF FilesContext, Kept
<1>8. OneArtifactPerPath' BY DEF FilesContext, OneArtifactPerPath, ActiveRow
<1> QED BY <1>6, <1>7, <1>8 DEF FilesInv

(* A user deletes an artifact: first the object, then the row. *)
LEMMA FilesDelete ==
  ASSUME FilesContext, NEW t \in Threads, NEW n \in Ids, UserDelete(t, n)
  PROVE  FilesInv'
<1>1. /\ \A u \in Threads \ {t} : job'[u] = job[u]
      /\ job'[t].at = "userDelete" /\ job'[t].id = n /\ sent' = sent /\ rows' = rows
      /\ objects' = objects \ {n} /\ faults' = faults /\ rows[n] # None
  BY DEF FilesContext, UserDelete, Idle, ActiveRow
<1>2. ~Uploads(t) /\ ~Uploads(t)' /\ ~Deletes(t) /\ Deletes(t)'
  BY <1>1 DEF UserDelete, Uploads, Deletes, At
<1>3. \A u \in Threads \ {t} : (Uploads(u)' <=> Uploads(u)) /\ (Deletes(u)' <=> Deletes(u))
  BY <1>1 DEF Uploads, Deletes, At
<1>4. Numbered' BY <1>1, <1>2, <1>3 DEF FilesContext, Numbered
<1>5. Kept'
  <2>1. \A m \in Ids \ {n} : Stays(m)' <=> Stays(m)
    BY <1>1, <1>2, <1>3 DEF Stays, ActiveRow
  <2>2. \A m \in Ids : OnTheWay(m)' <=> OnTheWay(m)
    BY <1>1, <1>2, <1>3 DEF OnTheWay, At
  <2>3. ~Stays(n)' BY <1>1, <1>2 DEF Stays
  <2>4. ~OnTheWay(n) BY <1>1 DEF FilesContext, Numbered, OnTheWay
  <2> QED BY <1>1, <2>1, <2>2, <2>3, <2>4 DEF FilesContext, Kept
<1>6. OneArtifactPerPath' BY <1>1 DEF FilesContext, OneArtifactPerPath, ActiveRow
<1> QED BY <1>4, <1>5, <1>6 DEF FilesInv

LEMMA FilesDeleteRow ==
  ASSUME FilesContext, NEW t \in Threads, UserDeleteRow(t)
  PROVE  FilesInv'
<1>1. /\ \A u \in Threads \ {t} : job'[u] = job[u]
      /\ job'[t].at = "idle" /\ sent' = sent /\ objects' = objects /\ faults' = faults
  BY DEF FilesContext, UserDeleteRow, Done, Idle
<1>2. ~Uploads(t) /\ ~Uploads(t)' /\ Deletes(t) /\ ~Deletes(t)'
  BY <1>1 DEF UserDeleteRow, Uploads, Deletes, At
<1>3. \A u \in Threads \ {t} : (Uploads(u)' <=> Uploads(u)) /\ (Deletes(u)' <=> Deletes(u))
  BY <1>1 DEF Uploads, Deletes, At
<1>4. PICK m \in Ids : m = job[t].id BY <1>2 DEF FilesContext
<1>5. /\ rows[m] \in ArtifactRows /\ rows[m] # None /\ rows'[m].st = "deleted"
      /\ \A n \in Ids \ {m} : rows'[n] = rows[n]
  BY <1>2, <1>4, ConstantAssumption DEF FilesContext, UserDeleteRow, ArtifactRows
<1>6. Numbered'
  <2>1. \A u \in Threads : Uploads(u) => job[u].id # m BY <1>5 DEF FilesContext, Numbered
  <2>2. \A n \in Ids : rows'[n] # None => n <= sent' BY <1>1, <1>5 DEF FilesContext, Numbered
  <2>3. \A u \in Threads : Uploads(u)' => job'[u].id <= sent' /\ rows'[job'[u].id] = None
    BY <1>1, <1>2, <1>3, <1>5, <2>1 DEF FilesContext, Numbered
  <2> QED BY <1>1, <1>2, <1>3, <2>2, <2>3 DEF FilesContext, Numbered
<1>7. ~ActiveRow(m)' /\ \A n \in Ids \ {m} : ActiveRow(n)' <=> ActiveRow(n)
  BY <1>5 DEF ActiveRow
<1>8. Kept'
  <2>1. \A n \in Ids \ {m} : Stays(n)' <=> Stays(n)
    BY <1>1, <1>2, <1>3, <1>4, <1>7 DEF Stays
  <2>2. \A n \in Ids : OnTheWay(n)' <=> OnTheWay(n)
    BY <1>1, <1>2, <1>3 DEF OnTheWay, At
  <2>3. ~Stays(m) /\ ~Stays(m)' BY <1>2, <1>4, <1>7 DEF Stays
  <2> QED BY <1>1, <2>1, <2>2, <2>3 DEF FilesContext, Kept
<1>9. OneArtifactPerPath' BY <1>5, <1>7 DEF FilesContext, OneArtifactPerPath
<1> QED BY <1>6, <1>8, <1>9 DEF FilesInv

(* A fault: uploads and deletions that break off leave their objects behind. *)
LEMMA FilesFault ==
  ASSUME FilesContext, faults \in Nat, Fault, rows' = rows, sent' = sent, \A n \in objects' : n <= sent,
         \A t \in Threads : \/ job'[t].at = "idle"
                         \/ job'[t] = job[t]
  PROVE  FilesInv'
<1>1. faults' # 0 BY DEF Fault
<1>2. \A t \in Threads : Uploads(t)' => Uploads(t) /\ job'[t] = job[t] BY DEF Uploads
<1>3. Numbered' BY <1>2 DEF FilesContext, Numbered
<1>4. OneArtifactPerPath' BY DEF FilesContext, OneArtifactPerPath, ActiveRow
<1> QED BY <1>1, <1>3, <1>4 DEF FilesInv, Kept

FileWork(t) ==
  \/ \E s \in Slots, p \in Paths : ArtifactAdmit(t, s, p)
  \/ \E p \in Paths : UserUpload(t, p)
  \/ \E n \in Ids : UserDelete(t, n)
  \/ ArtifactPut(t) \/ ArtifactPutFails(t) \/ ArtifactRow(t) \/ ArtifactReplay(t)
  \/ ArtifactRejected(t) \/ ArtifactUndo(t)
  \/ UserRow(t) \/ UserDeleteRow(t) \/ UserFails(t)

LEMMA FilesAtWork ==
  ASSUME Typed, FilesContext, NEW t \in Threads, FileWork(t)
  PROVE  FilesInv'
<1>0. faults \in Nat /\ job \in [Threads -> Jobs] BY DEF Typed, StateTyped, Working
<1>1. ASSUME NEW s \in Slots, NEW p \in Paths, ArtifactAdmit(t, s, p) PROVE FilesInv'
  BY <1>1, FilesUpload DEF ArtifactAdmit, Opens, Free, files
<1>2. ASSUME NEW p \in Paths, UserUpload(t, p) PROVE FilesInv'
  BY <1>2, FilesUpload DEF UserUpload
<1>3. ASSUME NEW n \in Ids, UserDelete(t, n) PROVE FilesInv' BY <1>3, FilesDelete
<1>4. CASE ArtifactPut(t)
  <2>1. Uploads(t) /\ Go(t, "row") /\ sent' = sent BY <1>4 DEF ArtifactPut, At, Uploads, Go
  <2> QED BY <1>4, <2>1, FilesGoOn DEF ArtifactPut
<1>5. ASSUME ArtifactReplay(t) \/ ArtifactRejected(t) PROVE FilesInv'
  <2>1. Uploads(t) /\ ~At(t, "put") /\ Go(t, "undo") /\ sent' = sent
    BY <1>5 DEF ArtifactReplay, AfterReplay, ArtifactRejected, At, Uploads, Go
  <2>2. faults' = 0 => faults = 0 BY <1>0, <1>5 DEF ArtifactReplay, ArtifactRejected, Fault
  <2> QED BY <1>5, <2>1, <2>2, FilesGoOn DEF ArtifactReplay, ArtifactRejected, files
<1>6. CASE ArtifactRow(t)
  <2>1. Uploads(t) /\ ~At(t, "put") BY <1>6 DEF ArtifactRow, At, Uploads
  <2> QED BY <1>6, <2>1, FilesRow DEF ArtifactRow
<1>7. CASE UserRow(t)
  <2>1. Uploads(t) /\ ~At(t, "put") BY <1>7 DEF UserRow, At, Uploads
  <2> QED BY <1>7, <2>1, FilesRow DEF UserRow
<1>8. ASSUME Done(t)
      PROVE  /\ \A u \in Threads : job'[u].at = "idle" \/ job'[u] = job[u]
             /\ sent' = sent
  BY <1>0, <1>8 DEF Done, Idle
<1>9. CASE ArtifactUndo(t)
  <2>1. Uploads(t) /\ ~At(t, "put") /\ Done(t) /\ rows' = rows
    BY <1>9 DEF ArtifactUndo, At, Uploads
  <2>2. \/ objects' = objects \ {job[t].id} /\ faults' = faults
        \/ Fault /\ objects' = objects
    BY <1>9 DEF ArtifactUndo
  <2>3. \A n \in objects : n <= sent BY DEF FilesContext, Numbered
  <2> QED BY <1>0, <1>8, <2>1, <2>2, <2>3, FilesUndone, FilesFault
<1>10. CASE ArtifactPutFails(t)
  <2>1. Uploads(t) /\ Done(t) /\ rows' = rows /\ Fault
        /\ objects' \subseteq objects \cup {job[t].id}
    BY <1>10 DEF ArtifactPutFails, At, Uploads
  <2>2. \A n \in objects' : n <= sent BY <2>1 DEF FilesContext, Numbered
  <2> QED BY <1>0, <1>8, <2>1, <2>2, FilesFault
<1>11. CASE UserFails(t)
  <2>1. Done(t) /\ rows' = rows /\ objects' = objects /\ Fault BY <1>11 DEF UserFails, files
  <2>2. \A n \in objects' : n <= sent BY <2>1 DEF FilesContext, Numbered
  <2> QED BY <1>0, <1>8, <2>1, <2>2, FilesFault
<1>12. CASE UserDeleteRow(t) BY <1>12, FilesDeleteRow
<1> QED BY <1>1, <1>2, <1>3, <1>4, <1>5, <1>6, <1>7, <1>9, <1>10, <1>11, <1>12 DEF FileWork

(* The other steps of a thread are no uploads and no deletions. *)
LEMMA FilesElsewhere ==
  ASSUME Typed, NEW t \in Threads, ~FileWork(t),
         Continue(t) \/ Other(t) \/ \E s \in Slots : Request(t, s)
  PROVE  FilesRest
<1>0. faults \in Nat /\ sent \in Nat /\ job \in [Threads -> Jobs] /\ job[t] \in Jobs
  BY DEF Typed, StateTyped, Working
<1>1. ~Uploads(t) /\ ~Deletes(t)
  BY DEF Continue, Other, Request, FileWork, Replay, ModelReserve, ToolStart, ToolPause,
         ToolResumed, AppendEvent, SaveCheckpoint, CompleteBegin, RegisterCapability, Opens,
         Free, ModelAnswered, ModelFailed, ModelDropped, ToolRun, ToolSave, ToolSaveBare,
         ToolSaveFails, ToolFenced, ToolStore, CompleteCommit, At, Saving, Uploads, Deletes
<1>2. rows' = rows /\ objects' = objects /\ (faults' = faults \/ faults' = faults + 1)
  BY DEF Continue, Other, Request, FileWork, Replay, ModelReserve, ToolStart, ToolPause,
         ToolResumed, AppendEvent, SaveCheckpoint, CompleteBegin, RegisterCapability,
         ModelAnswered, ModelFailed, ModelDropped, ToolRun, ToolSave, ToolSaveBare,
         ToolSaveFails, ToolFenced, ToolStore, CompleteCommit, files, Fault
<1> DEFINE Away == /\ \A u \in Threads \ {t} : job'[u] = job[u]
                   /\ job'[t].at \notin {"put", "row", "undo", "userRow", "userDelete"}
<1>3. (sent' = sent \/ sent' = sent + 1) /\ Away
  <2>1. CASE ToolRun(t)
    <3>1. PICK o \in {"completed", "failed"} : job' = [job EXCEPT ![t] = [job[t] EXCEPT !.at = "save", !.out = o]]
      BY <2>1 DEF ToolRun
    <3> QED BY <1>0, <2>1, <3>1 DEF ToolRun, Jobs
  <2>2. ASSUME NEW p \in {"store", "saveAgain", "saveBare"}, Go(t, p) PROVE sent' = sent /\ Away
    BY <1>0, <2>2 DEF Go, Jobs
  <2>3. ASSUME Done(t) PROVE sent' = sent /\ Away
    BY <1>0, <2>3 DEF Done, Idle
  <2>4. ASSUME NEW p \in {"model", "run", "commit"}, NEW s, NEW b, Take(t, p, s, b)
        PROVE  sent' = sent + 1 /\ Away
    BY <1>0, <2>4 DEF Take, Job
  <2>5. \/ job' = job /\ (sent' = sent \/ sent' = sent + 1)
        \/ ToolRun(t) \/ Done(t)
        \/ \E p \in {"store", "saveAgain", "saveBare"} : Go(t, p)
        \/ \E p \in {"model", "run", "commit"} : \E s, b : Take(t, p, s, b)
    BY DEF Continue, Other, Request, FileWork, Replay, ModelReserve, ToolStart, ToolPause,
           ToolResumed, AppendEvent, SaveCheckpoint, Serve, CompleteBegin, RegisterCapability,
           ModelAnswered, ModelFailed, ModelDropped, ToolSave, ToolSaveBare, AfterSave,
           AfterBare, ToolSaveFails, ToolFenced, ToolStore, CompleteCommit
  <2>6. ASSUME job' = job PROVE Away BY <1>1, <2>6 DEF Uploads, Deletes, At
  <2> QED BY <2>1, <2>2, <2>3, <2>4, <2>5, <2>6
<1>4. ~Uploads(t)' /\ ~Deletes(t)' BY <1>3 DEF Uploads, Deletes, At
<1> QED BY <1>0, <1>1, <1>2, <1>3, <1>4 DEF FilesRest

LEMMA FilesStep ==
  ASSUME Typed, Typed', Fenced, FilesInv, [Next]_vars
  PROVE  FilesInv'
<1>1. FilesContext BY FilesKnown
<1>2. ASSUME UNCHANGED vars \/ End \/ DeadlinePasses \/ \E c \in Calls : Decide(c)
      PROVE  FilesInv'
  <2>1. FilesRest
    BY <1>1, <1>2 DEF vars, End, DeadlinePasses, Decide, files, FilesRest, FilesContext
  <2> QED BY <2>1, FilesRestKeep
<1>3. CASE Restart
  <2>1. faults \in Nat BY DEF Typed, StateTyped
  <2>2. \A n \in objects : n <= sent BY <1>1 DEF FilesContext, Numbered
  <2> QED BY <1>1, <1>3, <2>1, <2>2, FilesFault DEF Restart, files, Idle
<1>4. ASSUME NEW t \in Threads, Continue(t) \/ Other(t) \/ \E s \in Slots : Request(t, s)
      PROVE  FilesInv'
  BY <1>1, <1>4, FilesAtWork, FilesElsewhere, FilesRestKeep
<1> QED BY <1>2, <1>3, <1>4 DEF Next

-----------------------------------------------------------------------------
(* The whole invariant *)
GatewayInv == Typed /\ Fenced /\ ToolsRun /\ Logged /\ Counted /\ ReservationEnds
              /\ FilesInv

LEMMA GatewayInvariant == Spec => []GatewayInv
<1>1. Init => GatewayInv
  BY TypedInit, FencedInit, ToolsInit, LogInit, CountedInit, FilesInit
  DEF GatewayInv, ReservationEnds, Init
<1>2. GatewayInv /\ [Next]_vars => GatewayInv'
  BY TypedStep, FencedStep, ToolsStep, LogSteps, LoggedStep, CountedStep, ReservationStep,
     FilesStep
  DEF GatewayInv
<1> QED BY <1>1, <1>2, PTL DEF Spec

(* The type invariant of the gateway. *)
THEOREM TypeInvariant == Spec => []TypeOK
<1>1. GatewayInv => TypeOK
  BY DEF GatewayInv, Typed, Working, Jobs, StateTyped, RowsTyped, Logged, LogTyped, TypeOK
<1> QED BY <1>1, GatewayInvariant, PTL

(* The tool of a call runs at most once, and what the worker is told is the
   result of that run: however often the call is sent, under whatever keys, by
   however many threads, with whatever outages and restarts (execute). *)
THEOREM ToolsRunOnce == Spec => []EffectOnce
<1>1. GatewayInv => EffectOnce
  <2> SUFFICES ASSUME GatewayInv, NEW c \in Calls
               PROVE  /\ effects[c] <= 1
                      /\ \A s \in Slots : s.op = "tool.invoke" /\ log[s] # None /\ log[s].body = c =>
                           effects[c] = 1 /\ inv[c].st = "completed" /\ log[s].resp = inv[c].by
    BY DEF EffectOnce
  <2>1. CallKnown(c) BY DEF GatewayInv, ToolsRun
  <2>2. ASSUME NEW s \in Slots, s.op = "tool.invoke", log[s] # None, log[s].body = c
        PROVE  inv[c].st = "completed" /\ log[s].resp = inv[c].by
    <3>1. log[s].resp # Pending BY <2>2 DEF GatewayInv, Logged, LogTyped
    <3> QED BY <2>2, <3>1 DEF GatewayInv, Logged, LogBacked, Backed
  <2> QED BY <2>1, <2>2 DEF CallKnown
<1> QED BY <1>1, GatewayInvariant, PTL

(* What the worker is told of a model or a tool is in the audit trail. *)
THEOREM AnswersAreAudited == Spec => []AnsweredIsAudited
<1>1. GatewayInv => AnsweredIsAudited BY DEF GatewayInv, Logged
<1> QED BY <1>1, GatewayInvariant, PTL

(* The worker's events reach the run in the order of their numbers. *)
THEOREM EventsStayInOrder == Spec => []EventsInOrder
<1>1. GatewayInv => EventsInOrder BY DEF GatewayInv, Counted
<1> QED BY <1>1, GatewayInvariant, PTL

(* The reservation of a model call that is over is released or answered, unless
   the run was interrupted, a write failed or the process died (invoke_model). *)
THEOREM ReservationsEnd == Spec => []ReservationEnds
<1>1. GatewayInv => ReservationEnds BY DEF GatewayInv
<1> QED BY <1>1, GatewayInvariant, PTL

(* Two active artifacts of the worker never have the same path, though the
   upload goes on without the lock (prepare_for_run, persist_prepared). *)
THEOREM PathsAreUnique == Spec => []OneArtifactPerPath
<1>1. GatewayInv => OneArtifactPerPath BY DEF GatewayInv, FilesInv
<1> QED BY <1>1, GatewayInvariant, PTL

(* Without faults the object store and the rows agree whenever nobody is at
   work: every upload that lost a race was taken back (create_artifact). *)
THEOREM ObjectsMatchRows == Spec => []StoresAgree
<1>1. GatewayInv => StoresAgree
  <2> SUFFICES ASSUME GatewayInv, \A t \in Threads : At(t, "idle"), faults = 0
               PROVE  objects = {n \in Ids : ActiveRow(n)}
    BY DEF StoresAgree
  <2>1. \A n \in Ids : (Stays(n) <=> ActiveRow(n)) /\ ~OnTheWay(n)
    BY DEF Stays, Deletes, OnTheWay, Uploads, At
  <2>2. objects \subseteq Ids BY DEF GatewayInv, Typed, RowsTyped
  <2> QED BY <2>1, <2>2 DEF GatewayInv, FilesInv, Kept
<1> QED BY <1>1, GatewayInvariant, PTL

(* The gateway implements the log of requests: a slot holds one request at a
   time, its answer never changes, and every answer given out is the one the
   log holds for the request it was given to (_replay_or_conflict). *)
THEOREM Refinement == Spec => ImplementsLog
<1>1. Init => Log!Init BY DEF Init, Log!Init
<1>2. GatewayInv /\ [Next]_vars => [Log!Next]_<<log, answers>>
  <2> SUFFICES ASSUME GatewayInv, [Next]_vars PROVE [Log!Next]_<<log, answers>>
    OBVIOUS
  <2>1. LogStep BY LogSteps DEF GatewayInv
  <2>2. LogTyped BY DEF GatewayInv, Logged
  <2>3. ASSUME NEW s \in Slots, NEW b \in Bodies[s],
               \/ Log!Reserve(s, b) \/ Log!GiveUp(s, b)
               \/ \E n \in Answers : Log!Record(s, b, n) \/ Log!Repeat(s, b, n)
        PROVE  [Log!Next]_<<log, answers>>
    <3>1. CASE Log!Moves(s) BY <2>3, <3>1 DEF Log!Next
    <3>2. CASE ~Log!Moves(s)
      <4>1. log' = log
        BY <2>2, <2>3, <3>2
        DEF LogTyped, Log!Moves, Log!Reserve, Log!GiveUp, Log!Record, Log!Repeat
      <4>2. answers' = answers
        BY <2>2, <2>3, <3>2
        DEF LogTyped, Log!Moves, Log!Reserve, Log!GiveUp, Log!Record, Log!Repeat
      <4> QED BY <4>1, <4>2
    <3> QED BY <3>1, <3>2
  <2> QED BY <2>1, <2>3 DEF LogStep, Reserves, GivesUp, Records, Repeats
<1> QED BY <1>1, <1>2, GatewayInvariant, PTL DEF Spec, ImplementsLog, Log!Spec
=============================================================================
