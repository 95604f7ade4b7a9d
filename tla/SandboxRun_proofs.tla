--------------------------- MODULE SandboxRun_proofs ---------------------------
(***************************************************************************)
(* Proofs about SandboxRun for any set of threads, calls and any bounds:   *)
(* its type invariant, that an approved tool is performed at most once and *)
(* under a standing approval, and that the module implements               *)
(* ApprovalContract.                                                       *)
(*                                                                         *)
(* The first lemmas say that what the steps write has its type; then one   *)
(* lemma per part of the next-state relation shows that its steps preserve *)
(* TypeOK and MemOK, with one case per action.                             *)
(***************************************************************************)
EXTENDS SandboxRun, TLAPS

(* A thread goes on to a step its memory fits. *)
LEMMA GoType ==
  ASSUME TypeOK, MemOK, NEW t \in Threads, NEW p \in ThreadPC, NEW m \in Memories,
         MemFits(p, m), GoWith(t, p, m)
  PROVE  pc' \in [Threads -> ThreadPC] /\ mem' \in [Threads -> Memories] /\ MemOK'
BY DEF TypeOK, MemOK, GoWith

LEMMA GotoType ==
  ASSUME TypeOK, MemOK, NEW t \in Threads, NEW p \in ThreadPC,
         MemFits(p, mem[t]), Goto(t, p)
  PROVE  pc' \in [Threads -> ThreadPC] /\ mem' \in [Threads -> Memories] /\ MemOK'
BY DEF TypeOK, MemOK, Goto

LEMMA MemType ==
  /\ NoMem \in Memories
  /\ \A out \in {"none", "cleaned"} \cup Terminal, kill \in BOOLEAN, c \in Calls \cup {NoCall}, k \in Nat :
       Mem(out, kill, c, k) \in Memories
BY DEF NoMem, Mem, Memories

(* The same for the way back to idle and the way to _finish. *)
LEMMA ReturnType ==
  ASSUME TypeOK, MemOK, NEW t \in Threads, Return(t)
  PROVE  pc' \in [Threads -> ThreadPC] /\ mem' \in [Threads -> Memories] /\ MemOK'
<1>1. MemFits("idle", NoMem) BY DEF MemFits
<1> QED BY <1>1, GoType, MemType DEF Return, ThreadPC

LEMMA EndType ==
  ASSUME TypeOK, MemOK, NEW t \in Threads, NEW out \in Terminal, NEW kill \in BOOLEAN, End(t, out, kill)
  PROVE  pc' \in [Threads -> ThreadPC] /\ mem' \in [Threads -> Memories] /\ MemOK'
<1>1. MemFits("finish", Mem(out, kill, NoCall, 0)) BY DEF MemFits, Mem
<1> QED BY <1>1, GoType, MemType DEF End, ThreadPC

(* What the launcher and the worker do to the container *)
LEMMA BoxType ==
  /\ Absent \in Containers
  /\ \A k \in Nat : Fresh(k) \in Containers
  /\ \A wk \in WorkerState : Exits(wk) \in Containers
BY DEF Absent, Fresh, Exits, Box, Containers, WorkerState, Ops

LEMMA TellType ==
  ASSUME TypeOK, NEW wk \in WorkerState
  PROVE  Tell(wk) \in Containers
BY DEF TypeOK, Tell, Box, Containers

LEMMA CreateType ==
  ASSUME TypeOK, NEW k \in Nat, Create(k)
  PROVE  container' \in Containers /\ cleaned' \in BOOLEAN
BY BoxType DEF Create, TypeOK

LEMMA ErrorType ==
  ASSUME NEW op \in Ops
  PROVE  AfterError(op) \in WorkerState
BY DEF AfterError, Ops, WorkerState

LEMMA CloseType ==
  ASSUME TypeOK, NEW out
  PROVE  CloseLeases(out) \in [Calls -> InvStatus]
BY DEF CloseLeases, TypeOK, InvStatus, Terminal

-----------------------------------------------------------------------------
LEMMA ExecuteType ==
  ASSUME TypeOK, MemOK, NEW t \in Threads, ExecuteStep(t)
  PROVE  TypeOK' /\ MemOK'
<1> DEFINE ThreadsOK == pc' \in [Threads -> ThreadPC] /\ mem' \in [Threads -> Memories] /\ MemOK'
<1>m. mem[t] \in Memories /\ mem[t].tok \in Nat BY DEF TypeOK, Memories
<1>0. \A p \in ThreadPC, out \in {"none"}, k \in Nat :
        p \in {"idle", "start", "prepare", "submit", "poll", "revokeRead"}
          => MemFits(p, Mem(out, FALSE, NoCall, k)) /\ MemFits(p, NoMem) /\ MemFits(p, mem[t])
  BY DEF MemFits
<1>t. Terminal \subseteq RunStatus /\ "failed" \in Terminal /\ "completed" \in Terminal
  BY DEF Terminal, RunStatus
<1>1. CASE StartRead(t)
  <2>1. ThreadsOK BY <1>1, <1>0, GoType, MemType DEF StartRead, ThreadPC
  <2> QED BY <1>1, <2>1 DEF StartRead, TypeOK, db, box, bounds
<1>2. CASE StartCommit(t)
  <2>1. ThreadsOK BY <1>2, <1>0, GotoType DEF StartCommit, ThreadPC
  <2> QED BY <1>2, <2>1 DEF StartCommit, TypeOK, box, bounds, RunStatus
<1>3. CASE Prepare(t)
  <2>0. issued + 1 \in Nat BY DEF TypeOK
  <2>1. Mem("none", FALSE, NoCall, issued + 1) \in Memories BY <2>0, MemType
  <2>2. "submit" \in ThreadPC BY DEF ThreadPC
  <2>3. ThreadsOK BY <1>3, <2>0, <2>1, <2>2, <1>0, GoType DEF Prepare
  <2> QED BY <1>3, <2>0, <2>3 DEF Prepare, TypeOK, box, bounds
<1>4. CASE PrepareFails(t)
  <2>1. ThreadsOK BY <1>4, <1>0, GotoType DEF PrepareFails, ThreadPC
  <2> QED BY <1>4, <2>1, BoundAssumption DEF PrepareFails, Fault, TypeOK, db, box
<1>5. CASE Submit(t)
  <2>1. container' \in Containers /\ cleaned' \in BOOLEAN BY <1>5, <1>m, CreateType DEF Submit
  <2>2. ThreadsOK BY <1>5, <1>0, <1>t, GoType, MemType, EndType DEF Submit, ThreadPC
  <2> QED BY <1>5, <2>1, <2>2 DEF Submit, TypeOK, db, bounds
<1>6. CASE SubmitFails(t)
  <2>1. container' \in Containers /\ cleaned' \in BOOLEAN /\ late' \in Nat
    BY <1>6, <1>m, CreateType, BoxType DEF SubmitFails, TypeOK, box
  <2>2. ThreadsOK BY <1>6, <1>t, EndType DEF SubmitFails
  <2> QED BY <1>6, <2>1, <2>2, BoundAssumption DEF SubmitFails, Fault, TypeOK, db
<1>7. CASE Poll(t)
  <2>1. ThreadsOK BY <1>7, <1>t, EndType DEF Poll
  <2> QED BY <1>7, <2>1 DEF Poll, TypeOK, db, box, bounds
<1>8. CASE PollTimesOut(t)
  <2>1. ThreadsOK BY <1>8, <1>t, EndType DEF PollTimesOut
  <2> QED BY <1>8, <2>1 DEF PollTimesOut, TypeOK, db, box, bounds
<1>9. CASE PollFails(t)
  <2>1. ThreadsOK BY <1>9, <1>t, EndType DEF PollFails
  <2> QED BY <1>9, <2>1, BoundAssumption DEF PollFails, Fault, TypeOK, db, box
<1>10. CASE Recover(t)
  <2>1. ThreadsOK BY <1>10, <1>0, GotoType, ReturnType DEF Recover, ThreadPC
  <2> QED BY <1>10, <2>1 DEF Recover, TypeOK, db, box, bounds
<1> QED BY <1>1, <1>2, <1>3, <1>4, <1>5, <1>6, <1>7, <1>8, <1>9, <1>10 DEF ExecuteStep

LEMMA EndStepType ==
  ASSUME TypeOK, MemOK, NEW t \in Threads, EndStep(t)
  PROVE  TypeOK' /\ MemOK'
<1> DEFINE ThreadsOK == pc' \in [Threads -> ThreadPC] /\ mem' \in [Threads -> Memories] /\ MemOK'
<1>m. mem[t] \in Memories /\ mem[t].kill \in BOOLEAN /\ MemFits(pc[t], mem[t])
  BY DEF TypeOK, Memories, MemOK
<1>0. \A p \in {"idle", "revokeRead", "revoke", "terminate", "cleanup", "remove"}, m \in Memories :
        p \in ThreadPC /\ MemFits(p, m)
  BY DEF MemFits, ThreadPC
<1>a. AfterRevoke(t) \in {"terminate", "cleanup"} BY DEF AfterRevoke
<1>1. CASE Finish(t)
  <2>0. mem[t].out \in Terminal BY <1>1, <1>m DEF Finish, At, MemFits
  <2>1. run' \in RunStatus /\ inv' \in [Calls -> InvStatus]
    <3>1. CASE Eligible(mem[t].out)
      BY <1>1, <2>0, <3>1, CloseType DEF Finish, Terminal, RunStatus
    <3>2. CASE ~Eligible(mem[t].out) BY <1>1, <3>2 DEF Finish, TypeOK
    <3> QED BY <3>1, <3>2
  <2>2. Mem("none", mem[t].kill, NoCall, 0) \in Memories BY <1>m, MemType
  <2>3. ThreadsOK BY <1>1, <1>0, <2>2, GoType DEF Finish
  <2> QED BY <1>1, <2>1, <2>3 DEF Finish, TypeOK, box, bounds
<1>2. CASE RevokeRead(t)
  <2>1. ThreadsOK BY <1>2, <1>0, <1>a, <1>m, GotoType DEF RevokeRead
  <2> QED BY <1>2, <2>1 DEF RevokeRead, TypeOK, db, box, bounds
<1>3. CASE Revoke(t)
  <2>1. ThreadsOK BY <1>3, <1>0, <1>a, <1>m, GotoType DEF Revoke
  <2> QED BY <1>3, <2>1 DEF Revoke, TypeOK, box, bounds
<1>4. CASE Terminate(t)
  <2>1. ThreadsOK BY <1>4, <1>0, <1>m, GotoType DEF Terminate
  <2>2. container' \in Containers BY <1>4, BoxType DEF Terminate, TypeOK, WorkerState
  <2> QED BY <1>4, <2>1, <2>2 DEF Terminate, TypeOK, db, bounds
<1>5. CASE TerminateFails(t)
  <2>1. ThreadsOK BY <1>5, <1>0, <1>m, GotoType DEF TerminateFails
  <2> QED BY <1>5, <2>1, BoundAssumption DEF TerminateFails, Fault, TypeOK, db, box
<1>6. CASE CleanupRead(t)
  <2>1. ThreadsOK BY <1>6, <1>0, MemType, GoType, ReturnType DEF CleanupRead
  <2> QED BY <1>6, <2>1 DEF CleanupRead, TypeOK, db, box, bounds
<1>7. CASE Remove(t)
  <2>0. ASSUME NEW out \in {"cleaned", "failed"}
        PROVE  Mem(out, FALSE, NoCall, 0) \in Memories /\ MemFits("log", Mem(out, FALSE, NoCall, 0))
    BY <2>0 DEF Mem, Memories, MemFits, Terminal
  <2>1. ThreadsOK BY <1>7, <2>0, GoType DEF Remove, ThreadPC
  <2>2. container' \in Containers /\ cleaned' \in BOOLEAN BY <1>7, BoxType DEF Remove, TypeOK
  <2> QED BY <1>7, <2>1, <2>2 DEF Remove, TypeOK, db, bounds
<1>8. CASE RemoveFails(t)
  <2>0. Mem("failed", FALSE, NoCall, 0) \in Memories /\ MemFits("log", Mem("failed", FALSE, NoCall, 0))
    BY DEF Mem, Memories, MemFits, Terminal
  <2>1. ThreadsOK BY <1>8, <2>0, GoType DEF RemoveFails, ThreadPC
  <2>2. container' \in Containers /\ cleaned' \in BOOLEAN BY <1>8, BoxType DEF RemoveFails, TypeOK
  <2> QED BY <1>8, <2>1, <2>2, BoundAssumption DEF RemoveFails, Fault, TypeOK, db
<1>9. CASE LogCleanup(t)
  <2>0. mem[t].out \in {"cleaned", "failed"} BY <1>9, <1>m DEF LogCleanup, At, MemFits
  <2>1. ThreadsOK BY <1>9, ReturnType DEF LogCleanup
  <2> QED BY <1>9, <2>0, <2>1 DEF LogCleanup, TypeOK, box, bounds
<1> QED BY <1>1, <1>2, <1>3, <1>4, <1>5, <1>6, <1>7, <1>8, <1>9 DEF EndStep

LEMMA ResumeType ==
  ASSUME TypeOK, MemOK, NEW t \in Threads, ResumeStep(t)
  PROVE  TypeOK' /\ MemOK'
<1> DEFINE ThreadsOK == pc' \in [Threads -> ThreadPC] /\ mem' \in [Threads -> Memories] /\ MemOK'
<1>m. mem[t] \in Memories /\ MemFits(pc[t], mem[t]) BY DEF TypeOK, MemOK
<1>0. \A p \in {"execute", "toolFail"}, m \in Memories : p \in ThreadPC /\ MemFits(p, m)
  BY DEF MemFits, ThreadPC
<1>1. CASE Admit(t)
  <2>1. ThreadsOK
    <3>1. CASE mem[t].call \in Tools
      <4>1. MemFits("transport", mem[t]) BY <3>1 DEF MemFits
      <4> QED BY <1>1, <1>m, <1>0, <4>1, GotoType, ReturnType DEF Admit, ThreadPC
    <3>2. CASE mem[t].call \notin Tools
      BY <1>1, <1>m, <1>0, <3>2, GotoType, ReturnType DEF Admit
    <3> QED BY <3>1, <3>2
  <2>2. inv' \in [Calls -> InvStatus] BY <1>1 DEF Admit, TypeOK, InvStatus
  <2> QED BY <1>1, <2>1, <2>2 DEF Admit, TypeOK, box, bounds
<1>2. CASE Transport(t)
  <2>0. MemFits("runTool", mem[t]) BY <1>2, <1>m DEF Transport, At, MemFits
  <2>1. ThreadsOK BY <1>2, <1>m, <1>0, <2>0, GotoType DEF Transport, ThreadPC
  <2> QED BY <1>2, <2>1 DEF Transport, TypeOK, db, box, bounds
<1>3. CASE RunTool(t)
  <2>0. mem[t].call \in Tools BY <1>3, <1>m DEF RunTool, At, MemFits
  <2>1. ASSUME NEW out \in ToolOutcomes
        PROVE  /\ Mem(out, FALSE, mem[t].call, 0) \in Memories
               /\ MemFits("toolDone", Mem(out, FALSE, mem[t].call, 0))
    BY <2>0, <1>m, <2>1 DEF Mem, Memories, MemFits, ToolOutcomes, Terminal
  <2>2. ThreadsOK BY <1>3, <2>1, GoType DEF RunTool, ThreadPC
  <2>3. effects' \in [Tools -> Nat] BY <1>3, <2>0 DEF RunTool, TypeOK
  <2> QED BY <1>3, <2>2, <2>3 DEF RunTool, TypeOK, db, box, bounds
<1>4. CASE ToolDone(t)
  <2>0. mem[t].call \in Tools /\ mem[t].out \in {"completed", "failed"}
    BY <1>4, <1>m DEF ToolDone, At, MemFits
  <2>1. ThreadsOK BY <1>4, <1>m, <1>0, GotoType DEF ToolDone
  <2>2. inv' \in [Calls -> InvStatus] BY <1>4, <2>0 DEF ToolDone, TypeOK, InvStatus, Terminal
  <2> QED BY <1>4, <2>1, <2>2 DEF ToolDone, TypeOK, box, bounds
<1>5. CASE ToolFail(t)
  <2>1. ThreadsOK BY <1>5, ReturnType DEF ToolFail
  <2> QED BY <1>5, <2>1 DEF ToolFail, TypeOK, box, bounds, RunStatus, Terminal
<1> QED BY <1>1, <1>2, <1>3, <1>4, <1>5 DEF ResumeStep

(* The HTTP threads, and the executor that takes a job *)
LEMMA RequestType ==
  ASSUME TypeOK, MemOK,
         \/ \E t \in Pool : TakeJob(t)
         \/ \E h \in Handlers : Cancel(h)
         \/ \E c \in Calls : Approve(c) \/ Reject(c)
  PROVE  TypeOK' /\ MemOK'
<1>1. ASSUME NEW t \in Pool, TakeJob(t) PROVE TypeOK' /\ MemOK'
  <2>1. PICK j \in jobs : jobs' = jobs \ {j} /\ GoWith(t, j.kind, Mem("none", FALSE, j.call, 0))
    BY <1>1 DEF TakeJob
  <2>2. j.kind \in JobKind /\ j.call \in Calls \cup {NoCall} BY DEF TypeOK, Jobs
  <2>3. MemFits(j.kind, Mem("none", FALSE, j.call, 0)) /\ j.kind \in ThreadPC
    BY <2>2 DEF MemFits, JobKind, ThreadPC
  <2>4. pc' \in [Threads -> ThreadPC] /\ mem' \in [Threads -> Memories] /\ MemOK'
    BY <2>1, <2>2, <2>3, GoType, MemType DEF Threads
  <2> QED BY <1>1, <2>1, <2>4 DEF TakeJob, TypeOK, db, box, bounds
<1>2. ASSUME NEW h \in Handlers, Cancel(h) PROVE TypeOK' /\ MemOK'
  <2>1. pc' \in [Threads -> ThreadPC] /\ mem' \in [Threads -> Memories] /\ MemOK'
    BY <1>2, EndType DEF Cancel, Threads, Terminal
  <2> QED BY <1>2, <2>1 DEF Cancel, TypeOK, db, box, bounds
<1>3. ASSUME NEW c \in Calls, Approve(c) PROVE TypeOK' /\ MemOK'
  <2>1. MemOK' BY <1>3 DEF Approve, MemOK
  <2>2. jobs' \subseteq Jobs BY <1>3 DEF Approve, TypeOK, Job, Jobs, JobKind
  <2>3. appr' \in [Calls -> ApprStatus] /\ run' \in RunStatus
    BY <1>3 DEF Approve, TypeOK, ApprStatus, RunStatus
  <2> QED BY <1>3, <2>1, <2>2, <2>3 DEF Approve, TypeOK, box, bounds
<1>4. ASSUME NEW c \in Calls, Reject(c) PROVE TypeOK' /\ MemOK'
  <2>1. MemOK' BY <1>4 DEF Reject, MemOK, api
  <2>2. appr' \in [Calls -> ApprStatus] BY <1>4 DEF Reject, TypeOK, ApprStatus
  <2> QED BY <1>4, <2>1, <2>2 DEF Reject, TypeOK, api, box, bounds
<1> QED BY <1>1, <1>2, <1>3, <1>4

LEMMA WorkerType ==
  ASSUME TypeOK, MemOK,
         LateCreate \/ WorkerSends \/ WorkerGivesUp \/ WorkerExits \/ WorkerDies
  PROVE  TypeOK' /\ MemOK'
<1>b. container.wk \in WorkerState /\ container.call \in Calls \cup {NoCall} /\ container.tok \in Nat
  BY DEF TypeOK, Containers
<1>1. CASE LateCreate
  <2>1. container' \in Containers /\ cleaned' \in BOOLEAN
    BY <1>1, CreateType DEF LateCreate, TypeOK
  <2> QED BY <1>1, <2>1 DEF LateCreate, TypeOK, MemOK, db, api, bounds
<1>2. CASE WorkerSends
  <2>1. PICK op \in Ops, c \in Calls \cup {NoCall} : Send(op, c)
    BY <1>2, <1>b DEF WorkerSends, Ops
  <2>2. Box("running", op, c, container.tok, TRUE) \in Containers
    BY <1>b DEF Box, Containers, WorkerState
  <2>3. [op |-> op, call |-> c, tok |-> container.tok] \in Requests
    BY <1>b DEF Requests
  <2>4. container' \in Containers /\ inflight' \subseteq Requests
    BY <2>1, <2>2, <2>3, ErrorType, TellType DEF Send, TypeOK
  <2> QED BY <2>1, <2>4 DEF Send, TypeOK, MemOK, db, bounds
<1>3. CASE WorkerGivesUp
  <2>1. container' \in Containers
    <3>1. container.wk \in Ops BY <1>3 DEF WorkerGivesUp, TypeOK, Containers
    <3> QED BY <1>3, <3>1, ErrorType, TellType DEF WorkerGivesUp
  <2> QED BY <1>3, <2>1, BoundAssumption DEF WorkerGivesUp, Fault, TypeOK, MemOK, db, api
<1>4. CASE WorkerExits
  <2>1. container' \in Containers BY <1>4, <1>b, BoxType DEF WorkerExits
  <2> QED BY <1>4, <2>1 DEF WorkerExits, TypeOK, MemOK, db, api, bounds
<1>5. CASE WorkerDies
  <2>1. container' \in Containers BY <1>5, BoxType DEF WorkerDies, WorkerState
  <2> QED BY <1>5, <2>1, BoundAssumption DEF WorkerDies, Fault, TypeOK, MemOK, db, api
<1> QED BY <1>1, <1>2, <1>3, <1>4, <1>5
-----------------------------------------------------------------------------
(* The gateway *)
LEMMA ReplyType ==
  ASSUME TypeOK, NEW r, NEW wk \in WorkerState, Reply(r, wk)
  PROVE  container' \in Containers
BY TellType DEF Reply, TypeOK

LEMMA RefuseType ==
  ASSUME TypeOK, NEW r \in Requests, Refuse(r)
  PROVE  container' \in Containers /\ UNCHANGED <<run, appr, inv, leased, keys>>
<1>1. AfterError(r.op) \in WorkerState BY ErrorType DEF Requests
<1> QED BY <1>1, ReplyType DEF Refuse

LEMMA ReplayType ==
  ASSUME TypeOK, NEW r \in Requests, NEW wk \in WorkerState, Replay(r, wk)
  PROVE  container' \in Containers /\ UNCHANGED <<run, appr, inv, leased, keys>>
<1>1. AfterError(r.op) \in WorkerState BY ErrorType DEF Requests
<1>2. PICK w \in {AfterError(r.op)} \cup {v \in {wk} : Key(r) \in keys} :
        Reply(r, w) /\ UNCHANGED <<run, appr, inv, leased, keys>>
  BY DEF Replay
<1>3. w \in WorkerState BY <1>1
<1> QED BY <1>2, <1>3, ReplyType

LEMMA CommitType ==
  ASSUME TypeOK, NEW r \in Requests, NEW status \in RunStatus, NEW wk \in WorkerState,
         Commit(r, status, wk)
  PROVE  /\ run' \in RunStatus /\ inv' \in [Calls -> InvStatus]
         /\ keys' \subseteq Keys /\ UNCHANGED <<appr, leased>>
         /\ container' \in Containers
<1>1. Key(r) \in Keys BY DEF Key, Keys, Requests
<1> QED BY <1>1, CloseType, ReplyType DEF Commit, TypeOK

LEMMA GatewayType ==
  ASSUME TypeOK, MemOK, Serve
  PROVE  TypeOK' /\ MemOK'
<1> DEFINE RowsOK == /\ run' \in RunStatus
                     /\ appr' \in [Calls -> ApprStatus] /\ inv' \in [Calls -> InvStatus]
                     /\ leased' \subseteq Calls /\ keys' \subseteq Keys
                     /\ container' \in Containers
<1>1. PICK r \in inflight :
        /\ inflight' = inflight \ {r}
        /\ \/ AskTool(r) \/ AskScript(r) \/ ServeScript(r) \/ ServeSave(r)
           \/ ServeInterrupt(r) \/ ServeComplete(r) \/ ServeFail(r)
        /\ UNCHANGED <<mark, issued, revokedTo, jobs, pc, mem, lock, cleaned, late, effects, bounds>>
  BY DEF Serve
<1>2. r \in Requests BY DEF TypeOK
<1>w. {"work", "script", "save", "interrupt", "exitOk", "exitBad"} \subseteq WorkerState
  BY DEF WorkerState, Ops
<1>s. {"waiting_approval", "completed", "failed"} \subseteq RunStatus BY DEF RunStatus, Terminal
<1>r. ASSUME Refuse(r) \/ (\E wk \in WorkerState : Replay(r, wk)) PROVE RowsOK
  BY <1>2, <1>r, RefuseType, ReplayType DEF TypeOK
<1>c. ASSUME \E s \in RunStatus, wk \in WorkerState : Commit(r, s, wk) PROVE RowsOK
  BY <1>2, <1>c, CommitType DEF TypeOK
<1>3. ASSUME AskTool(r) \/ AskScript(r) PROVE RowsOK
  <2>1. ASSUME \E wk \in WorkerState : Reply(r, wk) /\ UNCHANGED <<run, appr, inv, leased, keys>>
        PROVE  RowsOK
    BY <2>1, ReplyType DEF TypeOK
  <2>2. ASSUME r.call \in Calls, Grant(r) PROVE RowsOK
    BY <2>2, <1>w, ReplyType DEF Grant, TypeOK, InvStatus
  <2>3. ASSUME r.call \in Calls, Pause(r) PROVE RowsOK
    BY <2>3, <1>w, <1>s, ReplyType DEF Pause, TypeOK, InvStatus, ApprStatus
  <2> QED BY <1>3, <1>r, <1>w, <2>1, <2>2, <2>3 DEF AskTool, AskScript, Calls
<1>4. ASSUME ServeScript(r) PROVE RowsOK
  <2>1. CASE inv[r.call] = "running"
    <3>1. container' \in Containers BY <1>4, <2>1, <1>w, ReplyType DEF ServeScript
    <3>2. inv' \in [Calls -> InvStatus] BY <1>4, <2>1 DEF ServeScript, TypeOK, InvStatus, Terminal
    <3> QED BY <1>4, <2>1, <3>1, <3>2 DEF ServeScript, TypeOK
  <2> QED BY <1>4, <1>r, <2>1 DEF ServeScript
<1>5. ASSUME ServeSave(r) PROVE RowsOK
  BY <1>5, <1>r, <1>c, <1>w DEF ServeSave, TypeOK
<1>6. ASSUME ServeInterrupt(r) PROVE RowsOK
  BY <1>6, <1>r, <1>c, <1>w, <1>s DEF ServeInterrupt
<1>7. ASSUME ServeComplete(r) PROVE RowsOK
  BY <1>7, <1>r, <1>c, <1>w, <1>s DEF ServeComplete
<1>8. ASSUME ServeFail(r) PROVE RowsOK
  BY <1>8, <1>r, <1>c, <1>w, <1>s DEF ServeFail
<1>9. RowsOK BY <1>1, <1>3, <1>4, <1>5, <1>6, <1>7, <1>8
<1> QED BY <1>1, <1>9 DEF TypeOK, MemOK, bounds

LEMMA RestartType ==
  ASSUME TypeOK, MemOK, Restart \/ LauncherRestart
  PROVE  TypeOK' /\ MemOK'
<1>1. CASE Restart
  <2>1. StartupJobs \subseteq Jobs BY DEF StartupJobs, Job, Jobs, JobKind
  <2>2. container' \in Containers
    BY <1>1, ErrorType, TellType DEF Restart, TypeOK, Containers
  <2>3. pc' \in [Threads -> ThreadPC] /\ mem' \in [Threads -> Memories] /\ MemOK'
    BY <1>1, MemType DEF Restart, ThreadPC, MemOK, MemFits
  <2>4. lock' \in Threads \cup {NoThread} /\ inflight' \subseteq Requests BY <1>1 DEF Restart
  <2>5. crashes' \in 0..MaxCrashes BY <1>1, BoundAssumption DEF Restart, TypeOK
  <2>6. UNCHANGED <<run, appr, inv, leased, keys, mark, issued, revokedTo, cleaned, late, effects, faults>>
        /\ jobs' = StartupJobs
    BY <1>1 DEF Restart, db
  <2> QED BY <2>1, <2>2, <2>3, <2>4, <2>5, <2>6 DEF TypeOK
<1>2. CASE LauncherRestart
  <2>1. cleaned' \in BOOLEAN BY <1>2, Zenon DEF LauncherRestart
  <2>2. UNCHANGED <<db, api, container, late, effects, crashes>> /\ Fault
    BY <1>2, Zenon DEF LauncherRestart
  <2> QED BY <2>1, <2>2, BoundAssumption DEF Fault, TypeOK, MemOK, db, api
<1> QED BY <1>1, <1>2

-----------------------------------------------------------------------------
LEMMA InitType == Init => TypeOK /\ MemOK
<1> SUFFICES ASSUME Init PROVE TypeOK /\ MemOK OBVIOUS
<1>1. jobs \subseteq Jobs BY DEF Init, Job, Jobs, JobKind
<1>2. mem \in [Threads -> Memories] /\ MemOK BY MemType DEF Init, MemOK, MemFits
<1>3. container \in Containers BY BoxType DEF Init
<1>4. pc \in [Threads -> ThreadPC] BY DEF Init, ThreadPC
<1>5. appr \in [Calls -> ApprStatus] /\ inv \in [Calls -> InvStatus]
  BY DEF Init, ApprStatus, InvStatus
<1>6. run \in RunStatus /\ mark \in {"none", "started", "cleaned", "failed"} BY DEF Init, RunStatus
<1>7. faults \in 0..MaxFaults /\ crashes \in 0..MaxCrashes BY BoundAssumption DEF Init
<1> QED BY <1>1, <1>2, <1>3, <1>4, <1>5, <1>6, <1>7 DEF Init, TypeOK

LEMMA NextType == TypeOK /\ MemOK /\ [Next]_vars => TypeOK' /\ MemOK'
<1> SUFFICES ASSUME TypeOK, MemOK, [Next]_vars PROVE TypeOK' /\ MemOK' OBVIOUS
<1>1. ASSUME NEW t \in Threads, ThreadStep(t) PROVE TypeOK' /\ MemOK'
  BY <1>1, ExecuteType, EndStepType, ResumeType DEF ThreadStep
<1>2. CASE UNCHANGED vars BY <1>2 DEF vars, db, api, box, bounds, TypeOK, MemOK
<1> QED BY <1>1, <1>2, RequestType, WorkerType, GatewayType, RestartType DEF Next

(* Every variable keeps its type, and what a thread remembers fits the step it
   is about to take: _finish always writes a status that ends the run, and the
   log of a cleanup one of its two outcomes. *)
THEOREM TypeCorrect == Spec => [](TypeOK /\ MemOK)
BY InitType, NextType, PTL DEF Spec

(* In particular the type invariant, for any threads, calls and bounds. *)
THEOREM TypeInvariant == Spec => []TypeOK
BY TypeCorrect, PTL
-----------------------------------------------------------------------------
(* The performance of an approved tool: ApprovalInv is inductive, given the
   types. *)

PerformPC == {"transport", "runTool", "toolDone"}

(* What the steps outside the performance may do: nobody begins to perform a
   tool, a started invocation stays as it is, an approval stays, and no
   invocation goes back. *)
Quiet(c) ==
  /\ \/ inv'[c] = inv[c]
     \/ /\ inv[c] # "started" /\ inv'[c] # "none"
        /\ inv'[c] = "waiting_approval" => inv[c] = "none"
  /\ \/ appr'[c] = appr[c]
     \/ appr[c] # "approved" /\ inv'[c] # "none"

LEMMA QuietApproval ==
  ASSUME ApprovalInv, effects' = effects,
         \A c \in Tools : Quiet(c),
         \A t \in Threads, c \in Tools : Performing(t, c)' =>
            Performing(t, c) /\ (pc'[t] # "toolDone" => pc[t] # "toolDone")
  PROVE  ApprovalInv'
<1>1. OnePerformer' BY DEF ApprovalInv, OnePerformer, EffectsFollow, Quiet
<1>2. EffectsFollow' BY DEF ApprovalInv, OnePerformer, EffectsFollow, Quiet
<1> QED BY <1>1, <1>2 DEF ApprovalInv

(* A thread that goes on to a step outside the performance performs nothing. *)
Leaves(t) == \E p \in ThreadPC \ PerformPC : Goto(t, p) \/ (\E m : GoWith(t, p, m))

LEMMA LeaveApproval ==
  ASSUME TypeOK, NEW t \in Threads, Leaves(t),
         NEW u \in Threads, NEW c \in Tools, Performing(u, c)'
  PROVE  u # t /\ Performing(u, c) /\ pc'[u] = pc[u]
BY DEF TypeOK, Leaves, Goto, GoWith, Performing, PerformPC

LEMMA ExecuteLeaves ==
  ASSUME NEW t \in Threads, ExecuteStep(t)
  PROVE  Leaves(t) /\ UNCHANGED <<inv, appr, effects>>
<1> USE DEF Leaves, PerformPC, ThreadPC, End, Return, db
<1>1. CASE StartRead(t) \/ StartCommit(t) BY <1>1 DEF StartRead, StartCommit
<1>2. CASE Prepare(t) \/ PrepareFails(t) BY <1>2 DEF Prepare, PrepareFails
<1>3. CASE Submit(t) \/ SubmitFails(t) BY <1>3 DEF Submit, SubmitFails
<1>4. CASE Poll(t) \/ PollTimesOut(t) \/ PollFails(t) BY <1>4 DEF Poll, PollTimesOut, PollFails
<1>5. CASE Recover(t) BY <1>5 DEF Recover
<1> QED BY <1>1, <1>2, <1>3, <1>4, <1>5 DEF ExecuteStep

LEMMA EndLeaves ==
  ASSUME TypeOK, NEW t \in Threads, EndStep(t)
  PROVE  Leaves(t) /\ UNCHANGED <<appr, effects>>
         /\ (inv' = inv \/ inv' = CloseLeases(mem[t].out))
<1> USE DEF Leaves, PerformPC, ThreadPC, Return, AfterRevoke, db
<1>1. CASE Finish(t) BY <1>1 DEF Finish
<1>2. CASE RevokeRead(t) \/ Revoke(t) BY <1>2 DEF RevokeRead, Revoke
<1>3. CASE Terminate(t) \/ TerminateFails(t) BY <1>3 DEF Terminate, TerminateFails
<1>4. CASE CleanupRead(t) \/ LogCleanup(t) BY <1>4 DEF CleanupRead, LogCleanup
<1>5. CASE Remove(t) \/ RemoveFails(t) BY <1>5 DEF Remove, RemoveFails
<1> QED BY <1>1, <1>2, <1>3, <1>4, <1>5 DEF EndStep

(* Closing the running leases is quiet, whatever status ends the run. *)
LEMMA CloseQuiet ==
  ASSUME TypeOK, NEW out, inv' = CloseLeases(out), appr' = appr
  PROVE  \A c \in Calls : Quiet(c)
BY DEF CloseLeases, Quiet, TypeOK

(* The resume of an approval: tool.started is committed only for a waiting
   invocation, which nobody performs, and the effect comes after it. *)
LEMMA ResumeApproval ==
  ASSUME TypeOK, MemOK, ApprovalInv, NEW t \in Threads, ResumeStep(t)
  PROVE  ApprovalInv'
<1>c. Tools \subseteq Calls BY DEF Calls
<1>m. MemFits(pc[t], mem[t]) BY DEF MemOK
<1>l. ASSUME Leaves(t), effects' = effects, \A c \in Tools : Quiet(c) PROVE ApprovalInv'
  BY <1>l, LeaveApproval, QuietApproval
<1>1. CASE Admit(t)
  <2> DEFINE c == mem[t].call
  <2>1. UNCHANGED <<appr, effects>> BY <1>1 DEF Admit
  <2>2. CASE inv' = inv /\ Leaves(t)
    <3>1. \A d \in Tools : Quiet(d) BY <2>1, <2>2 DEF Quiet
    <3> QED BY <2>1, <2>2, <3>1, <1>l
  <2>3. CASE /\ appr[c] = "approved" /\ inv[c] = "waiting_approval" /\ c \in Tools
             /\ Goto(t, "transport") /\ inv' = [inv EXCEPT ![c] = "started"]
    <3>1. \A u \in Threads : ~Performing(u, c) BY <2>3 DEF ApprovalInv, OnePerformer
    <3>2. \A u \in Threads, d \in Tools : Performing(u, d)' =>
             \/ u = t /\ d = c
             \/ u # t /\ d # c /\ Performing(u, d) /\ pc'[u] = pc[u]
      BY <2>3, <3>1, <1>1 DEF Performing, Goto, TypeOK, Admit, At
    <3>3. inv'[c] = "started" /\ effects[c] = 0 /\ \A d \in Tools \ {c} : inv'[d] = inv[d]
      BY <2>3, <1>c DEF TypeOK, ApprovalInv, EffectsFollow
    <3>4. OnePerformer' BY <2>1, <2>3, <3>2, <3>3 DEF ApprovalInv, OnePerformer
    <3>5. EffectsFollow' BY <2>1, <3>3 DEF ApprovalInv, EffectsFollow
    <3> QED BY <3>4, <3>5 DEF ApprovalInv
  <2>4. {"execute", "toolFail", "idle"} \subseteq ThreadPC \ PerformPC BY DEF ThreadPC, PerformPC
  <2> QED BY <1>1, <2>2, <2>3, <2>4 DEF Admit, Leaves, Return
<1>2. CASE Transport(t)
  <2>1. UNCHANGED <<inv, appr, effects>> BY <1>2 DEF Transport, db
  <2>2. \A u \in Threads, c \in Tools : Performing(u, c)' =>
           Performing(u, c) /\ (pc'[u] # "toolDone" => pc[u] # "toolDone")
    BY <1>2 DEF Transport, At, Goto, Performing, TypeOK
  <2>3. \A c \in Tools : Quiet(c) BY <2>1 DEF Quiet
  <2> QED BY <2>1, <2>2, <2>3, QuietApproval
<1>3. CASE RunTool(t)
  <2> DEFINE c == mem[t].call
  <2>1. c \in Tools /\ Performing(t, c) /\ effects[c] = 0
    BY <1>3, <1>m DEF RunTool, At, MemFits, Performing, ApprovalInv, OnePerformer
  <2>2. UNCHANGED <<inv, appr>> /\ effects'[c] = 1 /\ \A d \in Tools \ {c} : effects'[d] = effects[d]
    BY <1>3, <2>1 DEF RunTool, TypeOK, db
  <2>3. PICK out \in ToolOutcomes : GoWith(t, "toolDone", Mem(out, FALSE, c, 0))
    BY <1>3 DEF RunTool
  <2>4. \A u \in Threads, d \in Tools : Performing(u, d)' =>
           \/ u = t /\ d = c /\ pc'[t] = "toolDone"
           \/ u # t /\ Performing(u, d) /\ pc'[u] = pc[u]
    BY <2>3 DEF GoWith, Performing, TypeOK, Mem
  <2>5. \A u \in Threads, d \in Tools : Performing(u, d)' /\ d = c => u = t
    BY <2>1, <2>4 DEF ApprovalInv, OnePerformer
  <2>6. OnePerformer' BY <2>1, <2>2, <2>4, <2>5 DEF ApprovalInv, OnePerformer
  <2>7. EffectsFollow' BY <2>1, <2>2 DEF ApprovalInv, EffectsFollow, OnePerformer
  <2> QED BY <2>6, <2>7 DEF ApprovalInv
<1>4. CASE ToolDone(t)
  <2> DEFINE c == mem[t].call
  <2>1. c \in Tools /\ Performing(t, c) /\ mem[t].out \in {"completed", "failed"}
    BY <1>4, <1>m DEF ToolDone, At, MemFits, Performing
  <2>2. Leaves(t) /\ UNCHANGED <<appr, effects>>
    BY <1>4, <2>1 DEF ToolDone, Leaves, ThreadPC, PerformPC
  <2>3. /\ inv'[c] = inv[c] \/ inv'[c] \in {"completed", "failed"}
        /\ \A d \in Tools \ {c} : inv'[d] = inv[d]
    BY <1>4, <2>1, <1>c DEF ToolDone, TypeOK
  <2>4. \A u \in Threads, d \in Tools : Performing(u, d)' => u # t /\ d # c /\ Performing(u, d) /\ pc'[u] = pc[u]
    BY <2>1, <2>2, LeaveApproval DEF ApprovalInv, OnePerformer
  <2>5. OnePerformer' BY <2>2, <2>3, <2>4 DEF ApprovalInv, OnePerformer
  <2>6. EffectsFollow' BY <2>1, <2>2, <2>3 DEF ApprovalInv, OnePerformer, EffectsFollow
  <2> QED BY <2>5, <2>6 DEF ApprovalInv
<1>5. CASE ToolFail(t)
  <2>1. Leaves(t) /\ UNCHANGED <<inv, appr, effects>>
    BY <1>5 DEF ToolFail, Return, Leaves, ThreadPC, PerformPC
  <2>2. \A c \in Tools : Quiet(c) BY <2>1 DEF Quiet
  <2> QED BY <2>1, <2>2, <1>l
<1> QED BY <1>1, <1>2, <1>3, <1>4, <1>5 DEF ResumeStep

LEMMA ThreadApproval ==
  ASSUME TypeOK, MemOK, ApprovalInv, NEW t \in Threads, ThreadStep(t)
  PROVE  ApprovalInv'
<1>c. Tools \subseteq Calls BY DEF Calls
<1>l. ASSUME Leaves(t), effects' = effects, \A c \in Tools : Quiet(c) PROVE ApprovalInv'
  BY <1>l, LeaveApproval, QuietApproval
<1>1. CASE ExecuteStep(t)
  <2>1. \A c \in Tools : Quiet(c) BY <1>1, ExecuteLeaves DEF Quiet
  <2> QED BY <1>1, <1>l, <2>1, ExecuteLeaves
<1>2. CASE EndStep(t)
  <2>1. CASE inv' = inv
    <3>1. \A c \in Tools : Quiet(c) BY <1>2, <2>1, EndLeaves DEF Quiet
    <3> QED BY <1>2, <1>l, <3>1, EndLeaves
  <2>2. CASE inv' = CloseLeases(mem[t].out)
    <3>1. \A c \in Tools : Quiet(c) BY <1>2, <1>c, <2>2, EndLeaves, CloseQuiet
    <3> QED BY <1>2, <1>l, <3>1, EndLeaves
  <2> QED BY <1>2, <2>1, <2>2, EndLeaves
<1>3. CASE ResumeStep(t) BY <1>3, ResumeApproval
<1> QED BY <1>1, <1>2, <1>3 DEF ThreadStep

(* Decisions: only a pending request is decided, and a request is pending only
   for an invocation that exists. *)
LEMMA RequestApproval ==
  ASSUME TypeOK, ApprovalInv,
         \/ \E t \in Pool : TakeJob(t)
         \/ \E h \in Handlers : Cancel(h)
         \/ \E c \in Calls : Approve(c) \/ Reject(c)
  PROVE  ApprovalInv'
<1>1. ASSUME NEW t \in Pool, TakeJob(t) PROVE ApprovalInv'
  <2>1. PICK j \in jobs : GoWith(t, j.kind, Mem("none", FALSE, j.call, 0))
    BY <1>1 DEF TakeJob
  <2>2. j.kind \in ThreadPC \ PerformPC BY DEF TypeOK, Jobs, JobKind, ThreadPC, PerformPC
  <2>3. Leaves(t) BY <2>1, <2>2 DEF Leaves
  <2>4. UNCHANGED <<inv, appr, effects>> BY <1>1 DEF TakeJob, db
  <2>5. \A c \in Tools : Quiet(c) BY <2>4 DEF Quiet
  <2> QED BY <2>3, <2>4, <2>5, LeaveApproval, QuietApproval DEF Threads
<1>2. ASSUME NEW h \in Handlers, Cancel(h) PROVE ApprovalInv'
  <2>1. Leaves(h) /\ UNCHANGED <<inv, appr, effects>>
    BY <1>2 DEF Cancel, End, Leaves, ThreadPC, PerformPC, db
  <2>2. \A c \in Tools : Quiet(c) BY <2>1 DEF Quiet
  <2> QED BY <2>1, <2>2, LeaveApproval, QuietApproval DEF Threads
<1>3. ASSUME NEW c \in Calls, Approve(c) \/ Reject(c) PROVE ApprovalInv'
  <2>1. UNCHANGED <<inv, effects, pc, mem>> /\ appr[c] = "pending"
    BY <1>3 DEF Approve, Reject, api
  <2>2. \A d \in Calls \ {c} : appr'[d] = appr[d] BY <1>3 DEF Approve, Reject, TypeOK
  <2>3. \A d \in Tools : Quiet(d) BY <2>1, <2>2 DEF Quiet, ApprovalInv, EffectsFollow, Calls
  <2> QED BY <2>1, <2>3, QuietApproval DEF Performing
<1> QED BY <1>1, <1>2, <1>3

(* The gateway: a tool is asked for once, and the leases it grants and closes
   are those of scripts. *)
LEMMA GatewayApproval ==
  ASSUME TypeOK, ApprovalInv, Serve
  PROVE  ApprovalInv'
<1>c. Tools \subseteq Calls BY DEF Calls
<1>1. PICK r \in inflight :
        /\ \/ AskTool(r) \/ AskScript(r) \/ ServeScript(r) \/ ServeSave(r)
           \/ ServeInterrupt(r) \/ ServeComplete(r) \/ ServeFail(r)
        /\ UNCHANGED <<mark, issued, revokedTo, jobs, pc, mem, lock, cleaned, late, effects, bounds>>
  BY DEF Serve
<1>q. ASSUME UNCHANGED <<appr, inv>> PROVE \A c \in Tools : Quiet(c) BY <1>q DEF Quiet
<1>k. ASSUME NEW status, NEW wk, Commit(r, status, wk) PROVE \A c \in Tools : Quiet(c)
  BY <1>k, <1>c, CloseQuiet DEF Commit
<1>2. ASSUME AskTool(r) \/ AskScript(r) PROVE \A c \in Tools : Quiet(c)
  <2>1. CASE r.call \notin Tools /\ r.call \in Calls /\ (Grant(r) \/ Pause(r))
    <3>1. \A c \in Tools : inv'[c] = inv[c] /\ appr'[c] = appr[c]
      BY <2>1, <1>c DEF Grant, Pause, TypeOK
    <3> QED BY <3>1 DEF Quiet
  <2>2. CASE r.call \in Tools /\ inv[r.call] = "none" /\ Pause(r)
    <3>1. inv'[r.call] = "waiting_approval" /\ appr[r.call] = "none"
      BY <2>2, <1>c DEF Pause, TypeOK, ApprovalInv, EffectsFollow
    <3>2. \A c \in Tools \ {r.call} : inv'[c] = inv[c] /\ appr'[c] = appr[c]
      BY <2>2, <1>c DEF Pause, TypeOK
    <3> QED BY <2>2, <3>1, <3>2 DEF Quiet
  <2>3. FreeScripts \cup Scripts \subseteq Calls \ Tools BY CallAssumption DEF Calls
  <2> QED BY <1>2, <1>q, <1>c, <2>1, <2>2, <2>3 DEF AskTool, AskScript, Refuse
<1>3. ASSUME ServeScript(r) PROVE \A c \in Tools : Quiet(c)
  <2>1. CASE inv[r.call] = "running"
    <3>1. PICK s \in {"completed", "failed"} : inv' = [inv EXCEPT ![r.call] = s]
      BY <1>3, <2>1 DEF ServeScript
    <3>2. \A c \in Calls : inv'[c] = inv[c] \/ (inv[c] = "running" /\ inv'[c] = s)
      BY <2>1, <3>1 DEF TypeOK
    <3>3. appr' = appr BY <1>3, <2>1 DEF ServeScript
    <3> QED BY <3>2, <3>3, <1>c DEF Quiet
  <2> QED BY <1>3, <1>q, <2>1 DEF ServeScript, Refuse
<1>4. ASSUME ServeSave(r) \/ ServeInterrupt(r) \/ ServeComplete(r) \/ ServeFail(r)
      PROVE  \A c \in Tools : Quiet(c)
  BY <1>4, <1>q, <1>k DEF ServeSave, ServeInterrupt, ServeComplete, ServeFail, Refuse, Replay
<1>5. \A c \in Tools : Quiet(c) BY <1>1, <1>2, <1>3, <1>4
<1> QED BY <1>1, <1>5, QuietApproval DEF Performing

(* The worker touches no row; a restart ends every performance. *)
LEMMA OtherApproval ==
  ASSUME TypeOK, ApprovalInv,
         \/ LateCreate \/ WorkerSends \/ WorkerGivesUp \/ WorkerExits \/ WorkerDies
         \/ Restart \/ LauncherRestart
  PROVE  ApprovalInv'
<1>1. CASE LateCreate \/ WorkerSends \/ WorkerGivesUp \/ WorkerExits \/ WorkerDies \/ LauncherRestart
  <2>1. UNCHANGED <<inv, appr, effects, pc, mem>>
    BY <1>1 DEF LateCreate, WorkerSends, Send, WorkerGivesUp, WorkerExits, WorkerDies, LauncherRestart, db, api
  <2>2. \A c \in Tools : Quiet(c) BY <2>1 DEF Quiet
  <2> QED BY <2>1, <2>2, QuietApproval DEF Performing
<1>2. CASE Restart
  <2>1. UNCHANGED <<inv, appr, effects>> BY <1>2 DEF Restart, db
  <2>2. \A c \in Tools : Quiet(c) BY <2>1 DEF Quiet
  <2>3. \A t \in Threads, c \in Tools : ~Performing(t, c)' BY <1>2 DEF Restart, Performing
  <2> QED BY <2>1, <2>2, <2>3, QuietApproval
<1> QED BY <1>1, <1>2

LEMMA ApprovalInit == Init => ApprovalInv
BY DEF Init, ApprovalInv, OnePerformer, EffectsFollow, Performing, Calls

LEMMA ApprovalNext == TypeOK /\ MemOK /\ ApprovalInv /\ [Next]_vars => ApprovalInv'
<1> SUFFICES ASSUME TypeOK, MemOK, ApprovalInv, [Next]_vars PROVE ApprovalInv' OBVIOUS
<1>1. CASE UNCHANGED vars
  BY <1>1 DEF vars, db, api, ApprovalInv, OnePerformer, EffectsFollow, Performing
<1> QED BY <1>1, ThreadApproval, RequestApproval, GatewayApproval, OtherApproval DEF Next

(* An approved tool has one performer from tool.started on, and its effect is
   ahead of it until it ran: execute_approved, whatever else touches the run. *)
THEOREM ApprovalInvariant == Spec => []ApprovalInv
BY TypeCorrect, ApprovalInit, ApprovalNext, PTL DEF Spec

(* The effect of an approved tool is started at most once and only under an
   approval that stands, for any number of threads, calls, faults and restarts:
   _execute_approved_tool and execute_approved against approve and reject. *)
THEOREM ApprovedOnce == Spec => []AtMostOnceApproved
<1>1. ApprovalInv => AtMostOnceApproved BY DEF ApprovalInv, EffectsFollow, AtMostOnceApproved
<1> QED BY <1>1, ApprovalInvariant, PTL
-----------------------------------------------------------------------------
(* Script leases.  ScriptRunsApproved needs no strengthening: a lease is granted
   under an approval, a decided approval is never decided again, and a call that
   has its lease is not asked for again. *)
LEMMA LeasesKept ==
  ASSUME ScriptRunsApproved, UNCHANGED <<leased, appr>>
  PROVE  ScriptRunsApproved'
BY DEF ScriptRunsApproved

LEMMA ThreadLeases ==
  ASSUME NEW t \in Threads, ThreadStep(t)
  PROVE  UNCHANGED <<leased, appr>>
<1>1. CASE ExecuteStep(t)
  BY <1>1 DEF ExecuteStep, StartRead, StartCommit, Prepare, PrepareFails, Submit, SubmitFails,
              Poll, PollTimesOut, PollFails, Recover, db
<1>2. CASE EndStep(t)
  BY <1>2 DEF EndStep, Finish, RevokeRead, Revoke, Terminate, TerminateFails, CleanupRead,
              Remove, RemoveFails, LogCleanup, db
<1>3. CASE ResumeStep(t)
  BY <1>3 DEF ResumeStep, Admit, Transport, RunTool, ToolDone, ToolFail, db
<1> QED BY <1>1, <1>2, <1>3 DEF ThreadStep

LEMMA ServeLeases ==
  ASSUME TypeOK, ScriptRunsApproved, Serve
  PROVE  ScriptRunsApproved'
<1>1. PICK r \in inflight :
        \/ AskTool(r) \/ AskScript(r) \/ ServeScript(r) \/ ServeSave(r)
        \/ ServeInterrupt(r) \/ ServeComplete(r) \/ ServeFail(r)
  BY DEF Serve
<1>2. CASE Pause(r) /\ (r.call \in Tools \/ r.call \in Scripts \ leased)
  <2>1. leased' = leased /\ \A c \in Calls \ {r.call} : appr'[c] = appr[c]
    BY <1>2 DEF Pause, TypeOK
  <2>2. r.call \notin Scripts \cap leased BY <1>2, CallAssumption
  <2> QED BY <2>1, <2>2 DEF ScriptRunsApproved, Calls
<1>3. CASE Grant(r) /\ (r.call \in FreeScripts \/ appr[r.call] = "approved")
  <2>1. leased' = leased \cup {r.call} /\ appr' = appr BY <1>3 DEF Grant
  <2>2. r.call \in Scripts => appr[r.call] = "approved" BY <1>3, CallAssumption
  <2> QED BY <2>1, <2>2 DEF ScriptRunsApproved
<1>4. CASE AskTool(r) \/ AskScript(r)
  BY <1>2, <1>3, <1>4, LeasesKept DEF AskTool, AskScript, Refuse
<1>5. CASE ServeScript(r) \/ ServeSave(r) \/ ServeInterrupt(r) \/ ServeComplete(r) \/ ServeFail(r)
  BY <1>5, LeasesKept DEF ServeScript, ServeSave, ServeInterrupt, ServeComplete, ServeFail,
                          Refuse, Replay, Commit
<1> QED BY <1>1, <1>4, <1>5

LEMMA NextLeases == TypeOK /\ ScriptRunsApproved /\ [Next]_vars => ScriptRunsApproved'
<1> SUFFICES ASSUME TypeOK, ScriptRunsApproved, [Next]_vars PROVE ScriptRunsApproved' OBVIOUS
<1>1. ASSUME NEW c \in Calls, Approve(c) \/ Reject(c) PROVE ScriptRunsApproved'
  <2>1. leased' = leased /\ appr[c] = "pending" /\ \A d \in Calls \ {c} : appr'[d] = appr[d]
    BY <1>1 DEF Approve, Reject, TypeOK
  <2> QED BY <2>1 DEF ScriptRunsApproved, Calls
<1>2. CASE \/ \E t \in Pool : TakeJob(t)
           \/ \E h \in Handlers : Cancel(h)
           \/ LateCreate \/ WorkerSends \/ WorkerGivesUp \/ WorkerExits \/ WorkerDies
           \/ Restart \/ LauncherRestart
  BY <1>2, LeasesKept DEF TakeJob, Cancel, LateCreate, WorkerSends, Send, WorkerGivesUp,
       WorkerExits, WorkerDies, Restart, LauncherRestart, db
<1>3. CASE UNCHANGED vars BY <1>3, LeasesKept DEF vars, db
<1> QED BY <1>1, <1>2, <1>3, ThreadLeases, LeasesKept, ServeLeases DEF Next

(* A script that needs an approval holds a lease only under an approval that
   stands, for any threads, calls, faults and restarts: execute_script against
   approve and reject. *)
THEOREM LeasedUnderApproval == Spec => []ScriptRunsApproved
<1>1. Init => ScriptRunsApproved BY DEF Init, ScriptRunsApproved
<1> QED BY <1>1, NextLeases, TypeInvariant, PTL DEF Spec
-----------------------------------------------------------------------------
(* The refinement: Pause asks, Approve and Reject decide, RunTool performs, and
   every other step leaves the contract's variables alone. *)
Decision == [c \in Tools |-> appr[c]]

LEMMA StutterStep ==
  ASSUME effects' = effects, \A c \in Tools : appr'[c] = appr[c]
  PROVE  UNCHANGED <<Decision, effects>>
BY DEF Decision

LEMMA DecisionStep ==
  ASSUME TypeOK, NEW c \in Tools, NEW d, appr' = [appr EXCEPT ![c] = d]
  PROVE  Decision' = [Decision EXCEPT ![c] = d] /\ Decision[c] = appr[c]
<1>1. c \in Calls /\ Tools \subseteq Calls BY DEF Calls
<1>2. \A e \in Tools : appr'[e] = IF e = c THEN d ELSE appr[e] BY <1>1 DEF TypeOK
<1> QED BY <1>2 DEF Decision

LEMMA ContractInit == Init => Contract!Init
<1>1. ASSUME Init PROVE Contract!Init
  <2>1. [c \in Tools |-> appr[c]] = [c \in Tools |-> "none"] BY <1>1 DEF Init, Calls
  <2> QED BY <1>1, <2>1 DEF Init, Contract!Init
<1> QED BY <1>1

LEMMA ContractNext ==
  TypeOK /\ MemOK /\ ApprovalInv /\ [Next]_vars => [Contract!Next]_<<Decision, effects>>
<1> SUFFICES ASSUME TypeOK, MemOK, ApprovalInv, [Next]_vars
             PROVE  [Contract!Next]_<<Decision, effects>>
  OBVIOUS
<1>c. Tools \subseteq Calls BY DEF Calls
<1>u. ASSUME UNCHANGED <<appr, effects>> PROVE [Contract!Next]_<<Decision, effects>>
  BY <1>u, StutterStep
<1>1. ASSUME NEW t \in Threads, ThreadStep(t) PROVE [Contract!Next]_<<Decision, effects>>
  <2>1. CASE ExecuteStep(t) \/ EndStep(t) BY <2>1, <1>u, ExecuteLeaves, EndLeaves
  <2>2. CASE RunTool(t)
    <3> DEFINE c == mem[t].call
    <3>1. c \in Tools /\ Performing(t, c)
      BY <2>2 DEF RunTool, At, MemOK, MemFits, Performing
    <3>2. effects[c] = 0 /\ appr[c] = "approved"
      BY <2>2, <3>1 DEF ApprovalInv, OnePerformer, RunTool, At
    <3>3. effects' = [effects EXCEPT ![c] = 1] /\ appr' = appr
      BY <2>2, <3>1, <3>2 DEF RunTool, db, TypeOK
    <3>4. Decision' = Decision /\ Decision[c] = "approved" BY <3>1, <3>2, <3>3 DEF Decision
    <3>5. Contract!Perform(c) BY <3>2, <3>3, <3>4 DEF Contract!Perform, Decision
    <3> QED BY <3>1, <3>5 DEF Contract!Next
  <2>3. CASE Admit(t) \/ Transport(t) \/ ToolDone(t) \/ ToolFail(t)
    BY <2>3, <1>u DEF Admit, Transport, ToolDone, ToolFail, db
  <2> QED BY <1>1, <2>1, <2>2, <2>3 DEF ThreadStep, ResumeStep
<1>2. ASSUME NEW c \in Calls, Approve(c) \/ Reject(c) PROVE [Contract!Next]_<<Decision, effects>>
  <2>1. PICK d \in {"approved", "rejected"} :
          appr[c] = "pending" /\ appr' = [appr EXCEPT ![c] = d] /\ effects' = effects
    BY <1>2 DEF Approve, Reject
  <2>2. CASE c \in Tools
    <3>1. Contract!Decide(c) BY <2>1, <2>2, DecisionStep DEF Contract!Decide, Decision
    <3> QED BY <2>2, <3>1 DEF Contract!Next
  <2>3. CASE c \notin Tools
    BY <1>c, <2>1, <2>3, StutterStep DEF TypeOK
  <2> QED BY <2>2, <2>3
<1>3. ASSUME Serve PROVE [Contract!Next]_<<Decision, effects>>
  <2>1. PICK r \in inflight :
          /\ \/ AskTool(r) \/ AskScript(r) \/ ServeScript(r) \/ ServeSave(r)
             \/ ServeInterrupt(r) \/ ServeComplete(r) \/ ServeFail(r)
          /\ effects' = effects
    BY <1>3 DEF Serve
  <2>2. CASE appr' = appr BY <2>1, <2>2, <1>u
  <2>3. CASE r.call \in Tools /\ inv[r.call] = "none" /\ Pause(r)
    <3>1. appr[r.call] = "none" /\ appr' = [appr EXCEPT ![r.call] = "pending"]
      BY <2>3 DEF Pause, ApprovalInv, EffectsFollow
    <3>2. Contract!Ask(r.call) BY <2>1, <2>3, <3>1, DecisionStep DEF Contract!Ask, Decision
    <3> QED BY <2>3, <3>2 DEF Contract!Next
  <2>4. CASE r.call \notin Tools /\ Pause(r)
    <3>1. \A c \in Tools : appr'[c] = appr[c] BY <1>c, <2>4 DEF Pause, TypeOK
    <3> QED BY <2>1, <3>1, StutterStep
  <2>5. CASE AskTool(r) \/ AskScript(r)
    BY <2>5, <2>2, <2>3, <2>4 DEF AskTool, AskScript, Refuse, Grant
  <2>6. CASE ServeScript(r) \/ ServeSave(r) \/ ServeInterrupt(r) \/ ServeComplete(r) \/ ServeFail(r)
    BY <2>6, <2>2 DEF ServeScript, ServeSave, ServeInterrupt, ServeComplete, ServeFail,
                      Refuse, Replay, Commit
  <2> QED BY <2>1, <2>5, <2>6
<1>4. CASE \/ \E t \in Pool : TakeJob(t)
           \/ \E h \in Handlers : Cancel(h)
           \/ LateCreate \/ WorkerSends \/ WorkerGivesUp \/ WorkerExits \/ WorkerDies
           \/ Restart \/ LauncherRestart
  BY <1>4, <1>u DEF TakeJob, Cancel, LateCreate, WorkerSends, Send, WorkerGivesUp, WorkerExits,
                    WorkerDies, Restart, LauncherRestart, db
<1>5. CASE UNCHANGED vars BY <1>5, <1>u DEF vars, db
<1> QED BY <1>1, <1>2, <1>3, <1>4, <1>5 DEF Next

(* A run implements ApprovalContract: for the tools that need an approval, each
   request is decided once, and its effect comes once and after the approval,
   whatever else happens to the run. *)
THEOREM Refinement == Spec => ImplementsContract
<1>1. TypeOK /\ MemOK /\ ApprovalInv /\ [Next]_vars
        => [Contract!Next]_<<[c \in Tools |-> appr[c]], effects>>
  BY ContractNext DEF Decision
<1> QED BY <1>1, ContractInit, TypeCorrect, ApprovalInvariant, PTL
        DEF Spec, ImplementsContract, Contract!Spec
=============================================================================
