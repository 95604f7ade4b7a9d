------------------------------ MODULE SandboxRun ------------------------------
(***************************************************************************)
(* One sandbox run of the platform, from the HTTP request that queues it   *)
(* to the removal of its container.  Every table, lock and container name  *)
(* of the code is keyed by the run id, so runs interact only by sharing    *)
(* the executor's threads, and one run is modelled.                        *)
(*                                                                         *)
(* The actors are the threads of SandboxRunDispatcher's executor, which    *)
(* run the coordinator's execute, recover and retry_cleanup and the resume *)
(* of an approval; the HTTP threads that cancel the run or decide an       *)
(* approval; the worker inside the container; the Runner Gateway that      *)
(* serves the worker's requests; the launcher that owns the container; and *)
(* the crash and restart of the API process and of the launcher.           *)
(*                                                                         *)
(* A step is one database transaction or one call to another process.      *)
(* What a thread remembers between two steps is in pc[t] and mem[t].        *)
(*                                                                         *)
(* Operators whose name ends in _Mutant are seeded faults: each is one of   *)
(* the definitions below as a plausible bug would have it, and some        *)
(* property fails with it.  No other definition uses them.                 *)
(*                                                                         *)
(* Not modelled here: what the model answers, events, checkpoints'         *)
(* contents, artifacts, tools that need no approval, audit records, and    *)
(* token expiry (a request refused for it behaves as the lost one of       *)
(* WorkerGivesUp).                                                         *)
(***************************************************************************)
EXTENDS Naturals, FiniteSets

CONSTANTS
  Pool,         \* threads of the dispatcher's executor
  Handlers,     \* HTTP threads that serve a cancel request
  Tools,        \* tool calls that need an approval
  Scripts,      \* skill script calls that need an approval
  FreeScripts,  \* skill script calls that do not
  NoCall,       \* no call
  NoThread,     \* no thread
  MaxFaults,    \* bound on failed, lost or late calls and dying workers
  MaxCrashes    \* bound on restarts of the API process

Threads == Pool \cup Handlers
Calls == Tools \cup Scripts \cup FreeScripts

ASSUME ThreadAssumption == /\ Pool \cap Handlers = {}
                           /\ NoThread \notin Threads
ASSUME CallAssumption == /\ Tools \cap Scripts = {}
                         /\ Tools \cap FreeScripts = {}
                         /\ Scripts \cap FreeScripts = {}
                         /\ NoCall \notin Calls
ASSUME BoundAssumption == MaxFaults \in Nat /\ MaxCrashes \in Nat

VARIABLES
  run,        \* AgentRun.status
  appr,       \* Approval.status of each call, "none" before it exists
  inv,        \* ToolInvocation.status of each call, "none" before it exists
  leased,     \* calls whose lease is stored under the script-call key
  keys,       \* operations whose idempotency key is stored, with their call
  mark,       \* the later of the last sandbox.started and sandbox.cleanup
  issued,     \* run tokens issued; the k-th is token k
  revokedTo,  \* token k is valid iff k > revokedTo
  jobs,       \* jobs submitted to the executor and not yet taken
  pc,         \* the next step of each thread
  mem,        \* what the thread remembers for it
  lock,       \* holder of the coordinator's cleanup lock of the run
  container,  \* the container named after the run, and the worker in it
  cleaned,    \* the run is in the launcher's _cleaned_run_ids
  late,       \* token of a create request that is still on its way, or 0
  inflight,   \* worker requests whose token the gateway has verified
  effects,    \* how often the external effect of each tool was started
  faults, crashes

db == <<run, appr, inv, leased, keys, mark, issued, revokedTo>>
api == <<jobs, pc, mem, lock, inflight>>
box == <<container, cleaned, late>>
bounds == <<faults, crashes>>
vars == <<db, api, box, effects, bounds>>

Terminal == {"completed", "failed", "cancelled"}
RunStatus == {"queued", "running", "waiting_approval"} \cup Terminal
ApprStatus == {"none", "pending", "approved", "rejected"}
InvStatus == {"none", "waiting_approval", "started", "running"} \cup Terminal
ThreadPC == {"idle", "execute", "start", "prepare", "submit", "recover", "poll",
             "finish", "revokeRead", "revoke", "terminate", "cleanup", "remove",
             "log", "admit", "transport", "runTool", "toolDone", "toolFail"}
JobKind == {"execute", "recover", "cleanup", "admit"}
Ops == {"ask", "script", "save", "interrupt", "complete", "fail"}
WorkerState == {"work", "exitOk", "exitBad"} \cup Ops

Job(k, c) == [kind |-> k, call |-> c]
Jobs == [kind : JobKind, call : Calls \cup {NoCall}]
Mem(out, kill, c, k) == [out |-> out, kill |-> kill, call |-> c, tok |-> k]
NoMem == Mem("none", FALSE, NoCall, 0)
Box(st, wk, c, k, wait) == [st |-> st, wk |-> wk, call |-> c, tok |-> k, wait |-> wait]
Absent == Box("absent", "work", NoCall, 0, FALSE)
Fresh(k) == Box("running", "work", NoCall, k, FALSE)
Memories == [out : {"none", "cleaned"} \cup Terminal, kill : BOOLEAN,
             call : Calls \cup {NoCall}, tok : Nat]
Containers ==     \* wait: a request of the worker is under way
  {b \in [st : {"absent", "running", "exited"}, wk : WorkerState,
          call : Calls \cup {NoCall}, tok : Nat, wait : BOOLEAN] : b.wait => b.wk \in Ops}
Keys == [op : Ops, call : Calls \cup {NoCall}]
Requests == [op : Ops, call : Calls \cup {NoCall}, tok : Nat]

(* The state create_message commits before it hands the run to dispatch. *)
Init ==
  /\ run = "queued"
  /\ appr = [c \in Calls |-> "none"]
  /\ inv = [c \in Calls |-> "none"]
  /\ leased = {} /\ keys = {}
  /\ mark = "none"
  /\ issued = 0 /\ revokedTo = 0
  /\ jobs = {Job("execute", NoCall)}
  /\ pc = [t \in Threads |-> "idle"]
  /\ mem = [t \in Threads |-> NoMem]
  /\ lock = NoThread
  /\ container = Absent
  /\ cleaned = FALSE
  /\ late = 0
  /\ inflight = {}
  /\ effects = [c \in Tools |-> 0]
  /\ faults = 0 /\ crashes = 0

-----------------------------------------------------------------------------
(* Helpers *)

At(t, p) == pc[t] = p
GoWith(t, p, m) == pc' = [pc EXCEPT ![t] = p] /\ mem' = [mem EXCEPT ![t] = m]
Goto(t, p) == pc' = [pc EXCEPT ![t] = p] /\ UNCHANGED mem
Return(t) == GoWith(t, "idle", NoMem)

(* The thread goes on to _finish with this status, and stops the container
   after it if kill. *)
End(t, out, kill) == GoWith(t, "finish", Mem(out, kill, NoCall, 0))

Fault == faults < MaxFaults /\ faults' = faults + 1

(* finish_running_script_invocations: only a failed or cancelled run closes
   the leases that are still running. *)
CloseLeases_Mutant(out) ==     \* forgets the cancelled run
  [c \in Calls |-> IF inv[c] = "running" /\ out = "failed" THEN out ELSE inv[c]]
CloseLeases(out) ==
  [c \in Calls |-> IF inv[c] = "running" /\ out \in {"failed", "cancelled"}
                   THEN out ELSE inv[c]]

-----------------------------------------------------------------------------
(* SandboxRunCoordinator.execute *)

TakeJob(t) ==
  /\ At(t, "idle")
  /\ \E j \in jobs : /\ jobs' = jobs \ {j}
                     /\ GoWith(t, j.kind, Mem("none", FALSE, j.call, 0))
  /\ UNCHANGED <<db, lock, inflight, box, effects, bounds>>

(* _start reads the status ... *)
StartRead(t) ==
  /\ At(t, "execute")
  /\ GoWith(t, IF run = "queued" THEN "start" ELSE "idle", NoMem)
  /\ UNCHANGED <<db, jobs, lock, inflight, box, effects, bounds>>

(* ... and writes it later, on what it read: the row is not read again. *)
StartCommit(t) ==
  /\ At(t, "start")
  /\ run' = "running"
  /\ mark' = "started"
  /\ Goto(t, "prepare")
  /\ UNCHANGED <<appr, inv, leased, keys, issued, revokedTo, jobs, lock, inflight, box, effects, bounds>>

(* _prepare_execution: snapshot and token in one transaction. *)
Prepare(t) ==
  /\ At(t, "prepare")
  /\ issued' = issued + 1
  /\ GoWith(t, "submit", Mem("none", FALSE, NoCall, issued + 1))
  /\ UNCHANGED <<run, appr, inv, leased, keys, mark, revokedTo, jobs, lock, inflight, box, effects, bounds>>

(* An exception in it is not a RunnerUnavailableError: only the finally
   clause of execute runs, and the status stays as it is. *)
PrepareFails(t) ==
  /\ At(t, "prepare") /\ Fault
  /\ Goto(t, "revokeRead")
  /\ UNCHANGED <<db, jobs, lock, inflight, box, effects, crashes>>

(* The launcher creates the container of the run unless one exists. *)
Create(k) ==
  IF container.st = "absent" THEN container' = Fresh(k) /\ cleaned' = FALSE
                             ELSE UNCHANGED <<container, cleaned>>

Submit(t) ==
  /\ At(t, "submit")
  /\ Create(mem[t].tok)
  /\ IF container.st = "absent" THEN GoWith(t, "poll", NoMem)
                                ELSE End(t, "failed", FALSE)
  /\ UNCHANGED <<db, jobs, lock, inflight, late, effects, bounds>>

(* submit raises: before the request arrives, after the container was created
   (and perhaps before the launcher noted it), while the request is still on
   its way, or because the container was not running when it was inspected and
   was cleaned up again.  kill: the error is a deadline error. *)
SubmitFails(t) ==
  /\ At(t, "submit") /\ Fault
  /\ \E kill \in BOOLEAN : End(t, "failed", kill)
  /\ \/ UNCHANGED box
     \/ Create(mem[t].tok) /\ UNCHANGED late
     \/ container.st = "absent" /\ container' = Fresh(mem[t].tok) /\ UNCHANGED <<cleaned, late>>
     \/ late' = mem[t].tok /\ UNCHANGED <<container, cleaned>>
     \/ container.st = "absent" /\ cleaned' = TRUE /\ UNCHANGED <<container, late>>
  /\ UNCHANGED <<db, jobs, lock, inflight, effects, crashes>>

LateCreate ==
  /\ late # 0
  /\ Create(late)
  /\ late' = 0
  /\ UNCHANGED <<db, api, effects, bounds>>

(* The poll loop of execute and recover; a container that is still running
   changes nothing. *)
Poll(t) ==
  /\ At(t, "poll")
  /\ \/ container.st = "exited" /\ End(t, IF container.wk = "exitOk" THEN "completed" ELSE "failed", FALSE)
     \/ container.st = "absent" /\ End(t, "failed", FALSE)
  /\ UNCHANGED <<db, jobs, lock, inflight, box, effects, bounds>>

(* _timeout_run, at any time: the clock is not modelled. *)
PollTimesOut(t) ==
  /\ At(t, "poll")
  /\ End(t, "failed", TRUE)
  /\ UNCHANGED <<db, jobs, lock, inflight, box, effects, bounds>>

PollFails(t) ==
  /\ At(t, "poll") /\ Fault
  /\ End(t, "failed", FALSE)
  /\ UNCHANGED <<db, jobs, lock, inflight, box, effects, crashes>>

Recover(t) ==
  /\ At(t, "recover")
  /\ IF run \in Terminal THEN Return(t) ELSE Goto(t, "poll")
  /\ UNCHANGED <<db, jobs, lock, inflight, box, effects, bounds>>

(* cancel: _is_terminal, then the same way out as a timeout. *)
Cancel(h) ==
  /\ At(h, "idle")
  /\ run \notin Terminal
  /\ End(h, "cancelled", TRUE)
  /\ UNCHANGED <<db, jobs, lock, inflight, box, effects, bounds>>

-----------------------------------------------------------------------------
(* The way out, shared by execute, recover, the timeout and cancel:
   _finish, _revoke_for_terminal_run, _terminate_safely, _cleanup. *)

(* The WHERE clause of _finish's update *)
EligibleEnded_Mutant(out) == out = "completed" => run # "waiting_approval"
EligibleWaiting_Mutant(out) == run \notin Terminal
Eligible(out) == run \notin Terminal /\ (out = "completed" => run # "waiting_approval")

Finish(t) ==
  /\ At(t, "finish")
  /\ IF Eligible(mem[t].out)
       THEN run' = mem[t].out /\ inv' = CloseLeases(mem[t].out)
       ELSE UNCHANGED <<run, inv>>
  /\ GoWith(t, "revokeRead", Mem("none", mem[t].kill, NoCall, 0))
  /\ UNCHANGED <<appr, leased, keys, mark, issued, revokedTo, jobs, lock, inflight, box, effects, bounds>>

(* _TOKEN_REVOCATION_STATUSES *)
RevocationStatuses_Mutant == {"failed", "cancelled", "waiting_approval"}
RevocationStatuses == Terminal \cup {"waiting_approval"}

AfterRevoke(t) == IF mem[t].kill THEN "terminate" ELSE "cleanup"

RevokeRead(t) ==
  /\ At(t, "revokeRead")
  /\ Goto(t, IF run \in RevocationStatuses THEN "revoke" ELSE AfterRevoke(t))
  /\ UNCHANGED <<db, jobs, lock, inflight, box, effects, bounds>>

(* Every token issued up to now becomes invalid. *)
Revoke(t) ==
  /\ At(t, "revoke")
  /\ revokedTo' = issued
  /\ Goto(t, AfterRevoke(t))
  /\ UNCHANGED <<run, appr, inv, leased, keys, mark, issued, jobs, lock, inflight, box, effects, bounds>>

Exits(wk) == Box("exited", wk, NoCall, 0, FALSE)

Terminate(t) ==
  /\ At(t, "terminate")
  /\ container' = IF container.st = "running" THEN Exits("exitBad") ELSE container
  /\ Goto(t, "cleanup")
  /\ UNCHANGED <<db, jobs, lock, inflight, cleaned, late, effects, bounds>>

TerminateFails(t) ==
  /\ At(t, "terminate") /\ Fault
  /\ Goto(t, "cleanup")
  /\ UNCHANGED <<db, jobs, lock, inflight, box, effects, crashes>>

(* Under the lock: the container was cleaned since the last start, or goes. *)
CleanupRead(t) ==
  /\ At(t, "cleanup") /\ lock = NoThread
  /\ IF mark = "cleaned" THEN Return(t) /\ UNCHANGED lock
                         ELSE GoWith(t, "remove", NoMem) /\ lock' = t
  /\ UNCHANGED <<db, jobs, inflight, box, effects, bounds>>

(* ControlledContainerLauncher.cleanup answers "cleaned" without looking when
   it has cleaned this run before; a container it does not find is an error. *)
Remove(t) ==
  /\ At(t, "remove")
  /\ IF cleaned \/ container.st = "absent"
       THEN UNCHANGED <<container, cleaned>>
       ELSE container' = Absent /\ cleaned' = TRUE
  /\ GoWith(t, "log", Mem(IF cleaned \/ container.st # "absent" THEN "cleaned" ELSE "failed",
                          FALSE, NoCall, 0))
  /\ UNCHANGED <<db, jobs, lock, inflight, late, effects, bounds>>

(* The call fails, and the container may be gone or not. *)
RemoveFails(t) ==
  /\ At(t, "remove") /\ Fault
  /\ \/ UNCHANGED <<container, cleaned>>
     \/ ~cleaned /\ container.st # "absent" /\ container' = Absent /\ cleaned' = TRUE
  /\ GoWith(t, "log", Mem("failed", FALSE, NoCall, 0))
  /\ UNCHANGED <<db, jobs, lock, inflight, late, effects, crashes>>

LogCleanupAsCleaned_Mutant(t) ==     \* a failed removal is logged like any other
  /\ At(t, "log")
  /\ mark' = "cleaned"
  /\ lock' = NoThread
  /\ Return(t)
  /\ UNCHANGED <<run, appr, inv, leased, keys, issued, revokedTo, jobs, inflight, box, effects, bounds>>

LogCleanupKeepsLock_Mutant(t) ==
  /\ At(t, "log")
  /\ mark' = mem[t].out
  /\ Return(t)
  /\ UNCHANGED <<run, appr, inv, leased, keys, issued, revokedTo, jobs, lock, inflight, box, effects, bounds>>

LogCleanup(t) ==
  /\ At(t, "log")
  /\ mark' = mem[t].out
  /\ lock' = NoThread
  /\ Return(t)
  /\ UNCHANGED <<run, appr, inv, leased, keys, issued, revokedTo, jobs, inflight, box, effects, bounds>>

-----------------------------------------------------------------------------
(* Deciding an approval, and resuming the run *)

(* approve_approval: the decision and the requeued run in one transaction;
   resume_approval follows the commit.  A crash between the two is the crash
   that loses the job. *)
ApproveDecided_Mutant(c) ==     \* decides again what was rejected
  /\ appr[c] \in {"pending", "rejected"}
  /\ run = "waiting_approval"
  /\ appr' = [appr EXCEPT ![c] = "approved"]
  /\ run' = "queued"
  /\ jobs' = jobs \cup {Job("admit", c)}
  /\ UNCHANGED <<inv, leased, keys, mark, issued, revokedTo, pc, mem, lock, inflight, box, effects, bounds>>

Approve(c) ==
  /\ appr[c] = "pending"
  /\ run = "waiting_approval"
  /\ appr' = [appr EXCEPT ![c] = "approved"]
  /\ run' = "queued"
  /\ jobs' = jobs \cup {Job("admit", c)}
  /\ UNCHANGED <<inv, leased, keys, mark, issued, revokedTo, pc, mem, lock, inflight, box, effects, bounds>>

(* reject_approval leaves the run and the invocation alone. *)
RejectDecided_Mutant(c) ==     \* takes an approval back
  /\ appr[c] \in {"pending", "approved"}
  /\ appr' = [appr EXCEPT ![c] = "rejected"]
  /\ UNCHANGED <<run, inv, leased, keys, mark, issued, revokedTo, api, box, effects, bounds>>

Reject(c) ==
  /\ appr[c] = "pending"
  /\ appr' = [appr EXCEPT ![c] = "rejected"]
  /\ UNCHANGED <<run, inv, leased, keys, mark, issued, revokedTo, api, box, effects, bounds>>

AdmitUnmarked_Mutant(t) ==     \* tool.started is not committed
  LET c == mem[t].call IN
  /\ At(t, "admit")
  /\ IF appr[c] = "approved" /\ run = "queued" /\ inv[c] = "waiting_approval"
       THEN Goto(t, IF c \in Scripts THEN "execute" ELSE "transport")
       ELSE Return(t)
  /\ UNCHANGED <<run, appr, inv, leased, keys, mark, issued, revokedTo, jobs, lock, inflight, box, effects, bounds>>

(* _execute_approved_tool up to the commit of tool.started, under the locks of
   the run and of the invocation.  A script is left to the resumed worker; a
   tool may be refused (disabled, not authorised, past a team's deadline). *)
Admit(t) ==
  LET c == mem[t].call IN
  /\ At(t, "admit")
  /\ IF appr[c] = "approved" /\ run = "queued" /\ inv[c] = "waiting_approval"
       THEN \/ c \in Scripts /\ Goto(t, "execute") /\ UNCHANGED inv
            \/ c \in Tools /\ Goto(t, "toolFail") /\ UNCHANGED inv
            \/ c \in Tools /\ Goto(t, "transport") /\ inv' = [inv EXCEPT ![c] = "started"]
       ELSE Return(t) /\ UNCHANGED inv
  /\ UNCHANGED <<run, appr, leased, keys, mark, issued, revokedTo, jobs, lock, inflight, box, effects, bounds>>

(* _APPROVED_TOOL_RUN_STATUSES *)
ToolRunStatuses_Mutant == RunStatus
ToolRunStatuses == {"queued", "waiting_approval"}

(* _admit_approved_transport reads the run, and a team's deadline, once more
   before the call goes out. *)
Transport(t) ==
  /\ At(t, "transport")
  /\ \/ run \in ToolRunStatuses /\ Goto(t, "runTool")
     \/ Goto(t, "toolFail")
  /\ UNCHANGED <<db, jobs, lock, inflight, box, effects, bounds>>

(* The status of the invocation, not the one of the audit record *)
ToolOutcomes_Mutant == {"succeeded", "failed"}
ToolOutcomes == {"completed", "failed"}

RunTool(t) ==
  /\ At(t, "runTool")
  /\ effects' = [effects EXCEPT ![mem[t].call] = @ + 1]
  /\ \E out \in ToolOutcomes : GoWith(t, "toolDone", Mem(out, FALSE, mem[t].call, 0))
  /\ UNCHANGED <<db, jobs, lock, inflight, box, bounds>>

(* _commit_finished: the result is dropped if the run is no longer waiting, a
   team's deadline has passed or it cannot be stored; stored without its audit
   record it is an error as well. *)
ToolDone(t) ==
  /\ At(t, "toolDone")
  /\ \/ /\ run \in ToolRunStatuses
        /\ inv' = [inv EXCEPT ![mem[t].call] = mem[t].out]
        /\ \/ mem[t].out = "completed" /\ Goto(t, "execute")
           \/ Goto(t, "toolFail")
     \/ Goto(t, "toolFail") /\ UNCHANGED inv
  /\ UNCHANGED <<run, appr, leased, keys, mark, issued, revokedTo, jobs, lock, inflight, box, effects, bounds>>

(* The except clause of _execute_approved_tool: leases stay as they are. *)
ToolFail(t) ==
  /\ At(t, "toolFail")
  /\ run' = IF run \in Terminal THEN run ELSE "failed"
  /\ Return(t)
  /\ UNCHANGED <<appr, inv, leased, keys, mark, issued, revokedTo, jobs, lock, inflight, box, effects, bounds>>

-----------------------------------------------------------------------------
(* The worker in the container *)

(* What it does after an error: a failed tool call is told to the agent, a
   failed checkpoint or result makes it report the failure, and a report that
   fails ends it. *)
AfterError(op) ==
  CASE op \in {"ask", "script"} -> "work"
    [] op \in {"complete", "save"} -> "fail"
    [] op \in {"interrupt", "fail"} -> "exitBad"

CallOps == {"script", "save", "interrupt"}    \* still about the same call
Tell(wk) == Box(container.st, wk, IF wk \in CallOps THEN container.call ELSE NoCall,
                container.tok, FALSE)
Working == container.st = "running" /\ ~container.wait

(* A request passes the gateway's authentication, or is answered with an error
   there.  Between two calls the agent chooses what to do next. *)
Send(op, c) ==
  /\ IF container.tok > revokedTo
       THEN /\ inflight' = inflight \cup {[op |-> op, call |-> c, tok |-> container.tok]}
            /\ container' = Box("running", op, c, container.tok, TRUE)
       ELSE /\ container' = Tell(AfterError(op))
            /\ UNCHANGED inflight
  /\ UNCHANGED <<db, jobs, pc, mem, lock, cleaned, late, effects, bounds>>

WorkerSends ==
  /\ Working
  /\ \/ container.wk = "work" /\ \E c \in Calls : Send("ask", c)
     \/ container.wk = "work" /\ \E op \in {"complete", "fail"} : Send(op, NoCall)
     \/ container.wk \in Ops /\ Send(container.wk, container.call)

(* Its request is lost, or the answer is; what was sent may still be served. *)
WorkerGivesUp ==
  /\ container.st = "running" /\ container.wait /\ Fault
  /\ container' = Tell(AfterError(container.wk))
  /\ UNCHANGED <<db, api, cleaned, late, effects, crashes>>

WorkerExits ==
  /\ container.st = "running" /\ container.wk \in {"exitOk", "exitBad"}
  /\ container' = Exits(container.wk)
  /\ UNCHANGED <<db, api, cleaned, late, effects, bounds>>

(* Killed for its memory, or by an error of its own. *)
WorkerDies ==
  /\ container.st = "running" /\ Fault
  /\ container' = Exits("exitBad")
  /\ UNCHANGED <<db, api, cleaned, late, effects, crashes>>

-----------------------------------------------------------------------------
(* The Runner Gateway: one transaction under the lock of the run *)

(* The answer reaches the worker if it is still waiting for it. *)
Reply(r, wk) ==
  container' = IF /\ container.st = "running" /\ container.wait
                  /\ r = [op |-> container.wk, call |-> container.call, tok |-> container.tok]
               THEN Tell(wk) ELSE container
Key(r) == [op |-> r.op, call |-> r.call]
Refuse(r) == Reply(r, AfterError(r.op)) /\ UNCHANGED <<run, appr, inv, leased, keys>>
(* The idempotency key of an operation is the same for the whole run.  Once it
   is stored, a request gets the stored answer, or a conflict if its contents
   differ, as they do for another call. *)
Stored(r) == \E k \in keys : k.op = r.op
Replay(r, wk) == \E w \in {AfterError(r.op)} \cup {v \in {wk} : Key(r) \in keys} :
                   Reply(r, w) /\ UNCHANGED <<run, appr, inv, leased, keys>>

Grant(r) ==
  /\ inv' = [inv EXCEPT ![r.call] = "running"]
  /\ leased' = leased \cup {r.call}
  /\ Reply(r, "script")
  /\ UNCHANGED <<run, appr, keys>>

(* The invocation, its approval request and the waiting run are one commit. *)
Pause(r) ==
  /\ inv' = [inv EXCEPT ![r.call] = "waiting_approval"]
  /\ appr' = [appr EXCEPT ![r.call] = "pending"]
  /\ run' = "waiting_approval"
  /\ Reply(r, "save")
  /\ UNCHANGED <<leased, keys>>

(* invoke_tool for a tool that needs an approval: the call id is asked for
   once; later it is answered with the stored result, or refused. *)
AskTool(r) ==
  /\ r.call \in Tools
  /\ \/ run = "running" /\ inv[r.call] = "none" /\ Pause(r)
     \/ (run # "running" \/ inv[r.call] # "none") /\ Refuse(r)

(* execute_script *)
AskScript(r) ==
  /\ r.call \in Scripts \cup FreeScripts
  /\ \/ run # "running" /\ Refuse(r)
     \/ /\ run = "running" /\ r.call \in leased
        /\ Reply(r, "script") /\ UNCHANGED <<run, appr, inv, leased, keys>>
     \/ /\ run = "running" /\ r.call \notin leased
        /\ r.call \in FreeScripts \/ appr[r.call] = "approved"
        /\ Grant(r)
     \/ run = "running" /\ r.call \in Scripts \ leased /\ inv[r.call] = "none" /\ Pause(r)
     \/ /\ run = "running" /\ r.call \in Scripts \ leased
        /\ inv[r.call] # "none" /\ appr[r.call] # "approved"
        /\ Reply(r, "save") /\ UNCHANGED <<run, appr, inv, leased, keys>>

(* complete_script: the run's status is not looked at. *)
ServeScript(r) ==
  /\ r.op = "script"
  /\ IF inv[r.call] = "running"
       THEN /\ \E s \in {"completed", "failed"} : inv' = [inv EXCEPT ![r.call] = s]
            /\ Reply(r, "work")
            /\ UNCHANGED <<run, appr, leased, keys>>
       ELSE Refuse(r)

Commit(r, status, wk) ==
  /\ run' = status
  /\ inv' = CloseLeases(status)
  /\ keys' = keys \cup {Key(r)}
  /\ Reply(r, wk)
  /\ UNCHANGED <<appr, leased>>

(* save_checkpoint under the fixed name "interrupted" *)
ServeSave(r) ==
  /\ r.op = "save"
  /\ IF Stored(r) THEN Replay(r, "interrupt")
     ELSE IF run # "running" THEN Refuse(r)
     ELSE Commit(r, run, "interrupt")

(* complete, with status interrupted, completed and failed *)
ServeInterrupt(r) ==
  /\ r.op = "interrupt"
  /\ IF Stored(r) THEN Replay(r, "exitOk")
     ELSE IF run \in Terminal THEN Refuse(r)
     ELSE Commit(r, "waiting_approval", "exitOk")

ServeComplete(r) ==
  /\ r.op = "complete"
  /\ IF Stored(r) THEN Replay(r, "exitOk")
     ELSE \/ Refuse(r)                   \* an unknown artifact, a team's deadline
          \/ /\ run \notin Terminal \cup {"waiting_approval"}
             /\ Commit(r, "completed", "exitOk")

ServeFail(r) ==
  /\ r.op = "fail"
  /\ IF Stored(r) THEN Replay(r, "exitBad")
     ELSE IF run \in Terminal THEN Refuse(r)
     ELSE Commit(r, "failed", "exitBad")

Serve ==
  \E r \in inflight :
    /\ inflight' = inflight \ {r}
    /\ \/ r.op = "ask" /\ (AskTool(r) \/ AskScript(r))
       \/ ServeScript(r) \/ ServeSave(r)
       \/ ServeInterrupt(r) \/ ServeComplete(r) \/ ServeFail(r)
    /\ UNCHANGED <<mark, issued, revokedTo, jobs, pc, mem, lock, cleaned, late, effects, bounds>>

-----------------------------------------------------------------------------
(* Crash and restart *)

(* What SandboxRunDispatcher submits when it is constructed. *)
StartupJobs_Mutant ==     \* starts a queued run again, and resumes its approvals
  IF run = "running" THEN {Job("recover", NoCall)}
  ELSE IF run = "queued"
    THEN {Job("execute", NoCall)} \cup {Job("admit", c) : c \in {d \in Calls : appr[d] = "approved"}}
  ELSE {}
StartupJobs ==
  IF run = "running" THEN {Job("recover", NoCall)}
  ELSE IF run \in Terminal /\ mark \in {"started", "failed"} THEN {Job("cleanup", NoCall)}
  ELSE {}

(* The API process stops between two steps of its threads and starts again;
   the database, the launcher and the container live on. *)
Restart ==
  /\ crashes < MaxCrashes /\ crashes' = crashes + 1
  /\ pc' = [t \in Threads |-> "idle"]
  /\ mem' = [t \in Threads |-> NoMem]
  /\ lock' = NoThread
  /\ jobs' = StartupJobs
  /\ inflight' = {}
  /\ container' = IF container.st = "running" /\ container.wait
                  THEN Tell(AfterError(container.wk)) ELSE container
  /\ UNCHANGED <<db, cleaned, late, effects, faults>>

(* The launcher finds containers by name again, but forgets what it cleaned. *)
LauncherRestart ==
  /\ cleaned /\ Fault
  /\ cleaned' = FALSE
  /\ UNCHANGED <<db, api, container, late, effects, crashes>>

-----------------------------------------------------------------------------
ExecuteStep(t) ==
  \/ StartRead(t) \/ StartCommit(t) \/ Prepare(t) \/ PrepareFails(t)
  \/ Submit(t) \/ SubmitFails(t)
  \/ Poll(t) \/ PollTimesOut(t) \/ PollFails(t) \/ Recover(t)
EndStep(t) ==
  \/ Finish(t) \/ RevokeRead(t) \/ Revoke(t) \/ Terminate(t) \/ TerminateFails(t)
  \/ CleanupRead(t) \/ Remove(t) \/ RemoveFails(t) \/ LogCleanup(t)
ResumeStep(t) ==
  \/ Admit(t) \/ Transport(t) \/ RunTool(t) \/ ToolDone(t) \/ ToolFail(t)
ThreadStep(t) == ExecuteStep(t) \/ EndStep(t) \/ ResumeStep(t)

Next ==
  \/ \E t \in Pool : TakeJob(t)
  \/ \E t \in Threads : ThreadStep(t)
  \/ \E h \in Handlers : Cancel(h)
  \/ \E c \in Calls : Approve(c) \/ Reject(c)
  \/ LateCreate
  \/ WorkerSends \/ WorkerGivesUp \/ WorkerExits \/ WorkerDies
  \/ Serve
  \/ Restart \/ LauncherRestart

Spec == Init /\ [][Next]_vars

(* The executor runs its jobs, threads run on, the container's process and the
   gateway make progress.  Nobody has to cancel or to decide an approval. *)
Fairness ==
  /\ \A t \in Pool : WF_vars(TakeJob(t))
  /\ \A t \in Threads : WF_vars(ThreadStep(t))
  /\ WF_vars(WorkerSends) /\ WF_vars(WorkerExits) /\ WF_vars(Serve)
FairSpec == Spec /\ Fairness

-----------------------------------------------------------------------------
(* Properties *)

(* Every column holds one of the statuses the code knows for it, and threads,
   locks and requests refer to things that exist. *)
TypeOK ==
  /\ run \in RunStatus
  /\ appr \in [Calls -> ApprStatus]
  /\ inv \in [Calls -> InvStatus]
  /\ leased \subseteq Calls /\ keys \subseteq Keys
  /\ mark \in {"none", "started", "cleaned", "failed"}
  /\ issued \in Nat /\ revokedTo \in Nat
  /\ jobs \subseteq Jobs
  /\ pc \in [Threads -> ThreadPC]
  /\ mem \in [Threads -> Memories]
  /\ lock \in Threads \cup {NoThread}
  /\ container \in Containers
  /\ cleaned \in BOOLEAN
  /\ late \in Nat
  /\ inflight \subseteq Requests
  /\ effects \in [Tools -> Nat]
  /\ faults \in 0..MaxFaults /\ crashes \in 0..MaxCrashes

(* Nothing is left to do unless a request, a decision or a restart comes. *)
Quiescent == jobs = {} /\ late = 0 /\ \A t \in Threads : At(t, "idle")
Ended == run \in Terminal

(* The effect of a tool that needs an approval is started at most once, and
   only under an approval that stands: whatever restarts, late requests and
   repeated resumes do to _execute_approved_tool and execute_approved. *)
AtMostOnceApproved ==
  \A c \in Tools : effects[c] > 0 => effects[c] = 1 /\ appr[c] = "approved"

(* A skill script that needs an approval gets a lease only under an approval
   that stands (execute_script against approve and reject). *)
ScriptRunsApproved == \A c \in Scripts : c \in leased => appr[c] = "approved"

(* Nothing but a start that read the status before the run ended takes an
   ended run out of its status: not the coordinator's _finish, the worker's
   reports, an approval or a resumed tool that comes too late. *)
ReopenedOnlyByStart ==
  [][Ended /\ run' # run =>
       run' = "running" /\ (\E t \in Pool : At(t, "start") /\ pc'[t] = "prepare")]_vars

(* After the end of a run its invocations only close: none is created, leased,
   started, or recorded as done by a tool that outlived the run. *)
EndedRunIsQuiet ==
  [][Ended /\ run' = run =>
       (\A c \in Calls : inv'[c] # inv[c] => inv[c] = "running" /\ inv'[c] \in Terminal)]_vars

(* A run is completed only if its worker reported a result, as long as nothing
   has failed: a container that exits with code 0 because it was interrupted does
   not complete it. *)
CompletedIsReported ==
  faults = 0 /\ run = "completed" => \E k \in keys : k.op = "complete"

(* The end of a run leaves no script lease running.  Except for the run of an
   approved tool: ToolFail ends the run and leaves its leases. *)
LeasesEndWithRun ==
  run \in {"failed", "cancelled"} /\ (\A c \in Tools : appr[c] # "approved")
    => \A c \in Calls : inv[c] # "running"

(* Two threads never start the run at the same time, as long as nothing has
   failed: the first execution, a resumed one and what a restart submits exclude
   each other. *)
Starting(t) == pc[t] \in {"start", "prepare", "submit"}
OneStarter == faults = 0 => \A t, u \in Threads : Starting(t) /\ Starting(u) => t = u

(* A queued run has a thread or a job that will take it on. *)
QueuedHasOwner == run = "queued" => ~Quiescent

(* When everybody is done with an ended run, none of its tokens is valid,
   unless a restart cut the revocation off, or the run was resumed after an
   approval: if its preparation fails then, the token of the first execution can
   stay valid. *)
EndedRunHasNoToken ==
  /\ Ended /\ Quiescent /\ crashes = 0
  /\ \A c \in Calls : appr[c] # "approved"
  => issued <= revokedTo

(* When everybody is done and a container is left, the next start of the API
   process does something about it.  So it is for runs that are never paused for
   an approval; of the others see the README. *)
ContainerIsTracked == container.st # "absent" /\ Quiescent => StartupJobs # {}
TrackedUnlessPaused == (\A c \in Calls : appr[c] = "none") => ContainerIsTracked

(* The run comes to an end or to a decision, and everybody is done with it. *)
Settles == <>[](run \in Terminal \cup {"waiting_approval"} /\ Quiescent)

(* What the approvals promise for each tool call *)
Contract == INSTANCE ApprovalContract
              WITH Requests <- Tools,
                   decision <- [c \in Tools |-> appr[c]],
                   performed <- effects
ImplementsContract == Contract!Spec

-----------------------------------------------------------------------------
(* The inductive invariant of the proofs *)

(* What a thread remembers fits the step it is about to take. *)
MemFits(p, m) ==
  /\ p = "finish" => m.out \in Terminal
  /\ p = "log" => m.out \in {"cleaned", "failed"}
  /\ p = "toolDone" => m.out \in {"completed", "failed"}
  /\ p \in {"transport", "runTool", "toolDone"} => m.call \in Tools
MemOK == \A t \in Threads : MemFits(pc[t], mem[t])

(* The thread is between tool.started and the end of the approved tool c. *)
Performing(t, c) == pc[t] \in {"transport", "runTool", "toolDone"} /\ mem[t].call = c

(* From the commit of tool.started on, an approved tool has one thread; it took
   the invocation out of waiting, and the effect is ahead of it until it ran. *)
OnePerformer ==
  \A t \in Threads, c \in Tools : Performing(t, c) =>
    /\ inv[c] = "started" /\ appr[c] = "approved"
    /\ pc[t] # "toolDone" => effects[c] = 0
    /\ \A u \in Threads : Performing(u, c) => u = t

(* An effect is that of an invocation that has left waiting. *)
EffectsFollow ==
  \A c \in Tools :
    /\ inv[c] \in {"none", "waiting_approval"} => effects[c] = 0
    /\ inv[c] = "none" => appr[c] = "none"
    /\ effects[c] > 0 => effects[c] = 1 /\ appr[c] = "approved"

(* Both together are inductive: execute_approved is entered by one thread for
   each tool call, and what it does is counted once. *)
ApprovalInv == OnePerformer /\ EffectsFollow

-----------------------------------------------------------------------------
(* What the documents say and the code does not do: see the README. *)

(* docs/superpowers/specs/2026-08-14-runner-execution-gateway-design.md:193,
   the worker stores the interruption checkpoint and exits: its own report
   never ends the run while the approval it asked for is pending. *)
PauseOutlivesWorker ==
  [][run = "waiting_approval" /\ (\E c \in Calls : appr[c] = "pending") /\ run' = "failed"
       => \E t \in Threads : At(t, "finish") /\ ~At(t, "finish")']_vars

(* docs/superpowers/specs/2026-08-14-runner-execution-gateway-design.md:255,
   two terminal notifications cannot create conflicting states. *)
EndIsFinal == [][Ended => run' = run]_vars
=============================================================================
