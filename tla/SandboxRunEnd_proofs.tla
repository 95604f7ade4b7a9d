------------------------- MODULE SandboxRunEnd_proofs -------------------------
(***************************************************************************)
(* Proofs about how a run starts and ends.                                 *)
(*                                                                         *)
(* An ended run keeps its status, but for a start that read it before it   *)
(* ended (ReopenedByStart), and its invocations only close (EndedIsQuiet). *)
(*                                                                         *)
(* As long as nothing failed, one thread at a time starts the run          *)
(* (StartsAlone, from the claims that a job, a thread, a worker that may   *)
(* ask and an undecided approval have on the next start), and a completed  *)
(* run has a result (CompletedByReport, from what the keys, requests and   *)
(* exit codes of an interruption say of the run).                          *)
(*                                                                         *)
(* The end of a run leaves no running lease unless a tool was approved     *)
(* (LeasesEnd), and no valid token unless a call was (TokensEnd); a        *)
(* container that is left is one the next start sees to, unless an         *)
(* approval was asked for (ContainersTracked).                             *)
(***************************************************************************)
EXTENDS SandboxRun_proofs

(* cancel runs only the way out. *)
EndPC == {"idle", "finish", "revokeRead", "revoke", "terminate", "cleanup", "remove", "log"}
HandlersEnd == \A h \in Handlers : pc[h] \in EndPC

LEMMA MoveHandlers ==
  ASSUME TypeOK, HandlersEnd, NEW t \in Threads, NEW p,
         Goto(t, p) \/ (\E m : GoWith(t, p, m)),
         t \in Pool \/ p \in EndPC
  PROVE  HandlersEnd'
<1>1. pc' = [pc EXCEPT ![t] = p] BY DEF Goto, GoWith
<1>2. \A h \in Handlers : h \in Threads BY DEF Threads
<1>3. t \in Pool => t \notin Handlers BY ThreadAssumption
<1> QED BY <1>1, <1>2, <1>3 DEF TypeOK, HandlersEnd

LEMMA EndGoes ==
  ASSUME NEW t \in Threads, EndStep(t)
  PROVE  \E p \in EndPC : Goto(t, p) \/ (\E m : GoWith(t, p, m))
<1> USE DEF EndPC, Return, AfterRevoke
<1>1. CASE Finish(t) BY <1>1 DEF Finish
<1>2. CASE RevokeRead(t) \/ Revoke(t) BY <1>2 DEF RevokeRead, Revoke
<1>3. CASE Terminate(t) \/ TerminateFails(t) BY <1>3 DEF Terminate, TerminateFails
<1>4. CASE CleanupRead(t) \/ LogCleanup(t) BY <1>4 DEF CleanupRead, LogCleanup
<1>5. CASE Remove(t) \/ RemoveFails(t) BY <1>5 DEF Remove, RemoveFails
<1> QED BY <1>1, <1>2, <1>3, <1>4, <1>5 DEF EndStep

(* A thread that executes or resumes is one of the executor's. *)
LEMMA ExecutorOnly ==
  ASSUME HandlersEnd, NEW t \in Threads, ExecuteStep(t) \/ ResumeStep(t)
  PROVE  t \in Pool
<1>1. pc[t] \notin EndPC
  BY DEF ExecuteStep, StartRead, StartCommit, Prepare, PrepareFails, Submit, SubmitFails,
         Poll, PollTimesOut, PollFails, Recover, ResumeStep, Admit, Transport, RunTool,
         ToolDone, ToolFail, At, EndPC
<1> QED BY <1>1 DEF HandlersEnd, Threads

LEMMA ExecutorGoes ==
  ASSUME NEW t \in Threads, ExecuteStep(t) \/ ResumeStep(t)
  PROVE  \E p : Goto(t, p) \/ (\E m : GoWith(t, p, m))
<1>1. CASE ExecuteStep(t) BY <1>1, ExecuteLeaves DEF Leaves
<1>2. CASE ResumeStep(t)
  BY <1>2 DEF ResumeStep, Admit, Transport, RunTool, ToolDone, ToolFail, Return
<1> QED BY <1>1, <1>2

LEMMA HandlersNext == TypeOK /\ HandlersEnd /\ [Next]_vars => HandlersEnd'
<1> SUFFICES ASSUME TypeOK, HandlersEnd, [Next]_vars PROVE HandlersEnd' OBVIOUS
<1>1. ASSUME NEW t \in Threads, ThreadStep(t) PROVE HandlersEnd'
  <2>1. CASE EndStep(t) BY <2>1, EndGoes, MoveHandlers
  <2>2. CASE ExecuteStep(t) \/ ResumeStep(t)
    BY <2>2, ExecutorOnly, ExecutorGoes, MoveHandlers
  <2> QED BY <1>1, <2>1, <2>2 DEF ThreadStep
<1>2. ASSUME NEW t \in Pool, TakeJob(t) PROVE HandlersEnd'
  <2>1. PICK j \in jobs : GoWith(t, j.kind, Mem("none", FALSE, j.call, 0))
    BY <1>2 DEF TakeJob
  <2> QED BY <2>1, MoveHandlers DEF Threads
<1>3. ASSUME NEW h \in Handlers, Cancel(h) PROVE HandlersEnd'
  BY <1>3, MoveHandlers DEF Cancel, End, EndPC, Threads
<1>4. CASE Restart BY <1>4 DEF Restart, HandlersEnd, EndPC, Threads
<1>5. CASE \/ \E c \in Calls : Approve(c) \/ Reject(c)
           \/ LateCreate \/ WorkerSends \/ WorkerGivesUp \/ WorkerExits \/ WorkerDies
           \/ Serve \/ LauncherRestart
  <2>1. pc' = pc
    BY <1>5 DEF Approve, Reject, LateCreate, WorkerSends, Send, WorkerGivesUp, WorkerExits,
                WorkerDies, Serve, LauncherRestart, api
  <2> QED BY <2>1 DEF HandlersEnd
<1>6. CASE UNCHANGED vars BY <1>6 DEF vars, api, HandlersEnd
<1> QED BY <1>1, <1>2, <1>3, <1>4, <1>5, <1>6 DEF Next

LEMMA HandlersAlways == Spec => []HandlersEnd
<1>1. Init => HandlersEnd BY DEF Init, HandlersEnd, EndPC, Threads
<1> QED BY <1>1, HandlersNext, TypeInvariant, PTL DEF Spec

-----------------------------------------------------------------------------
(* The run has ended and some other step than a start's commit is taken. *)
Started == run' = "running" /\ \E t \in Pool : At(t, "start") /\ pc'[t] = "prepare"

LEMMA ThreadKeepsEnd ==
  ASSUME TypeOK, HandlersEnd, Ended, NEW t \in Threads, ThreadStep(t)
  PROVE  run' = run \/ Started
<1>1. CASE StartCommit(t)
  <2>1. t \in Pool BY <1>1, ExecutorOnly DEF ExecuteStep
  <2>2. pc'[t] = "prepare" BY <1>1 DEF StartCommit, Goto, TypeOK
  <2> QED BY <1>1, <2>1, <2>2 DEF StartCommit, Started
<1>2. CASE ExecuteStep(t) /\ ~StartCommit(t)
  BY <1>2 DEF ExecuteStep, StartRead, Prepare, PrepareFails, Submit, SubmitFails, Poll,
              PollTimesOut, PollFails, Recover, db
<1>3. CASE EndStep(t)
  BY <1>3 DEF EndStep, Finish, Eligible, Ended, RevokeRead, Revoke, Terminate, TerminateFails,
              CleanupRead, Remove, RemoveFails, LogCleanup, db
<1>4. CASE ResumeStep(t)
  BY <1>4 DEF ResumeStep, Admit, Transport, RunTool, ToolDone, ToolFail, Ended, db
<1> QED BY <1>1, <1>2, <1>3, <1>4 DEF ThreadStep

(* The gateway: a pause needs a running run, a report one that has not ended. *)
LEMMA ServeKeepsEnd ==
  ASSUME Ended, Serve
  PROVE  run' = run
<1>1. PICK r \in inflight :
        \/ AskTool(r) \/ AskScript(r) \/ ServeScript(r) \/ ServeSave(r)
        \/ ServeInterrupt(r) \/ ServeComplete(r) \/ ServeFail(r)
  BY DEF Serve
<1>2. run # "running" BY DEF Ended, Terminal
<1>3. CASE AskTool(r) \/ AskScript(r) BY <1>2, <1>3 DEF AskTool, AskScript, Refuse
<1>4. CASE ServeScript(r) \/ ServeSave(r)
  BY <1>2, <1>4 DEF ServeScript, ServeSave, Refuse, Replay
<1>5. CASE ServeInterrupt(r) \/ ServeComplete(r) \/ ServeFail(r)
  BY <1>5 DEF ServeInterrupt, ServeComplete, ServeFail, Refuse, Replay, Ended
<1> QED BY <1>1, <1>3, <1>4, <1>5

LEMMA NextKeepsEnd ==
  ASSUME TypeOK, HandlersEnd, Ended, [Next]_vars
  PROVE  run' = run \/ Started
<1>1. ASSUME NEW c \in Calls, Approve(c) \/ Reject(c) PROVE run' = run
  BY <1>1 DEF Approve, Reject, Ended, Terminal
<1>2. CASE \/ \E t \in Pool : TakeJob(t)
           \/ \E h \in Handlers : Cancel(h)
           \/ LateCreate \/ WorkerSends \/ WorkerGivesUp \/ WorkerExits \/ WorkerDies
           \/ Restart \/ LauncherRestart
  BY <1>2 DEF TakeJob, Cancel, LateCreate, WorkerSends, Send, WorkerGivesUp, WorkerExits,
              WorkerDies, Restart, LauncherRestart, db
<1>3. CASE UNCHANGED vars BY <1>3 DEF vars, db
<1> QED BY <1>1, <1>2, <1>3, ThreadKeepsEnd, ServeKeepsEnd DEF Next

(* No report of the worker, no way out of the coordinator, no decision and no
   resumed tool moves an ended run; only _start does, on an older read. *)
THEOREM ReopenedByStart == Spec => ReopenedOnlyByStart
<1>1. TypeOK /\ HandlersEnd /\ [Next]_vars =>
        [Ended /\ run' # run =>
           run' = "running" /\ (\E t \in Pool : At(t, "start") /\ pc'[t] = "prepare")]_vars
  BY NextKeepsEnd DEF Started
<1> QED BY <1>1, TypeInvariant, HandlersAlways, PTL DEF Spec, ReopenedOnlyByStart
-----------------------------------------------------------------------------
(* After the end, an invocation changes only from running to an end. *)
Closes == \A c \in Calls : inv'[c] # inv[c] => inv[c] = "running" /\ inv'[c] \in Terminal

LEMMA ThreadCloses ==
  ASSUME Ended, NEW t \in Threads, ThreadStep(t)
  PROVE  inv' = inv
<1>1. run # "queued" /\ run \notin ToolRunStatuses BY DEF Ended, Terminal, ToolRunStatuses
<1>2. CASE ExecuteStep(t) BY <1>2, ExecuteLeaves
<1>3. CASE EndStep(t)
  BY <1>3 DEF EndStep, Finish, Eligible, Ended, RevokeRead, Revoke, Terminate, TerminateFails,
              CleanupRead, Remove, RemoveFails, LogCleanup, db
<1>4. CASE ResumeStep(t)
  BY <1>1, <1>4 DEF ResumeStep, Admit, Transport, RunTool, ToolDone, ToolFail, db
<1> QED BY <1>2, <1>3, <1>4 DEF ThreadStep

LEMMA ServeCloses ==
  ASSUME TypeOK, Ended, Serve
  PROVE  Closes
<1>1. PICK r \in inflight :
        \/ AskTool(r) \/ AskScript(r) \/ ServeScript(r) \/ ServeSave(r)
        \/ ServeInterrupt(r) \/ ServeComplete(r) \/ ServeFail(r)
  BY DEF Serve
<1>2. run # "running" BY DEF Ended, Terminal
<1>3. CASE inv' = inv BY <1>3 DEF Closes
<1>4. CASE ServeScript(r) /\ inv[r.call] = "running"
  <2>1. PICK s \in {"completed", "failed"} : inv' = [inv EXCEPT ![r.call] = s]
    BY <1>4 DEF ServeScript
  <2>2. \A c \in Calls : inv'[c] = inv[c] \/ (inv[c] = "running" /\ inv'[c] = s)
    BY <1>4, <2>1 DEF TypeOK
  <2> QED BY <2>2 DEF Closes, Terminal
<1>5. CASE AskTool(r) \/ AskScript(r) BY <1>2, <1>3, <1>5 DEF AskTool, AskScript, Refuse
<1>6. CASE ServeSave(r) \/ (ServeScript(r) /\ inv[r.call] # "running")
  BY <1>2, <1>3, <1>6 DEF ServeScript, ServeSave, Refuse, Replay
<1>7. CASE ServeInterrupt(r) \/ ServeComplete(r) \/ ServeFail(r)
  BY <1>3, <1>7 DEF ServeInterrupt, ServeComplete, ServeFail, Refuse, Replay, Ended
<1> QED BY <1>1, <1>4, <1>5, <1>6, <1>7

LEMMA NextCloses ==
  ASSUME TypeOK, Ended, [Next]_vars
  PROVE  Closes
<1>1. CASE \/ \E t \in Pool : TakeJob(t)
           \/ \E h \in Handlers : Cancel(h)
           \/ \E c \in Calls : Approve(c) \/ Reject(c)
           \/ LateCreate \/ WorkerSends \/ WorkerGivesUp \/ WorkerExits \/ WorkerDies
           \/ Restart \/ LauncherRestart \/ UNCHANGED vars
  <2>1. inv' = inv
    BY <1>1 DEF TakeJob, Cancel, Approve, Reject, LateCreate, WorkerSends, Send, WorkerGivesUp,
                WorkerExits, WorkerDies, Restart, LauncherRestart, vars, db
  <2> QED BY <2>1 DEF Closes
<1>2. ASSUME NEW t \in Threads, ThreadStep(t) PROVE Closes BY <1>2, ThreadCloses DEF Closes
<1> QED BY <1>1, <1>2, ServeCloses DEF Next

(* A tool that outlives its run records nothing, and nothing is asked for,
   leased or started any more: the fence of the tool gateway and the checks of
   the Runner Gateway.  What is left to happen is the end of a running lease. *)
THEOREM EndedIsQuiet == Spec => EndedRunIsQuiet
<1>1. TypeOK /\ [Next]_vars =>
        [Ended /\ run' = run =>
           (\A c \in Calls : inv'[c] # inv[c] => inv[c] = "running" /\ inv'[c] \in Terminal)]_vars
  BY NextCloses DEF Closes
<1> QED BY <1>1, TypeInvariant, PTL DEF Spec, EndedRunIsQuiet

-----------------------------------------------------------------------------
(* Who may start the run: what is in a job or a thread on the way from the
   executor's queue, or from an approval, to a container.  Early is before the
   run is set running. *)
Claims == {"execute", "admit", "transport", "runTool", "toolDone", "start", "prepare", "submit"}
Early == Claims \ {"prepare", "submit"}
IsClaim(j) == j.kind \in {"execute", "admit"}
Nobody(P) == (\A j \in jobs : ~IsClaim(j)) /\ \A t \in Threads : pc[t] \notin P
OneClaim ==
  /\ \A j, k \in jobs : IsClaim(j) /\ IsClaim(k) => j = k
  /\ \A t, u \in Threads : pc[t] \in Claims /\ pc[u] \in Claims => t = u
  /\ \A j \in jobs, t \in Threads : IsClaim(j) => pc[t] \notin Claims

(* A thread goes on: with the claim it had, or without one. *)
LEMMA ThreadGoes ==
  ASSUME TypeOK, NEW t \in Threads, ThreadStep(t)
  PROVE  /\ jobs' = jobs
         /\ \E p : /\ pc' = [pc EXCEPT ![t] = p]
                   /\ p \in Claims => pc[t] \in Claims
                   /\ p \in Early => pc[t] \in Early
<1> USE DEF Claims, Early, At
<1>1. CASE ExecuteStep(t)
  BY <1>1 DEF ExecuteStep, StartRead, StartCommit, Prepare, PrepareFails, Submit, SubmitFails,
     Poll, PollTimesOut, PollFails, Recover, GoWith, Goto, Return, End
<1>2. CASE EndStep(t)
  <2>1. jobs' = jobs
    BY <1>2 DEF EndStep, Finish, RevokeRead, Revoke, Terminate, TerminateFails, CleanupRead,
       Remove, RemoveFails, LogCleanup
  <2> QED BY <1>2, <2>1, EndGoes DEF EndPC, Goto, GoWith
<1>3. CASE ResumeStep(t)
  BY <1>3 DEF ResumeStep, Admit, Transport, RunTool, ToolDone, ToolFail, GoWith, Goto, Return
<1> QED BY <1>1, <1>2, <1>3 DEF ThreadStep

(* Only an approval makes a new claim. *)
ClaimsKeep ==
  /\ OneClaim => OneClaim'
  /\ Nobody(Claims) => Nobody(Claims)'
  /\ Nobody(Early) => Nobody(Early)'

LEMMA ThreadClaims ==
  ASSUME TypeOK, NEW t \in Threads, ThreadStep(t)
  PROVE  ClaimsKeep
<1>1. PICK p : /\ pc' = [pc EXCEPT ![t] = p]
               /\ p \in Claims => pc[t] \in Claims
               /\ p \in Early => pc[t] \in Early
  BY ThreadGoes
<1>2. jobs' = jobs BY ThreadGoes
<1>3. \A u \in Threads : /\ pc'[u] \in Claims => pc[u] \in Claims
                         /\ pc'[u] \in Early => pc[u] \in Early
  BY <1>1 DEF TypeOK
<1> QED BY <1>2, <1>3 DEF ClaimsKeep, OneClaim, Nobody

LEMMA JobClaims ==
  ASSUME TypeOK, NEW t \in Threads, TakeJob(t)
  PROVE  ClaimsKeep
<1>1. PICK j \in jobs : jobs' = jobs \ {j} /\ pc' = [pc EXCEPT ![t] = j.kind]
  BY DEF TakeJob, GoWith
<1>2. j.kind \in JobKind BY DEF TypeOK, Jobs
<1>3. j.kind \in Claims <=> IsClaim(j) BY <1>2 DEF Claims, IsClaim, JobKind
<1>4. j.kind \in Early <=> IsClaim(j) BY <1>2 DEF Claims, Early, IsClaim, JobKind
<1>5. \A u \in Threads : pc'[u] = IF u = t THEN j.kind ELSE pc[u] BY <1>1 DEF TypeOK
<1> QED BY <1>1, <1>3, <1>4, <1>5 DEF ClaimsKeep, OneClaim, Nobody

LEMMA NextClaims ==
  ASSUME TypeOK, [Next]_vars, ~\E c \in Calls : Approve(c)
  PROVE  ClaimsKeep
<1>1. ASSUME NEW t \in Pool, TakeJob(t) PROVE ClaimsKeep BY <1>1, JobClaims DEF Threads
<1>2. ASSUME NEW h \in Handlers, Cancel(h) PROVE ClaimsKeep
  <2>1. jobs' = jobs /\ pc' = [pc EXCEPT ![h] = "finish"] /\ h \in Threads
    BY <1>2 DEF Cancel, End, GoWith, Threads
  <2>2. \A u \in Threads : pc'[u] = pc[u] \/ pc'[u] = "finish" BY <2>1 DEF TypeOK
  <2> QED BY <2>1, <2>2 DEF ClaimsKeep, OneClaim, Nobody, Claims, Early
<1>3. CASE Restart
  <2>1. \A j \in jobs' : ~IsClaim(j) BY <1>3 DEF Restart, StartupJobs, IsClaim, Job
  <2>2. \A t \in Threads : pc'[t] = "idle" BY <1>3 DEF Restart
  <2> QED BY <2>1, <2>2 DEF ClaimsKeep, OneClaim, Nobody, Claims, Early
<1>4. CASE \/ \E c \in Calls : Reject(c)
           \/ LateCreate \/ WorkerSends \/ WorkerGivesUp \/ WorkerExits \/ WorkerDies
           \/ Serve \/ LauncherRestart \/ UNCHANGED vars
  <2>1. pc' = pc /\ jobs' = jobs
    BY <1>4 DEF Reject, LateCreate, WorkerSends, Send, WorkerGivesUp, WorkerExits,
                WorkerDies, Serve, LauncherRestart, api, vars
  <2> QED BY <2>1 DEF ClaimsKeep, OneClaim, Nobody
<1> QED BY <1>1, <1>2, <1>3, <1>4, ThreadClaims DEF Next

-----------------------------------------------------------------------------
(* As long as nothing failed.  A run has one claim, or one worker that may ask
   for an approval, or one undecided approval, or none of these. *)
Undecided == \E c \in Calls : appr[c] = "pending"
Alive(S) == container.st = "running" /\ container.wk \in S
Asking == Alive({"work", "ask", "script"}) \/ \E r \in inflight : r.op = "ask"
Awaited(r) ==
  container.wait /\ r = [op |-> container.wk, call |-> container.call, tok |-> container.tok]
AsksFit ==
  /\ \A r, s \in inflight : r.op = "ask" /\ s.op = "ask" => r = s
  /\ \A r \in inflight : r.op = "ask" /\ container.st = "running" => Awaited(r)
ClaimInv ==
  /\ late = 0 /\ OneClaim /\ AsksFit
  /\ Asking => Nobody(Claims) /\ ~Undecided
  /\ Undecided => Nobody(Claims)
  /\ \A c, d \in Calls : appr[c] = "pending" /\ appr[d] = "pending" => c = d

LEMMA AskingKeeps ==
  ASSUME ClaimInv, ClaimsKeep, late' = 0, appr' = appr, Asking' => Asking, AsksFit'
  PROVE  ClaimInv'
BY DEF ClaimInv, ClaimsKeep, Undecided

(* The container is as it was or does not run, and nothing is sent. *)
LEMMA StoppedKeeps ==
  ASSUME ClaimInv, inflight' = inflight, container' = container \/ container'.st # "running"
  PROVE  (Asking' => Asking) /\ AsksFit'
BY DEF ClaimInv, Asking, Alive, AsksFit, Awaited

LEMMA CalmKeeps ==
  ASSUME ClaimInv, ClaimsKeep, late' = 0, appr' = appr, inflight' = inflight,
         container' = container \/ container'.st # "running"
  PROVE  ClaimInv'
BY StoppedKeeps, AskingKeeps

(* The container is created by the one that had the claim. *)
LEMMA SubmitClaim ==
  ASSUME TypeOK, ClaimInv, NEW t \in Threads, Submit(t)
  PROVE  ClaimInv'
<1>1. pc[t] = "submit" /\ pc[t] \in Claims BY DEF Submit, At, Claims
<1>2. jobs' = jobs /\ \A u \in Threads : u # t => pc'[u] = pc[u]
  BY DEF Submit, GoWith, End, TypeOK
<1>3. pc'[t] \notin Claims BY DEF Submit, GoWith, End, TypeOK, Claims
<1>4. Nobody(Claims)' BY <1>1, <1>2, <1>3 DEF ClaimInv, OneClaim, Nobody
<1>5. ~Asking /\ ~Undecided BY <1>1 DEF ClaimInv, Nobody
<1>6. inflight' = inflight /\ appr' = appr /\ late' = 0 BY DEF Submit, db, ClaimInv
<1>7. OneClaim' BY <1>4 DEF OneClaim, Nobody
<1>8. AsksFit' BY <1>5, <1>6 DEF AsksFit, Asking
<1> QED BY <1>4, <1>5, <1>6, <1>7, <1>8 DEF ClaimInv, Undecided

LEMMA ThreadClaim ==
  ASSUME TypeOK, ClaimInv, NEW t \in Threads, ThreadStep(t), faults' = faults
  PROVE  ClaimInv'
<1> ClaimsKeep BY ThreadClaims
<1>f. ~Fault BY DEF TypeOK, Fault
<1>1. CASE Submit(t) BY <1>1, SubmitClaim
<1>2. CASE Terminate(t)
  <2>1. container' = container \/ container'.st # "running" BY <1>2 DEF Terminate, Exits, Box
  <2> QED BY <1>2, <2>1, CalmKeeps DEF Terminate, db, ClaimInv
<1>3. CASE Remove(t)
  <2>1. container' = container \/ container'.st # "running" BY <1>3 DEF Remove, Absent, Box
  <2> QED BY <1>3, <2>1, CalmKeeps DEF Remove, db, ClaimInv
<1>4. CASE \/ StartRead(t) \/ StartCommit(t) \/ Prepare(t) \/ Poll(t) \/ PollTimesOut(t)
           \/ Recover(t)
  <2>1. UNCHANGED <<late, appr, inflight, container>>
    BY <1>4 DEF StartRead, StartCommit, Prepare, Poll, PollTimesOut, Recover, db, box
  <2> QED BY <2>1, CalmKeeps DEF ClaimInv
<1>5. CASE Finish(t) \/ RevokeRead(t) \/ Revoke(t) \/ CleanupRead(t) \/ LogCleanup(t)
  <2>1. UNCHANGED <<late, appr, inflight, container>>
    BY <1>5 DEF Finish, RevokeRead, Revoke, CleanupRead, LogCleanup, db, box
  <2> QED BY <2>1, CalmKeeps DEF ClaimInv
<1>6. CASE ResumeStep(t)
  <2>1. UNCHANGED <<late, appr, inflight, container>>
    BY <1>6 DEF ResumeStep, Admit, Transport, RunTool, ToolDone, ToolFail, db, box
  <2> QED BY <2>1, CalmKeeps DEF ClaimInv
<1> QED BY <1>f, <1>1, <1>2, <1>3, <1>4, <1>5, <1>6
        DEF ThreadStep, ExecuteStep, EndStep, PrepareFails, SubmitFails, PollFails,
            TerminateFails, RemoveFails

(* What a worker becomes after an answer *)
LEMMA TellAlive ==
  ASSUME NEW wk, container' = Tell(wk)
  PROVE  /\ container'.st = container.st /\ container'.wk = wk /\ ~container'.wait
         /\ container'.tok = container.tok
         /\ container'.call = IF wk \in CallOps THEN container.call ELSE NoCall
BY DEF Tell, Box

(* A worker that sends or is answered asks for an approval only if it might
   have done so before, and waits for what it asks. *)
LEMMA SendAsks ==
  ASSUME TypeOK, ClaimInv, WorkerSends
  PROVE  (Asking' => Asking) /\ AsksFit'
<1>1. PICK op \in Ops, c \in Calls \cup {NoCall} :
        Send(op, c) /\ (op \in {"ask", "script"} => container.wk \in {"work", "ask", "script"})
  BY DEF WorkerSends, Ops, TypeOK, Containers
<1>2. container.st = "running" /\ ~container.wait BY DEF WorkerSends, Working
<1>3. \A r \in inflight : r.op # "ask" BY <1>2 DEF ClaimInv, AsksFit, Awaited
<1>4. CASE container.tok > revokedTo
  <2>1. PICK q : q = [op |-> op, call |-> c, tok |-> container.tok] OBVIOUS
  <2>2. inflight' = inflight \cup {q} /\ container' = Box("running", op, c, container.tok, TRUE)
    BY <1>1, <1>4, <2>1 DEF Send
  <2>3. Awaited(q)' BY <2>1, <2>2 DEF Awaited, Box
  <2>4. AsksFit' BY <1>3, <2>2, <2>3 DEF AsksFit
  <2>5. ASSUME Asking' PROVE op \in {"ask", "script"}
    BY <1>1, <1>3, <2>1, <2>2, <2>5 DEF Asking, Alive, Box, Ops
  <2> QED BY <1>1, <1>2, <2>4, <2>5 DEF Asking, Alive
<1>5. CASE ~(container.tok > revokedTo)
  <2>1. inflight' = inflight /\ container' = Tell(AfterError(op)) BY <1>1, <1>5 DEF Send
  <2>2. container'.st = "running" /\ container'.wk = AfterError(op) BY <1>2, <2>1, TellAlive
  <2>3. AfterError(op) \in {"work", "ask", "script"} => op \in {"ask", "script"}
    BY DEF AfterError, Ops
  <2> QED BY <1>1, <1>2, <1>3, <2>1, <2>2, <2>3 DEF Asking, Alive, AsksFit
<1> QED BY <1>4, <1>5

LEMMA ReplyAsks ==
  ASSUME TypeOK, ClaimInv, NEW r \in inflight, NEW wk, Reply(r, wk), inflight' = inflight \ {r},
         wk \in {"work", "ask", "script"} => r.op \in {"ask", "script"}
  PROVE  (Asking' => Asking) /\ AsksFit'
<1>1. CASE container.st = "running" /\ Awaited(r)
  <2>1. container' = Tell(wk) BY <1>1 DEF Reply, Awaited
  <2>2. container'.st = "running" /\ container'.wk = wk BY <1>1, <2>1, TellAlive
  <2>3. r.op = container.wk BY <1>1 DEF Awaited
  <2>4. \A s \in inflight' : s.op # "ask" BY <1>1 DEF ClaimInv, AsksFit, Awaited
  <2> QED BY <1>1, <2>2, <2>3, <2>4 DEF Asking, Alive, AsksFit
<1>2. CASE ~(container.st = "running" /\ Awaited(r))
  <2>1. container' = container BY <1>2 DEF Reply, Awaited
  <2> QED BY <2>1 DEF Asking, Alive, AsksFit, Awaited, ClaimInv
<1> QED BY <1>1, <1>2

(* A pause is what the one that asks gets. *)
LEMMA PauseClaim ==
  ASSUME TypeOK, ClaimInv, ClaimsKeep, NEW r \in inflight, r.op = "ask", r.call \in Calls,
         Pause(r), inflight' = inflight \ {r}, late' = late
  PROVE  ClaimInv'
<1>1. ~Undecided /\ Nobody(Claims) BY DEF ClaimInv, Asking
<1>2. \A s \in inflight' : s.op # "ask" BY DEF ClaimInv, AsksFit
<1>3. ~Alive({"work", "ask", "script"})'
  <2>1. CASE container.st = "running"
    <3>1. Awaited(r) BY <2>1 DEF ClaimInv, AsksFit
    <3>2. container' = Tell("save") BY <2>1, <3>1 DEF Pause, Reply, Awaited
    <3> QED BY <3>2, TellAlive DEF Alive
  <2>2. CASE container.st # "running" BY <2>2 DEF Pause, Reply, Alive
  <2> QED BY <2>1, <2>2
<1>4. \A c \in Calls : appr'[c] = "pending" => c = r.call
  BY <1>1 DEF Pause, TypeOK, Undecided
<1> QED BY <1>1, <1>2, <1>3, <1>4 DEF ClaimInv, ClaimsKeep, Asking, AsksFit, Undecided

LEMMA ServeClaim ==
  ASSUME TypeOK, ClaimInv, ClaimsKeep, Serve
  PROVE  ClaimInv'
<1>1. PICK r \in inflight :
        /\ inflight' = inflight \ {r}
        /\ \/ r.op = "ask" /\ (AskTool(r) \/ AskScript(r))
           \/ ServeScript(r) \/ ServeSave(r)
           \/ ServeInterrupt(r) \/ ServeComplete(r) \/ ServeFail(r)
  BY DEF Serve
<1>2. late' = late BY DEF Serve
<1>3. CASE r.op = "ask" /\ Pause(r) /\ r.call \in Calls BY <1>1, <1>2, <1>3, PauseClaim
<1>4. ASSUME NEW wk, Reply(r, wk), appr' = appr,
             wk \in {"work", "ask", "script"} => r.op \in {"ask", "script"}
      PROVE  ClaimInv'
  BY <1>1, <1>2, <1>4, ReplyAsks, AskingKeeps DEF ClaimInv
<1>5. AfterError(r.op) \in {"work", "ask", "script"} => r.op \in {"ask", "script"}
  BY DEF AfterError, TypeOK, Requests, Ops
<1>6. CASE Refuse(r) BY <1>4, <1>5, <1>6 DEF Refuse
<1>7. ASSUME NEW wk \in {"interrupt", "exitOk", "exitBad"}, Replay(r, wk) PROVE ClaimInv'
  BY <1>4, <1>5, <1>7 DEF Replay
<1>8. ASSUME NEW wk \in {"interrupt", "exitOk", "exitBad"}, NEW s, Commit(r, s, wk)
      PROVE  ClaimInv'
  BY <1>4, <1>8 DEF Commit
<1>9. CASE r.op = "ask" /\ AskTool(r)
  BY <1>3, <1>6, <1>9 DEF AskTool, Calls
<1>10. CASE r.op = "ask" /\ AskScript(r)
  <2>1. CASE Refuse(r) BY <1>6, <2>1
  <2>2. CASE Reply(r, "script") /\ appr' = appr BY <1>4, <1>10, <2>2
  <2>3. CASE Reply(r, "save") /\ appr' = appr BY <1>4, <2>3
  <2>4. CASE Pause(r) BY <1>3, <1>10, <2>4 DEF AskScript, Calls
  <2> QED BY <1>10, <2>1, <2>2, <2>3, <2>4 DEF AskScript, Grant
<1>11. CASE ServeScript(r) BY <1>4, <1>6, <1>11 DEF ServeScript
<1>12. CASE ServeSave(r) BY <1>6, <1>7, <1>8, <1>12 DEF ServeSave
<1>13. CASE ServeInterrupt(r) BY <1>6, <1>7, <1>8, <1>13 DEF ServeInterrupt
<1>14. CASE ServeComplete(r) BY <1>6, <1>7, <1>8, <1>14 DEF ServeComplete
<1>15. CASE ServeFail(r) BY <1>6, <1>7, <1>8, <1>15 DEF ServeFail
<1> QED BY <1>1, <1>9, <1>10, <1>11, <1>12, <1>13, <1>14, <1>15

(* The approval becomes the claim, or is gone. *)
LEMMA DecisionClaim ==
  ASSUME TypeOK, ClaimInv, NEW c \in Calls, Approve(c) \/ Reject(c)
  PROVE  ClaimInv'
<1>1. appr[c] = "pending" /\ Undecided BY DEF Approve, Reject, Undecided
<1>2. Nobody(Claims) /\ ~Asking BY <1>1 DEF ClaimInv
<1>3. \A d \in Calls : appr[d] = "pending" => d = c BY <1>1 DEF ClaimInv
<1>4. \A d \in Calls : appr'[d] # "pending" BY <1>3 DEF Approve, Reject, TypeOK
<1>5. UNCHANGED <<pc, container, inflight, late>> BY DEF Approve, Reject, api, box
<1>6. jobs' = jobs \/ jobs' = jobs \cup {Job("admit", c)} BY DEF Approve, Reject, api
<1>7. OneClaim' BY <1>2, <1>5, <1>6 DEF OneClaim, Nobody
<1>8. ~Asking' /\ AsksFit' BY <1>2, <1>5 DEF Asking, Alive, AsksFit, Awaited, ClaimInv
<1> QED BY <1>4, <1>5, <1>7, <1>8 DEF ClaimInv, Undecided

LEMMA RestartClaim ==
  ASSUME TypeOK, ClaimInv, ClaimsKeep, Restart
  PROVE  ClaimInv'
<1>1. inflight' = {} /\ late' = 0 /\ appr' = appr BY DEF Restart, db, ClaimInv
<1>2. CASE container' = container BY <1>1, <1>2, AskingKeeps DEF Asking, Alive, AsksFit
<1>3. CASE container.st = "running" /\ container.wait /\ container' = Tell(AfterError(container.wk))
  <2>1. container.wk \in Ops BY <1>3 DEF TypeOK, Containers
  <2>2. container'.wk = AfterError(container.wk) BY <1>3, TellAlive
  <2>3. container'.wk \in {"work", "ask", "script"} => container.wk \in {"ask", "script"}
    BY <2>1, <2>2 DEF AfterError, Ops
  <2>4. Asking' => Asking BY <1>1, <1>3, <2>3 DEF Asking, Alive
  <2> QED BY <1>1, <2>4, AskingKeeps DEF AsksFit
<1> QED BY <1>2, <1>3 DEF Restart

(* Failures are counted for good. *)
LEMMA FaultsStay ==
  ASSUME TypeOK, [Next]_vars, faults' = 0
  PROVE  faults = 0
<1>1. faults' = faults \/ faults' = faults + 1
  BY DEF Next, vars, bounds, TakeJob, ThreadStep, ExecuteStep, EndStep, ResumeStep, Cancel,
     Approve, Reject, LateCreate, WorkerSends, Send, WorkerGivesUp, WorkerExits, WorkerDies,
     Serve, Restart, LauncherRestart, StartRead, StartCommit, Prepare, PrepareFails, Submit,
     SubmitFails, Poll, PollTimesOut, PollFails, Recover, Finish, RevokeRead, Revoke,
     Terminate, TerminateFails, CleanupRead, Remove, RemoveFails, LogCleanup, Admit,
     Transport, RunTool, ToolDone, ToolFail, Fault
<1> QED BY <1>1 DEF TypeOK

LEMMA NextClaim ==
  ASSUME TypeOK, faults = 0 => ClaimInv, [Next]_vars
  PROVE  (faults = 0 => ClaimInv)'
<1> SUFFICES ASSUME faults' = 0 PROVE ClaimInv' OBVIOUS
<1>1. faults = 0 BY FaultsStay
<1>2. ClaimInv /\ late = 0 BY <1>1 DEF ClaimInv
<1>f. ~Fault BY <1>1 DEF Fault
<1>3. ASSUME NEW t \in Threads, ThreadStep(t) PROVE ClaimInv' BY <1>1, <1>2, <1>3, ThreadClaim
<1>4. ASSUME NEW c \in Calls, Approve(c) \/ Reject(c) PROVE ClaimInv' BY <1>2, <1>4, DecisionClaim
<1>5. CASE ~\E c \in Calls : Approve(c)
  <2> ClaimsKeep BY <1>5, NextClaims
  <2>1. CASE WorkerSends
    <3>1. late' = late /\ appr' = appr BY <2>1 DEF WorkerSends, Send, db
    <3> QED BY <1>2, <2>1, <3>1, SendAsks, AskingKeeps
  <2>2. CASE WorkerExits
    <3>1. container'.st # "running" BY <2>2 DEF WorkerExits, Exits, Box
    <3> QED BY <1>2, <2>2, <3>1, CalmKeeps DEF WorkerExits, db, api
  <2>3. CASE Serve BY <1>2, <2>3, ServeClaim
  <2>4. CASE Restart BY <1>2, <2>4, RestartClaim
  <2>5. CASE \E t \in Pool : TakeJob(t)
    BY <1>2, <2>5, CalmKeeps DEF TakeJob, db, box
  <2>6. CASE \E h \in Handlers : Cancel(h)
    BY <1>2, <2>6, CalmKeeps DEF Cancel, db, box
  <2>7. CASE UNCHANGED vars BY <1>2, <2>7, CalmKeeps DEF vars, db, api, box
  <2> QED BY <1>2, <1>f, <1>3, <1>4, <2>1, <2>2, <2>3, <2>4, <2>5, <2>6, <2>7
          DEF Next, LateCreate, WorkerGivesUp, WorkerDies, LauncherRestart
<1> QED BY <1>4, <1>5

LEMMA ClaimsAlways == Spec => [](faults = 0 => ClaimInv)
<1>1. Init => ClaimInv
  <2> SUFFICES ASSUME Init PROVE ClaimInv OBVIOUS
  <2>1. jobs = {Job("execute", NoCall)} /\ \A t \in Threads : pc[t] = "idle" BY DEF Init
  <2>2. OneClaim BY <2>1 DEF OneClaim, Claims
  <2>3. ~Asking /\ ~Undecided /\ inflight = {}
    BY DEF Init, Asking, Alive, Absent, Box, Undecided
  <2> QED BY <2>2, <2>3 DEF Init, ClaimInv, AsksFit, Undecided
<1> QED BY <1>1, NextClaim, TypeInvariant, PTL DEF Spec

(* As long as no call and no worker has failed, the first execution, the
   resumed ones and what a restart submits never start the run at once, for any
   number of threads, calls, cancels, approvals and restarts. *)
THEOREM StartsAlone == Spec => []OneStarter
<1>1. (faults = 0 => ClaimInv) => OneStarter
  BY DEF ClaimInv, OneClaim, Claims, OneStarter, Starting
<1> QED BY <1>1, ClaimsAlways, PTL

-----------------------------------------------------------------------------
(* What lets a container exit with code 0: a result the run is completed with,
   or an interruption, after which the run is dead: it waits or has ended, and
   nobody is left to resume it. *)
Done(op) == \E k \in keys : k.op = op
Has(op, c) == [op |-> op, call |-> c] \in keys
Dead == run \in {"waiting_approval"} \cup Terminal /\ ~Undecided /\ Nobody(Early)

(* While a run is running nobody is about to set it running, a run with an
   undecided approval waits, and a rejection is for ever. *)
Decided ==
  /\ run = "running" => Nobody(Early)
  /\ Undecided => run \notin {"running", "queued"}
  /\ (\E c \in Calls : appr[c] = "rejected") =>
       Nobody(Claims) /\ run \notin {"running", "queued"} /\ ~Undecided
  /\ \A c \in Scripts : inv[c] # "none" => appr[c] # "none"

(* A worker that saves or reports an interruption does so for the call it was
   interrupted at; the save is accepted only if the approval was quicker and
   the run is running again, and then nobody is left to resume it. *)
PauseFits ==
  /\ \A c \in Calls \cup {NoCall} :
       /\ Has("interrupt", c) => Has("save", c)
       /\ Has("save", c) => c \in Calls /\ inv[c] # "none"
  /\ \A r \in inflight :
       /\ r.op = "save" => r.call \in Calls /\ inv[r.call] # "none"
       /\ r.op = "interrupt" => Has("save", r.call)
       /\ r.op \in {"save", "interrupt"} /\ Alive({"save", "interrupt"}) /\ r.call = container.call
            => Awaited(r)
  /\ Alive({"save"}) =>
       container.call \in Calls /\ inv[container.call] # "none" /\ ~Has("save", container.call)
  /\ Alive({"interrupt"}) =>
       Has("save", container.call) /\ ~Has("interrupt", container.call) /\ ~Undecided /\ Nobody(Early)

Ok == \/ container.wk = "exitOk"
      \/ \E t \in Threads : pc[t] = "finish" /\ mem[t].out = "completed"
ReportFits ==
  /\ Ok => Done("complete") \/ Dead
  /\ run = "completed" => Done("complete")
ReportInv == Decided /\ PauseFits /\ ReportFits

(* Invocations stay, and a script has one only if it was asked for. *)
Stay == \A c \in Calls : inv[c] # "none" => inv'[c] # "none"
NoneNew == \A c \in Scripts : inv'[c] # "none" => inv[c] # "none"

LEMMA DecidedKeeps ==
  ASSUME Decided, ClaimsKeep, appr' = appr, NoneNew,
         run' = run \/ run' \in {"waiting_approval"} \cup Terminal
  PROVE  Decided'
BY DEF Decided, ClaimsKeep, Undecided, NoneNew, Terminal

LEMMA DeadKeeps ==
  ASSUME Dead, ClaimsKeep, appr' = appr, run' = run \/ run' \in {"waiting_approval"} \cup Terminal
  PROVE  Dead'
BY DEF Dead, ClaimsKeep, Undecided

LEMMA PauseKeeps ==
  ASSUME PauseFits, ClaimsKeep, Undecided' => Undecided, Stay, keys' = keys, inflight' \subseteq inflight,
         container' = container \/ ~Alive({"save", "interrupt"})'
  PROVE  PauseFits'
<1>1. \A op, c : Has(op, c)' <=> Has(op, c) BY DEF Has
<1>2. CASE container' = container
  BY <1>1, <1>2 DEF PauseFits, ClaimsKeep, Stay, Alive, Awaited
<1>3. CASE ~Alive({"save", "interrupt"})'
  <2>1. ~Alive({"save"})' /\ ~Alive({"interrupt"})' BY <1>3 DEF Alive
  <2> QED BY <1>1, <1>3, <2>1 DEF PauseFits, Stay
<1> QED BY <1>2, <1>3

LEMMA ReportKeeps ==
  ASSUME ReportFits, ClaimsKeep, appr' = appr, keys \subseteq keys',
         run' = run \/ run' \in {"waiting_approval"} \cup Terminal,
         run' = "completed" => run = "completed" \/ Done("complete")',
         Ok' => Ok \/ Done("complete")' \/ Dead'
  PROVE  ReportFits'
<1>1. Done("complete") => Done("complete")' BY DEF Done
<1> QED BY <1>1, DeadKeeps DEF ReportFits

(* Nothing happens that the worker's reports and the approvals depend on. *)
LEMMA QuietKeeps ==
  ASSUME ReportInv, ClaimsKeep, appr' = appr, keys' = keys, inflight' \subseteq inflight,
         Stay, NoneNew,
         container' = container \/ ~Alive({"save", "interrupt"})',
         run' = run \/ run' \in {"waiting_approval"} \cup Terminal,
         run' = "completed" => run = "completed" \/ Done("complete")',
         Ok' => Ok
  PROVE  ReportInv'
<1>1. Undecided' => Undecided BY DEF Undecided
<1> QED BY <1>1, DecidedKeeps, PauseKeeps, ReportKeeps DEF ReportInv

(* The same, and the run and its invocations are left alone, too. *)
LEMMA StillKeeps ==
  ASSUME ReportInv, ClaimsKeep, UNCHANGED <<run, appr, inv, keys, inflight>>,
         container' = container \/ ~Alive({"save", "interrupt"})', Ok' => Ok
  PROVE  ReportInv'
BY QuietKeeps DEF Stay, NoneNew

LEMMA StartReport ==
  ASSUME TypeOK, ClaimInv, ReportInv, NEW t \in Threads, StartCommit(t)
  PROVE  ReportInv'
<1>1. pc[t] = "start" /\ pc[t] \in Claims /\ pc[t] \in Early BY DEF StartCommit, At, Claims, Early
<1>2. ~Undecided /\ ~Nobody(Claims) /\ ~Nobody(Early) BY <1>1 DEF ClaimInv, Nobody
<1>3. UNCHANGED <<appr, inv, keys, inflight, container>> /\ run' = "running" /\ jobs' = jobs
  BY DEF StartCommit, box
<1>4. \A u \in Threads : pc'[u] = IF u = t THEN "prepare" ELSE pc[u]
  BY DEF StartCommit, Goto, TypeOK
<1>5. Nobody(Early)'
  BY <1>1, <1>3, <1>4 DEF Nobody, ClaimInv, OneClaim, Early, Claims
<1>6. \A c \in Calls : appr[c] # "rejected" BY <1>2 DEF ReportInv, Decided
<1>7. Decided' BY <1>2, <1>3, <1>5, <1>6 DEF ReportInv, Decided, Undecided
<1>8. ClaimsKeep BY ThreadClaims DEF ThreadStep, ExecuteStep
<1>9. Undecided' => Undecided BY <1>3 DEF Undecided
<1>10. Stay BY <1>3 DEF Stay
<1>11. PauseFits' BY <1>3, <1>8, <1>9, <1>10, PauseKeeps DEF ReportInv
<1>12. Ok' => Ok BY <1>3, <1>4 DEF Ok, StartCommit, Goto
<1>13. ReportFits' BY <1>2, <1>3, <1>12 DEF ReportInv, ReportFits, Dead, Done
<1> QED BY <1>7, <1>11, <1>13 DEF ReportInv

LEMMA GoesOk ==
  ASSUME TypeOK, NEW t \in Threads, NEW p, NEW m,
         GoWith(t, p, m), p = "finish" => m.out # "completed",
         container' = container \/ container'.wk # "exitOk"
  PROVE  Ok' => Ok
BY DEF TypeOK, GoWith, Ok

LEMMA GotoOk ==
  ASSUME TypeOK, NEW t \in Threads, NEW p, Goto(t, p), p # "finish",
         container' = container \/ container'.wk # "exitOk"
  PROVE  Ok' => Ok
BY DEF TypeOK, Goto, Ok

LEMMA ExecuteReport ==
  ASSUME TypeOK, ClaimInv, ReportInv, NEW t \in Threads, ExecuteStep(t), faults' = faults
  PROVE  ReportInv'
<1>f. ~Fault BY DEF TypeOK, Fault
<1> ClaimsKeep BY ThreadClaims DEF ThreadStep
<1>1. CASE StartCommit(t) BY <1>1, StartReport
<1>2. CASE StartRead(t)
  <2>1. Ok' => Ok BY <1>2, GoesOk DEF StartRead, box
  <2> QED BY <1>2, <2>1, StillKeeps DEF StartRead, db, box
<1>3. CASE Prepare(t)
  <2>1. Ok' => Ok BY <1>3, GoesOk DEF Prepare, box
  <2> QED BY <1>3, <2>1, StillKeeps DEF Prepare, box
<1>4. CASE Submit(t)
  <2>1. container' = container \/ (~Alive({"save", "interrupt"})' /\ container'.wk = "work")
    BY <1>4 DEF Submit, Create, Fresh, Box, Alive
  <2>2. Ok' => Ok BY <1>4, <2>1, GoesOk DEF Submit, End, Mem
  <2> QED BY <1>4, <2>1, <2>2, StillKeeps DEF Submit, db
<1>5. CASE Poll(t)
  <2>1. UNCHANGED <<run, appr, inv, keys, inflight, container>> BY <1>5 DEF Poll, db, box
  <2>2. Ok' => Ok
    <3>1. CASE container.wk = "exitOk" BY <3>1 DEF Ok
    <3>2. CASE container.wk # "exitOk" BY <1>5, <2>1, <3>2, GoesOk DEF Poll, End, Mem
    <3> QED BY <3>1, <3>2
  <2> QED BY <2>1, <2>2, StillKeeps
<1>6. CASE PollTimesOut(t)
  <2>1. Ok' => Ok BY <1>6, GoesOk DEF PollTimesOut, End, Mem, box
  <2> QED BY <1>6, <2>1, StillKeeps DEF PollTimesOut, db, box
<1>7. CASE Recover(t)
  <2>1. Ok' => Ok BY <1>7, GoesOk, GotoOk DEF Recover, Return, box
  <2> QED BY <1>7, <2>1, StillKeeps DEF Recover, db, box
<1> QED BY <1>f, <1>1, <1>2, <1>3, <1>4, <1>5, <1>6, <1>7
        DEF ExecuteStep, PrepareFails, SubmitFails, PollFails

LEMMA EndReport ==
  ASSUME TypeOK, MemOK, ClaimInv, ReportInv, NEW t \in Threads, EndStep(t), faults' = faults
  PROVE  ReportInv'
<1>f. ~Fault BY DEF TypeOK, Fault
<1> ClaimsKeep BY ThreadClaims DEF ThreadStep
<1>1. CASE Finish(t)
  <2>1. UNCHANGED <<appr, keys, inflight, container>> BY <1>1 DEF Finish, box
  <2>2. Ok' => Ok BY <1>1, <2>1, GoesOk DEF Finish
  <2>3. mem[t].out \in Terminal BY <1>1 DEF Finish, At, MemOK, MemFits
  <2>4. Stay /\ NoneNew
    BY <1>1 DEF Finish, CloseLeases, Stay, NoneNew, TypeOK, Calls
  <2>5. run' = run \/ run' \in {"waiting_approval"} \cup Terminal BY <1>1, <2>3 DEF Finish
  <2>6. run' = "completed" => run = "completed" \/ Done("complete")'
    <3> SUFFICES ASSUME run' = "completed", run # "completed" PROVE Done("complete")' OBVIOUS
    <3>1. mem[t].out = "completed" /\ Eligible(mem[t].out) BY <1>1 DEF Finish
    <3>2. Ok BY <1>1, <3>1 DEF Finish, At, Ok
    <3>3. ~Dead BY <3>1 DEF Dead, Eligible
    <3> QED BY <2>1, <3>2, <3>3 DEF ReportInv, ReportFits, Done
  <2> QED BY <2>1, <2>2, <2>4, <2>5, <2>6, QuietKeeps
<1>2. CASE RevokeRead(t) \/ Revoke(t)
  <2>1. UNCHANGED <<run, appr, inv, keys, inflight, container>>
    BY <1>2 DEF RevokeRead, Revoke, db, box
  <2>2. Ok' => Ok BY <1>2, <2>1, GotoOk DEF RevokeRead, Revoke, AfterRevoke
  <2> QED BY <2>1, <2>2, StillKeeps
<1>3. CASE Terminate(t)
  <2>1. container' = container \/ (~Alive({"save", "interrupt"})' /\ container'.wk # "exitOk")
    BY <1>3 DEF Terminate, Exits, Box, Alive
  <2>2. Ok' => Ok BY <1>3, <2>1, GotoOk DEF Terminate
  <2> QED BY <1>3, <2>1, <2>2, StillKeeps DEF Terminate, db
<1>4. CASE Remove(t)
  <2>1. container' = container \/ (~Alive({"save", "interrupt"})' /\ container'.wk # "exitOk")
    BY <1>4 DEF Remove, Absent, Box, Alive
  <2>2. Ok' => Ok BY <1>4, <2>1, GoesOk DEF Remove
  <2> QED BY <1>4, <2>1, <2>2, StillKeeps DEF Remove, db
<1>5. CASE CleanupRead(t) \/ LogCleanup(t)
  <2>1. UNCHANGED <<run, appr, inv, keys, inflight, container>>
    BY <1>5 DEF CleanupRead, LogCleanup, db, box
  <2>2. Ok' => Ok BY <1>5, <2>1, GoesOk DEF CleanupRead, LogCleanup, Return
  <2> QED BY <2>1, <2>2, StillKeeps
<1> QED BY <1>f, <1>1, <1>2, <1>3, <1>4, <1>5 DEF EndStep, TerminateFails, RemoveFails

LEMMA ResumeReport ==
  ASSUME TypeOK, MemOK, ClaimInv, ReportInv, NEW t \in Threads, ResumeStep(t)
  PROVE  ReportInv'
<1> ClaimsKeep BY ThreadClaims DEF ThreadStep
<1>1. UNCHANGED <<appr, keys, inflight, container>>
  BY DEF ResumeStep, Admit, Transport, RunTool, ToolDone, ToolFail, db, box
<1>2. Ok' => Ok
  BY <1>1, GoesOk, GotoOk DEF ResumeStep, Admit, Transport, RunTool, ToolDone, ToolFail, Return
<1>3. run' = run \/ run' = "failed"
  BY DEF ResumeStep, Admit, Transport, RunTool, ToolDone, ToolFail, db
<1>4. inv' = inv \/ \E c \in Tools, s \in InvStatus \ {"none"} : inv' = [inv EXCEPT ![c] = s]
  <2>1. CASE Admit(t) BY <2>1 DEF Admit, InvStatus
  <2>2. CASE ToolDone(t)
    <3>1. mem[t].call \in Tools /\ mem[t].out \in {"completed", "failed"}
      BY <2>2 DEF ToolDone, At, MemOK, MemFits
    <3> QED BY <2>2, <3>1 DEF ToolDone, InvStatus, Terminal
  <2> QED BY <2>1, <2>2 DEF ResumeStep, Transport, RunTool, ToolFail, db
<1>5. Stay /\ NoneNew BY <1>4, CallAssumption DEF Stay, NoneNew, TypeOK, Calls
<1>6. "failed" \in Terminal BY DEF Terminal
<1> QED BY <1>1, <1>2, <1>3, <1>5, <1>6, QuietKeeps

LEMMA SendReport ==
  ASSUME TypeOK, ReportInv, ClaimsKeep, WorkerSends
  PROVE  ReportInv'
<1>1. PICK op \in Ops, c \in Calls \cup {NoCall} :
        /\ Send(op, c)
        /\ op \in {"save", "interrupt"} => op = container.wk /\ c = container.call
  BY DEF WorkerSends, Ops, TypeOK, Containers
<1>2. container.st = "running" /\ ~container.wait BY DEF WorkerSends, Working
<1>3. UNCHANGED <<run, appr, inv, keys, pc, mem>> BY <1>1 DEF Send, db
<1>4. CASE container.tok > revokedTo
  <2>1. PICK q : q = [op |-> op, call |-> c, tok |-> container.tok] OBVIOUS
  <2>2. inflight' = inflight \cup {q} /\ container' = Box("running", op, c, container.tok, TRUE)
    BY <1>1, <1>4, <2>1 DEF Send
  <2>3. /\ container'.st = "running" /\ container'.wk = op /\ container'.call = c
        /\ Awaited(q)' /\ q.op = op /\ q.call = c
    BY <2>1, <2>2 DEF Awaited, Box
  <2>4. Ok' => Ok BY <1>3, <2>3 DEF Ok, Ops
  <2>5. \A o, d : Has(o, d)' <=> Has(o, d) BY <1>3 DEF Has
  <2>6. op \in {"save", "interrupt"} => Alive({op}) /\ container.call = c BY <1>1, <1>2 DEF Alive
  <2>7. \A S : Alive(S)' => op \in S BY <2>3 DEF Alive
  <2>8. Undecided' <=> Undecided BY <1>3 DEF Undecided
  <2>9. \A r \in inflight : /\ r.op \in {"save", "interrupt"} /\ Alive({"save", "interrupt"})'
                            => r.call # c
    <3> SUFFICES ASSUME NEW r \in inflight, r.op \in {"save", "interrupt"}, op \in {"save", "interrupt"},
                        r.call = c
                 PROVE  FALSE
      BY <2>7
    <3>1. Alive({"save", "interrupt"}) /\ container.call = c BY <1>1, <1>2 DEF Alive
    <3> QED BY <1>2, <3>1 DEF ReportInv, PauseFits, Awaited
  <2>10. PauseFits'
    <3>1. \A d \in Calls \cup {NoCall} :
            /\ Has("interrupt", d)' => Has("save", d)'
            /\ Has("save", d)' => d \in Calls /\ inv'[d] # "none"
      BY <1>3, <2>5 DEF ReportInv, PauseFits
    <3>2. ASSUME NEW r \in inflight'
          PROVE  /\ r.op = "save" => r.call \in Calls /\ inv'[r.call] # "none"
                 /\ r.op = "interrupt" => Has("save", r.call)'
                 /\ r.op \in {"save", "interrupt"} /\ Alive({"save", "interrupt"})'
                      /\ r.call = container'.call => Awaited(r)'
      <4>1. CASE r = q BY <1>3, <2>3, <2>5, <2>6, <4>1 DEF ReportInv, PauseFits
      <4>2. CASE r \in inflight BY <1>3, <2>3, <2>5, <2>9, <4>2 DEF ReportInv, PauseFits
      <4> QED BY <2>2, <4>1, <4>2
    <3>3. (Alive({"save"}) =>
             container.call \in Calls /\ inv[container.call] # "none" /\ ~Has("save", container.call))'
      BY <1>3, <2>3, <2>5, <2>6, <2>7 DEF ReportInv, PauseFits
    <3>4. (Alive({"interrupt"}) =>
             /\ Has("save", container.call) /\ ~Has("interrupt", container.call)
             /\ ~Undecided /\ Nobody(Early))'
      BY <1>3, <2>3, <2>5, <2>6, <2>7, <2>8 DEF ReportInv, PauseFits, ClaimsKeep
    <3> QED BY <3>1, <3>2, <3>3, <3>4 DEF PauseFits
  <2>11. Decided' BY <1>3, DecidedKeeps DEF ReportInv, NoneNew
  <2> QED BY <1>3, <2>4, <2>10, <2>11, ReportKeeps DEF ReportInv
<1>5. CASE ~(container.tok > revokedTo)
  <2>1. inflight' = inflight /\ container' = Tell(AfterError(op)) BY <1>1, <1>5 DEF Send
  <2>2. container'.wk \notin {"save", "interrupt", "exitOk"}
    BY <2>1, TellAlive DEF AfterError, Ops
  <2> QED BY <1>3, <2>1, <2>2, StillKeeps DEF Alive, Ok
<1> QED BY <1>4, <1>5

(* An answer that makes the worker neither save nor report an interruption nor
   exit with code 0, or that nobody waits for *)
LEMMA AnswerKeeps ==
  ASSUME TypeOK, ReportInv, ClaimsKeep, NEW r \in inflight, NEW wk, Reply(r, wk),
         inflight' = inflight \ {r}, UNCHANGED <<pc, mem, appr>>,
         keys' = keys \/ \E c : keys' = keys \cup {[op |-> "complete", call |-> c]}
                      \/ keys' = keys \cup {[op |-> "fail", call |-> c]},
         Stay, NoneNew,
         run' = run \/ run' \in {"waiting_approval"} \cup Terminal,
         run' = "completed" => run = "completed" \/ Done("complete")',
         \/ container' = container
         \/ wk \notin {"save", "interrupt"} /\ (wk = "exitOk" => Done("complete")')
  PROVE  ReportInv'
<1>1. Undecided' => Undecided BY DEF Undecided
<1>2. Decided' BY DecidedKeeps DEF ReportInv
<1>3. \/ container' = container
      \/ container'.wk = wk /\ wk \notin {"save", "interrupt"} /\ (wk = "exitOk" => Done("complete")')
  BY TellAlive DEF Reply
<1>4. container' = container \/ ~Alive({"save", "interrupt"})' BY <1>3 DEF Alive
<1>5. \A c : /\ Has("save", c)' <=> Has("save", c)
             /\ Has("interrupt", c)' <=> Has("interrupt", c)
  BY DEF Has
<1>6. PauseFits'
  <2>1. CASE container' = container
    BY <1>1, <1>5, <2>1 DEF ReportInv, PauseFits, ClaimsKeep, Stay, Alive, Awaited
  <2>2. CASE ~Alive({"save", "interrupt"})'
    <3>1. ~Alive({"save"})' /\ ~Alive({"interrupt"})' BY <2>2 DEF Alive
    <3> QED BY <1>5, <2>2, <3>1 DEF ReportInv, PauseFits, Stay
  <2> QED BY <1>4, <2>1, <2>2
<1>7. keys \subseteq keys' OBVIOUS
<1>8. Ok' => Ok \/ Done("complete")' BY <1>3, TellAlive DEF Ok, Reply
<1>9. ReportFits' BY <1>7, <1>8, ReportKeeps DEF ReportInv
<1> QED BY <1>2, <1>6, <1>9 DEF ReportInv

LEMMA PauseReport ==
  ASSUME TypeOK, ClaimInv, ReportInv, ClaimsKeep, NEW r \in inflight, r.op = "ask", r.call \in Calls,
         run = "running", inv[r.call] = "none",
         Pause(r), inflight' = inflight \ {r}, UNCHANGED <<pc, mem>>
  PROVE  ReportInv'
<1>1. ~Undecided BY DEF ClaimInv, Asking
<1>2. /\ keys' = keys /\ run' = "waiting_approval"
      /\ \A c \in Calls : /\ inv'[c] = IF c = r.call THEN "waiting_approval" ELSE inv[c]
                          /\ appr'[c] = IF c = r.call THEN "pending" ELSE appr[c]
  BY DEF Pause, TypeOK
<1>3. Decided'
  <2>1. ~\E c \in Calls : appr[c] = "rejected" BY DEF ReportInv, Decided
  <2>2. \A c \in Calls : appr'[c] # "rejected" BY <1>2, <2>1
  <2>3. \A c \in Scripts : inv'[c] # "none" => appr'[c] # "none"
    BY <1>2 DEF ReportInv, Decided, Calls
  <2> QED BY <1>2, <2>2, <2>3 DEF Decided
<1>4. \A c : /\ Has("save", c)' <=> Has("save", c)
             /\ Has("interrupt", c)' <=> Has("interrupt", c)
  BY <1>2 DEF Has
<1>5. ~Has("save", r.call) /\ ~Has("interrupt", r.call) BY DEF ReportInv, PauseFits
<1>6. \A s \in inflight : s.op \in {"save", "interrupt"} => s.call # r.call
  <2> SUFFICES ASSUME NEW s \in inflight, s.op \in {"save", "interrupt"}, s.call = r.call PROVE FALSE
    OBVIOUS
  <2> QED BY <1>5 DEF ReportInv, PauseFits
<1>7. Alive({"save", "interrupt"})' => Alive({"save"})' /\ container'.call = r.call
  <2>1. CASE container.st = "running"
    <3>1. Awaited(r) BY <2>1 DEF ClaimInv, AsksFit
    <3>2. container' = Tell("save") /\ container.call = r.call
      BY <2>1, <3>1 DEF Pause, Reply, Awaited
    <3> QED BY <2>1, <3>2, TellAlive DEF Alive, CallOps
  <2>2. CASE container.st # "running" BY <2>2 DEF Pause, Reply, Alive
  <2> QED BY <2>1, <2>2
<1>8. ~Alive({"interrupt"})' BY <1>7 DEF Alive
<1>9. Alive({"save"})' => Alive({"save", "interrupt"})' BY DEF Alive
<1>10. PauseFits'
  BY <1>2, <1>4, <1>5, <1>6, <1>7, <1>8, <1>9 DEF ReportInv, PauseFits
<1>11. Ok' => Ok BY TellAlive DEF Pause, Reply, Ok
<1>12. ReportFits'
  <2>1. ~Dead BY DEF Dead, Terminal
  <2> QED BY <1>2, <1>11, <2>1 DEF ReportInv, ReportFits, Done
<1> QED BY <1>3, <1>10, <1>12 DEF ReportInv

(* The save is accepted: the run is running again. *)
LEMMA SaveReport ==
  ASSUME TypeOK, ReportInv, ClaimsKeep, NEW r \in inflight, r.op = "save", ~Stored(r), run = "running",
         Commit(r, run, "interrupt"), inflight' = inflight \ {r}, UNCHANGED <<pc, mem>>
  PROVE  ReportInv'
<1>1. /\ appr' = appr /\ run' = run /\ inv' = inv
      /\ keys' = keys \cup {[op |-> "save", call |-> r.call]}
  BY DEF Commit, CloseLeases, Key, TypeOK
<1>2. ~Undecided /\ Nobody(Early) BY DEF ReportInv, Decided
<1>3. r.call \in Calls /\ inv[r.call] # "none" BY DEF ReportInv, PauseFits
<1>4. \A c : ~Has("save", c) BY DEF Has, Stored
<1>5. ~Has("interrupt", r.call) BY <1>3, <1>4 DEF ReportInv, PauseFits
<1>6. \A c : /\ Has("save", c)' <=> c = r.call
             /\ Has("interrupt", c)' <=> Has("interrupt", c)
  BY <1>1, <1>4 DEF Has
<1>7. \A c \in Calls \cup {NoCall} : ~Has("interrupt", c) BY <1>4 DEF ReportInv, PauseFits
<1>8. Decided' BY <1>1, DecidedKeeps DEF ReportInv, NoneNew
<1>9. ~Undecided' /\ Nobody(Early)' BY <1>1, <1>2 DEF Undecided, ClaimsKeep
<1>10. \A s \in inflight : s.op # "interrupt"
  <2> SUFFICES ASSUME NEW s \in inflight, s.op = "interrupt" PROVE FALSE OBVIOUS
  <2> QED BY <1>4 DEF ReportInv, PauseFits
<1>11. CASE container.st = "running" /\ Awaited(r)
  <2>1. container' = Tell("interrupt") BY <1>11 DEF Commit, Reply, Awaited
  <2>2. container'.wk = "interrupt" /\ container'.call = r.call /\ container.wk = "save"
        /\ container.call = r.call
    BY <1>11, <2>1, TellAlive DEF Awaited, CallOps
  <2>3. \A s \in inflight' : s.op \in {"save", "interrupt"} => s.call # r.call
    <3> SUFFICES ASSUME NEW s \in inflight, s # r, s.op \in {"save", "interrupt"}, s.call = r.call
                 PROVE  FALSE
      OBVIOUS
    <3>1. Awaited(s) BY <1>11, <2>2 DEF ReportInv, PauseFits, Alive
    <3> QED BY <1>11, <3>1 DEF Awaited
  <2>4. ~Alive({"save"})' BY <2>2 DEF Alive
  <2>5. PauseFits'
    BY <1>1, <1>3, <1>5, <1>6, <1>7, <1>9, <1>10, <2>2, <2>3, <2>4 DEF ReportInv, PauseFits
  <2>6. Ok' => Ok BY <2>2 DEF Ok
  <2>7. ReportFits' BY <1>1, <2>6, ReportKeeps DEF ReportInv
  <2> QED BY <1>8, <2>5, <2>7 DEF ReportInv
<1>12. CASE ~(container.st = "running" /\ Awaited(r))
  <2>1. container' = container BY <1>12 DEF Commit, Reply, Awaited
  <2>2. Alive({"save"}) => container.call # r.call
    BY <1>12 DEF ReportInv, PauseFits, Alive
  <2>3. ~Alive({"interrupt"})
    <3> SUFFICES ASSUME Alive({"interrupt"}) PROVE FALSE OBVIOUS
    <3> QED BY <1>4 DEF ReportInv, PauseFits
  <2>4. \A S : Alive(S)' <=> Alive(S) BY <2>1 DEF Alive
  <2>5. \A s : Awaited(s)' <=> Awaited(s) BY <2>1 DEF Awaited
  <2>6. PauseFits'
    BY <1>1, <1>3, <1>6, <1>7, <1>10, <2>1, <2>2, <2>3, <2>4, <2>5 DEF ReportInv, PauseFits
  <2>7. Ok' => Ok BY <2>1 DEF Ok
  <2>8. ReportFits' BY <1>1, <2>7, ReportKeeps DEF ReportInv
  <2> QED BY <1>8, <2>6, <2>8 DEF ReportInv
<1> QED BY <1>11, <1>12

(* The interruption is accepted: nobody is left to resume the run. *)
LEMMA InterruptReport ==
  ASSUME TypeOK, ReportInv, ClaimsKeep, NEW r \in inflight, r.op = "interrupt",
         Commit(r, "waiting_approval", "exitOk"), inflight' = inflight \ {r}, UNCHANGED <<pc, mem>>
  PROVE  ReportInv'
<1>1. /\ appr' = appr /\ run' = "waiting_approval" /\ inv' = inv
      /\ keys' = keys \cup {[op |-> "interrupt", call |-> r.call]}
  BY DEF Commit, CloseLeases, Key, TypeOK
<1>2. \A c : /\ Has("save", c)' <=> Has("save", c)
             /\ Has("interrupt", c)' <=> Has("interrupt", c) \/ c = r.call
  BY <1>1 DEF Has
<1>3. Has("save", r.call) BY DEF ReportInv, PauseFits
<1>4. Decided' BY <1>1, DecidedKeeps DEF ReportInv, NoneNew
<1>5. Undecided' <=> Undecided BY <1>1 DEF Undecided
<1>6. CASE container.st = "running" /\ Awaited(r)
  <2>1. container' = Tell("exitOk") BY <1>6 DEF Commit, Reply, Awaited
  <2>2. container'.wk = "exitOk" BY <2>1, TellAlive
  <2>3. Alive({"interrupt"}) BY <1>6 DEF Awaited, Alive
  <2>4. Dead' BY <1>1, <1>5, <2>3 DEF ReportInv, PauseFits, ClaimsKeep, Dead
  <2>5. ~Alive({"save", "interrupt"})' /\ ~Alive({"save"})' /\ ~Alive({"interrupt"})'
    BY <2>2 DEF Alive
  <2>6. PauseFits' BY <1>1, <1>2, <1>3, <2>5 DEF ReportInv, PauseFits
  <2>7. ReportFits' BY <1>1, <2>4, ReportKeeps DEF ReportInv
  <2> QED BY <1>4, <2>6, <2>7 DEF ReportInv
<1>7. CASE ~(container.st = "running" /\ Awaited(r))
  <2>1. container' = container BY <1>7 DEF Commit, Reply, Awaited
  <2>2. Alive({"interrupt"}) => container.call # r.call
    BY <1>7 DEF ReportInv, PauseFits, Alive
  <2>3. \A S : Alive(S)' <=> Alive(S) BY <2>1 DEF Alive
  <2>4. \A s : Awaited(s)' <=> Awaited(s) BY <2>1 DEF Awaited
  <2>5. PauseFits'
    BY <1>1, <1>2, <1>3, <1>5, <2>1, <2>2, <2>3, <2>4 DEF ReportInv, PauseFits, ClaimsKeep
  <2>6. Ok' => Ok BY <2>1 DEF Ok
  <2>7. ReportFits' BY <1>1, <2>6, ReportKeeps DEF ReportInv
  <2> QED BY <1>4, <2>5, <2>7 DEF ReportInv
<1> QED BY <1>6, <1>7

LEMMA AskReport ==
  ASSUME TypeOK, ClaimInv, ReportInv, ClaimsKeep, NEW r \in inflight, r.op = "ask",
         AskTool(r) \/ AskScript(r), inflight' = inflight \ {r}, UNCHANGED <<pc, mem>>
  PROVE  ReportInv'
<1>1. CASE Refuse(r)
  <2>1. AfterError(r.op) = "work" BY DEF AfterError
  <2> QED BY <1>1, <2>1, AnswerKeeps DEF Refuse, Stay, NoneNew
<1>2. CASE run = "running" /\ inv[r.call] = "none" /\ Pause(r) /\ r.call \in Calls
  BY <1>2, PauseReport
<1>3. CASE Reply(r, "script") /\ UNCHANGED <<run, appr, inv, leased, keys>>
  BY <1>3, AnswerKeeps DEF Stay, NoneNew
<1>4. CASE (r.call \in FreeScripts \/ appr[r.call] = "approved") /\ Grant(r) /\ r.call \in Calls
  <2>1. \A c \in Calls : inv'[c] = IF c = r.call THEN "running" ELSE inv[c]
    BY <1>4 DEF Grant, TypeOK
  <2>2. UNCHANGED <<run, appr, keys>> /\ Reply(r, "script") BY <1>4 DEF Grant
  <2>3. Stay BY <2>1 DEF Stay
  <2>4. Decided'
    <3>1. \A c \in Scripts : inv'[c] # "none" => appr'[c] # "none"
      BY <1>4, <2>1, <2>2, CallAssumption DEF ReportInv, Decided, Calls
    <3> QED BY <2>2, <3>1 DEF ReportInv, Decided, Undecided, ClaimsKeep
  <2>5. container' = container \/ container'.wk = "script" BY <2>2, TellAlive DEF Reply
  <2>6. container' = container \/ ~Alive({"save", "interrupt"})' BY <2>5 DEF Alive
  <2>7. Undecided' => Undecided BY <2>2 DEF Undecided
  <2>8. PauseFits' BY <2>2, <2>3, <2>6, <2>7, PauseKeeps DEF ReportInv
  <2>9. Ok' => Ok BY <2>5 DEF Ok
  <2>10. ReportFits' BY <2>2, <2>9, ReportKeeps DEF ReportInv
  <2> QED BY <2>4, <2>8, <2>10 DEF ReportInv
(* An approval that is neither missing nor granted is undecided or rejected,
   and the run does not run. *)
<1>5. ~(r.call \in Scripts /\ run = "running" /\ inv[r.call] # "none" /\ appr[r.call] # "approved")
  <2> SUFFICES ASSUME r.call \in Scripts, run = "running", inv[r.call] # "none",
                      appr[r.call] # "approved"
               PROVE  FALSE
    OBVIOUS
  <2>1. r.call \in Calls BY DEF Calls
  <2>2. appr[r.call] \in {"pending", "rejected"}
    BY <2>1 DEF ReportInv, Decided, TypeOK, ApprStatus
  <2> QED BY <2>1, <2>2 DEF ReportInv, Decided, Undecided
<1>6. CASE AskTool(r) BY <1>1, <1>2, <1>6 DEF AskTool, Calls
<1>7. CASE AskScript(r)
  BY <1>1, <1>2, <1>3, <1>4, <1>5, <1>7 DEF AskScript, Calls
<1> QED BY <1>6, <1>7

LEMMA ServeReport ==
  ASSUME TypeOK, ClaimInv, ReportInv, ClaimsKeep, Serve
  PROVE  ReportInv'
<1>1. PICK r \in inflight :
        /\ inflight' = inflight \ {r}
        /\ \/ r.op = "ask" /\ (AskTool(r) \/ AskScript(r))
           \/ ServeScript(r) \/ ServeSave(r)
           \/ ServeInterrupt(r) \/ ServeComplete(r) \/ ServeFail(r)
  BY DEF Serve
<1>2. UNCHANGED <<pc, mem>> BY DEF Serve
<1>3. AfterError(r.op) \notin {"save", "interrupt", "exitOk"}
  BY DEF AfterError, TypeOK, Requests, Ops
<1>4. ASSUME NEW wk, Reply(r, wk), UNCHANGED <<run, appr, inv, keys>>,
             container' = container \/ (wk \notin {"save", "interrupt"} /\ (wk = "exitOk" => Done("complete")'))
      PROVE  ReportInv'
  BY <1>1, <1>2, <1>4, AnswerKeeps DEF Stay, NoneNew
<1>5. CASE Refuse(r) BY <1>3, <1>4, <1>5 DEF Refuse
(* A stored answer to a save or an interruption goes to nobody who waits for it. *)
<1>6. ASSUME r.op \in {"save", "interrupt"}, NEW wk, Replay(r, wk) PROVE ReportInv'
  <2>1. PICK w : /\ Reply(r, w) /\ UNCHANGED <<run, appr, inv, keys>>
                 /\ w = AfterError(r.op) \/ Key(r) \in keys
    BY <1>6 DEF Replay
  <2>2. ASSUME Key(r) \in keys PROVE container' = container
    <3> SUFFICES ASSUME container.st = "running", Awaited(r) PROVE FALSE
      BY <2>1 DEF Reply, Awaited
    <3>1. container.wk = r.op /\ container.call = r.call BY DEF Awaited
    <3>2. Has(r.op, r.call) BY <2>2 DEF Has, Key
    <3>3. CASE r.op = "save" BY <3>1, <3>2, <3>3 DEF ReportInv, PauseFits, Alive
    <3>4. CASE r.op = "interrupt" BY <3>1, <3>2, <3>4 DEF ReportInv, PauseFits, Alive
    <3> QED BY <1>6, <3>3, <3>4
  <2> QED BY <1>3, <1>4, <2>1, <2>2
<1>7. ASSUME NEW s, NEW wk, Commit(r, s, wk),
             \/ r.op = "complete" /\ s = "completed" /\ wk = "exitOk"
             \/ r.op = "fail" /\ s = "failed" /\ wk = "exitBad"
      PROVE  ReportInv'
  <2>1. /\ Reply(r, wk) /\ run' = s /\ appr' = appr
        /\ keys' = keys \cup {[op |-> r.op, call |-> r.call]}
    BY <1>7 DEF Commit, Key
  <2>2. Stay /\ NoneNew BY <1>7 DEF Commit, CloseLeases, Stay, NoneNew, TypeOK, Calls
  <2>3. s \in Terminal BY <1>7 DEF Terminal
  <2>4. CASE r.op = "complete"
    <3>1. PICK k : k = [op |-> "complete", call |-> r.call] OBVIOUS
    <3>2. k \in keys' /\ k.op = "complete" BY <2>1, <2>4, <3>1
    <3>3. Done("complete")' BY <3>2 DEF Done
    <3> QED BY <1>1, <1>2, <1>7, <2>1, <2>2, <2>3, <2>4, <3>3, AnswerKeeps
  <2>5. CASE r.op = "fail"
    BY <1>1, <1>2, <1>7, <2>1, <2>2, <2>3, <2>5, AnswerKeeps
  <2> QED BY <1>7, <2>4, <2>5
<1>8. CASE r.op = "ask" BY <1>1, <1>2, <1>8, AskReport
       DEF ServeScript, ServeSave, ServeInterrupt, ServeComplete, ServeFail
<1>9. CASE ServeScript(r)
  <2>1. CASE Refuse(r) BY <1>5, <2>1
  <2>2. CASE inv[r.call] = "running" /\ ~Refuse(r)
    <3>1. PICK s \in {"completed", "failed"} : inv' = [inv EXCEPT ![r.call] = s]
      BY <1>9, <2>2 DEF ServeScript
    <3>2. UNCHANGED <<run, appr, keys>> /\ Reply(r, "work") BY <1>9, <2>2 DEF ServeScript
    <3>3. Stay /\ NoneNew BY <2>2, <3>1 DEF Stay, NoneNew, TypeOK, Calls
    <3> QED BY <1>1, <1>2, <3>2, <3>3, AnswerKeeps
  <2> QED BY <1>9, <2>1, <2>2 DEF ServeScript
<1>10. CASE ServeSave(r)
  <2>1. CASE Stored(r) BY <1>6, <1>10, <2>1 DEF ServeSave
  <2>2. CASE ~Stored(r) /\ run = "running" BY <1>1, <1>2, <1>10, <2>2, SaveReport DEF ServeSave
  <2> QED BY <1>5, <1>10, <2>1, <2>2 DEF ServeSave
<1>11. CASE ServeInterrupt(r)
  <2>1. CASE Stored(r) BY <1>6, <1>11, <2>1 DEF ServeInterrupt
  <2>2. CASE ~Stored(r) /\ run \notin Terminal
    BY <1>1, <1>2, <1>11, <2>2, InterruptReport DEF ServeInterrupt
  <2> QED BY <1>5, <1>11, <2>1, <2>2 DEF ServeInterrupt
<1>12. CASE ServeComplete(r)
  <2>1. CASE Stored(r)
    <3>1. PICK w : Reply(r, w) /\ UNCHANGED <<run, appr, inv, keys>> /\ w \in {AfterError(r.op), "exitOk"}
      BY <1>12, <2>1 DEF ServeComplete, Replay
    <3>2. Done("complete")' BY <1>12, <2>1, <3>1 DEF ServeComplete, Stored, Done
    <3> QED BY <1>3, <1>4, <3>1, <3>2
  <2>2. CASE Refuse(r) BY <1>5, <2>2
  <2>3. CASE Commit(r, "completed", "exitOk") BY <1>7, <1>12, <2>3 DEF ServeComplete
  <2> QED BY <1>12, <2>1, <2>2, <2>3 DEF ServeComplete
<1>13. CASE ServeFail(r)
  <2>1. CASE Stored(r)
    <3>1. PICK w : Reply(r, w) /\ UNCHANGED <<run, appr, inv, keys>> /\ w \in {AfterError(r.op), "exitBad"}
      BY <1>13, <2>1 DEF ServeFail, Replay
    <3> QED BY <1>3, <1>4, <3>1
  <2>2. CASE Commit(r, "failed", "exitBad") BY <1>1, <1>7, <1>13, <2>2 DEF ServeFail
  <2> QED BY <1>5, <1>13, <2>1, <2>2 DEF ServeFail
<1> QED BY <1>1, <1>8, <1>9, <1>10, <1>11, <1>12, <1>13

LEMMA DecisionReport ==
  ASSUME TypeOK, ClaimInv, ReportInv, NEW c \in Calls, Approve(c) \/ Reject(c)
  PROVE  ReportInv'
<1>1. appr[c] = "pending" /\ Undecided BY DEF Approve, Reject, Undecided
<1>2. Nobody(Claims) /\ run \notin {"running", "queued"} BY <1>1 DEF ClaimInv, ReportInv, Decided
<1>3. \A d \in Calls : appr[d] = "pending" => d = c BY <1>1 DEF ClaimInv
<1>4. \A d \in Calls : appr'[d] # "pending" BY <1>3 DEF Approve, Reject, TypeOK
<1>5. UNCHANGED <<inv, keys, pc, mem, container, inflight>> BY DEF Approve, Reject, api, box
<1>6. ~Undecided' BY <1>4 DEF Undecided
<1>7. ~Alive({"interrupt"}) /\ ~Dead BY <1>1 DEF ReportInv, PauseFits, Dead
<1>8. PauseFits'
  <2>1. \A o, d : Has(o, d)' <=> Has(o, d) BY <1>5 DEF Has
  <2>2. \A S : Alive(S)' <=> Alive(S) BY <1>5 DEF Alive
  <2>3. \A s : Awaited(s)' <=> Awaited(s) BY <1>5 DEF Awaited
  <2> QED BY <1>5, <1>7, <2>1, <2>2, <2>3 DEF ReportInv, PauseFits
<1>9. Ok => Done("complete") BY <1>7 DEF ReportInv, ReportFits
<1>10. run' \in {run, "queued"} BY DEF Approve, Reject
<1>11. ReportFits' BY <1>5, <1>9, <1>10 DEF ReportInv, ReportFits, Ok, Done
<1>12. \A d \in Scripts : inv'[d] # "none" => appr'[d] # "none"
  <2>1. \A d \in Calls : appr'[d] = appr[d] \/ (d = c /\ appr'[d] # "none")
    BY DEF Approve, Reject, TypeOK
  <2> QED BY <1>1, <1>5, <2>1 DEF ReportInv, Decided, Calls
<1>13. CASE Approve(c)
  <2>1. \A d \in Calls : appr[d] # "rejected" BY <1>1 DEF ReportInv, Decided
  <2>2. \A d \in Calls : appr'[d] # "rejected" BY <1>13, <2>1 DEF Approve, TypeOK
  <2>3. run' = "queued" BY <1>13 DEF Approve
  <2>4. Decided' BY <1>6, <1>12, <2>2, <2>3 DEF Decided
  <2> QED BY <1>8, <1>11, <2>4 DEF ReportInv
<1>14. CASE Reject(c)
  <2>1. jobs' = jobs /\ run' = run BY <1>14 DEF Reject, api
  <2>2. Nobody(Claims)' BY <1>2, <1>5, <2>1 DEF Nobody
  <2>3. Decided' BY <1>2, <1>6, <1>12, <2>1, <2>2 DEF Decided
  <2> QED BY <1>8, <1>11, <2>3 DEF ReportInv
<1> QED BY <1>13, <1>14

LEMMA RestartReport ==
  ASSUME TypeOK, ReportInv, ClaimsKeep, Restart
  PROVE  ReportInv'
<1>1. UNCHANGED <<run, appr, inv, keys>> /\ inflight' = {} BY DEF Restart, db
<1>2. \A t \in Threads : pc'[t] = "idle" BY DEF Restart
<1>3. container' = container \/ container'.wk \notin {"save", "interrupt", "exitOk"}
  <2>1. CASE container.st = "running" /\ container.wait /\ container' = Tell(AfterError(container.wk))
    <3>1. container.wk \in Ops BY <2>1 DEF TypeOK, Containers
    <3> QED BY <2>1, <3>1, TellAlive DEF AfterError, Ops
  <2> QED BY <2>1 DEF Restart
<1>4. Ok' => Ok BY <1>2, <1>3 DEF Ok
<1>5. container' = container \/ ~Alive({"save", "interrupt"})' BY <1>3 DEF Alive
<1>6. Stay /\ NoneNew BY <1>1 DEF Stay, NoneNew
<1> QED BY <1>1, <1>4, <1>5, <1>6, QuietKeeps

LEMMA NextReport ==
  ASSUME TypeOK, MemOK, faults = 0 => ClaimInv /\ ReportInv, [Next]_vars
  PROVE  (faults = 0 => ReportInv)'
<1> SUFFICES ASSUME faults' = 0 PROVE ReportInv' OBVIOUS
<1>1. faults = 0 BY FaultsStay
<1>2. ClaimInv /\ ReportInv /\ late = 0 BY <1>1 DEF ClaimInv
<1>f. ~Fault BY <1>1 DEF Fault
<1>3. ASSUME NEW t \in Threads, ThreadStep(t) PROVE ReportInv'
  BY <1>1, <1>2, <1>3, ExecuteReport, EndReport, ResumeReport DEF ThreadStep
<1>4. ASSUME NEW c \in Calls, Approve(c) \/ Reject(c) PROVE ReportInv' BY <1>2, <1>4, DecisionReport
<1>5. CASE ~\E c \in Calls : Approve(c)
  <2> ClaimsKeep BY <1>5, NextClaims
  <2>1. CASE WorkerSends BY <1>2, <2>1, SendReport
  <2>2. CASE WorkerExits
    <3>1. ~Alive({"save", "interrupt"})' /\ (container'.wk = "exitOk" => container.wk = "exitOk")
      BY <2>2 DEF WorkerExits, Exits, Box, Alive
    <3>2. UNCHANGED <<run, appr, inv, keys, inflight, pc, mem>> BY <2>2 DEF WorkerExits, db, api
    <3>3. Ok' => Ok BY <3>1, <3>2 DEF Ok
    <3> QED BY <1>2, <3>1, <3>2, <3>3, StillKeeps
  <2>3. CASE Serve BY <1>2, <2>3, ServeReport
  <2>4. CASE Restart BY <1>2, <2>4, RestartReport
  <2>5. ASSUME NEW t \in Pool, TakeJob(t) PROVE ReportInv'
    <3>1. PICK j \in jobs : GoWith(t, j.kind, Mem("none", FALSE, j.call, 0)) BY <2>5 DEF TakeJob
    <3>2. Ok' => Ok BY <2>5, <3>1, GoesOk DEF TakeJob, Mem, Threads, box
    <3> QED BY <1>2, <2>5, <3>2, StillKeeps DEF TakeJob, db, box
  <2>6. ASSUME NEW h \in Handlers, Cancel(h) PROVE ReportInv'
    <3>1. Ok' => Ok BY <2>6, GoesOk DEF Cancel, End, Mem, Threads, box
    <3> QED BY <1>2, <2>6, <3>1, StillKeeps DEF Cancel, db, box
  <2>7. CASE UNCHANGED vars
    BY <1>2, <2>7, StillKeeps DEF vars, db, api, box, Ok
  <2> QED BY <1>2, <1>f, <1>3, <1>4, <2>1, <2>2, <2>3, <2>4, <2>5, <2>6, <2>7
          DEF Next, LateCreate, WorkerGivesUp, WorkerDies, LauncherRestart
<1> QED BY <1>4, <1>5

LEMMA ReportsAlways == Spec => [](faults = 0 => ReportInv)
<1>1. Init => ReportInv
  <2> SUFFICES ASSUME Init PROVE ReportInv OBVIOUS
  <2>1. \A c \in Calls : appr[c] = "none" /\ inv[c] = "none" BY DEF Init
  <2>2. \A t \in Threads : pc[t] = "idle" BY DEF Init
  <2>3. run = "queued" /\ keys = {} /\ inflight = {} BY DEF Init
  <2>4. container.wk = "work" BY DEF Init, Absent, Box
  <2>5. Decided BY <2>1, <2>3 DEF Decided, Undecided, Calls
  <2>6. PauseFits BY <2>3, <2>4 DEF PauseFits, Has, Alive
  <2>7. ReportFits BY <2>2, <2>3, <2>4 DEF ReportFits, Ok
  <2> QED BY <2>5, <2>6, <2>7 DEF ReportInv
<1>2. TypeOK /\ MemOK /\ (faults = 0 => ClaimInv) /\ (faults = 0 => ReportInv) /\ [Next]_vars
        => (faults = 0 => ReportInv)'
  BY NextReport
<1> QED BY <1>1, <1>2, ClaimsAlways, TypeCorrect, PTL DEF Spec

(* As long as no call and no worker has failed, a completed run has a stored
   result: what a late poll makes of a container that exited with code 0
   because it was interrupted completes nothing, although the run may be
   queued or running again by then.  For any number of threads, calls, cancels,
   decisions and restarts. *)
THEOREM CompletedByReport == Spec => []CompletedIsReported
<1>1. (faults = 0 => ReportInv) => CompletedIsReported
  BY DEF ReportInv, ReportFits, Done, CompletedIsReported
<1> QED BY <1>1, ReportsAlways, PTL

-----------------------------------------------------------------------------
(* Approvals and invocations.  A call has an approval only after it has an
   invocation, and neither goes away. *)
Asked == \A c \in Calls : inv[c] = "none" => appr[c] = "none"

LEMMA ServeApproval ==
  ASSUME TypeOK, Serve
  PROVE  /\ Stay
         /\ \/ appr' = appr
            \/ \E c \in Calls : /\ inv[c] = "none" /\ inv'[c] = "waiting_approval"
                                /\ appr' = [appr EXCEPT ![c] = "pending"]
<1>1. PICK r \in inflight :
        \/ r.op = "ask" /\ (AskTool(r) \/ AskScript(r))
        \/ ServeScript(r) \/ ServeSave(r)
        \/ ServeInterrupt(r) \/ ServeComplete(r) \/ ServeFail(r)
  BY DEF Serve
<1>2. CASE appr' = appr /\ (inv' = inv \/ \E s : inv' = CloseLeases(s))
  BY <1>2 DEF Stay, CloseLeases, TypeOK
<1>3. CASE inv[r.call] = "none" /\ Pause(r) /\ r.call \in Calls
  BY <1>3 DEF Pause, Stay, TypeOK
<1>4. CASE AskTool(r) BY <1>2, <1>3, <1>4 DEF AskTool, Refuse, Calls
<1>5. CASE AskScript(r)
  <2>1. CASE Grant(r) BY <2>1 DEF Grant, Stay, TypeOK
  <2> QED BY <1>2, <1>3, <1>5, <2>1 DEF AskScript, Refuse, Calls
<1>6. CASE ServeScript(r)
  <2>1. CASE appr' = appr /\ \E s \in {"completed", "failed"} : inv' = [inv EXCEPT ![r.call] = s]
    BY <2>1 DEF Stay, TypeOK
  <2> QED BY <1>2, <1>6, <2>1 DEF ServeScript, Refuse
<1>7. CASE ServeSave(r) \/ ServeInterrupt(r) \/ ServeComplete(r) \/ ServeFail(r)
  BY <1>2, <1>7 DEF ServeSave, ServeInterrupt, ServeComplete, ServeFail, Refuse, Replay, Commit
<1> QED BY <1>1, <1>4, <1>5, <1>6, <1>7

LEMMA ThreadApprovals ==
  ASSUME TypeOK, MemOK, NEW t \in Threads, ThreadStep(t)
  PROVE  Stay /\ appr' = appr
<1>1. CASE ExecuteStep(t)
  <2>1. inv' = inv BY <1>1, ExecuteLeaves
  <2>2. appr' = appr
    BY <1>1 DEF ExecuteStep, StartRead, StartCommit, Prepare, PrepareFails, Submit, SubmitFails,
                Poll, PollTimesOut, PollFails, Recover, db
  <2> QED BY <2>1, <2>2 DEF Stay
<1>2. CASE EndStep(t)
  <2>1. appr' = appr /\ (inv' = inv \/ \E s : inv' = CloseLeases(s))
    BY <1>2 DEF EndStep, Finish, RevokeRead, Revoke, Terminate, TerminateFails, CleanupRead,
                Remove, RemoveFails, LogCleanup, db
  <2> QED BY <2>1 DEF Stay, CloseLeases, TypeOK
<1>3. CASE ResumeStep(t)
  <2>1. appr' = appr BY <1>3 DEF ResumeStep, Admit, Transport, RunTool, ToolDone, ToolFail, db
  <2>2. CASE Admit(t) BY <2>1, <2>2 DEF Admit, Stay, TypeOK
  <2>3. CASE ToolDone(t)
    <3>1. mem[t].out \in {"completed", "failed"} BY <2>3 DEF ToolDone, At, MemOK, MemFits
    <3> QED BY <2>1, <2>3, <3>1 DEF ToolDone, Stay, TypeOK
  <2>4. CASE inv' = inv BY <2>1, <2>4 DEF Stay
  <2> QED BY <1>3, <2>1, <2>2, <2>3, <2>4 DEF ResumeStep, Transport, RunTool, ToolFail, db
<1> QED BY <1>1, <1>2, <1>3 DEF ThreadStep

LEMMA NextApprovals ==
  ASSUME TypeOK, MemOK, Asked, [Next]_vars
  PROVE  /\ Asked'
         /\ \A c \in Calls : /\ appr[c] = "approved" => appr'[c] = "approved"
                             /\ appr'[c] = "none" => appr[c] = "none"
<1>1. CASE Stay /\ appr' = appr BY <1>1 DEF Asked, Stay
<1>2. CASE Serve
  <2>1. Stay BY <1>2, ServeApproval
  <2>2. ASSUME NEW c \in Calls, inv[c] = "none", inv'[c] = "waiting_approval",
               appr' = [appr EXCEPT ![c] = "pending"]
        PROVE  /\ Asked'
               /\ \A d \in Calls : /\ appr[d] = "approved" => appr'[d] = "approved"
                                   /\ appr'[d] = "none" => appr[d] = "none"
    <3>1. appr[c] = "none" BY <2>2 DEF Asked
    <3> QED BY <2>1, <2>2, <3>1 DEF Asked, Stay, TypeOK
  <2> QED BY <1>1, <1>2, <2>2, ServeApproval
<1>3. ASSUME NEW c \in Calls, Approve(c) \/ Reject(c)
      PROVE  /\ Asked'
             /\ \A d \in Calls : /\ appr[d] = "approved" => appr'[d] = "approved"
                                 /\ appr'[d] = "none" => appr[d] = "none"
  BY <1>3 DEF Approve, Reject, Asked, TypeOK
<1>4. ASSUME NEW t \in Threads, ThreadStep(t) PROVE Stay /\ appr' = appr BY <1>4, ThreadApprovals
<1>5. CASE \/ \E t \in Pool : TakeJob(t)
           \/ \E h \in Handlers : Cancel(h)
           \/ LateCreate \/ WorkerSends \/ WorkerGivesUp \/ WorkerExits \/ WorkerDies
           \/ Restart \/ LauncherRestart \/ UNCHANGED vars
  <2>1. inv' = inv /\ appr' = appr
    BY <1>5 DEF TakeJob, Cancel, LateCreate, WorkerSends, Send, WorkerGivesUp, WorkerExits,
                WorkerDies, Restart, LauncherRestart, vars, db
  <2> QED BY <1>1, <2>1 DEF Stay
<1> QED BY <1>1, <1>2, <1>3, <1>4, <1>5 DEF Next

LEMMA AskedAlways == Spec => []Asked
<1>1. Init => Asked BY DEF Init, Asked
<1>2. TypeOK /\ MemOK /\ Asked /\ [Next]_vars => Asked' BY NextApprovals
<1> QED BY <1>1, <1>2, TypeCorrect, PTL DEF Spec

-----------------------------------------------------------------------------
(* Leases.  A thread that fails the run because of a tool has its approval. *)
ToolPC == {"transport", "runTool", "toolDone", "toolFail"}
FailFits == \A t \in Threads : pc[t] \in ToolPC => mem[t].call \in Tools /\ appr[mem[t].call] = "approved"

LEMMA FailType ==
  ASSUME TypeOK, MemOK, Asked, FailFits, [Next]_vars
  PROVE  FailFits'
<1> USE DEF ToolPC
<1>a. \A c \in Calls : appr[c] = "approved" => appr'[c] = "approved" BY NextApprovals
<1>b. \A c \in Tools : c \in Calls BY DEF Calls
<1>1. ASSUME NEW t \in Threads, NEW p, NEW m, pc' = [pc EXCEPT ![t] = p], mem' = [mem EXCEPT ![t] = m],
             p \in ToolPC => m.call \in Tools /\ appr[m.call] = "approved"
      PROVE  FailFits'
  BY <1>1, <1>a, <1>b DEF FailFits, TypeOK
<1>2. ASSUME NEW t \in Threads, NEW p, Goto(t, p),
             p \in ToolPC => mem[t].call \in Tools /\ appr[mem[t].call] = "approved"
      PROVE  FailFits'
  BY <1>2, <1>a, <1>b DEF FailFits, TypeOK, Goto
<1>3. ASSUME NEW t \in Threads, ThreadStep(t) PROVE FailFits'
  <2>1. CASE ExecuteStep(t)
    <3>1. PICK p \in ThreadPC \ PerformPC : Goto(t, p) \/ (\E m : GoWith(t, p, m))
      BY <2>1, ExecuteLeaves DEF Leaves
    <3>2. pc' = [pc EXCEPT ![t] = p] BY <3>1 DEF Goto, GoWith
    <3>3. pc'[t] # "toolFail"
      BY <2>1 DEF TypeOK, ExecuteStep, StartRead, StartCommit, Prepare, PrepareFails, Submit,
                  SubmitFails, Poll, PollTimesOut, PollFails, Recover, End, Return, Goto, GoWith
    <3>4. p \notin ToolPC BY <3>1, <3>2, <3>3 DEF TypeOK, PerformPC
    <3> QED BY <3>1, <3>4, <1>1, <1>2 DEF GoWith
  <2>2. CASE EndStep(t)
    <3>1. PICK p \in EndPC : Goto(t, p) \/ \E m : GoWith(t, p, m) BY <2>2, EndGoes
    <3> QED BY <3>1, <1>1, <1>2 DEF GoWith, EndPC
  <2>3. CASE ResumeStep(t)
    <3>1. CASE Admit(t) BY <3>1, <1>1, <1>2 DEF Admit, GoWith, Return
    <3>2. CASE Transport(t) \/ ToolDone(t)
      <4>1. mem[t].call \in Tools /\ appr[mem[t].call] = "approved"
        BY <3>2 DEF Transport, ToolDone, At, FailFits
      <4> QED BY <3>2, <4>1, <1>2 DEF Transport, ToolDone
    <3>3. CASE RunTool(t)
      <4>1. mem[t].call \in Tools /\ appr[mem[t].call] = "approved"
        BY <3>3 DEF RunTool, At, FailFits
      <4> QED BY <3>3, <4>1, <1>1 DEF RunTool, GoWith, Mem
    <3>4. CASE ToolFail(t) BY <3>4, <1>1 DEF ToolFail, GoWith, Return
    <3> QED BY <2>3, <3>1, <3>2, <3>3, <3>4 DEF ResumeStep
  <2> QED BY <1>3, <2>1, <2>2, <2>3 DEF ThreadStep
<1>4. ASSUME NEW t \in Pool, TakeJob(t) PROVE FailFits'
  <2>1. PICK j \in jobs : GoWith(t, j.kind, Mem("none", FALSE, j.call, 0)) BY <1>4 DEF TakeJob
  <2>2. j.kind \notin ToolPC BY DEF TypeOK, Jobs, JobKind
  <2> QED BY <1>1, <2>1, <2>2 DEF GoWith, Threads
<1>5. ASSUME NEW h \in Handlers, Cancel(h) PROVE FailFits'
  BY <1>1, <1>5 DEF Cancel, End, GoWith, Threads
<1>6. CASE Restart BY <1>6 DEF Restart, FailFits
<1>7. CASE \/ \E c \in Calls : Approve(c) \/ Reject(c)
           \/ LateCreate \/ WorkerSends \/ WorkerGivesUp \/ WorkerExits \/ WorkerDies
           \/ Serve \/ LauncherRestart \/ UNCHANGED vars
  <2>1. pc' = pc /\ mem' = mem
    BY <1>7 DEF Approve, Reject, LateCreate, WorkerSends, Send, WorkerGivesUp, WorkerExits,
                WorkerDies, Serve, LauncherRestart, api, vars
  <2> QED BY <1>a, <1>b, <2>1 DEF FailFits
<1> QED BY <1>3, <1>4, <1>5, <1>6, <1>7 DEF Next

NoToolApproved == \A c \in Tools : appr[c] # "approved"
NoLease == run \in {"failed", "cancelled"} => \A c \in Calls : inv[c] # "running"

LEMMA ServeLeaves ==
  ASSUME TypeOK, NoLease, Serve
  PROVE  NoLease'
<1>1. PICK r \in inflight :
        \/ r.op = "ask" /\ (AskTool(r) \/ AskScript(r))
        \/ ServeScript(r) \/ ServeSave(r)
        \/ ServeInterrupt(r) \/ ServeComplete(r) \/ ServeFail(r)
  BY DEF Serve
<1>2. CASE run' = run /\ inv' = inv BY <1>2 DEF NoLease
<1>3. CASE run' \notin {"failed", "cancelled"} BY <1>3 DEF NoLease
<1>4. CASE \E s, wk : Commit(r, s, wk) BY <1>4 DEF Commit, CloseLeases, NoLease, TypeOK
<1>5. CASE AskTool(r) \/ AskScript(r)
  BY <1>2, <1>3, <1>5 DEF AskTool, AskScript, Refuse, Pause, Grant
<1>6. CASE ServeScript(r)
  <2>1. CASE run' = run /\ \E s \in {"completed", "failed"} : inv' = [inv EXCEPT ![r.call] = s]
    BY <2>1 DEF NoLease, TypeOK
  <2> QED BY <1>2, <1>6, <2>1 DEF ServeScript, Refuse
<1>7. CASE ServeSave(r) \/ ServeInterrupt(r) \/ ServeComplete(r) \/ ServeFail(r)
  BY <1>2, <1>4, <1>7 DEF ServeSave, ServeInterrupt, ServeComplete, ServeFail, Refuse, Replay
<1> QED BY <1>1, <1>5, <1>6, <1>7

LEMMA ThreadLeaves ==
  ASSUME TypeOK, MemOK, FailFits, NoToolApproved, NoLease, NEW t \in Threads, ThreadStep(t)
  PROVE  NoLease'
<1>1. CASE run' = run /\ inv' = inv BY <1>1 DEF NoLease
<1>2. CASE Finish(t)
  <2>1. CASE Eligible(mem[t].out)
    BY <1>2, <2>1 DEF Finish, CloseLeases, NoLease, TypeOK
  <2> QED BY <1>1, <1>2, <2>1 DEF Finish
<1>3. CASE StartCommit(t) BY <1>3 DEF StartCommit, NoLease
<1>4. CASE Admit(t)
  BY <1>1, <1>4 DEF Admit, NoLease, TypeOK
<1>5. CASE ToolDone(t) \/ ToolFail(t)
  BY <1>5 DEF ToolDone, ToolFail, At, FailFits, ToolPC, NoToolApproved
<1>6. CASE EndStep(t) /\ ~Finish(t)
  BY <1>1, <1>6 DEF EndStep, RevokeRead, Revoke, Terminate, TerminateFails, CleanupRead, Remove,
                    RemoveFails, LogCleanup, db
<1>7. CASE ExecuteStep(t) /\ ~StartCommit(t)
  BY <1>1, <1>7 DEF ExecuteStep, StartRead, Prepare, PrepareFails, Submit, SubmitFails, Poll,
                    PollTimesOut, PollFails, Recover, db
<1>8. CASE Transport(t) \/ RunTool(t) BY <1>1, <1>8 DEF Transport, RunTool, db
<1> QED BY <1>2, <1>3, <1>4, <1>5, <1>6, <1>7, <1>8 DEF ThreadStep, ResumeStep

LEMMA NextLeaves ==
  ASSUME TypeOK, MemOK, Asked, FailFits, NoToolApproved => NoLease, [Next]_vars
  PROVE  (NoToolApproved => NoLease)'
<1> SUFFICES ASSUME NoToolApproved' PROVE NoLease' OBVIOUS
<1>1. NoToolApproved BY NextApprovals DEF NoToolApproved, Calls
<1>2. ASSUME NEW c \in Calls, Approve(c) \/ Reject(c) PROVE NoLease'
  BY <1>1, <1>2 DEF Approve, Reject, NoLease
<1>3. CASE \/ \E t \in Pool : TakeJob(t)
           \/ \E h \in Handlers : Cancel(h)
           \/ LateCreate \/ WorkerSends \/ WorkerGivesUp \/ WorkerExits \/ WorkerDies
           \/ Restart \/ LauncherRestart \/ UNCHANGED vars
  <2>1. inv' = inv /\ run' = run
    BY <1>3 DEF TakeJob, Cancel, LateCreate, WorkerSends, Send, WorkerGivesUp, WorkerExits,
                WorkerDies, Restart, LauncherRestart, vars, db
  <2> QED BY <1>1, <2>1 DEF NoLease
<1> QED BY <1>1, <1>2, <1>3, ServeLeaves, ThreadLeaves DEF Next

(* Unless a tool was approved, which may fail the run on its way, a run that
   failed or was cancelled has no running lease: whoever ends a run closes its
   leases in the same transaction, and none is granted to an ended run.  For any
   number of threads, scripts, faults and restarts. *)
THEOREM LeasesEnd == Spec => []LeasesEndWithRun
<1>1. Init => FailFits BY DEF Init, FailFits, ToolPC
<1>2. TypeOK /\ MemOK /\ Asked /\ FailFits /\ [Next]_vars => FailFits' BY FailType
<1>3. Spec => []FailFits BY <1>1, <1>2, TypeCorrect, AskedAlways, PTL DEF Spec
<1>4. Init => (NoToolApproved => NoLease) BY DEF Init, NoLease
<1>5. TypeOK /\ MemOK /\ Asked /\ FailFits /\ (NoToolApproved => NoLease) /\ [Next]_vars
        => (NoToolApproved => NoLease)'
  BY NextLeaves
<1>6. Spec => [](NoToolApproved => NoLease)
  BY <1>3, <1>4, <1>5, TypeCorrect, AskedAlways, PTL DEF Spec
<1>7. (NoToolApproved => NoLease) => LeasesEndWithRun
  BY DEF NoToolApproved, NoLease, LeasesEndWithRun
<1> QED BY <1>6, <1>7, PTL

-----------------------------------------------------------------------------
(* Tokens.  As long as nothing was approved the run is started once: nobody
   resumes it, and the one execution is the only one that issues a token. *)
NoneApproved == \A c \in Calls : appr[c] # "approved"
ResumePC == ToolPC \cup {"admit"}
Unresumed ==
  /\ OneClaim
  /\ \A j \in jobs : j.kind # "admit"
  /\ \A t \in Threads : pc[t] \notin ResumePC

LEMMA FreshGoes ==
  ASSUME TypeOK, Unresumed, NEW t \in Threads, ThreadStep(t)
  PROVE  /\ ExecuteStep(t) \/ EndStep(t)
         /\ \E p : pc' = [pc EXCEPT ![t] = p] /\ p \notin ResumePC
<1> USE DEF ResumePC, ToolPC
<1>1. ~ResumeStep(t)
  BY DEF ResumeStep, Admit, Transport, RunTool, ToolDone, ToolFail, At, Unresumed
<1>2. CASE EndStep(t) BY <1>2, EndGoes DEF Goto, GoWith, EndPC
<1>3. CASE ExecuteStep(t)
  <2>1. PICK p \in ThreadPC \ PerformPC : Goto(t, p) \/ (\E m : GoWith(t, p, m))
    BY <1>3, ExecuteLeaves DEF Leaves
  <2>2. pc' = [pc EXCEPT ![t] = p] BY <2>1 DEF Goto, GoWith
  <2>3. pc'[t] \notin {"toolFail", "admit"}
    BY <1>3 DEF TypeOK, ExecuteStep, StartRead, StartCommit, Prepare, PrepareFails, Submit,
                SubmitFails, Poll, PollTimesOut, PollFails, Recover, End, Return, Goto, GoWith
  <2> QED BY <1>3, <2>1, <2>2, <2>3 DEF TypeOK, PerformPC
<1> QED BY <1>1, <1>2, <1>3 DEF ThreadStep

LEMMA NextUnresumed ==
  ASSUME TypeOK, Unresumed, ~\E c \in Calls : Approve(c), [Next]_vars
  PROVE  Unresumed'
<1> USE DEF ResumePC, ToolPC
<1>c. OneClaim' BY NextClaims DEF ClaimsKeep, Unresumed
<1>1. ASSUME NEW t \in Threads, ThreadStep(t) PROVE Unresumed'
  <2>1. PICK p : pc' = [pc EXCEPT ![t] = p] /\ p \notin ResumePC BY <1>1, FreshGoes
  <2>2. jobs' = jobs BY <1>1, ThreadGoes
  <2> QED BY <1>c, <2>1, <2>2 DEF Unresumed, TypeOK
<1>2. ASSUME NEW t \in Pool, TakeJob(t) PROVE Unresumed'
  <2>1. PICK j \in jobs : jobs' = jobs \ {j} /\ pc' = [pc EXCEPT ![t] = j.kind]
    BY <1>2 DEF TakeJob, GoWith
  <2>2. j.kind \notin ResumePC BY DEF TypeOK, Jobs, JobKind, Unresumed
  <2> QED BY <1>c, <2>1, <2>2 DEF Unresumed, TypeOK
<1>3. ASSUME NEW h \in Handlers, Cancel(h) PROVE Unresumed'
  BY <1>c, <1>3 DEF Cancel, End, GoWith, Unresumed, TypeOK
<1>4. CASE Restart BY <1>c, <1>4 DEF Restart, StartupJobs, Job, Unresumed
<1>5. CASE \/ \E c \in Calls : Reject(c)
           \/ LateCreate \/ WorkerSends \/ WorkerGivesUp \/ WorkerExits \/ WorkerDies
           \/ Serve \/ LauncherRestart \/ UNCHANGED vars
  <2>1. pc' = pc /\ jobs' = jobs
    BY <1>5 DEF Reject, LateCreate, WorkerSends, Send, WorkerGivesUp, WorkerExits,
                WorkerDies, Serve, LauncherRestart, api, vars
  <2> QED BY <1>c, <2>1 DEF Unresumed
<1> QED BY <1>1, <1>2, <1>3, <1>4, <1>5 DEF Next

(* Without a restart, whoever holds a valid token's fate still revokes it: the
   thread that issued it is on the way, or the revocation is decided. *)
Startup == {"execute", "start", "prepare"}
Held == {"submit", "poll", "finish", "revoke"}
Revokes(t) == pc[t] \in Held \/ (pc[t] = "revokeRead" /\ run \in RevocationStatuses)
TokenFits ==
  /\ \A j \in jobs : j.kind = "execute"
  /\ jobs # {} \/ (\E t \in Threads : pc[t] \in Startup) => issued = 0
  /\ issued > revokedTo => \E t \in Threads : Revokes(t)

LEMMA MoveTokens ==
  ASSUME TypeOK, TokenFits, NEW t \in Threads, NEW p, pc' = [pc EXCEPT ![t] = p], jobs' \subseteq jobs,
         p \in Startup => issued = 0, UNCHANGED <<issued, revokedTo>>,
         run \in RevocationStatuses => run' \in RevocationStatuses,
         Revokes(t) => p \in Held \/ (p = "revokeRead" /\ run' \in RevocationStatuses)
  PROVE  TokenFits'
<1>1. \A u \in Threads : pc'[u] = IF u = t THEN p ELSE pc[u] BY DEF TypeOK
<1>2. \A u \in Threads : Revokes(u) => Revokes(u)' BY <1>1 DEF Revokes
<1> QED BY <1>1, <1>2 DEF TokenFits

LEMMA StayTokens ==
  ASSUME TokenFits, UNCHANGED <<pc, jobs, issued, revokedTo>>,
         run \in RevocationStatuses => run' \in RevocationStatuses
  PROVE  TokenFits'
BY DEF TokenFits, Revokes

(* The fate of tokens is not at stake before the first and after the last. *)
LEMMA NoTokens ==
  ASSUME TypeOK, TokenFits, TypeOK', jobs' = jobs, issued' <= revokedTo',
         issued' = 0 \/ (issued' = issued /\ \A t \in Threads : pc'[t] \in Startup => pc[t] \in Startup)
  PROVE  TokenFits'
BY DEF TokenFits, TypeOK

LEMMA ExecuteTokens ==
  ASSUME TypeOK, TypeOK', Unresumed, TokenFits, NEW t \in Threads, ExecuteStep(t)
  PROVE  TokenFits'
<1> USE DEF At, Startup, Held
<1>1. CASE StartRead(t) \/ StartCommit(t) \/ PrepareFails(t)
  <2>1. issued = 0 BY <1>1 DEF StartRead, StartCommit, PrepareFails, TokenFits
  <2>2. jobs' = jobs /\ issued' = issued
    BY <1>1 DEF StartRead, StartCommit, PrepareFails, db
  <2> QED BY <2>1, <2>2, NoTokens DEF TypeOK
<1>2. CASE Prepare(t)
  <2>1. pc[t] \in Claims /\ pc'[t] = "submit" /\ jobs' = jobs /\ issued' = 1
    BY <1>2 DEF Prepare, GoWith, TypeOK, Claims, TokenFits
  <2>2. \A u \in Threads : u # t => pc'[u] = pc[u] /\ pc[u] \notin Startup
    BY <1>2, <2>1 DEF Prepare, GoWith, TypeOK, Unresumed, OneClaim, Claims
  <2>3. jobs = {} BY <2>1 DEF Unresumed, OneClaim, IsClaim, TokenFits
  <2> QED BY <2>1, <2>2, <2>3 DEF TokenFits, Revokes
<1>3. CASE Submit(t) \/ SubmitFails(t) \/ Poll(t) \/ PollTimesOut(t) \/ PollFails(t) \/ Recover(t)
  <2>1. PICK p \in {"poll", "finish", "idle"} :
          pc' = [pc EXCEPT ![t] = p] /\ (p = "idle" => pc[t] = "recover")
    BY <1>3 DEF Submit, SubmitFails, Poll, PollTimesOut, PollFails, Recover, End, Return, Goto, GoWith
  <2>2. UNCHANGED <<jobs, issued, revokedTo, run>>
    BY <1>3 DEF Submit, SubmitFails, Poll, PollTimesOut, PollFails, Recover, db
  <2> QED BY <2>1, <2>2, MoveTokens DEF Revokes
<1> QED BY <1>1, <1>2, <1>3 DEF ExecuteStep

LEMMA EndTokens ==
  ASSUME TypeOK, MemOK, TypeOK', TokenFits, NEW t \in Threads, EndStep(t)
  PROVE  TokenFits'
<1> USE DEF At, Startup, Held, AfterRevoke
<1>1. CASE Finish(t)
  <2>1. mem[t].out \in Terminal BY <1>1 DEF Finish, MemOK, MemFits
  <2>2. run' \in RevocationStatuses
    BY <1>1, <2>1 DEF Finish, Eligible, RevocationStatuses, TypeOK, RunStatus
  <2>3. pc' = [pc EXCEPT ![t] = "revokeRead"] /\ UNCHANGED <<jobs, issued, revokedTo>>
    BY <1>1 DEF Finish, GoWith
  <2> QED BY <2>2, <2>3, MoveTokens
<1>2. CASE RevokeRead(t)
  <2>1. PICK p \in {"revoke", "terminate", "cleanup"} :
          pc' = [pc EXCEPT ![t] = p] /\ (run \in RevocationStatuses => p = "revoke")
    BY <1>2 DEF RevokeRead, Goto
  <2>2. UNCHANGED <<jobs, issued, revokedTo, run>> /\ pc[t] = "revokeRead" BY <1>2 DEF RevokeRead, db
  <2> QED BY <2>1, <2>2, MoveTokens DEF Revokes
<1>3. CASE Revoke(t)
  <2>1. jobs' = jobs /\ issued' = issued /\ revokedTo' = issued BY <1>3 DEF Revoke
  <2>2. \A u \in Threads : pc'[u] \in Startup => pc[u] \in Startup
    BY <1>3 DEF Revoke, Goto, TypeOK
  <2> QED BY <2>1, <2>2, NoTokens DEF TypeOK
<1>4. CASE \/ Terminate(t) \/ TerminateFails(t) \/ CleanupRead(t) \/ Remove(t)
           \/ RemoveFails(t) \/ LogCleanup(t)
  <2>1. PICK p \in {"cleanup", "idle", "remove", "log"} : pc' = [pc EXCEPT ![t] = p]
    BY <1>4 DEF Terminate, TerminateFails, CleanupRead, Remove, RemoveFails, LogCleanup, Return,
                Goto, GoWith
  <2>2. UNCHANGED <<jobs, issued, revokedTo, run>> /\ ~Revokes(t)
    BY <1>4 DEF Terminate, TerminateFails, CleanupRead, Remove, RemoveFails, LogCleanup, db, Revokes
  <2> QED BY <2>1, <2>2, MoveTokens
<1> QED BY <1>1, <1>2, <1>3, <1>4 DEF EndStep

LEMMA ServeTokens ==
  ASSUME TokenFits, Serve
  PROVE  TokenFits'
<1>1. PICK r \in inflight :
        \/ AskTool(r) \/ AskScript(r) \/ ServeScript(r) \/ ServeSave(r)
        \/ ServeInterrupt(r) \/ ServeComplete(r) \/ ServeFail(r)
  BY DEF Serve
<1>2. run' = run \/ run' \in RevocationStatuses
  BY <1>1 DEF AskTool, AskScript, ServeScript, ServeSave, ServeInterrupt, ServeComplete, ServeFail,
              Refuse, Replay, Commit, Pause, Grant, RevocationStatuses, Terminal
<1> QED BY <1>2, StayTokens DEF Serve

LEMMA NextTokens ==
  ASSUME TypeOK, MemOK, TypeOK', Unresumed, TokenFits, ~Restart, ~\E c \in Calls : Approve(c),
         [Next]_vars
  PROVE  TokenFits'
<1>1. ASSUME NEW t \in Threads, ThreadStep(t) PROVE TokenFits'
  BY <1>1, FreshGoes, ExecuteTokens, EndTokens
<1>2. ASSUME NEW t \in Pool, TakeJob(t) PROVE TokenFits'
  <2>1. PICK j \in jobs : jobs' = jobs \ {j} /\ pc' = [pc EXCEPT ![t] = j.kind]
    BY <1>2 DEF TakeJob, GoWith
  <2>2. j.kind = "execute" /\ issued = 0 BY DEF TokenFits
  <2>3. UNCHANGED <<issued, revokedTo, run>> /\ ~Revokes(t) /\ t \in Threads
    BY <1>2 DEF TakeJob, db, At, Revokes, Held, Threads
  <2> QED BY <2>1, <2>2, <2>3, MoveTokens
<1>3. ASSUME NEW h \in Handlers, Cancel(h) PROVE TokenFits'
  <2>1. /\ pc' = [pc EXCEPT ![h] = "finish"] /\ h \in Threads
        /\ UNCHANGED <<jobs, issued, revokedTo, run>>
    BY <1>3 DEF Cancel, End, GoWith, db, Threads
  <2> QED BY <2>1, MoveTokens DEF Startup, Held
<1>4. CASE \/ \E c \in Calls : Reject(c)
           \/ LateCreate \/ WorkerSends \/ WorkerGivesUp \/ WorkerExits \/ WorkerDies
           \/ LauncherRestart \/ UNCHANGED vars
  <2>1. UNCHANGED <<pc, jobs, issued, revokedTo, run>>
    BY <1>4 DEF Reject, LateCreate, WorkerSends, Send, WorkerGivesUp, WorkerExits,
                WorkerDies, LauncherRestart, api, db, vars
  <2> QED BY <2>1, StayTokens
<1> QED BY <1>1, <1>2, <1>3, <1>4, ServeTokens DEF Next

LEMMA CrashesStay ==
  ASSUME TypeOK, [Next]_vars, crashes' = 0
  PROVE  crashes = 0 /\ ~Restart
<1>1. ~Restart BY DEF Restart, TypeOK
<1>2. crashes' = crashes
  BY <1>1 DEF Next, vars, bounds, TakeJob, ThreadStep, ExecuteStep, EndStep, ResumeStep, Cancel,
     Approve, Reject, LateCreate, WorkerSends, Send, WorkerGivesUp, WorkerExits, WorkerDies,
     Serve, LauncherRestart, StartRead, StartCommit, Prepare, PrepareFails, Submit,
     SubmitFails, Poll, PollTimesOut, PollFails, Recover, Finish, RevokeRead, Revoke,
     Terminate, TerminateFails, CleanupRead, Remove, RemoveFails, LogCleanup, Admit,
     Transport, RunTool, ToolDone, ToolFail
<1> QED BY <1>1, <1>2

LEMMA NoneApprovedBefore ==
  ASSUME TypeOK, MemOK, Asked, [Next]_vars, NoneApproved'
  PROVE  NoneApproved /\ ~\E c \in Calls : Approve(c)
<1>1. NoneApproved BY NextApprovals DEF NoneApproved
<1>2. ASSUME NEW c \in Calls, Approve(c) PROVE FALSE BY <1>2 DEF Approve, TypeOK, NoneApproved
<1> QED BY <1>1, <1>2

LEMMA UnresumedAlways == Spec => [](NoneApproved => Unresumed)
<1>1. Init => Unresumed BY DEF Init, Unresumed, OneClaim, Claims, ResumePC, ToolPC, Job
<1>2. TypeOK /\ MemOK /\ Asked /\ (NoneApproved => Unresumed) /\ [Next]_vars
        => (NoneApproved => Unresumed)'
  BY NoneApprovedBefore, NextUnresumed
<1> QED BY <1>1, <1>2, TypeCorrect, AskedAlways, PTL DEF Spec

(* Without a restart, an ended run has no valid token once everybody is done
   with it, whichever of the worker's report, the timeout, a cancel and a failed
   call ended it: the execution that issued the token looks at the status before
   it leaves, and finds the end or comes before the one that does.  For runs in
   which nothing was approved: of a resumed run whose preparation fails, the
   token of the first execution can stay valid. *)
THEOREM TokensEnd == Spec => []EndedRunHasNoToken
<1> DEFINE Fits == NoneApproved /\ crashes = 0 => TokenFits
<1>1. Init => Fits BY DEF Init, TokenFits, Startup, Job
<1>2. /\ TypeOK /\ MemOK /\ Asked /\ (NoneApproved => Unresumed) /\ Fits /\ [Next]_vars /\ TypeOK'
      => Fits'
  <2> SUFFICES ASSUME TypeOK, MemOK, Asked, NoneApproved => Unresumed, Fits, [Next]_vars, TypeOK',
                      NoneApproved', crashes' = 0
               PROVE  TokenFits'
    OBVIOUS
  <2>1. NoneApproved /\ ~\E c \in Calls : Approve(c) BY NoneApprovedBefore
  <2>2. crashes = 0 /\ ~Restart BY CrashesStay
  <2> QED BY <2>1, <2>2, NextTokens
<1>3. Spec => []Fits BY <1>1, <1>2, TypeCorrect, AskedAlways, UnresumedAlways, PTL DEF Spec
<1>4. TypeOK /\ Fits => EndedRunHasNoToken
  BY DEF NoneApproved, TokenFits, EndedRunHasNoToken, Quiescent, At, Revokes, Held, TypeOK
<1> QED BY <1>3, <1>4, TypeInvariant, PTL

-----------------------------------------------------------------------------
(* Containers.  As long as no approval was asked for, the run is never paused:
   its worker asks for nothing that stores or reports an interruption. *)
Unasked == \A c \in Calls : appr[c] = "none"
PauseOps == {"save", "interrupt"}
NeverPaused ==
  /\ run # "waiting_approval"
  /\ container.wk \notin PauseOps
  /\ \A r \in inflight : r.op \notin PauseOps
  /\ \A c \in Scripts : inv[c] = "none"

LEMMA PausedKeeps ==
  ASSUME NeverPaused, run' # "waiting_approval", container'.wk \notin PauseOps,
         inflight' \subseteq inflight, NoneNew
  PROVE  NeverPaused'
BY DEF NeverPaused, NoneNew

LEMMA ErrorPauses == \A op \in Ops : AfterError(op) \notin PauseOps
BY DEF AfterError, Ops, PauseOps

LEMMA ReplyPauses ==
  ASSUME NeverPaused, NEW r, NEW wk, Reply(r, wk), wk \notin PauseOps
  PROVE  container'.wk \notin PauseOps
BY TellAlive DEF Reply, NeverPaused

LEMMA ThreadPauses ==
  ASSUME TypeOK, MemOK, Unresumed, NeverPaused, NEW t \in Threads, ThreadStep(t)
  PROVE  NeverPaused'
<1> USE DEF PauseOps
<1>1. ExecuteStep(t) \/ EndStep(t) BY FreshGoes
<1>2. CASE Finish(t)
  <2>1. mem[t].out \in Terminal BY <1>2 DEF Finish, MemOK, MemFits, At
  <2>2. run' # "waiting_approval" BY <1>2, <2>1 DEF Finish, Terminal, NeverPaused
  <2>3. NoneNew BY <1>2 DEF Finish, CloseLeases, NoneNew, TypeOK, Calls
  <2>4. container' = container /\ inflight' = inflight BY <1>2 DEF Finish, box
  <2> QED BY <2>2, <2>3, <2>4, PausedKeeps DEF NeverPaused
<1>3. CASE Submit(t) \/ SubmitFails(t)
  <2>1. container' = container \/ \E k : container' = Fresh(k)
    BY <1>3 DEF Submit, SubmitFails, Create, box
  <2>3. container'.wk \notin PauseOps BY <2>1 DEF Fresh, Box, NeverPaused
  <2>2. run' = run /\ inv' = inv /\ inflight' = inflight BY <1>3 DEF Submit, SubmitFails, db
  <2> QED BY <2>2, <2>3, PausedKeeps DEF NeverPaused, NoneNew
<1>4. CASE ExecuteStep(t) /\ ~Submit(t) /\ ~SubmitFails(t)
  <2>1. /\ run' \in {run, "running"} /\ UNCHANGED <<inv, inflight, container>>
    BY <1>4 DEF ExecuteStep, StartRead, StartCommit, Prepare, PrepareFails, Poll, PollTimesOut,
                PollFails, Recover, db, box
  <2> QED BY <2>1, PausedKeeps DEF NeverPaused, NoneNew
<1>5. CASE EndStep(t) /\ ~Finish(t)
  <2>1. UNCHANGED <<run, inv, inflight>>
    BY <1>5 DEF EndStep, RevokeRead, Revoke, Terminate, TerminateFails, CleanupRead, Remove,
                RemoveFails, LogCleanup, db
  <2>2. container' \in {container, Exits("exitBad"), Absent}
    BY <1>5 DEF EndStep, RevokeRead, Revoke, Terminate, TerminateFails, CleanupRead, Remove,
                RemoveFails, LogCleanup, box
  <2>3. container'.wk \notin PauseOps BY <2>2 DEF Exits, Absent, Box, NeverPaused
  <2> QED BY <2>1, <2>3, PausedKeeps DEF NeverPaused, NoneNew
<1> QED BY <1>1, <1>2, <1>3, <1>4, <1>5

LEMMA SendPauses ==
  ASSUME TypeOK, NeverPaused, WorkerSends
  PROVE  NeverPaused'
<1> USE DEF PauseOps
<1>1. PICK op \in Ops, c \in Calls \cup {NoCall} : Send(op, c) /\ op \notin PauseOps
  BY DEF WorkerSends, Ops, TypeOK, Containers, NeverPaused
<1>2. run' = run /\ inv' = inv BY <1>1 DEF Send, db
<1>3. CASE container.tok > revokedTo
  <2>1. container'.wk = op BY <1>1, <1>3 DEF Send, Box
  <2>2. PICK q : q = [op |-> op, call |-> c, tok |-> container.tok] OBVIOUS
  <2>3. inflight' = inflight \cup {q} BY <1>1, <1>3, <2>2 DEF Send
  <2>4. q.op = op BY <2>2
  <2> QED BY <1>1, <1>2, <2>1, <2>3, <2>4 DEF NeverPaused
<1>4. CASE ~(container.tok > revokedTo)
  <2>1. inflight' = inflight /\ container'.wk = AfterError(op) BY <1>1, <1>4, TellAlive DEF Send
  <2> QED BY <1>1, <1>2, <2>1, ErrorPauses DEF NeverPaused
<1> QED BY <1>3, <1>4

(* What the worker asks for is answered, refused or granted. *)
LEMMA AskPauses ==
  ASSUME TypeOK, Unasked, appr' = appr, NeverPaused, NEW r \in inflight, r.op = "ask",
         AskTool(r) \/ AskScript(r)
  PROVE  run' = run /\ container'.wk \notin PauseOps /\ NoneNew
<1>1. r.call \in Calls /\ appr[r.call] = "none" BY DEF AskTool, AskScript, Calls, Unasked
<1>2. ~Pause(r) BY <1>1 DEF Pause, TypeOK
<1>3. AfterError(r.op) \notin PauseOps /\ "script" \notin PauseOps
  BY ErrorPauses DEF TypeOK, Requests, PauseOps
<1>4. CASE Refuse(r) BY <1>3, <1>4, ReplyPauses DEF Refuse, NoneNew
<1>5. CASE Grant(r) /\ r.call \in FreeScripts
  <2>1. r.call \notin Scripts BY <1>5, CallAssumption
  <2> QED BY <1>3, <1>5, <2>1, ReplyPauses DEF Grant, NoneNew, TypeOK, Calls
<1>6. CASE Reply(r, "script") /\ UNCHANGED <<run, appr, inv, leased, keys>>
  BY <1>3, <1>6, ReplyPauses DEF NoneNew
<1>7. CASE AskTool(r) BY <1>2, <1>4, <1>7 DEF AskTool
<1>8. CASE AskScript(r)
  <2>1. r.call \in Scripts => inv[r.call] = "none" BY DEF NeverPaused
  <2> QED BY <1>1, <1>2, <1>4, <1>5, <1>6, <1>8, <2>1 DEF AskScript
<1> QED BY <1>7, <1>8

LEMMA ServePauses ==
  ASSUME TypeOK, Unasked, Unasked', NeverPaused, Serve
  PROVE  NeverPaused'
<1>1. PICK r \in inflight :
        /\ inflight' = inflight \ {r}
        /\ \/ r.op = "ask" /\ (AskTool(r) \/ AskScript(r))
           \/ ServeScript(r) \/ ServeSave(r)
           \/ ServeInterrupt(r) \/ ServeComplete(r) \/ ServeFail(r)
  BY DEF Serve
<1>2. r.op \in Ops /\ r.op \notin PauseOps BY DEF TypeOK, Requests, NeverPaused
<1>3. AfterError(r.op) \notin PauseOps BY <1>2, ErrorPauses
<1>a. \A c \in Scripts : c \in Calls BY DEF Calls
<1>4. ASSUME run' # "waiting_approval", container'.wk \notin PauseOps, NoneNew PROVE NeverPaused'
  BY <1>1, <1>4, PausedKeeps
<1>5. CASE r.op = "ask" /\ (AskTool(r) \/ AskScript(r))
  <2>1. appr' = appr
    <3>1. r.call \in Calls BY <1>5 DEF AskTool, AskScript, Calls
    <3>2. ~Pause(r) BY <3>1 DEF Pause, TypeOK, Unasked
    <3> QED BY <1>5, <3>2 DEF AskTool, AskScript, Refuse, Grant
  <2> QED BY <1>4, <1>5, <2>1, AskPauses DEF NeverPaused
<1>6. CASE Refuse(r)
  BY <1>3, <1>4, <1>6, ReplyPauses DEF Refuse, NoneNew, NeverPaused
<1>7. CASE ServeScript(r)
  <2>1. CASE inv[r.call] = "running"
    <3>1. container'.wk \notin PauseOps BY <1>7, <2>1, ReplyPauses DEF ServeScript, PauseOps
    <3>2. run' = run /\ NoneNew BY <1>7, <1>a, <2>1 DEF ServeScript, NoneNew, TypeOK
    <3> QED BY <1>4, <3>1, <3>2 DEF NeverPaused
  <2> QED BY <1>6, <1>7, <2>1 DEF ServeScript
<1>8. ASSUME NEW s \in {"completed", "failed"}, NEW wk \in {"exitOk", "exitBad"},
             Replay(r, wk) \/ Commit(r, s, wk)
      PROVE  NeverPaused'
  <2>1. wk \notin PauseOps BY DEF PauseOps
  <2>2. CASE Replay(r, wk)
    <3>1. PICK w \in {AfterError(r.op), wk} : Reply(r, w) /\ UNCHANGED <<run, appr, inv, leased, keys>>
      BY <2>2 DEF Replay
    <3> QED BY <1>3, <1>4, <2>1, <3>1, ReplyPauses DEF NoneNew, NeverPaused
  <2>3. CASE Commit(r, s, wk)
    <3>1. run' # "waiting_approval" /\ NoneNew BY <1>a, <2>3 DEF Commit, CloseLeases, NoneNew, TypeOK
    <3> QED BY <1>4, <2>1, <2>3, <3>1, ReplyPauses DEF Commit
  <2> QED BY <1>8, <2>2, <2>3
<1>9. CASE ServeComplete(r) \/ ServeFail(r)
  BY <1>6, <1>8, <1>9 DEF ServeComplete, ServeFail
<1> QED BY <1>1, <1>2, <1>5, <1>7, <1>9 DEF ServeSave, ServeInterrupt, PauseOps

LEMMA NextPauses ==
  ASSUME TypeOK, MemOK, Unresumed, Unasked, Unasked', NeverPaused, [Next]_vars
  PROVE  NeverPaused'
<1> USE DEF PauseOps
<1>1. ASSUME NEW c \in Calls, Approve(c) \/ Reject(c) PROVE NeverPaused'
  BY <1>1 DEF Approve, Reject, Unasked
<1>2. CASE WorkerGivesUp \/ Restart
  <2>1. /\ UNCHANGED <<run, inv>> /\ inflight' \subseteq inflight
        /\ container' = container \/ (container.wait /\ container' = Tell(AfterError(container.wk)))
    BY <1>2 DEF WorkerGivesUp, Restart, db, api
  <2>2. container.wait => container.wk \in Ops BY DEF TypeOK, Containers
  <2>3. container'.wk \notin PauseOps BY <2>1, <2>2, TellAlive, ErrorPauses DEF NeverPaused
  <2> QED BY <2>1, <2>3, PausedKeeps DEF NeverPaused, NoneNew
<1>3. CASE WorkerExits \/ WorkerDies \/ LateCreate
  <2>1. /\ UNCHANGED <<run, inv, inflight>>
        /\ container'.wk \in {container.wk, "exitBad", "exitOk", "work"}
    BY <1>3 DEF WorkerExits, WorkerDies, LateCreate, Create, Fresh, Exits, Box, db, api
  <2> QED BY <2>1, PausedKeeps DEF NeverPaused, NoneNew
<1>4. CASE \/ \E t \in Pool : TakeJob(t)
           \/ \E h \in Handlers : Cancel(h)
           \/ LauncherRestart \/ UNCHANGED vars
  <2>1. UNCHANGED <<run, inv, inflight, container>>
    BY <1>4 DEF TakeJob, Cancel, LauncherRestart, vars, db, api, box
  <2> QED BY <2>1 DEF NeverPaused
<1> QED BY <1>1, <1>2, <1>3, <1>4, ThreadPauses, SendPauses, ServePauses DEF Next

(* The container of the run.  Clear: nobody takes it for removed. *)
Present == container.st # "absent"
Clear ==
  /\ ~cleaned /\ mark # "cleaned"
  /\ \A t \in Threads : pc[t] = "log" => mem[t].out # "cleaned"
Begun == mark # "none" /\ run # "queued"
Creating == \E t \in Threads : pc[t] \in {"prepare", "submit"}
Tracked ==
  /\ ~Nobody(Claims) => Clear /\ ~Present /\ late = 0
  /\ late # 0 => Clear /\ ~Present /\ Begun
  /\ Present => Clear /\ Begun
  /\ Creating => Begun

LEMMA TrackedKeeps ==
  ASSUME Tracked, ClaimsKeep, Clear => Clear', late' = late, Present' => Present,
         Begun => Begun', Creating' => Creating
  PROVE  Tracked'
BY DEF Tracked, ClaimsKeep

LEMMA CreatingClaims == Creating => ~Nobody(Claims)
BY DEF Creating, Nobody, Claims

(* A start *)
LEMMA StartTracked ==
  ASSUME TypeOK, Tracked, ClaimsKeep, NEW t \in Threads, StartCommit(t)
  PROVE  Tracked'
<1>1. ~Nobody(Claims) BY DEF StartCommit, At, Nobody, Claims
<1>2. Clear /\ ~Present /\ late = 0 BY <1>1 DEF Tracked
<1>3. Clear' BY <1>2 DEF StartCommit, Goto, Clear, TypeOK, box
<1>4. late' = 0 /\ ~Present' BY <1>2 DEF StartCommit, box, Present
<1>5. Begun' BY DEF StartCommit, Begun
<1> QED BY <1>3, <1>4, <1>5 DEF Tracked

(* A submission gives up the only claim, whatever becomes of the request. *)
LEMMA SubmitTracked ==
  ASSUME TypeOK, OneClaim, Tracked, NEW t \in Threads, Submit(t) \/ SubmitFails(t)
  PROVE  Tracked'
<1>1. pc[t] \in Claims /\ Creating BY DEF Submit, SubmitFails, At, Claims, Creating
<1>2. Clear /\ ~Present /\ late = 0 /\ Begun BY <1>1, CreatingClaims DEF Tracked
<1>3. PICK p \in {"poll", "finish"} :
        /\ jobs' = jobs
        /\ \A u \in Threads : pc'[u] = IF u = t THEN p ELSE pc[u]
        /\ \A u \in Threads : u # t => mem'[u] = mem[u]
  BY DEF Submit, SubmitFails, End, GoWith, TypeOK
<1>4. Nobody(Claims)' BY <1>1, <1>3 DEF OneClaim, Nobody, Claims
<1>5. ~Creating' BY <1>4, CreatingClaims DEF Nobody, Creating, Claims
<1>6. Begun' BY <1>2 DEF Submit, SubmitFails, db, Begun
<1>7. ~cleaned' => Clear' BY <1>2, <1>3 DEF Submit, SubmitFails, db, Clear
<1>8. container.st = "absent" /\ cleaned = FALSE BY <1>2 DEF Present, Clear, TypeOK
<1>9. CASE container' = container
  <2>1. ~Present' /\ (cleaned' => late' = 0)
    BY <1>2, <1>8, <1>9 DEF Submit, SubmitFails, Create, Present, box, Fresh, Box
  <2>2. cleaned' \in BOOLEAN BY <1>8 DEF Submit, SubmitFails, Create, box
  <2> QED BY <1>4, <1>5, <1>6, <1>7, <2>1, <2>2 DEF Tracked
<1>10. CASE container' # container
  <2>1. cleaned' = FALSE /\ late' = 0
    BY <1>2, <1>8, <1>10 DEF Submit, SubmitFails, Create, box
  <2> QED BY <1>4, <1>5, <1>6, <1>7, <2>1 DEF Tracked
<1> QED BY <1>9, <1>10

(* A removal: the container is gone, or it is not taken for removed. *)
LEMMA RemoveTracked ==
  ASSUME TypeOK, Tracked, ClaimsKeep, NEW t \in Threads, Remove(t) \/ RemoveFails(t)
  PROVE  Tracked'
<1>1. UNCHANGED <<run, mark, late>> BY DEF Remove, RemoveFails, db
<1>2. PICK out \in {"cleaned", "failed"} :
        /\ pc' = [pc EXCEPT ![t] = "log"]
        /\ mem' = [mem EXCEPT ![t] = Mem(out, FALSE, NoCall, 0)]
        /\ out = "cleaned" => cleaned \/ Present
  BY DEF Remove, RemoveFails, GoWith, Present
<1>3. Creating' => Creating BY <1>2 DEF Creating, TypeOK
<1>4. CASE UNCHANGED <<container, cleaned>>
  <2>1. CASE Present /\ ~cleaned
    <3>1. out = "failed" BY <1>2, <1>4, <2>1 DEF Remove, RemoveFails, GoWith, Mem, Present, Absent, Box, TypeOK
    <3>2. Clear => Clear' BY <1>1, <1>2, <1>4, <3>1 DEF Clear, Mem, TypeOK
    <3> QED BY <1>1, <1>3, <1>4, <3>2, TrackedKeeps DEF Present, Begun
  <2>2. CASE ~Present \/ cleaned
    <3>1. Clear => out = "failed" BY <1>2, <2>2 DEF Clear, Tracked
    <3>2. Clear => Clear' BY <1>1, <1>2, <1>4, <3>1 DEF Clear, Mem, TypeOK
    <3> QED BY <1>1, <1>3, <1>4, <3>2, TrackedKeeps DEF Present, Begun
  <2> QED BY <2>1, <2>2 DEF TypeOK
<1>5. CASE Present /\ container' = Absent
  <2>1. Nobody(Claims) /\ late = 0 BY <1>5 DEF Tracked
  <2>2. ~Present' /\ late' = 0 BY <1>1, <1>5, <2>1 DEF Present, Absent, Box
  <2>3. Nobody(Claims)' /\ ~Creating'
    BY <1>3, <2>1, CreatingClaims DEF ClaimsKeep
  <2> QED BY <2>2, <2>3 DEF Tracked
<1> QED BY <1>4, <1>5 DEF Remove, RemoveFails, Present

LEMMA ThreadTracked ==
  ASSUME TypeOK, MemOK, Unresumed, Tracked, ClaimsKeep, NEW t \in Threads, ThreadStep(t)
  PROVE  Tracked'
<1>1. ExecuteStep(t) \/ EndStep(t) BY FreshGoes
<1>2. CASE StartRead(t) \/ Prepare(t) \/ PrepareFails(t)
  <2>1. UNCHANGED <<run, mark, container, cleaned, late>>
    BY <1>2 DEF StartRead, Prepare, PrepareFails, db, box
  <2>2. Clear => Clear'
    BY <1>2, <2>1 DEF StartRead, Prepare, PrepareFails, Goto, GoWith, Clear, TypeOK
  <2>3. Creating' => Creating
    BY <1>2 DEF StartRead, Prepare, PrepareFails, Goto, GoWith, Creating, TypeOK, At
  <2> QED BY <2>1, <2>2, <2>3, TrackedKeeps DEF Present, Begun
<1>3. CASE \/ Poll(t) \/ PollTimesOut(t) \/ PollFails(t) \/ Recover(t)
           \/ Finish(t) \/ RevokeRead(t) \/ Revoke(t) \/ TerminateFails(t) \/ CleanupRead(t)
  <2>1. UNCHANGED <<mark, container, cleaned, late>>
    BY <1>3 DEF Poll, PollTimesOut, PollFails, Recover, Finish, RevokeRead, Revoke, TerminateFails,
                CleanupRead, db, box
  <2>2. PICK p \in {"idle", "finish", "poll", "revokeRead", "revoke", "terminate", "cleanup", "remove"} :
          /\ \A u \in Threads : pc'[u] = IF u = t THEN p ELSE pc[u]
          /\ \A u \in Threads : u # t => mem'[u] = mem[u]
    BY <1>3 DEF Poll, PollTimesOut, PollFails, Recover, Finish, RevokeRead, Revoke, TerminateFails,
                CleanupRead, Goto, GoWith, End, Return, AfterRevoke, TypeOK
  <2>3. run' = run \/ run' \in Terminal
    BY <1>3 DEF Poll, PollTimesOut, PollFails, Recover, Finish, RevokeRead, Revoke, TerminateFails,
                CleanupRead, db, MemOK, MemFits, At
  <2>4. Clear => Clear' BY <2>1, <2>2 DEF Clear
  <2>5. Creating' => Creating BY <2>2 DEF Creating
  <2>6. Begun => Begun' BY <2>1, <2>3 DEF Begun, Terminal
  <2> QED BY <2>1, <2>4, <2>5, <2>6, TrackedKeeps DEF Present
<1>4. CASE Terminate(t)
  <2>1. UNCHANGED <<run, mark, cleaned, late>> BY <1>4 DEF Terminate, db
  <2>2. Present' => Present BY <1>4 DEF Terminate, Present
  <2>3. Clear => Clear' BY <1>4, <2>1 DEF Terminate, Goto, Clear, TypeOK
  <2>4. Creating' => Creating BY <1>4 DEF Terminate, Goto, Creating, TypeOK
  <2> QED BY <2>1, <2>2, <2>3, <2>4, TrackedKeeps DEF Begun
<1>5. CASE LogCleanup(t)
  <2>1. UNCHANGED <<run, container, cleaned, late>> BY <1>5 DEF LogCleanup, box
  <2>2. pc[t] = "log" /\ mark' = mem[t].out /\ mem[t].out \in {"cleaned", "failed"}
    BY <1>5 DEF LogCleanup, At, MemOK, MemFits
  <2>3. \A u \in Threads : pc'[u] = (IF u = t THEN "idle" ELSE pc[u]) /\ (u # t => mem'[u] = mem[u])
    BY <1>5 DEF LogCleanup, Return, GoWith, TypeOK
  <2>4. Clear => Clear' BY <2>1, <2>2, <2>3 DEF Clear
  <2>5. Creating' => Creating BY <2>3 DEF Creating
  <2> QED BY <2>1, <2>2, <2>4, <2>5, TrackedKeeps DEF Present, Begun
<1> QED BY <1>1, <1>2, <1>3, <1>4, <1>5, StartTracked, SubmitTracked, RemoveTracked
        DEF ExecuteStep, EndStep, Unresumed

LEMMA ServeTracked ==
  ASSUME TypeOK, Tracked, ClaimsKeep, Serve
  PROVE  Tracked'
<1>1. PICK r \in inflight :
        \/ AskTool(r) \/ AskScript(r) \/ ServeScript(r) \/ ServeSave(r)
        \/ ServeInterrupt(r) \/ ServeComplete(r) \/ ServeFail(r)
  BY DEF Serve
<1>2. UNCHANGED <<mark, pc, mem, cleaned, late>> BY DEF Serve
<1>3. run' = run \/ run' # "queued"
  BY <1>1 DEF AskTool, AskScript, ServeScript, ServeSave, ServeInterrupt, ServeComplete, ServeFail,
              Refuse, Replay, Commit, Pause, Grant
<1>4. \E wk : Reply(r, wk)
  BY <1>1 DEF AskTool, AskScript, ServeScript, ServeSave, ServeInterrupt, ServeComplete, ServeFail,
              Refuse, Replay, Commit, Pause, Grant
<1>5. Present' => Present BY <1>4, TellAlive DEF Reply, Present
<1> QED BY <1>2, <1>3, <1>5, TrackedKeeps DEF Clear, Creating, Begun

LEMMA NextTracked ==
  ASSUME TypeOK, MemOK, Unresumed, Unasked, Tracked, [Next]_vars
  PROVE  Tracked'
<1>a. \A c \in Calls : ~Approve(c) /\ ~Reject(c) BY DEF Approve, Reject, Unasked
<1>c. ClaimsKeep BY <1>a, NextClaims
<1>1. ASSUME NEW t \in Threads, ThreadStep(t) PROVE Tracked' BY <1>1, <1>c, ThreadTracked
<1>2. CASE LateCreate
  <2>1. late # 0 /\ late' = 0 /\ UNCHANGED <<run, mark, pc, mem, jobs>>
    BY <1>2 DEF LateCreate, db, api
  <2>2. Nobody(Claims) /\ Clear /\ ~Present /\ Begun BY <2>1 DEF Tracked
  <2>3. cleaned' = FALSE BY <1>2, <2>2 DEF LateCreate, Create, Present
  <2>4. Nobody(Claims)' /\ Clear' /\ Begun' BY <2>1, <2>2, <2>3 DEF Nobody, Clear, Begun
  <2> QED BY <2>1, <2>4 DEF Tracked
<1>3. ASSUME NEW t \in Threads, NEW p \in JobKind \cup {"finish"}, pc' = [pc EXCEPT ![t] = p],
             \A u \in Threads : u # t => mem'[u] = mem[u], UNCHANGED <<run, mark, box>>
      PROVE  Tracked'
  <2>1. \A u \in Threads : pc'[u] = IF u = t THEN p ELSE pc[u] BY <1>3 DEF TypeOK
  <2>2. Clear => Clear' BY <1>3, <2>1 DEF Clear, box, JobKind
  <2>3. Creating' => Creating BY <2>1 DEF Creating, JobKind
  <2> QED BY <1>3, <1>c, <2>2, <2>3, TrackedKeeps DEF box, Present, Begun
<1>4. ASSUME NEW t \in Pool, TakeJob(t) PROVE Tracked'
  <2>1. PICK j \in jobs : GoWith(t, j.kind, Mem("none", FALSE, j.call, 0)) BY <1>4 DEF TakeJob
  <2>2. j.kind \in JobKind /\ t \in Threads BY DEF TypeOK, Jobs, Threads
  <2>3. \A u \in Threads : u # t => mem'[u] = mem[u] BY <2>1 DEF GoWith, TypeOK
  <2> QED BY <1>3, <1>4, <2>1, <2>2, <2>3 DEF TakeJob, GoWith, db
<1>5. ASSUME NEW h \in Handlers, Cancel(h) PROVE Tracked'
  <2>1. GoWith(h, "finish", Mem("cancelled", TRUE, NoCall, 0)) /\ h \in Threads
    BY <1>5 DEF Cancel, End, Threads
  <2>2. \A u \in Threads : u # h => mem'[u] = mem[u] BY <2>1 DEF GoWith, TypeOK
  <2> QED BY <1>3, <1>5, <2>1, <2>2 DEF Cancel, GoWith, db
<1>6. CASE WorkerSends \/ WorkerGivesUp \/ WorkerExits \/ WorkerDies
  <2>1. UNCHANGED <<run, mark, pc, mem, cleaned, late>>
    BY <1>6 DEF WorkerSends, Send, WorkerGivesUp, WorkerExits, WorkerDies, db, api
  <2>2. Present BY <1>6 DEF WorkerSends, Working, WorkerGivesUp, WorkerExits, WorkerDies, Present
  <2> QED BY <1>c, <2>1, <2>2, TrackedKeeps DEF Clear, Creating, Begun
<1>7. CASE Restart
  <2>1. UNCHANGED <<run, mark, cleaned, late>> BY <1>7 DEF Restart, db
  <2>2. \A t \in Threads : pc'[t] = "idle" BY <1>7 DEF Restart
  <2>3. Present' => Present BY <1>7, TellAlive DEF Restart, Present
  <2> QED BY <1>c, <2>1, <2>2, <2>3, TrackedKeeps DEF Clear, Creating, Begun
<1>8. CASE LauncherRestart
  <2>1. UNCHANGED <<run, mark, pc, mem, container, late>> /\ ~cleaned' /\ cleaned
    BY <1>8 DEF LauncherRestart, db, api
  <2> QED BY <1>c, <2>1, TrackedKeeps DEF Clear, Creating, Begun, Present
<1>9. CASE UNCHANGED vars
  BY <1>c, <1>9, TrackedKeeps DEF vars, db, api, box, Clear, Creating, Begun, Present
<1> QED BY <1>a, <1>c, <1>1, <1>2, <1>4, <1>5, <1>6, <1>7, <1>8, <1>9, ServeTracked DEF Next

(* A container that is left when everybody is done belongs to a run the next
   start of the process recovers or cleans up after: a container is created only
   after the start is on record, nobody records it as removed while it is there,
   and the removal's answer does not stem from an earlier one.  Lost and late
   create requests, failed removals, dying workers and restarts of either process
   included; for runs in which no approval was asked for, because a paused run
   is left to its decision. *)
THEOREM ContainersTracked == Spec => []TrackedUnlessPaused
<1> DEFINE Fits == Unasked => NeverPaused /\ Tracked
<1>1. Init => Fits
  <2> SUFFICES ASSUME Init PROVE NeverPaused /\ Tracked OBVIOUS
  <2>1. NeverPaused BY DEF Init, NeverPaused, Absent, Box, PauseOps, Calls
  <2>2. Clear /\ ~Present /\ late = 0 /\ ~Creating
    BY DEF Init, Clear, Present, Absent, Box, Creating
  <2> QED BY <2>1, <2>2 DEF Tracked
<1>2. TypeOK /\ MemOK /\ Asked /\ (NoneApproved => Unresumed) /\ Fits /\ [Next]_vars => Fits'
  <2> SUFFICES ASSUME TypeOK, MemOK, Asked, NoneApproved => Unresumed, Fits, [Next]_vars, Unasked'
               PROVE  NeverPaused' /\ Tracked'
    OBVIOUS
  <2>1. Unasked BY NextApprovals DEF Unasked
  <2>2. Unresumed BY <2>1 DEF Unasked, NoneApproved
  <2> QED BY <2>1, <2>2, NextPauses, NextTracked
<1>3. Spec => []Fits BY <1>1, <1>2, TypeCorrect, AskedAlways, UnresumedAlways, PTL DEF Spec
<1>4. TypeOK /\ Fits => TrackedUnlessPaused
  <2> SUFFICES ASSUME TypeOK, NeverPaused, Tracked, container.st # "absent" PROVE StartupJobs # {}
    BY DEF Unasked, TrackedUnlessPaused, ContainerIsTracked
  <2>1. Clear /\ Begun BY DEF Tracked, Present
  <2>2. mark \in {"started", "failed"} BY <2>1 DEF Clear, Begun, TypeOK
  <2>3. run = "running" \/ run \in Terminal BY <2>1 DEF Begun, NeverPaused, TypeOK, RunStatus
  <2> QED BY <2>2, <2>3 DEF StartupJobs
<1> QED BY <1>3, <1>4, TypeInvariant, PTL
=============================================================================
