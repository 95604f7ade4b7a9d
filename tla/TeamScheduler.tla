----------------------------- MODULE TeamScheduler -----------------------------
(***************************************************************************)
(* The team scheduler of the sandbox worker: it lets the supervisor plan,  *)
(* runs the members' tasks in batches of threads, has the supervisor sum   *)
(* up, and saves what it knows before and after each of these, so that a   *)
(* run that was interrupted for an approval, or whose worker died, is      *)
(* taken up from its latest checkpoint.                                    *)
(*                                                                         *)
(* The main thread is a sequence of steps, each of which decides something *)
(* and then makes some calls to the Runner Gateway: events, then a save.   *)
(* todo holds the calls that are left, so that a fault or a crash can come *)
(* between any two.  Member threads run while the main thread polls; each  *)
(* saves the state of its graph at its end, under state_lock.  A batch     *)
(* that a failure has ended is settled while members may still be at       *)
(* work: there every read and every write of what they share with the main *)
(* thread is a step of its own (results).                                  *)
(*                                                                         *)
(* Tasks are numbered by their position in the plan.  A task's result, the *)
(* messages and the budgets are left out.  That a worker is started again  *)
(* after a crash is what the code provides for; the coordinator starts     *)
(* one again only after an approval (SandboxRun).                          *)
(*                                                                         *)
(* Operators whose name ends in _Mutant are seeded faults; no other        *)
(* definition uses them.                                                   *)
(***************************************************************************)
EXTENDS Naturals, Sequences, FiniteSets

CONSTANTS
  NumTasks,     \* tasks of a plan
  Plans,        \* what the supervisor may answer: member and dependencies of each task
  MaxParallel,  \* min(max_parallel_members, max_subagents)
  Strategies,   \* a subset of {"fail_fast", "continue_then_synthesize"}
  None,         \* no plan, no checkpoint, no member at state_lock
  MaxFaults     \* bound on gateway calls that fail and deaths of the worker

Tasks == 1..NumTasks
Synthesis == 0          \* the task id of the supervisor's summing up
Work == Tasks \cup {Synthesis}

ASSUME ConstantAssumption ==
  /\ NumTasks \in Nat /\ MaxParallel \in Nat \ {0}
  /\ \A p \in Plans : \A t \in Tasks : Synthesis \notin p[t].deps
  /\ None \notin Plans
  /\ Strategies \subseteq {"fail_fast", "continue_then_synthesize"}
  /\ MaxFaults \in Nat

VARIABLES
  run,        \* AgentRun.status
  log,        \* the worker's events the gateway has stored
  store,      \* the latest checkpoint of the run
  reported,   \* an interruption was reported under completion:approval
  pc,         \* what the main thread does next
  w,          \* TeamSchedulerState in memory
  seq,        \* _event_sequence
  todo,       \* gateway calls to make before that
  th,         \* the member threads
  out,        \* how each of them ends
  saving,     \* who is at state_lock, with what it is about to save
  stopped,    \* batch_timed_out
  results,    \* completed and failed, while a failure's batch is settled
  fresh,      \* how often each task was begun without an earlier graph state
  dropped,    \* tasks whose interrupted invocation was dropped
  straggled,  \* a checkpoint was stored that misses the failure of its batch
  strategy,   \* failure_strategy of the published team
  faults

disk == <<run, log, store, reported>>
threads == <<th, out, saving, stopped, results>>
history == <<fresh, dropped, straggled>>
bounds == <<strategy, faults>>
vars == <<disk, pc, w, seq, todo, threads, history, bounds>>

Stages == {"executing", "waiting_approval", "synthesizing", "completed"}
(* TeamActiveInvocation: its checkpoint_status, and its runtime_state: none,
   that of an interrupted graph, or of one that ended with or without a result
   within its bound. *)
Inactive == [st |-> "none", rt |-> "none"]
Invocations == [st : {"running", "interrupted", "completed"},
                rt : {"none", "paused", "ok", "big"}]
Nobody == [t \in Work |-> Inactive]
Active(c) == {t \in Work : c.active[t] # Inactive}

NoState == [stage |-> "none", plan |-> None, started |-> {}, done |-> {}, failed |-> {},
            active |-> Nobody, rev |-> 0, seq |-> 0, partial |-> FALSE]
Settled(c) == c.done \cup c.failed

Outcomes == {"none", "ok", "big", "error", "pause"}
Up == pc \notin {"down", "dead"}

Init ==
  /\ run = "running" /\ log = <<>> /\ store = None /\ reported = FALSE
  /\ pc = "load" /\ w = NoState /\ seq = 0 /\ todo = <<>>
  /\ th = [t \in Work |-> "none"] /\ out = [t \in Work |-> "none"]
  /\ saving = None /\ stopped = FALSE /\ results = None
  /\ fresh = [t \in Work |-> 0] /\ dropped = {} /\ straggled = FALSE
  /\ strategy \in Strategies /\ faults = 0

-----------------------------------------------------------------------------
(* team_graph: plans and batches *)

(* validate_team_plan counts the tasks it can put in an order; Layer[n] is what
   it has reached after n rounds. *)
Reached(p) ==
  LET Layer[n \in 0..NumTasks] ==
        IF n = 0 THEN {} ELSE {t \in Tasks : p[t].deps \subseteq Layer[n - 1]}
  IN Layer[NumTasks]
Accepted_Mutant(p) == \A t \in Tasks : t \notin p[t].deps   \* looks at single tasks only
Accepted(p) == Reached(p) = Tasks

Ready(c) == {t \in Tasks \ Settled(c) : c.plan[t].deps \subseteq c.done}
(* The first ready task of each member, up to the bound on parallel members. *)
ReadyTasks_Mutant(c) == {t \in Ready(c) : Cardinality({u \in Ready(c) : u < t}) < MaxParallel}
ReadyTasks(c) ==
  LET First(S) == {t \in S : \A u \in S : c.plan[u].by = c.plan[t].by => t <= u}
      Before(t, S) == {u \in S : u < t}
      F == First(Ready(c))
  IN {t \in F : Cardinality(Before(t, F)) < MaxParallel}
Blocked_Mutant(c) == {t \in Tasks : c.plan[t].deps \cap c.failed # {}}   \* settled ones too
Blocked(c) == {t \in Tasks \ Settled(c) : c.plan[t].deps \cap c.failed # {}}


-----------------------------------------------------------------------------
(* Calls of the main thread *)

Event(kind, t) == [call |-> "event", kind |-> kind, task |-> t]
Save(stage, active) == [call |-> "save", stage |-> stage, active |-> active]

(* One event for each task of a set, by position. *)
Order(S) == CHOOSE q \in [1..Cardinality(S) -> S] : \A i, j \in DOMAIN q : i < j => q[i] < q[j]
Events(kind, S) == [i \in 1..Cardinality(S) |-> Event(kind, Order(S)[i])]

Main(p) == pc = p /\ todo = <<>>
(* The main thread makes some calls and goes on. *)
Then(calls, p) == todo' = calls /\ pc' = p
(* It gives up; _fail reports that. *)
GiveUp == Then(<<>>, "fail")

Fault == faults < MaxFaults /\ faults' = faults + 1 /\ UNCHANGED strategy

Exit(how) ==
  /\ pc' = how /\ todo' = <<>> /\ w' = NoState /\ seq' = 0
  /\ th' = [t \in Work |-> "none"] /\ out' = [t \in Work |-> "none"]
  /\ saving' = None /\ stopped' = FALSE /\ results' = None

(* The gateway takes an event under its number: new, or the stored one again. *)
TakesEvent(n, e) ==
  \/ n = Len(log) + 1 /\ log' = Append(log, e)
  \/ n <= Len(log) /\ log[n] = e /\ UNCHANGED log
RefusesEvent(n, e) == n > Len(log) + 1 \/ (n <= Len(log) /\ log[n] # e)

(* The call for the next event, under number n. *)
AppendEvent(n) ==
  LET e == Head(todo) IN
  \/ run = "running" /\ TakesEvent(n, e) /\ Then(Tail(todo), pc) /\ UNCHANGED bounds
  \/ (run # "running" \/ RefusesEvent(n, e)) /\ GiveUp /\ UNCHANGED <<log, bounds>>
  \/ run = "running" /\ Fault /\ (TakesEvent(n, e) \/ UNCHANGED log) /\ GiveUp

(* A batch that a failure has ended is being settled. *)
Racing == results # None
NextCall(kind) == todo # <<>> /\ Head(todo).call = kind

(* _append_event counts before it calls.  Only here, where no member looks, are
   these one step. *)
SendEvent ==
  /\ ~Racing /\ NextCall("event")
  /\ seq' = seq + 1 /\ AppendEvent(seq + 1)
  /\ UNCHANGED <<run, store, reported, w, threads, history>>

(* The gateway takes a checkpoint under its revision.  The latest checkpoint
   has the highest one. *)
NextRev(c) == c.rev + 1
Newer(c) == store # None => c.rev > store.rev
TakesCheckpoint(c) ==
  \/ Newer(c) = TRUE /\ store' = c
  \/ store = c /\ UNCHANGED store
Conflicts(c) == store # None /\ c.rev <= store.rev /\ store # c

SaveState ==
  /\ ~Racing /\ NextCall("save")
  /\ LET h == Head(todo)
         c == [w EXCEPT !.stage = h.stage, !.active = h.active, !.rev = NextRev(w),
                        !.seq = seq]
     IN
     \/ /\ run = "running" /\ TakesCheckpoint(c)
        /\ w' = c
        /\ Then(Tail(todo), pc)
        /\ UNCHANGED bounds
     \/ /\ run # "running" \/ Conflicts(c)
        /\ GiveUp
        /\ UNCHANGED <<store, w, bounds>>
     \/ /\ run = "running" /\ Fault
        /\ TakesCheckpoint(c) \/ UNCHANGED store
        /\ GiveUp /\ UNCHANGED w
  /\ UNCHANGED <<run, log, reported, seq, threads, history>>

-----------------------------------------------------------------------------
(* The main thread: start and recovery *)

(* _load_team_state, on a checkpoint of this team version. *)
Loadable(c) ==
  /\ Accepted(c.plan)
  /\ c.started \subseteq Tasks /\ Settled(c) \subseteq Tasks
  /\ c.done \cap c.failed = {}
  /\ \/ c.stage = "synthesizing" /\ Active(c) = {Synthesis}
     \/ Active(c) \subseteq c.started \ Settled(c)

LoadNothing ==
  /\ Main("load") /\ store = None
  /\ Then(<<Event("runner.started", 0)>>, "plan")
  /\ UNCHANGED <<disk, w, seq, threads, history, bounds>>

(* _recover_completed_invocations: a member that was cut off is not run again,
   one that ended is not either. *)
CutOff_Mutant(c) == FALSE                               \* runs what was cut off again
CutOff(c) == \E t \in Active(c) : c.active[t].rt \in {"none", "big"} /\ t # Synthesis
Ended(c) == {t \in Active(c) : c.active[t].st = "completed"}
FailsFast(c) == c.failed # {} /\ strategy = "fail_fast"
SummingUp(c) == c.stage \in {"synthesizing", "completed"}

LoadFails ==
  /\ Main("load")
  /\ \/ store # None /\ (~Loadable(store) \/ FailsFast(store)
                         \/ (~SummingUp(store) /\ CutOff(store)))
        /\ UNCHANGED bounds
     \/ Fault
  /\ GiveUp
  /\ UNCHANGED <<disk, w, seq, threads, history>>

Recovered(c) ==
  IF SummingUp(c) THEN {} ELSE Ended(c)
Dropping_Mutant(active, S) == active                    \* keeps them active
Dropping(active, S) == [t \in Work |-> IF t \in S THEN Inactive ELSE active[t]]
Load ==
  /\ Main("load") /\ store # None
  /\ Loadable(store) /\ ~FailsFast(store)
  /\ SummingUp(store) \/ ~CutOff(store)
  /\ LET S == Recovered(store) IN
     /\ w' = [store EXCEPT !.done = @ \cup S]
     /\ seq' = store.seq
     /\ Then(IF S = {} THEN <<>>
             ELSE Append(Events("task.completed", S),
                         Save("executing", Dropping(store.active, S))),
             IF SummingUp(store) THEN "sum" ELSE "loop")
  /\ UNCHANGED <<disk, threads, history, bounds>>

(* _create_team_plan and parse_supervisor_plan *)
Plan ==
  /\ Main("plan")
  /\ \E p \in Plans :
       \/ /\ Accepted(p)
          /\ w' = [w EXCEPT !.plan = p]
          /\ Then(<<Event("plan.created", 0), Save("executing", Nobody)>>, "loop")
       \/ /\ ~Accepted(p)
          /\ GiveUp /\ UNCHANGED w
  /\ UNCHANGED <<disk, seq, threads, history, bounds>>

-----------------------------------------------------------------------------
(* The main thread: one round of the task queue *)

Block ==
  /\ Main("loop") /\ Blocked(w) # {}
  /\ w' = [w EXCEPT !.failed = @ \cup Blocked(w)]
  /\ Then(Append(Events("task.failed", Blocked(w)), Save("executing", Nobody)),
          IF strategy = "fail_fast" THEN "fail" ELSE "loop")
  /\ dropped' = dropped \cup Active(w)
  /\ UNCHANGED <<disk, seq, threads, fresh, straggled, bounds>>

(* The tasks a resumed run was working on, or the next ones. *)
Batch(c) == IF Active(c) # {} THEN Active(c) \ Settled(c) ELSE ReadyTasks(c)
Running(c, S) ==
  [t \in Work |-> IF t \in S THEN [st |-> "running", rt |-> c.active[t].rt] ELSE Inactive]

BeginBatch ==
  /\ Main("loop") /\ Blocked(w) = {} /\ Batch(w) # {}
  /\ LET S == Batch(w) IN
     /\ w' = [w EXCEPT !.started = @ \cup S]
     /\ Then(Append(Events("task.started", S \ w.started), Save("executing", Running(w, S))),
             "launch")
  /\ UNCHANGED <<disk, seq, threads, history, bounds>>

(* Everything is settled, or the queue is stalled. *)
QueueEnds ==
  /\ Main("loop") /\ Blocked(w) = {} /\ Batch(w) = {}
  /\ IF Settled(w) = Tasks THEN Then(<<>>, "sum") ELSE GiveUp
  /\ UNCHANGED <<disk, w, seq, threads, history, bounds>>

(* Capabilities are registered and the threads started: one for each task of the
   batch, or one for the supervisor. *)
StartThreads(S) ==
  /\ th' = [t \in Work |-> IF t \in S THEN "running" ELSE "none"]
  /\ out' = [t \in Work |-> "none"]
  /\ saving' = None /\ stopped' = FALSE /\ results' = None
  /\ fresh' = [t \in Work |-> IF t \in S /\ w.active[t].rt = "none" THEN fresh[t] + 1
                              ELSE fresh[t]]
  /\ UNCHANGED <<dropped, straggled>>
Launch ==
  /\ Main("launch") /\ run = "running"
  /\ StartThreads(Active(w))
  /\ Then(<<>>, IF w.stage = "synthesizing" THEN "wait" ELSE "poll")
  /\ UNCHANGED <<disk, w, seq, bounds>>

LaunchFails ==
  /\ Main("launch")
  /\ (run # "running" /\ UNCHANGED bounds) \/ Fault
  /\ GiveUp
  /\ UNCHANGED <<disk, w, seq, threads, history>>

-----------------------------------------------------------------------------
(* A member thread, or the supervisor's *)

MemberFails(t) ==
  /\ th[t] = "running"
  /\ th' = [th EXCEPT ![t] = "done"] /\ out' = [out EXCEPT ![t] = "error"]
  /\ UNCHANGED <<disk, pc, w, seq, todo, saving, stopped, results, history, bounds>>

(* The graph ended or was interrupted.  An interruption is a tool call that the
   gateway answered after it had committed the run as waiting; the run is active
   again at once only if it was approved that early.  After the end of the batch
   the state is not saved any more. *)
MemberEnds(t, o) ==
  /\ th[t] = "running"
  /\ o = "big" => t # Synthesis
  /\ o = "pause" => run = "running"
  /\ run' = run \/ (o = "pause" /\ run' = "waiting_approval")
  /\ out' = [out EXCEPT ![t] = o]
  /\ \/ stopped /\ th' = [th EXCEPT ![t] = "done"] /\ UNCHANGED saving
     \/ /\ ~stopped /\ saving = None
        /\ th' = [th EXCEPT ![t] = "locked"]
        /\ saving' = [task |-> t, state |-> None]
  /\ UNCHANGED <<log, store, reported, pc, w, seq, todo, stopped, results, history, bounds>>

Graph_Mutant(o) == [st |-> o, rt |-> o]                 \* no status of its own
Graph(o) == IF o = "pause" THEN [st |-> "interrupted", rt |-> "paused"]
            ELSE [st |-> "completed", rt |-> o]
(* While the main thread polls, and after it has timed out, it leaves alone what
   a member reads here: the members' states, completed, failed and the number of
   the last event. *)
MemberComputes(t) ==
  /\ ~Racing /\ th[t] = "locked"
  /\ saving' = [task |-> t,
                state |-> [w EXCEPT !.active[t] = Graph(out[t]), !.rev = NextRev(w),
                                    !.seq = seq]]
  /\ th' = [th EXCEPT ![t] = "saving"]
  /\ UNCHANGED <<disk, pc, w, seq, todo, out, stopped, results, history, bounds>>

(* The state of the main thread is replaced by the saved one. *)
MemberSaves(t) ==
  LET c == saving.state IN
  /\ ~Racing /\ th[t] = "saving"
  /\ th' = [th EXCEPT ![t] = "done"] /\ saving' = None
  /\ \/ /\ run = "running" /\ TakesCheckpoint(c)
        /\ w' = [w EXCEPT !.active = c.active, !.rev = c.rev]
        /\ UNCHANGED <<out, bounds>>
     \/ /\ run # "running" \/ Conflicts(c)
        /\ out' = [out EXCEPT ![t] = "error"]
        /\ UNCHANGED <<store, w, bounds>>
     \/ /\ run = "running" /\ Fault
        /\ TakesCheckpoint(c) \/ UNCHANGED store
        /\ out' = [out EXCEPT ![t] = "error"] /\ UNCHANGED w
  /\ UNCHANGED <<run, log, reported, pc, seq, todo, stopped, results, history>>

-----------------------------------------------------------------------------
(* The main thread: the end of a batch *)

Over(t) == th[t] = "done"
Interrupted_Mutant(c, S) ==
  [t \in Work |-> IF t \in S THEN [Inactive EXCEPT !.st = "interrupted"] ELSE Inactive]
Interrupted(c, S) ==
  [t \in Work |-> IF t \in S THEN [c.active[t] EXCEPT !.st = "interrupted"] ELSE Inactive]

Failing(S) == {t \in S : out[t] \in {"error", "big"}}
Completing(S) == {t \in S : out[t] = "ok"}
Asking(S) == {t \in S : out[t] = "pause"}
(* The events for the outcomes of some members, by position. *)
Verdicts(S) ==
  LET T == Failing(S) \cup Completing(S) IN
  [i \in 1..Cardinality(T) |->
     LET t == Order(T)[i] IN
     Event(IF t \in Failing(S) THEN "task.failed" ELSE "task.completed", t)]

(* All members have ended: nobody looks while their outcomes are recorded one
   after the other. *)
Join(S) ==
  /\ w' = [w EXCEPT !.done = @ \cup Completing(S), !.failed = @ \cup Failing(S)]
  /\ IF Failing(S) # {} /\ strategy = "fail_fast"
       THEN Then(Append(Verdicts(S), Save("executing", Nobody)), "fail")
     ELSE IF Asking(S) # {}
       THEN Then(Append(Verdicts(S) \o Events("approval.required", Asking(S)),
                        Save("waiting_approval", Interrupted(w, Asking(S)))), "pause")
     ELSE Then(Append(Verdicts(S), Save("executing", Nobody)), "loop")

JoinAll ==
  /\ Main("poll")
  /\ \A t \in Active(w) : Over(t)
  /\ strategy = "fail_fast" => \A t \in Active(w) : out[t] # "error"
  /\ Join(Active(w))
  /\ th' = [t \in Work |-> "none"] /\ out' = [t \in Work |-> "none"]
  /\ UNCHANGED <<disk, seq, saving, stopped, results, history, bounds>>

-----------------------------------------------------------------------------
(* The main thread: a batch that is ended by a failure *)

(* The first failure that is seen ends the batch; what else is going on is not
   looked at any more.  A member that is at state_lock goes on, so the outcomes
   are recorded, counted and told step by step. *)
JoinFirstFailure ==
  /\ Main("poll") /\ strategy = "fail_fast"
  /\ \E t \in Active(w) : \E S \in SUBSET {u \in Active(w) : Over(u) /\ out[u] # "error"} :
       /\ Over(t) /\ out[t] = "error"
       /\ Then(Append(Verdicts(S \cup {t}), Save("executing", Nobody)), "fail")
  /\ stopped' = TRUE
  /\ results' = [done |-> w.done, failed |-> w.failed, next |-> "record"]
  /\ UNCHANGED <<disk, w, seq, th, out, saving, history, bounds>>

At(step) == Racing /\ results.next = step
Recorded(e) ==
  [results EXCEPT !.done = IF e.kind = "task.completed" THEN @ \cup {e.task} ELSE @,
                  !.failed = IF e.kind = "task.failed" THEN @ \cup {e.task} ELSE @]

RecordOutcome ==
  /\ At("record") /\ NextCall("event")
  /\ results' = [Recorded(Head(todo)) EXCEPT !.next = "count"]
  /\ UNCHANGED <<disk, pc, w, seq, todo, th, out, saving, stopped, history, bounds>>

CountOutcome ==
  /\ At("count")
  /\ seq' = seq + 1
  /\ results' = [results EXCEPT !.next = "call"]
  /\ UNCHANGED <<disk, pc, w, todo, th, out, saving, stopped, history, bounds>>

TellOutcome ==
  /\ At("call") /\ NextCall("event")
  /\ AppendEvent(seq)
  /\ results' = [results EXCEPT !.next = "record"]
  /\ UNCHANGED <<run, store, reported, w, seq, th, out, saving, stopped, history>>

(* The last save: the state is set, then read again and sent.  Between the two a
   member may set it. *)
SetState ==
  /\ At("record") /\ NextCall("save")
  /\ w' = [w EXCEPT !.stage = "executing", !.active = Head(todo).active,
                    !.done = results.done, !.failed = results.failed]
  /\ results' = [results EXCEPT !.next = "call"]
  /\ UNCHANGED <<disk, pc, seq, todo, th, out, saving, stopped, history, bounds>>

(* The gateway takes checkpoint c, or not, of a batch that a failure has ended. *)
TakesLate(c) ==
  /\ TakesCheckpoint(c)
  /\ straggled' = (straggled \/ c.failed = {})
SendState ==
  /\ At("call") /\ NextCall("save")
  /\ LET c == [w EXCEPT !.rev = NextRev(w), !.seq = seq] IN
     \/ run = "running" /\ TakesLate(c) /\ UNCHANGED bounds
     \/ (run # "running" \/ Conflicts(c)) /\ UNCHANGED <<store, straggled, bounds>>
     \/ run = "running" /\ Fault /\ (TakesLate(c) \/ UNCHANGED <<store, straggled>>)
  /\ GiveUp
  /\ UNCHANGED <<run, log, reported, w, seq, threads, fresh, dropped>>

-----------------------------------------------------------------------------
(* A member that was at state_lock when a failure ended the batch *)

(* It makes up the state to save from the members' states, then completed, then
   failed, and replaces the state of the main thread. *)
StragglerReads(t) ==
  /\ Racing /\ th[t] = "locked"
  /\ LET active == IF t \in Active(w) THEN [w.active EXCEPT ![t] = Graph(out[t])] ELSE w.active
     IN saving' = [task |-> t, state |-> [w EXCEPT !.active = active, !.done = results.done]]
  /\ th' = [th EXCEPT ![t] = "reading"]
  /\ UNCHANGED <<disk, pc, w, seq, todo, out, stopped, results, history, bounds>>

StragglerReadsFailed(t) ==
  /\ th[t] = "reading"
  /\ saving' = [saving EXCEPT !.state.failed = results.failed]
  /\ th' = [th EXCEPT ![t] = "read"]
  /\ UNCHANGED <<disk, pc, w, seq, todo, out, stopped, results, history, bounds>>

StragglerSets(t) ==
  /\ th[t] = "read"
  /\ w' = saving.state
  /\ th' = [th EXCEPT ![t] = "set"]
  /\ UNCHANGED <<disk, pc, seq, todo, out, saving, stopped, results, history, bounds>>

(* It reads the state again, which the main thread may have set, and the number
   of the last event. *)
StragglerCounts(t) ==
  /\ th[t] = "set"
  /\ saving' = [saving EXCEPT !.state = [w EXCEPT !.rev = NextRev(w), !.seq = seq]]
  /\ th' = [th EXCEPT ![t] = "saving"]
  /\ UNCHANGED <<disk, pc, w, seq, todo, out, stopped, results, history, bounds>>

StragglerSaves(t) ==
  LET c == saving.state
      Lost == th' = [th EXCEPT ![t] = "done"] /\ out' = [out EXCEPT ![t] = "error"]
              /\ saving' = None
  IN
  /\ Racing /\ th[t] = "saving"
  /\ \/ /\ run = "running" /\ TakesLate(c)
        /\ th' = [th EXCEPT ![t] = "saved"]
        /\ UNCHANGED <<out, saving, bounds>>
     \/ (run # "running" \/ Conflicts(c)) /\ Lost /\ UNCHANGED <<store, straggled, bounds>>
     \/ run = "running" /\ Fault /\ (TakesLate(c) \/ UNCHANGED <<store, straggled>>) /\ Lost
  /\ UNCHANGED <<run, log, reported, pc, w, seq, todo, stopped, results, fresh, dropped>>

StragglerReturns(t) ==
  /\ th[t] = "saved"
  /\ w' = saving.state
  /\ th' = [th EXCEPT ![t] = "done"] /\ saving' = None
  /\ UNCHANGED <<disk, pc, seq, todo, out, stopped, results, history, bounds>>

-----------------------------------------------------------------------------
(* The main thread: summing up and the final report *)

Summary == [Nobody EXCEPT ![Synthesis] = [st |-> "running", rt |-> "none"]]
SumUp ==
  /\ Main("sum")
  /\ IF w.stage = "completed" THEN Then(<<>>, "complete")
     ELSE IF w.stage = "synthesizing" THEN Then(<<>>, "launch")
     ELSE Then(<<Event("synthesis.started", 0), Save("synthesizing", Summary)>>, "launch")
  /\ UNCHANGED <<disk, w, seq, threads, history, bounds>>

Partial_Mutant(c) == FALSE
Partial(c) == c.failed # {}
SummedUp ==
  /\ Main("wait") /\ Over(Synthesis)
  /\ CASE out[Synthesis] = "ok" ->
            /\ w' = [w EXCEPT !.partial = Partial(w)]
            /\ Then(<<Event("synthesis.completed", 0), Event("runner.completed", 0),
                      Save("completed", Nobody)>>, "complete")
       [] out[Synthesis] = "pause" ->
            /\ Then(<<Event("approval.required", Synthesis),
                      Save("synthesizing", Interrupted(w, {Synthesis}))>>, "pause")
            /\ UNCHANGED w
       [] OTHER -> GiveUp /\ UNCHANGED w
  /\ th' = [t \in Work |-> "none"] /\ out' = [t \in Work |-> "none"]
  /\ UNCHANGED <<disk, seq, saving, stopped, results, history, bounds>>

Complete ==
  /\ Main("complete")
  /\ \/ run = "running" /\ run' = "completed" /\ Exit("down")
     \/ /\ run # "running"
        /\ GiveUp /\ UNCHANGED <<run, w, seq, threads>>
  /\ UNCHANGED <<log, store, reported, history, bounds>>

Going == run \in {"running", "waiting_approval"}
(* The report of an interruption goes under one key: a second one is a
   conflict, which ends the worker. *)
ReportPause ==
  /\ Main("pause")
  /\ \/ Going /\ ~reported /\ run' = "waiting_approval" /\ reported' = TRUE /\ UNCHANGED bounds
     \/ (~Going \/ reported) /\ UNCHANGED <<run, reported, bounds>>
     \/ Going /\ Fault /\ UNCHANGED <<run, reported>>
  /\ Exit("down")
  /\ UNCHANGED <<log, store, history>>

(* _ensure_team_deadline, wherever the main thread looks, and the wait for the
   threads. *)
TimeOut ==
  /\ pc \in {"plan", "sum", "complete", "poll", "wait"} \/ (pc = "loop" /\ Blocked(w) = {})
  /\ todo = <<>>
  /\ stopped' = (stopped \/ pc \in {"poll", "wait"})
  /\ GiveUp
  /\ UNCHANGED <<disk, w, seq, th, out, saving, results, history, bounds>>

(* _fail: the report may not get through. *)
Fail ==
  /\ Main("fail")
  /\ \/ Going /\ run' = "failed" /\ UNCHANGED bounds /\ Exit("down")
     \/ ~Going /\ UNCHANGED <<run, bounds>> /\ Exit("down")
     \/ Going /\ Fault /\ run' \in {run, "failed"} /\ Exit("dead")
  /\ UNCHANGED <<log, store, reported, history>>

-----------------------------------------------------------------------------
(* The rest of the platform *)

Crash ==
  /\ Up /\ Fault
  /\ Exit("dead")
  /\ UNCHANGED <<disk, history>>

(* The worker is started again: after an approval, or after it died. *)
Restart ==
  /\ \/ pc \in {"down", "dead"} /\ run = "waiting_approval"
     \/ pc = "dead" /\ run = "running"
  /\ run' = "running"
  /\ pc' = "load"
  /\ UNCHANGED <<log, store, reported, w, seq, todo, threads, history, bounds>>

(* The run is cancelled; for the worker it is the same if the coordinator gives
   it up. *)
End ==
  /\ Going
  /\ run' = "cancelled"
  /\ UNCHANGED <<log, store, reported, pc, w, seq, todo, threads, history, bounds>>

-----------------------------------------------------------------------------

MainStep ==
  \/ SendEvent \/ SaveState
  \/ LoadNothing \/ LoadFails \/ Load \/ Plan
  \/ Block \/ BeginBatch \/ QueueEnds \/ Launch \/ LaunchFails
  \/ JoinAll
  \/ JoinFirstFailure \/ RecordOutcome \/ CountOutcome \/ TellOutcome \/ SetState \/ SendState
  \/ SumUp \/ SummedUp \/ Complete \/ ReportPause \/ TimeOut \/ Fail

MemberStep(t) ==
  \/ MemberFails(t) \/ MemberComputes(t) \/ MemberSaves(t)
  \/ StragglerReads(t) \/ StragglerReadsFailed(t) \/ StragglerSets(t)
  \/ StragglerCounts(t) \/ StragglerSaves(t) \/ StragglerReturns(t)
  \/ \E o \in {"ok", "big", "pause"} : MemberEnds(t, o)

Next ==
  \/ MainStep
  \/ \E t \in Work : MemberStep(t)
  \/ Crash \/ Restart \/ End

Spec == Init /\ [][Next]_vars

-----------------------------------------------------------------------------
(* Properties *)

States == [stage : Stages \cup {"none"}, plan : Plans \cup {None}, started : SUBSET Tasks,
           done : SUBSET Tasks, failed : SUBSET Tasks,
           active : [Work -> Invocations \cup {Inactive}], rev : Nat, seq : Nat,
           partial : BOOLEAN]
(* None is no checkpoint, nothing that is about to be saved, no batch that is
   settled. *)
ASSUME NoneAssumption ==
  /\ None \notin States /\ None \notin [task : Work, state : States \cup {None}]
  /\ None \notin [done : SUBSET Tasks, failed : SUBSET Tasks, next : {"record", "count", "call"}]

TypeOK ==
  /\ run \in {"running", "waiting_approval", "completed", "failed", "cancelled"}
  /\ store # None => store \in States
  /\ w \in States /\ seq \in Nat
  /\ th \in [Work -> {"none", "running", "locked", "reading", "read", "set", "saving", "saved",
                       "done"}]
  /\ out \in [Work -> Outcomes]
  /\ \A t \in Work : th[t] = "saving" => saving.state \in States

(* What the checkpoints of a run say of its tasks is a task board: the saves of
   a run, by whatever thread and after whatever restart, show it moving on. *)
St(t) == IF store = None THEN "todo"
         ELSE IF t \in store.done THEN "done"
         ELSE IF t \in store.failed THEN "failed"
         ELSE IF t \in Active(store) THEN "running" ELSE "todo"
Board == INSTANCE TaskBoard WITH
  plan <- IF store = None THEN None ELSE store.plan,
  st <- [t \in Tasks |-> St(t)],
  phase <- IF store = None THEN "planning"
           ELSE IF store.stage \in {"synthesizing", "completed"} THEN store.stage
           ELSE "executing",
  NoPlan <- None
ImplementsBoard == Board!Spec

(* A plan that was accepted never leaves the scheduler with unsettled tasks and
   none it can begin (validate_team_plan, "task queue stalled"). *)
NeverStalls ==
  Main("loop") => Blocked(w) # {} \/ Batch(w) # {} \/ Settled(w) = Tasks

Told(kind, n) == {t \in Work : \E i \in 1..n : log[i] = Event(kind, t)}
(* The events a user has seen agree with the checkpoint the run is taken up
   from: what it settled was announced in exactly the events it counts, and
   nothing is announced twice or both as completed and as failed.  Not so once a
   straggler's checkpoint was stored that misses the failure of its batch: it may
   count that failure's event, or one that is stored later or never. *)
EventsAgree ==
  ~straggled =>
    /\ store # None /\ ~FailsFast(store) =>
         /\ store.seq <= Len(log)
         /\ Told("task.completed", store.seq) = store.done
         /\ Told("task.failed", store.seq) = store.failed
         /\ Told("task.started", store.seq) = store.started
    /\ Told("task.completed", Len(log)) \cap Told("task.failed", Len(log)) = {}
    /\ \A i, j \in 1..Len(log) : log[i] = log[j] /\ log[i].kind # "approval.required" => i = j

(* Whatever was saved last, by whatever thread, can be loaded again, unless the
   run is about to fail anyway (_save_team_state, _load_team_state), or a
   straggler saved a completed task that is still active to it, without the
   failure that ended the batch. *)
CheckpointIsLoadable ==
  ~straggled /\ store # None /\ ~FailsFast(store) => Loadable(store)

(* A run that waits for an approval can be taken up: its checkpoint has the
   graph of every interrupted task. *)
Resumable ==
  run = "waiting_approval" /\ pc = "down" =>
    /\ store # None /\ Loadable(store) /\ ~FailsFast(store)
    /\ Active(store) # {}
    /\ \A t \in Active(store) : store.active[t] = [st |-> "interrupted", rt |-> "paused"]

(* A completed run admits its failures: the final answer says that it is partial
   exactly if some task of the plan was announced as failed.  A straggler's checkpoint may
   have forgotten a failure. *)
AnswerIsHonest ==
  ~straggled /\ run = "completed" =>
    store.stage = "completed"
    /\ (store.partial <=> Told("task.failed", Len(log)) \cap Tasks # {})

(* No task is begun from scratch twice, whatever dies or is interrupted: a task
   that was begun is continued from its graph or not at all, except a task whose
   interrupted invocation was itself dropped when the dependents of a failed task
   were failed (_recover_completed_invocations, and the save after
   _blocked_team_tasks). *)
ReplayedOnlyIfDropped == \A t \in Tasks : fresh[t] > 1 => t \in dropped

(* "The runtime does not automatically replay a member step after an uncertain
   side effect" (the design of the team foundation): no member is run again from
   the start. *)
NeverReplayed == \A t \in Tasks : fresh[t] <= 1
=============================================================================
