---------------------------- MODULE RunnerGateway ----------------------------
(***************************************************************************)
(* The Runner Gateway as the workers of one team run see it: models,       *)
(* direct tool calls, artifacts, events, checkpoints and the final report, *)
(* served by several HTTP threads at once, under idempotency keys.         *)
(*                                                                         *)
(* A worker sends what it likes, repeats it, and sends it again after a    *)
(* restart; it need not wait for an answer.  A request that is refused     *)
(* before it changes anything is not a step.  All handlers lock the row of *)
(* the run, so a transaction is one step, except complete, whose deadline  *)
(* checks are spread over it: lock holds the row between its two steps.    *)
(* What calls another process is split at the call.                        *)
(*                                                                         *)
(* How approvals and the coordinator move the run is SandboxRun's subject; *)
(* here they are the actions Decide and End.  Scripts are there as well.   *)
(*                                                                         *)
(* Operators whose name ends in _Mutant are seeded faults; no other        *)
(* definition uses them.                                                   *)
(***************************************************************************)
EXTENDS Naturals, Sequences, FiniteSets

CONSTANTS
  Threads,      \* HTTP threads of the API process
  Keys,         \* idempotency keys
  Slots,        \* the operations, each with the keys it is sent under
  Prompts,      \* contents of model requests
  Calls,        \* tool call ids, each with its tool and arguments
  Asked,        \* those of tools that need an approval
  Paths,        \* artifact paths
  Branches,     \* invocations of team members
  Reports,      \* what a worker may report: a subset of Target's domain
  None,         \* no entry, no thread
  MaxRequests,  \* bound on requests that are taken in
  MaxFaults     \* bound on outages of a database or object store and on restarts

VARIABLES
  run,        \* AgentRun.status
  late,       \* the execution deadline of the team has passed
  log,        \* RunnerRequestStore: the stored request of each slot
  answers,    \* what the handlers answered, for each slot
  inv,        \* ToolInvocation of each call: its status and who ran it
  effects,    \* how often the tool of each call was run
  audits,     \* records of the audit trail
  events,     \* the worker's events among RunEvent, in platform order
  cp,         \* the latest checkpoint
  caps,       \* branches with a registered artifact capability
  rows,       \* ArtifactRecord of each upload, None before it exists
  objects,    \* uploads whose object is in the store
  job,        \* what each thread is doing
  lock,       \* the thread that holds the row lock between two steps
  sent, faults

state == <<run, late, inv, effects, audits, events, cp, caps>>
requests == <<log, answers>>
files == <<rows, objects>>
vars == <<state, requests, files, job, lock, sent, faults>>

Terminal == {"completed", "failed", "cancelled"}
RunStatus == {"running", "waiting_approval"} \cup Terminal
InvStatus == {"none", "started", "waiting_approval", "completed", "failed"}
Checkpoint(k, S) == [key |-> k, active |-> S]
Checkpoints == [key : {"team-scheduler"}, active : SUBSET Branches]
                 \cup [key : {"approval"}, active : {{}}]
NoCheckpoint == Checkpoint("none", {})

Ops == {"model.invoke", "tool.invoke", "artifact.create", "event.append",
        "checkpoint.write", "result.complete"}
ASSUME SlotAssumption == Slots \subseteq [op : Ops, key : Keys]
(* What the digest of a request in this slot tells apart. *)
Bodies == [s \in Slots |->
  CASE s.op = "model.invoke" -> Prompts
    [] s.op = "tool.invoke" -> Calls
    [] s.op = "artifact.create" -> Paths
    [] s.op = "event.append" -> 1..MaxRequests
    [] s.op = "checkpoint.write" -> Checkpoints
    [] s.op = "result.complete" -> Reports]
Pending == 0
Entry(b, n) == [body |-> b, resp |-> n]
Ids == 1..MaxRequests      \* a request is numbered when it is taken in
Resumed == MaxRequests + 1 \* stands for execute_approved, as who ran a tool
Answers == Ids \cup {Resumed}

ArtifactRows == [path : Paths, by : {"worker", "user"}, st : {"active", "deleted"}]

ASSUME ConstantAssumption ==
  /\ Asked \subseteq Calls
  /\ Reports \subseteq Terminal \cup {"interrupted"}
  /\ None \notin Threads
  /\ \A s \in Slots : None \notin [body : Bodies[s], resp : Nat]
  /\ None \notin ArtifactRows
  /\ MaxRequests \in Nat /\ MaxFaults \in Nat

Saving == {"save", "saveAgain", "saveBare"}
Steps == {"idle", "model", "run", "store", "put", "row", "undo", "userRow", "userDelete",
          "commit"} \cup Saving
Idle == [at |-> "idle", slot |-> None, body |-> None, id |-> 0, out |-> "none"]
Job(p, s, b) == [at |-> p, slot |-> s, body |-> b, id |-> sent + 1, out |-> "none"]

Init ==
  /\ run = "running" /\ late = FALSE
  /\ log = [s \in Slots |-> None]
  /\ answers = [s \in Slots |-> {}]
  /\ inv = [c \in Calls |-> [st |-> "none", by |-> 0]]
  /\ effects = [c \in Calls |-> 0]
  /\ audits = {} /\ events = <<>>
  /\ cp = NoCheckpoint /\ caps = {}
  /\ rows = [n \in Ids |-> None] /\ objects = {}
  /\ job = [t \in Threads |-> Idle] /\ lock = None
  /\ sent = 0 /\ faults = 0

-----------------------------------------------------------------------------
(* Helpers *)

At(t, p) == job[t].at = p
Free(t) == At(t, "idle") /\ lock = None
Fault == faults < MaxFaults /\ faults' = faults + 1

(* The thread takes a request in, goes on to its next step, or is done. *)
Take(t, p, s, b) ==
  /\ sent < MaxRequests /\ sent' = sent + 1
  /\ job' = [job EXCEPT ![t] = Job(p, s, b)]
Go(t, p) == job' = [job EXCEPT ![t].at = p] /\ UNCHANGED sent
Done(t) == job' = [job EXCEPT ![t] = Idle] /\ UNCHANGED sent

(* _lock_run, _replay_or_conflict, _require_active_run: a new request of an
   active run. *)
Opens(t, s) == Free(t) /\ run = "running" /\ log[s] = None

Put(s, b, n) == log' = [log EXCEPT ![s] = Entry(b, n)]
Answer(s, b, n) == answers' = [answers EXCEPT ![s] = @ \cup {Entry(b, n)}]

(* A handler of one transaction: the request is stored and answered in it. *)
Serve(s, b) ==
  /\ sent < MaxRequests /\ sent' = sent + 1
  /\ Put(s, b, sent + 1) /\ Answer(s, b, sent + 1)
  /\ UNCHANGED job

(* _replay_or_conflict finds the same request answered; an artifact's
   provenance is checked before. *)
Active(b) == cp.key = "team-scheduler" /\ b \in cp.active
Provenance(b) == Active(b) /\ b \in caps

Known_Mutant(s, b) == log[s] # None     \* forgets the digest
Known(s, b) == log[s] # None /\ log[s].body = b
Replay(t, s, b) ==
  /\ Free(t)
  /\ Known(s, b) /\ log[s].resp # Pending
  /\ s.op = "artifact.create" => \E m \in Branches : Provenance(m)
  /\ Answer(s, b, log[s].resp)
  /\ UNCHANGED <<state, log, files, job, lock, sent, faults>>

-----------------------------------------------------------------------------
(* invoke_model: the key is reserved, the model called without the lock, the
   answer stored if the run is still active. *)

ModelReserve(t, s, b) ==
  /\ s.op = "model.invoke"
  /\ Opens(t, s)
  /\ Take(t, "model", s, b)
  /\ Put(s, b, Pending)
  /\ UNCHANGED <<state, answers, files, lock, faults>>

MayAnswer_Mutant(t) == log[job[t].slot] = Entry(job[t].body, Pending)   \* no second look at the run
MayAnswer(t) == run = "running" /\ log[job[t].slot] = Entry(job[t].body, Pending)
ModelAnswered(t) ==
  LET j == job[t] IN
  /\ At(t, "model") /\ lock = None
  /\ MayAnswer(t)
  /\ Put(j.slot, j.body, j.id) /\ Answer(j.slot, j.body, j.id)
  /\ audits' = audits \cup {<<"llm", j.slot.key, "succeeded">>}
  /\ Done(t)
  /\ UNCHANGED <<run, late, inv, effects, events, cp, caps, files, lock, faults>>

(* The model call failed: the key is free again. *)
Release_Mutant(s) == log                                \* keeps the reservation
Release(s) == [log EXCEPT ![s] = None]
ModelFailed(t) ==
  LET j == job[t] IN
  /\ At(t, "model") /\ lock = None
  /\ run = "running" /\ log[j.slot] = Entry(j.body, Pending)
  /\ log' = Release(j.slot)
  /\ audits' = audits \cup {<<"llm", j.slot.key, "failed">>}
  /\ Done(t)
  /\ UNCHANGED <<run, late, inv, effects, events, cp, caps, answers, files, lock, faults>>

(* The run is no longer active, or the result could not be written: what the
   model answered is dropped and the reservation stays. *)
ModelDropped(t) ==
  /\ At(t, "model") /\ lock = None
  /\ (run # "running" /\ UNCHANGED faults) \/ Fault
  /\ Done(t)
  /\ UNCHANGED <<state, requests, files, lock>>

-----------------------------------------------------------------------------
(* invoke_tool and ToolGateway.execute *)

(* The insert of the invocation: its call id is unique in the run. *)
NewCall_Mutant(c) == inv[c].st \in {"none", "failed"}   \* runs a failed call again
NewCall(c) == inv[c].st = "none"
ToolStart(t, s, c) ==
  /\ s.op = "tool.invoke"
  /\ Opens(t, s)
  /\ c \notin Asked /\ NewCall(c)
  /\ Take(t, "run", s, c)
  /\ inv' = [inv EXCEPT ![c] = [st |-> "started", by |-> sent + 1]]
  /\ audits' = audits \cup {<<"tool", c, "started">>}
  /\ UNCHANGED <<run, late, effects, events, cp, caps, requests, files, lock, faults>>

(* _pause_for_approval: other branches' requests go on in the meantime. *)
ToolPause(t, s, c) ==
  /\ s.op = "tool.invoke"
  /\ Opens(t, s)
  /\ c \in Asked /\ NewCall(c)
  /\ inv' = [inv EXCEPT ![c].st = "waiting_approval"]
  /\ run' = "waiting_approval"
  /\ UNCHANGED <<late, effects, audits, events, cp, caps, requests, files, job, lock, sent,
                 faults>>

(* The resumed worker asks again for a call that was approved and performed. *)
ToolResumed(t, s, c) ==
  /\ s.op = "tool.invoke"
  /\ Opens(t, s)
  /\ c \in Asked /\ inv[c].st = "completed"
  /\ Put(s, c, inv[c].by) /\ Answer(s, c, inv[c].by)
  /\ UNCHANGED <<state, files, job, lock, sent, faults>>

ToolRun(t) ==
  LET c == job[t].body IN
  /\ At(t, "run")
  /\ effects' = [effects EXCEPT ![c] = @ + 1]
  /\ \E o \in {"completed", "failed"} :
       job' = [job EXCEPT ![t].at = "save", ![t].out = o]
  /\ UNCHANGED <<run, late, inv, audits, events, cp, caps, requests, files, lock, sent, faults>>

(* _persist_terminal: the run is active, and a result is in time. *)
InTime_Mutant(out) == TRUE                              \* forgets the guard of the commit
InTime(out) == out = "completed" => ~late
MaySave(t) == run = "running" /\ InTime(job[t].out)
Outcome(t) == inv' = [inv EXCEPT ![job[t].body].st = job[t].out]

AfterSave(t) == IF job[t].out = "completed" THEN Go(t, "store") ELSE Done(t)
ToolSave(t) ==
  /\ job[t].at \in {"save", "saveAgain"} /\ lock = None
  /\ MaySave(t)
  /\ Outcome(t)
  /\ audits' = audits \cup {<<"tool", job[t].body, job[t].out>>}
  /\ AfterSave(t)
  /\ UNCHANGED <<run, late, effects, events, cp, caps, requests, files, lock, faults>>

(* The last attempt of _compensate_failed_completion goes without the audit
   record, and the request ends with audit_persistence_failed. *)
AfterBare_Mutant(t) == AfterSave(t)                     \* takes it for a success
AfterBare(t) == Done(t)
ToolSaveBare(t) ==
  /\ At(t, "saveBare") /\ lock = None
  /\ MaySave(t)
  /\ Outcome(t)
  /\ AfterBare(t)
  /\ UNCHANGED <<run, late, effects, audits, events, cp, caps, requests, files, lock, faults>>

(* An outage lasts for one, two or all three attempts. *)
ToolSaveFails(t) ==
  /\ At(t, "save") /\ lock = None
  /\ MaySave(t) /\ Fault
  /\ Go(t, "saveAgain") \/ Go(t, "saveBare") \/ Done(t)
  /\ UNCHANGED <<state, requests, files, lock>>

(* run_not_active and sandbox_timeout are not compensated: the tool has run
   and its invocation stays started. *)
ToolFenced(t) ==
  /\ job[t].at \in Saving /\ lock = None
  /\ ~MaySave(t)
  /\ Done(t)
  /\ UNCHANGED <<state, requests, files, lock, faults>>

(* The second half of invoke_tool.  The invocation is the thread's own, so a
   request stored under the key in the meantime is another one. *)
ToolStore(t) ==
  LET j == job[t] IN
  /\ At(t, "store") /\ lock = None
  /\ \/ /\ run = "running" /\ log[j.slot] = None
        /\ Put(j.slot, j.body, j.id) /\ Answer(j.slot, j.body, j.id)
     \/ /\ run # "running" \/ log[j.slot] # None
        /\ UNCHANGED requests
  /\ Done(t)
  /\ UNCHANGED <<state, files, lock, faults>>

-----------------------------------------------------------------------------
(* append_event, save_checkpoint, register_artifact_capability *)

NextEvent_Mutant == Cardinality({s \in Slots : log[s] # None}) + 1   \* counts every action
NextEvent ==
  Cardinality({s \in Slots : s.op = "event.append" /\ log[s] # None}) + 1
AppendEvent(t, s, n) ==
  /\ s.op = "event.append"
  /\ Opens(t, s)
  /\ n = NextEvent
  /\ events' = Append(events, n)
  /\ Serve(s, n)
  /\ UNCHANGED <<run, late, inv, effects, audits, cp, caps, files, lock, faults>>

SaveCheckpoint(t, s, b) ==
  /\ s.op = "checkpoint.write"
  /\ Opens(t, s)
  /\ cp' = b
  /\ Serve(s, b)
  /\ UNCHANGED <<run, late, inv, effects, audits, events, caps, files, lock, faults>>

RegisterCapability(t, b) ==
  /\ Free(t) /\ run = "running"
  /\ Active(b)
  /\ caps' = caps \cup {b}
  /\ UNCHANGED <<run, late, inv, effects, audits, events, cp, requests, files, job, lock, sent,
                 faults>>

-----------------------------------------------------------------------------
(* create_artifact: the object is uploaded without the lock, the row written
   under it; an upload that cannot be recorded is deleted again. *)

Row(p, w) == [path |-> p, by |-> w, st |-> "active"]
ActiveRow(n) == rows[n] # None /\ rows[n].st = "active"
Taken(p) == \E n \in Ids : ActiveRow(n) /\ rows[n].path = p

ArtifactAdmit(t, s, p) ==
  /\ s.op = "artifact.create"
  /\ Opens(t, s)
  /\ \E m \in Branches : Provenance(m)
  /\ ~Taken(p)                                          \* prepare_for_run
  /\ Take(t, "put", s, p)
  /\ UNCHANGED <<state, requests, files, lock, faults>>

ArtifactPut(t) ==
  /\ At(t, "put")
  /\ objects' = objects \cup {job[t].id}
  /\ Go(t, "row")
  /\ UNCHANGED <<state, requests, rows, lock, faults>>

(* The object store failed before or after it stored the object: the handler
   takes it for not uploaded. *)
ArtifactPutFails(t) ==
  /\ At(t, "put") /\ Fault
  /\ objects' \in {objects, objects \cup {job[t].id}}
  /\ Done(t)
  /\ UNCHANGED <<state, requests, rows, lock>>

StillFree_Mutant(p) == TRUE                             \* trusts the look before the upload
StillFree(p) == ~Taken(p)                               \* persist_prepared
ArtifactRow(t) ==
  LET j == job[t] IN
  /\ At(t, "row") /\ lock = None
  /\ run = "running" /\ log[j.slot] = None
  /\ StillFree(j.body)
  /\ rows' = [rows EXCEPT ![j.id] = Row(j.body, "worker")]
  /\ Put(j.slot, j.body, j.id) /\ Answer(j.slot, j.body, j.id)
  /\ Done(t)
  /\ UNCHANGED <<state, objects, lock, faults>>

(* The same request was served meanwhile by another thread. *)
AfterReplay_Mutant(t) == Done(t)                        \* forgets the second object
AfterReplay(t) == Go(t, "undo")
ArtifactReplay(t) ==
  LET j == job[t] IN
  /\ At(t, "row") /\ lock = None
  /\ Known(j.slot, j.body)
  /\ Answer(j.slot, j.body, log[j.slot].resp)
  /\ AfterReplay(t)
  /\ UNCHANGED <<state, log, files, lock, faults>>

ArtifactRejected(t) ==
  LET j == job[t] IN
  /\ At(t, "row") /\ lock = None
  /\ ~Known(j.slot, j.body)
  /\ \/ (log[j.slot] # None \/ run # "running" \/ ~StillFree(j.body)) /\ UNCHANGED faults
     \/ Fault
  /\ Go(t, "undo")
  /\ UNCHANGED <<state, requests, files, lock>>

(* A failure to delete the object is logged and nothing else. *)
ArtifactUndo(t) ==
  /\ At(t, "undo")
  /\ \/ objects' = objects \ {job[t].id} /\ UNCHANGED faults
     \/ Fault /\ UNCHANGED objects
  /\ Done(t)
  /\ UNCHANGED <<state, requests, rows, lock>>

-----------------------------------------------------------------------------
(* ArtifactService.create and delete, called by users *)

UserUpload(t, p) ==
  /\ At(t, "idle")
  /\ Take(t, "userRow", None, p)
  /\ objects' = objects \cup {sent + 1}
  /\ UNCHANGED <<state, requests, rows, lock, faults>>

UserRow(t) ==
  /\ At(t, "userRow")
  /\ rows' = [rows EXCEPT ![job[t].id] = Row(job[t].body, "user")]
  /\ Done(t)
  /\ UNCHANGED <<state, requests, objects, lock, faults>>

UserDelete(t, n) ==
  /\ At(t, "idle")
  /\ ActiveRow(n)
  /\ objects' = objects \ {n}
  /\ job' = [job EXCEPT ![t] = [Idle EXCEPT !.at = "userDelete", !.id = n]]
  /\ UNCHANGED <<state, requests, rows, lock, sent, faults>>

UserDeleteRow(t) ==
  /\ At(t, "userDelete")
  /\ rows' = [rows EXCEPT ![job[t].id].st = "deleted"]
  /\ Done(t)
  /\ UNCHANGED <<state, requests, objects, lock, faults>>

(* The commit failed after the object store did its part. *)
UserFails(t) ==
  /\ job[t].at \in {"userRow", "userDelete"} /\ Fault
  /\ Done(t)
  /\ UNCHANGED <<state, requests, files, lock>>

-----------------------------------------------------------------------------
(* complete: time passes between its checks and the guarded commit. *)

CompleteBegin(t, s, r) ==
  /\ s.op = "result.complete"
  /\ Free(t) /\ log[s] = None
  /\ run \notin Terminal
  /\ ~(run = "waiting_approval" /\ r = "completed")
  /\ InTime(r)
  /\ lock' = t
  /\ Take(t, "commit", s, r)
  /\ UNCHANGED <<state, requests, files, faults>>

Target_Mutant(r) == r                                   \* stores the report as it is
Target(r) == IF r = "interrupted" THEN "waiting_approval" ELSE r
CompleteCommit(t) ==
  LET j == job[t] IN
  /\ At(t, "commit")
  /\ \/ /\ InTime(j.body)
        /\ run' = Target(j.body)
        /\ Put(j.slot, j.body, j.id) /\ Answer(j.slot, j.body, j.id)
        /\ audits' = IF j.body = "interrupted" THEN audits
                     ELSE audits \cup {<<"run", j.body, "terminal">>}
     \/ ~InTime(j.body) /\ UNCHANGED <<run, audits, requests>>      \* DeadlineCommitExpired
  /\ lock' = None
  /\ Done(t)
  /\ UNCHANGED <<late, inv, effects, events, cp, caps, files, faults>>

-----------------------------------------------------------------------------
(* The rest of the platform *)

(* The coordinator or a cancel ends the run. *)
End ==
  /\ lock = None /\ run \notin Terminal
  /\ run' \in {"failed", "cancelled"}
  /\ UNCHANGED <<late, inv, effects, audits, events, cp, caps, requests, files, job, lock, sent,
                 faults>>

(* An approval, the approved execution and the resume of the run. *)
Decide(c) ==
  /\ lock = None /\ ~late
  /\ run = "waiting_approval" /\ inv[c].st = "waiting_approval"
  /\ inv' = [inv EXCEPT ![c] = [st |-> "completed", by |-> Resumed]]
  /\ effects' = [effects EXCEPT ![c] = @ + 1]
  /\ audits' = audits \cup {<<"tool", c, "completed">>}
  /\ run' = "running"
  /\ UNCHANGED <<late, events, cp, caps, requests, files, job, lock, sent, faults>>

DeadlinePasses ==
  /\ ~late /\ late' = TRUE
  /\ UNCHANGED <<run, inv, effects, audits, events, cp, caps, requests, files, job, lock, sent,
                 faults>>

(* The API process restarts: its threads and their row locks are gone. *)
Restart ==
  /\ Fault
  /\ job' = [t \in Threads |-> Idle] /\ lock' = None
  /\ UNCHANGED <<state, requests, files, sent>>

-----------------------------------------------------------------------------

Request(t, s) ==
  \/ \E b \in Bodies[s] : Replay(t, s, b)
  \/ \E b \in Prompts : ModelReserve(t, s, b)
  \/ \E c \in Calls : ToolStart(t, s, c) \/ ToolPause(t, s, c) \/ ToolResumed(t, s, c)
  \/ \E n \in Ids : AppendEvent(t, s, n)
  \/ \E b \in Checkpoints : SaveCheckpoint(t, s, b)
  \/ \E p \in Paths : ArtifactAdmit(t, s, p)
  \/ \E r \in Reports : CompleteBegin(t, s, r)

Other(t) ==
  \/ \E b \in Branches : RegisterCapability(t, b)
  \/ \E p \in Paths : UserUpload(t, p)
  \/ \E n \in Ids : UserDelete(t, n)

Continue(t) ==
  \/ ModelAnswered(t) \/ ModelFailed(t) \/ ModelDropped(t)
  \/ ToolRun(t) \/ ToolSave(t) \/ ToolSaveBare(t) \/ ToolSaveFails(t) \/ ToolFenced(t)
  \/ ToolStore(t)
  \/ ArtifactPut(t) \/ ArtifactPutFails(t) \/ ArtifactRow(t) \/ ArtifactReplay(t)
  \/ ArtifactRejected(t) \/ ArtifactUndo(t)
  \/ UserRow(t) \/ UserDeleteRow(t) \/ UserFails(t)
  \/ CompleteCommit(t)

Next ==
  \/ \E t \in Threads : Continue(t) \/ Other(t) \/ \E s \in Slots : Request(t, s)
  \/ End \/ DeadlinePasses \/ Restart
  \/ \E c \in Calls : Decide(c)

Spec == Init /\ [][Next]_vars

-----------------------------------------------------------------------------
(* Properties *)

Entries(s) == [body : Bodies[s], resp : {Pending} \cup Answers]
AuditRecords == {<<"llm", k, o>> : k \in Keys, o \in {"succeeded", "failed"}}
  \cup {<<"tool", c, o>> : c \in Calls, o \in {"started", "completed", "failed"}}
  \cup {<<"run", o, "terminal">> : o \in Terminal}

TypeOK ==
  /\ run \in RunStatus /\ late \in BOOLEAN
  /\ \A s \in Slots : log[s] # None => log[s] \in Entries(s)
  /\ \A s \in Slots : answers[s] \subseteq Entries(s)
  /\ inv \in [Calls -> [st : InvStatus, by : {0} \cup Answers]]
  /\ effects \in [Calls -> Nat]
  /\ audits \subseteq AuditRecords
  /\ events \in Seq(Ids)
  /\ cp \in Checkpoints \cup {NoCheckpoint} /\ caps \subseteq Branches
  /\ \A n \in Ids : rows[n] # None => rows[n] \in ArtifactRows
  /\ objects \subseteq Ids
  /\ \A t \in Threads : job[t].at \in Steps /\ job[t].id \in 0..MaxRequests
  /\ lock \in Threads \cup {None}
  /\ sent \in 0..MaxRequests /\ faults \in 0..MaxFaults

(* What the gateway promises the worker about repeated requests, whatever is
   repeated, overtaken by a pause or an end of the run, or cut off by a restart
   (_replay_or_conflict and the reservation of invoke_model). *)
Log == INSTANCE RequestLog
ImplementsLog == Log!Spec

(* The tool of a call runs once, however often it is asked for, and what the
   worker is told is the result of that run (execute, invoke_tool). *)
EffectOnce ==
  \A c \in Calls :
    /\ effects[c] <= 1
    /\ \A s \in Slots : s.op = "tool.invoke" /\ log[s] # None /\ log[s].body = c =>
           effects[c] = 1 /\ inv[c].st = "completed" /\ log[s].resp = inv[c].by

(* What the worker is told of a model or a tool is in the audit trail: a result
   that could only be saved without its record is not given out
   (_compensate_failed_completion, invoke_model). *)
AnsweredIsAudited ==
  \A s \in Slots : \A e \in answers[s] :
    /\ s.op = "model.invoke" => <<"llm", s.key, "succeeded">> \in audits
    /\ s.op = "tool.invoke" => <<"tool", e.body, "completed">> \in audits

(* The worker's events reach the run in the order of the worker's numbers,
   without a gap, through any mixture of other requests (append_event). *)
EventsInOrder == events = [n \in 1..Len(events) |-> n]

(* Two active artifacts of the worker never have the same path, though the
   upload goes on without the lock (prepare_for_run, persist_prepared). *)
OneArtifactPerPath ==
  \A m, n \in Ids :
    /\ ActiveRow(m) /\ rows[m].by = "worker"
    /\ ActiveRow(n) /\ rows[n].by = "worker"
    /\ rows[m].path = rows[n].path
    => m = n

(* When nobody is at work, the object store holds what the rows refer to and
   nothing else, unless a store failed or the process died in between: an
   upload overtaken by a repetition, another artifact or the end of the run
   is taken back (create_artifact). *)
StoresAgree ==
  (\A t \in Threads : At(t, "idle")) /\ faults = 0
    => objects = {n \in Ids : ActiveRow(n)}

(* A team run or a tool call is never recorded as completed after the deadline
   (commit_status_transition_before_deadline). *)
CompletedInTime ==
  [][late => /\ run' = "completed" => run = "completed"
             /\ \A c \in Calls : inv'[c].st = "completed" => inv[c].st = "completed"]_vars

Ended == run \in Terminal
(* A request that outlives its run changes nothing the worker or the user
   could take for a result: the request log, the invocations, the events and
   the worker's artifacts stay as they were (_require_active_run after every
   call that was made without the lock). *)
EndedRunIsFrozen ==
  [][Ended =>
       /\ run' = run /\ log' = log /\ inv' = inv /\ events' = events /\ cp' = cp
       /\ \A n \in Ids : rows'[n] # rows[n] =>
            rows[n] # None \/ rows'[n].by = "user"]_vars

(* The reservation of a model call that is over is released or answered, and
   its key can be used again, unless the run was interrupted, a write failed or
   the process died while the model was called (invoke_model). *)
ReservationEnds ==
  \A s \in Slots :
    /\ log[s] # None /\ log[s].resp = Pending
    /\ run = "running" /\ faults = 0
    /\ \A c \in Asked : inv[c].st = "none"
    => \E t \in Threads : At(t, "model") /\ job[t].slot = s
=============================================================================
