# Verification of the agent platform

The platform runs LLM agents, alone or in teams, on behalf of users. A message
queues a *run*; a coordinator starts a container for it; the worker in the
container calls back into the platform for models, tools, scripts, artifacts,
checkpoints and its final report; calls of high risk stop the run until a human
approves them; in the end every token is revoked and the container is removed.
Around the runs there is a management API: users and their sessions, project
skills, agents, teams, conversations.

What is hard is the same everywhere. A row is read in one transaction, something
slow is done without a lock, and the result is written in another; requests are
repeated, overtake each other, and break off in the middle; files and objects
are not in the transaction; workers, threads and processes die.

This directory holds TLA+ models of these parts, TLC configurations that check
them on small instances, and TLAPS proofs for every instance.

| file | what it is |
|---|---|
| `SandboxRun.tla` | the life of one sandbox run: coordinator, executor, approvals, gateway, launcher, worker |
| `ApprovalContract.tla` | what approvals promise, abstractly; `SandboxRun` implements it |
| `RunnerGateway.tla` | the Runner Gateway: requests under idempotency keys, on several threads |
| `RequestLog.tla` | what the gateway promises about repeated requests; `RunnerGateway` implements it |
| `TeamScheduler.tla` | the worker's team scheduler: threads, checkpoints, events, restarts |
| `TaskBoard.tla` | what a team run promises about its tasks; `TeamScheduler` implements it |
| `Requests.tla` | requests of the management API in general; extended by the next five |
| `Identity.tla` | users, roles, logins and sessions |
| `SkillCatalog.tla` | drafts, packages and versions of skills |
| `AgentCatalog.tla` | agents, their workspaces, the default agent |
| `TeamCatalog.tla` | team drafts and versions, messages, runs, execution snapshots |
| `ControlPlane.tla` | the composition of the five |
| `MC*.tla`, `*.cfg` | model-checking definitions, and one TLC run each, see *Runs* |
| `SandboxRun_proofs.tla`, `SandboxRunEnd_proofs.tla` | the theorems about `SandboxRun` |
| `RunnerGateway_proofs.tla` | the theorems about `RunnerGateway` |
| `TeamScheduler_proofs.tla` | the theorems about `TeamScheduler` |
| `Sessions_proofs.tla`, `Skills_proofs.tla`, `Agents_proofs.tla`, `Teams_proofs.tla` | the theorems about `ControlPlane` |
| `PROJECT.json` | components, runs, seeded faults, the map from definitions to lines of code, findings, hazards, theorems |

Check one with `tlc -workers 2 -config OneCall.cfg MCSandboxRun`, prove one
with `tlapm SandboxRun_proofs.tla`. Operators whose name ends in `_Mutant` are
seeded faults that no other definition uses: with each of them in its place TLC
finds a property violated.

## Inventory

Paths are under `src/backend/app/`.

| component | state it keeps | operations | talks to | what makes it correct |
|---|---|---|---|---|
| **Run lifecycle coordinator** `runtime/run_lifecycle.py` | run status, sandbox events, a cleanup lock per run (in memory) | execute, cancel, recover, retry_cleanup | runner client, tokens, snapshots, script leases | an ended run stays ended; one execution at a time; token revoked and container removed after every end |
| **Dispatcher** `conversations/dispatcher.py` | executor queue (in memory) | dispatch, resume_approval, recover, cancel; start-up recovery | coordinator, tool gateway | no queued run is forgotten |
| **Approvals** `approvals/` | approval rows | create, approve, reject, prepare_execution | run status, dispatcher | one decision; the effect only after it, at most once |
| **Runner Gateway** `runtime/runner_gateway_*.py` | idempotent requests, checkpoints, events, reservations | invoke_tool, execute_script, complete_script, save_checkpoint, append_event, invoke_model, create_artifact, complete | tokens, tool gateway, approvals | replay gives the first answer; no work for a run that is not active |
| **Tool gateway** `tools/gateway.py` | tool invocations | execute, execute_approved, pause, persist, compensate | tools, MCP, audit | no call after the fence, no late result |
| **Script leases** `runtime/script_lifecycle.py` | invocation status `running` | lease, finish, close with the run | gateway, coordinator | no lease outlives its run |
| **Launcher and runner API** `runtime/container_launcher.py`, `workflow_runner_api.py`, `launcher_client.py` | containers by name, ids already cleaned | create, inspect, terminate, cleanup | Docker | one container per run, none left behind |
| **Run tokens** `runtime/run_tokens.py` | revocation table | issue, verify, revoke | gateway auth | no valid token of an ended run |
| **Worker** `runtime/sandbox_runtime.py`, `run_worker.py` | agent state in the container | ask, checkpoint, report, exit | gateway client | reports once; a pause survives it |
| **Team scheduler** `runtime/team_graph.py`, `sandbox_runtime.py` (`_execute_team`) | plan and task states, member threads, checkpoints | validate plan, batches, join, synthesis, recovery | gateway, member graphs | dependencies first, every task ends once, what was saved can be taken up |
| **Checkpoint and request stores, artifacts** `runtime/checkpoint_store.py`, `artifacts/service.py` | rows and objects | save, replay, reserve, upload, delete | gateway | replay is faithful; object store and rows agree |
| **Identity** `identity/` | users, credentials, roles, sessions | login, password, bind, roles, status, revocation | all requests | no session survives a change of what it rests on |
| **Skills** `skills/project_service.py`, `repository.py` | drafts with revisions, versions, packages | create, save, import, enable, publish | object store, agents | no lost edit; one version per request |
| **Agents** `agents/service.py`, `store.py` | rows, workspaces, default pointer | create, copy, update, enable, pin, migrate, delete, repair | skills, files | a usable default; row and workspace agree |
| **Collaboration** `collaboration/` | team drafts and versions | create, save, publish, enable | agents, skills | a version is the draft that was asked for |
| **Conversations** `conversations/service.py`, `repository.py` | messages, runs | create_message, answers, cancel_run | agents, teams, dispatcher | messages numbered without a gap |
| **Execution snapshots** `runtime/execution_snapshot.py` | one immutable row per run | create | agents, teams, skills, messages | what the worker sees is one consistent version |
| **Audit** `audit/recorder.py` | audit rows | record | all | what was answered is recorded |
| Model gateway, MCP, core, frontend, migrations | — | — | — | see *Not modelled* |

What is hard about a run: the status column of a run has six writers (`_start`,
`_finish`, the gateway's `complete`, the two pauses, `approve_approval`, the
except clause of `_execute_approved_tool`); most guard their write, one does
not. Executor jobs, cleanup locks and in-flight requests are in memory and a
restart loses them. Calls to the launcher may fail before or after they took
effect, or arrive after the caller gave up. In the gateway, models, tools and
uploads are called without the row lock; in the team scheduler, members save
beside the main thread; in the management API, nearly every handler reads,
works and commits apart. `PROJECT.json` lists the hazards at their lines, each with
the property that would catch it, or why none does.

## SandboxRun: the life of a run

### State

| variable | code |
|---|---|
| `run` | `AgentRun.status` |
| `appr[c]`, `inv[c]` | `Approval.status`, `ToolInvocation.status` of tool call `c`; `"none"` before the row exists |
| `leased` | calls with a stored lease under `script-call:<id>` |
| `keys` | stored idempotency keys of the checkpoint and completion requests |
| `mark` | the later of the last `sandbox.started` and `sandbox.cleanup` events, and the status of the latter |
| `issued`, `revokedTo` | tokens in the order of `iat`, and the revocation time of the run |
| `jobs`, `pc`, `mem` | executor queue; where each thread is, and its local variables |
| `lock` | `_cleanup_locks[run_id]` |
| `container`, `cleaned`, `late` | the container named after the run and its worker; membership in `_cleaned_run_ids`; a create request still on its way |
| `inflight` | worker requests that passed authentication and wait for the row lock |
| `effects[c]` | how often the external effect of an approved tool was started (an observation, read by no action) |

All tables and locks are keyed by the run, so one run is modelled; runs share
only the executor's threads, whose number is a parameter.

### Steps

An action is one transaction or one call to another process, because between
two of them another actor may act:

- `_start` is two steps: `StartRead` and `StartCommit`. The row lock
  `append_event` takes does not refresh the object that was read, and the
  status is not tested again.
- `_finish`, `_revoke_for_terminal_run` (read, write), `_terminate_safely` and
  `_cleanup` (read under the lock, launcher call, event) are the shared way out
  of execute, recover, timeout and cancel.
- `Approve` commits the decision and the requeued run at once, then hands over
  the job; a crash between is `Restart`, which empties `jobs`.
- `_execute_approved_tool` is `Admit` (to the commit of `tool.started`),
  `Transport`, `RunTool`, `ToolDone`, and `ToolFail` for its except clause.
- A gateway handler is one step, `Serve`, since it holds the lock of the run
  from its first read to its commit. The token was verified earlier, when the
  request was taken in (`Send`): a token revoked in between still gets through,
  as in the code.
- The worker asks for any call at any time between two calls, in any order and
  again after a resume: what a language model chooses is not constrained.

Faults, bounded by `MaxFaults`: a launcher call that fails before or after its
effect, a late create, a failed `_prepare_execution`, a dying worker, a request
or answer that is lost, a restart of the launcher. Restarts of the API process
are bounded by `MaxCrashes`.

### Abstractions, and what they hide

- Time is not modelled. A timeout may strike at any poll and a team's deadline
  at any admission. Token expiry behaves as a lost request.
- `invoke_tool` releases the lock before `ToolGateway._pause_for_approval`
  locks and tests the run again; one step stands for both, because the second
  test repeats the first and a duplicate invocation fails on its unique key.
- `docker stop` is one step.
- An expired approval that somebody tries to approve changes nothing: the
  router rolls back the status the service set.
- Events, audit rows, error codes and message texts are left out, unless the
  code reads them again (`mark`).
- The worker has one agent: the parallel branches of a team, which send several
  requests at once, are in `RunnerGateway` and `TeamScheduler`.
- Every refusal inside an approved tool's execution is the `ToolRuntimeError`
  that the code handles. A database error there leaves the run queued; this is
  listed as a hazard and not modelled.

## RunnerGateway: requests, repeated and overtaken

One team run, whose members' requests arrive on several HTTP threads at once.
All handlers lock the row of the run, so one that stays in its transaction is one
step. What calls another process is split at the call:

| handler | steps |
|---|---|
| `invoke_model` | `ModelReserve`; then `ModelAnswered`, `ModelFailed` or `ModelDropped` |
| `invoke_tool`, `ToolGateway.execute` | `ToolStart`, `ToolRun`, `ToolSave` (up to three attempts), `ToolStore`; or `ToolPause`, `ToolResumed` |
| `create_artifact` | `ArtifactAdmit`, `ArtifactPut`, `ArtifactRow`; or a way out that ends in `ArtifactUndo` |
| `ArtifactService.create`, `delete` | `UserUpload`, `UserRow`; `UserDelete`, `UserDeleteRow` |
| `append_event`, `save_checkpoint`, `register_artifact_capability` | one step each |
| `complete` | `CompleteBegin`, `CompleteCommit`: the deadline is compared twice, the lock is held in between |

`log` is `RunnerRequestStore`: what is stored for each operation and key. A
request is its operation, its key and what its digest tells apart. The worker is
free: it may send anything, at any time, again and again, which covers lost
answers, restarted workers and team members at once. A request that is refused
before it changes anything is no step. A repetition that finds its request
answered is `Replay`. `MaxRequests` bounds what is taken in and `MaxFaults` outages
and restarts; repetitions are not bounded.

`RequestLog` is the abstract specification: a slot holds one request; its answer
never changes; every answer that is given out is that one. Only a reservation may
be given up.

Left out: digests, sizes, budgets, the authorization of a call; approvals and
the coordinator are the actions `Decide` and `End`, since `SandboxRun` has them.

## TeamScheduler: batches, checkpoints, restarts

The main thread of `_execute_team` is a sequence of steps, each of which decides
something and then makes calls to the gateway: events and a save. `todo` holds the
calls that are left, so that a fault, a crash or a member's save can come between
any two. Member threads run beside it: `Launch`, then `MemberEnds` or
`MemberFails`, then the save of the member's graph under `state_lock`
(`MemberComputes`, `MemberSaves`). `store` is the latest checkpoint with its
revision, `log` the events the gateway has stored. After a pause or a crash,
`Restart` begins again from `store`: `Load` recovers what the members had completed.

A batch ends in one of two ways. When all members are over (`JoinAll`), nobody sees
the outcomes being recorded one after the other, and that is one step. Under
`fail_fast` the first failure ends the batch (`JoinFirstFailure`) while another
member, a *straggler*, may be at `state_lock`. The main thread does not take that
lock when it records an outcome, so from there on every access to what they share
is a step of its own: `RecordOutcome` writes `completed` or `failed`,
`CountOutcome` increments `_event_sequence`, `TellOutcome` makes the call, for one
outcome after the other; `SetState` and `SendState` are the main thread's save. The
straggler (`StragglerReads` to `StragglerReturns`) reads `completed`, then `failed`,
replaces the state in memory, then reads it again with the number of the last event,
saves it and replaces the state once more. `results` is where the main thread is in
this.

A straggler can thus store a checkpoint in which the failure of its batch is missing
although the event of it is counted, or, with three members in parallel, one in which
a completed task is still active, which cannot be loaded. `straggled` records that such
a checkpoint was stored; `EventsAgree`, `CheckpointIsLoadable` and `AnswerIsHonest`
except it. The main thread has then to fail the run anyway, unless its worker dies
first and the run is taken up from that checkpoint. `dropped` is history too: the
tasks whose interrupted invocation a `Block` has left out of the checkpoint.

`TaskBoard` is the abstract specification, over what the *checkpoints* say:
tasks begin when their dependencies are done and their member is free, are
settled once, and the synthesis begins when all of them are.

Plans are a constant. `MCPlans` has no edge, one, a chain, a fork and a join of three
tasks, one edge and the chain against the order of positions, two ways to share the
members, and two cycles. Left out: results, messages, budgets and capabilities; a task with the
id `synthesis` (see the hazards); the coordinator starts a worker again only
after an approval, here also after a crash, which the worker's code provides for.
`SandboxRun` shows that a pause is refused its checkpoint unless the approval is
quicker (finding 1); here the save of an interruption may succeed, as it does
then.

## ControlPlane: the management API

A request has a client and is served by a thread. `Requests` has its beginning,
its end and its breaking off (an error, a lost connection, a process that dies: the
transaction is rolled back, its locks are free, and what was put in place outside
it stays: objects in the store, and the files of an agent, see `BreakTask`). Each component adds what its handlers have read so far (`txs`, `edits`,
`tasks`, `works`) and its rows.

- `Identity`. A handler reads the user's row, verifies a digest or calls the
  identity provider, and commits: two steps (`Read`, and `OpenSession`, `Commit`,
  `CommitDelete`, `CountFailure`). `authorization_version` is written as what was
  read plus one, as the ORM writes it. Only columns that differ from what was read
  are written. A session is let in when its version is the user's. `counted` and
  `silent` are history: per user, the changes that increment the version (password,
  roles, status, external identity, the name of a role held, a permission taken from
  it) and those that should by the design and do not (`SetRoleStatus`, `DeleteRole`,
  `GrantPermission`, `SetProjectStatus`; finding 6).
- `SkillCatalog`. Snapshot of the draft in one transaction, packages put or read
  with no lock, commit in another under the row lock and compared with the
  snapshot. An import is all or nothing. A package is the key of its object.
  `past` and `base` are history: the package of each revision, and which package
  it was made from.
- `AgentCatalog`. Every request first repairs the built-in agent and the default, in
  transactions of their own with three attempts (`MakeBuiltin`, `RepairBuiltin`, to
  `AdoptFails`). A change locks the agent's row, then the default's, touches the
  workspace, and commits; each lock is a step, and a thread whose lock is taken
  waits. A failure after the workspace was touched is two steps: the rollback frees
  the locks (`RefuseDelete`, `Duplicate`, `CommitFails`), then `Restore` puts the
  workspace back with no lock held. The process may die at any place (`BreakTask`);
  what it did to the files then stays, and so it does when the putting back fails.
  `unrestored` is history: the agents whose workspace was left so, and those to
  which something happened before it was put back.
- `TeamCatalog`. A publication locks the team and reads its members one by one through
  the agent service, in other sessions. A message resolves its actor, numbers
  itself under the lock of the conversation and commits with its run. A snapshot
  reads the run's version, its messages, or its agent and skills.
- `ControlPlane` composes them: requests of all components interleave, a
  publication calls the agent service, which repairs the default, which waits for
  the locks of the agents' changes; agents bind the versions that skills publish.

`workload` is chosen at the start and never changes: which operations are
requested together, how many, and from which catalog. It lets one instance cover the
components one after the other, and together where they meet, without the product
of everything with everything.

Left out: contents of permissions and grants, memberships of projects, OIDC
transaction rows, names and descriptions, `dev_login`, `update_user`,
`set_default` (its endpoint always answers 403), the value of the pin, tools,
knowledge and models of agents, capability and capacity checks of teams, a copy
without skills. An agent is read together with the pointer that names it. A role that
is deleted and made again is the same role. Skills captured in a team's definition
come from the legacy skill service, which has no versions.

## Runs

| run | instance | what it shows |
|---|---|---|
| `OneCall` | one call: a tool with approval and 1 restart, or a script with approval, or a free script with 1 fault and 1 restart; 2 executor threads, 1 canceller | at most one effect, one starter; leases only under an approval, closed with the run; completion only by report; no valid token and no untracked container is left; ended runs stay quiet; refinement of `ApprovalContract` |
| `Settles` | a tool and a script, 2 executor threads, no canceller, fairness | every run ends or waits for a decision, and everybody is done with it |
| `Gateway` | 2 threads, 8 slots, 2 tools, 3 requests, 1 fault | repeated requests: refinement of `RequestLog`; effects, audit, events, artifacts and objects agree with what was answered; a request that outlives its run changes nothing |
| `Team` | 3 tasks, 2 members, 10 plans, both policies, 1 fault | refinement of `TaskBoard`; events agree with checkpoints; what is saved can be loaded and gone on with; the answer admits its failures |
| `ControlPlane` | 2 clients, 2 or 3 requests of 9 workloads, 1 fault, fairness | no edit, session, default, workspace, version or snapshot is wrong because requests overlap or break off; every request ends |
| `PauseFailed`, `Reopened`, `ContainerLost`, `QueuedLost`, `CopyBuiltin`, `RoleChanges`, `Replayed` | see *Findings* | the code does not do what a document says |

Bounds, `SandboxRun`. Two executor threads are what it takes for an execution to be
on its way out while its resume is on its way in; a third would have no job to run
(`jobs` holds at most one resume per call and one of the start-up jobs). In
`Settles` an execution and two resumes compete for two threads: the executor at
its limit. A canceller there would repeat what the safety runs check and
multiply the states. One call is enough for the properties, which speak of one
call at a time. `OneCall` has a call of each kind among its constants, and the
constraint `OneKind` says what a run may combine: states in which two calls were asked
for, a script with approval meets a restart, or a call with approval meets a fault, are
not explored further. So the run is three instances in one. One fault and one
restart: each is enough to lose an answer or a job; the proofs have no bound and no
constraint.

Bounds, `Gateway`. Two threads race; three requests are one that is slow, one that
overtakes it and one that makes use of the result. A second key exists where a
second request changes what the first one did (artifacts, events). Repetitions cost
no request.

Bounds, `Team`. Three tasks have the shapes that matter: a chain, a fork, a join, a
pair beside a third. Two members can be busy at once, and one member can have two
tasks. With two in parallel a straggler is alone with the main thread; a third
matters only to what `straggled` excepts, and the proofs have any number. One fault or
crash; interruptions and starts of the worker are not bounded by it.

Bounds, `ControlPlane`. Two requests overlap; the third is what comes in between or
after (a login between two changes, an edit between two publications, a second
creation). Two clients are all who work at the same time. `FailLimit = 2` stands for
five wrong passwords.

Deadlock is not checked by TLC's own test: runs, workers and workloads end.
`NeverStalls` and `EveryRequestEnds` are the properties that say that nothing stops
before.

Fairness, `Settles`. The executor takes its jobs and threads run on: weak
fairness of each thread's step. The container's process runs, and the gateway
serves what it took in: weak fairness of `WorkerSends`, `WorkerExits`, `Serve`.
No fairness for people (`Cancel`, `Approve`, `Reject`), for faults, or for the
timeout as an action of its own; it is part of a thread's step, since `execute`
compares the clock at each turn of the loop and gives up at a deadline. So a
worker that keeps asking for ever ends the run by timeout.

Fairness, `ControlPlane`. Weak fairness of each client's request once it is begun:
its thread runs on. A thread that waits for a row is not enabled until the row is
free; weak fairness is then enough, because a lock is never taken over and over by
others within the bound of requests. No fairness for beginning a request or for a
failure.

## Findings

1. `PauseFailed`. The run is committed as waiting for an approval before the
   worker saves its interruption checkpoint, and `save_checkpoint` accepts only
   a running run. The worker reports the refusal as a failure: the run fails
   with its approval pending. (`runner_gateway_service.py:546`)
2. `Reopened`. `_start` writes the status it tested in an earlier read, without
   testing it again: a cancel in between is overwritten. (`run_lifecycle.py:371`)
3. `ContainerLost`. The cleanup event of the first container, logged after the
   start of the resumed execution, stands for the second container too, which
   is never removed. (`run_lifecycle.py:487`)
4. `QueuedLost`. A restart while the run is queued leaves it queued for ever:
   only running runs are recovered. (`run_lifecycle.py:311`)
5. `CopyBuiltin`. A copy of the built-in agent locks its row and then repairs the
   built-in agent in another session, which waits for that row: the request waits
   for itself, and every later request on agents behind it. SQLite, which the
   tests use, has no such locks. (`agents/service.py:753`)
6. `RoleChanges`. The design asks that a change of a user's roles, of a role's
   permissions or of a project's status increments the version of the users concerned
   in its transaction. Disabling a role, deleting it, granting it a permission, and a
   project's status do not. (`identity/admin_router.py:746`, `:787`, `:811`, `:713`)
7. `Replayed`. When a run goes on after an approval, the tasks that depend on a failed
   one are blocked first, and the state is saved without the invocations that were
   interrupted: their members begin anew, which the design of the team foundation
   rules out. That their checkpoint was accepted at all needs an approval that is
   quicker than it (finding 1). (`sandbox_runtime.py:665`)

`PROJECT.json` quotes the documents they disagree with. The safety properties
are stated so that they hold in the presence of these: `ReopenedOnlyByStart`
excepts the one unguarded write, `TrackedUnlessPaused` is `ContainerIsTracked` for
runs that never pause, `EveryRequestEnds` excepts requests behind such a copy,
`SessionsDieWithChange` speaks of the changes that increment the version, and
`ReplayedOnlyIfDropped` allows a replay to a task whose own invocation was dropped.

Some properties except a case in which the code does something a reviewer may not
want, though no document forbids it in words: two overlapping changes of one user
write the same version, so that a session opened between them survives the second
(`SessionsDieWithChange`); a workspace is put back after the rollback has freed
the row, over what the next change has written in the meantime, or not at all when a
creation or a repair has made another, the process has died, or that fails
(`WorkspaceAgrees`); a straggler stores a checkpoint that misses the failure of its
batch (`EventsAgree`, `CheckpointIsLoadable`, `AnswerIsHonest`); a pause or a crash
leaves the reservation of a model call, which then conflicts with its own repetition
(`ReservationEnds`). Each is listed under the hazards. Two administrators who are disabled at once leave none.

## Proofs

Eight modules prove theorems for every value of the constants: any number of
threads, clients, calls, users, agents and skills, any plans, and any number of
requests, faults and restarts. They rest on the assumptions named in the modules, which say what kind
of thing a constant is, and which TLC evaluates for each instance. Each module has
the same layout: an inductive invariant in named parts, frame lemmas for
the parts an action does not touch, one lemma per action for those it does, and
the theorems last.

`SandboxRun_proofs`, `SandboxRunEnd_proofs`, from `ThreadAssumption`,
`CallAssumption` and `BoundAssumption`:

- `TypeInvariant` : `Spec => []TypeOK`. `TypeOK` alone is not inductive: the
  status `_finish` writes and the invocation `tool.started` marks come from a
  thread's local variables, so the proof carries `MemOK`, that they fit the
  thread's next step.
- `ApprovalInvariant` : `Spec => []ApprovalInv`, the heart of the matter. At
  most one thread is between `tool.started` and the result of a call
  (`OnePerformer`), its effect is still ahead of it until it ran, and an
  invocation that has not left `waiting_approval` has no effect
  (`EffectsFollow`). Neither half is inductive without the other: the first
  needs that a waiting invocation has no performer, the second that a
  performer's effect is not counted yet.
- `ApprovedOnce` : `Spec => []AtMostOnceApproved`, which follows.
- `Refinement` : `Spec => ImplementsContract`. Every step maps to `Ask`,
  `Decide`, `Perform` or a stutter of `ApprovalContract` under
  `decision <- appr`, `performed <- effects`.
- `LeasedUnderApproval` : `Spec => []ScriptRunsApproved`, inductive given the
  types: a lease is granted under an approval, a decision is never revised, and
  a call that has its lease is not asked for again.
- `ReopenedByStart` : `Spec => ReopenedOnlyByStart`. Needs `HandlersEnd`, that an
  HTTP thread is only ever on the way out of `cancel`: the one step that leaves
  an ended status belongs to a thread of the executor.
- `EndedIsQuiet` : `Spec => EndedRunIsQuiet`.
- `StartsAlone` : `Spec => []OneStarter`, as long as nothing has failed. Two starters are excluded
  not by a lock but by who may come to start at all. `ClaimInv`: a job, a thread
  before `submit`, a worker that may still ask, and an undecided approval exclude
  each other, and there is one of each at most (`OneClaim`, `AsksFit`). `ClaimsKeep`:
  no step but an approval makes a claim.
- `CompletedByReport` : `Spec => []CompletedIsReported`, as long as nothing has failed. Needs to know
  how a worker can exit with code 0 without a result: `PauseFits` follows an
  interruption from its request over its checkpoint to its report, `Decided` says
  that it can be stored only when its approval was granted and the run is running
  again, and `ReportFits` that a run of which such an exit is seen has its result
  or is one that `_finish` refuses to complete (`Dead`). Rests on `ClaimInv`.
- `LeasesEnd` : `LeasesEndWithRun` as long as no tool is approved. `FailFits`: the one
  that fails a run without closing its leases has an approved tool; `Asked`: an
  approval belongs to an invocation, and neither goes away.
- `TokensEnd` : `EndedRunHasNoToken` as long as nothing is approved. `Unresumed`: there
  is one execution. `TokenFits`: a token that is valid has a thread that will look at
  the status once more (`Held`), or looks at one that makes it revoke.
- `ContainersTracked` : `Spec => []TrackedUnlessPaused`.
  `NeverPaused`: the run does not wait, and nobody interrupts it. `Tracked`: as long as
  a container is there, may be created or is on its way, nobody takes it for removed,
  neither the launcher, nor the events, nor a thread that is about to log (`Clear`);
  and it is there only after its start was logged (`Begun`).

The conditions in the last five properties are where they end, and TLC shows each by a
counterexample. With two calls and one lost answer, a worker that gave up a request
which is served all the same asks for a second approval while the first is being
resumed: then two threads are before `submit`, or an exit after an interruption
completes the run. With an approved tool, a lease whose
answer was lost stays running when the tool fails the run. With an approval, the start
of the resumed execution may undo the end of the run before the first execution looks
whether to revoke, and a failed preparation of the second leaves the token of the first.
With a pause, finding 3 applies.

`RunnerGateway_proofs`, from `SlotAssumption` and `ConstantAssumption`. One
invariant, `GatewayInv`, carries everything, because the properties lean on one
another: what a thread does without the row lock is right only because of what
the request log says about its slot.

- `Typed`: the types, and that what a thread remembers fits the step it is at.
  `Fenced`: what a thread relies on while it holds the row of the run.
  `ToolsRun`: an invocation has one thread at most, and its effect is ahead of it
  or behind it according to its step. `Logged`: whatever is answered is backed by a
  completed invocation and an audit record. `Counted`: there are as many events
  as answered requests to append one. `FilesInv`: which rows and objects there
  are, and who is at work on the others.
- From it `TypeInvariant`, `ToolsRunOnce`, `AnswersAreAudited`,
  `EventsStayInOrder`, `ReservationsEnd`, `PathsAreUnique` and `ObjectsMatchRows`:
  all invariants that the run `Gateway` checks.
- `LateWorkChangesNothing` and `NothingCompletesLate` are action properties and
  follow from the guards each step repeats when it is back under the lock.
- `Refinement` : `Spec => ImplementsLog`. The lemma `LogStep` is the key: each
  action changes at most one slot, in a way that `RequestLog` allows.

`TeamScheduler_proofs`, from `ConstantAssumption` and `NoneAssumption`. One
invariant again, `SchedulerInv`; what makes it work is to look at the main thread
not where it is but where it will be: `Pending` is the state in memory once the
calls that are left to make have been made.

- `Fits`: what that state must be for the step the main thread takes next
  (`MainFits`). `MainSays`: the events already sent together with those still to be
  sent are the `Facts` of `Pending`, each once. `MainSaved`: `Pending` `Follows`
  what is stored, or what is stored is newer and the save will be refused.
- `Stored`: the checkpoint is `Sane`, can be loaded or makes the run fail at once,
  and `Agree`s with the log. `Logged`: no event twice, no task with two outcomes,
  none begun before its dependencies were announced.
- `LateFits`: after a time-out the main thread fails the run while a member is at
  `state_lock`; whatever that member saves is again `Sane`, agrees with the log and is
  followed by `Pending` (`GoodLate`).
- `Settling` is the hard part: while the batch of a failure is settled, every state in
  memory, in a straggler's hands or stored is one of the batch with some of its outcomes
  (`Pictured`), none has lost outcomes that what is stored has (`Ahead`), and the events
  told and untold are together those of the settled batch (`RaceSays`, unless
  `straggled`).
- `Fresh`: a task that was begun is settled or active with its graph, unless its own
  invocation was dropped (`Kept`). `EndFits`: what a worker leaves behind when it
  reports.
- `Reached` counts in rounds, a recursive function: `RoundsExist` shows by the least
  number (`LeastNumber`, `NumberInduction`) that it is one, and `AcceptedPlan` that an
  accepted plan has in every set of tasks one that waits for none of the set.
- From it `TypeInvariant`, `QueueMoves`, `EventsOfARun`, `LoadableAgain`,
  `WaitsWithItsGraphs`, `HonestAnswer` and `BegunOnce`: all invariants that the run
  `Team` checks.
- `BoardImplemented` : `Spec => ImplementsBoard`. `StoreFollows`: a checkpoint is
  only replaced by one that `Follows` it, because its revision is one higher than
  that of the state it was made from. `BoardStep` and `BoardBegins`: each way to
  follow is a step of `TaskBoard`.

`Sessions_proofs`, from `IdentityAssumption`. `SessionsEnd` :
`Spec => []SessionsDieWithChange`. The invariant `SessionInv` says, of users whose
changes did not overlap, that the version counts the changes that increment it
(`VersionsCount`), and that a handler (`ReadersAgree`) and a session (`SessionsAgree`)
have the version and the number of those changes from the same moment.

`Skills_proofs`, from `SkillAssumption`. `EditsAreKept` :
`Spec => []NothingOverwritten` and `OneVersionPerKey` :
`Spec => []PublishedOncePerKey`, from `SkillInv`: every revision is in `past`
with its package, a package is made from the one that was current when its
handler read the draft, and a key has at most one version; so what a handler
compares under the lock is the draft it saw.

`Agents_proofs`, from `AgentAssumption`. `DefaultStays` :
`Spec => DefaultStaysUsable` and `WorkspacesAgree` : `Spec => []WorkspaceAgrees`.
The invariant `AgentInv` says what a request may rely on from one step to the
next. `TasksFit`: while it has the row, what it read is what is there, and past
the guard the default is not the agent it turns off. `SpacesFit`: at each place a request that
touches, makes, takes away or writes a workspace knows what the workspace is and
what it has to put back; an agent at which nobody is has row and workspace alike
(`AtPeace`). `Found`: only a built-in agent that has its row
can be in `unrestored`. `AgentBreaks`: whoever breaks off leaves what the others rely
on as it was, or an agent that is in `unrestored` from then on. A request that waits for a row, and the steps of
`ensure` inside another's transaction, are why all of them are needed at once.

`Teams_proofs`, from `TeamAssumption` and those of the other components; it builds on
`SessionInv`, `SkillInv` and `AgentInv`. What is there at the start is assumed to be
what the handlers leave: versions of a team are drafts of it with enabled members, and
the built-in rows are bound to versions that are published. The invariant is `TeamInv`:

- `TeamsFit`: each draft is saved over the one before, each version is the draft of its
  revision. This is not inductive without `WorksFit`: a publication that has locked the
  row reads its members one by one, and until it commits the draft and its revision are
  those it read under the lock (`Captures`). Nor without `CallsFit`: the row that a read
  of an agent brings back is put down for the member that was asked for, although the
  read may have to repair the built-in agent or the default first.
- `ChatFits`: messages are numbered without a gap and a run answers one of them. It
  needs that who holds the lock of the conversation has the next number.
- `SnapshotsFit`: a snapshot has the version its message selected, every message up to
  its own, and skills that exist. It needs that what a row is bound to was published
  (`BindsExist`, `CurrentExists`), also for the rows that requests have in memory, and
  that versions of skills only become more (`VersionsGrow`).
- `Counted`: there are no more runs than requests that are over, so each run has its
  place in `snapshots`. `Served`: a busy client has a request in one of the components.
- `StepKeeps`, with `Leave` and `Mine`, says what one request's step leaves to the
  others; `TaskMoves` how a request on agents goes on, from the point of view of a team.
- From it `VersionsOfTeams` : `Spec => []TeamVersionsAreDrafts`, `SnapshotsWhole` :
  `Spec => []SnapshotIsWhole` and, with the other invariants, `TypesKept` :
  `Spec => []TypeOK` of `ControlPlane`.

Every invariant and action property of the passing runs is stated by one of these
theorems. With a single call, `OneStarter` and
`CompletedIsReported` hold after a failure as well, as far as TLC can tell (a script with approval and
`MaxFaults = 1`, seven million states); this takes longer than the other runs and is
not one of them. Only model-checked: the liveness properties
`Settles` and `EveryRequestEnds`, out of the prover's reach together with ENABLED.

## Not modelled

- *Frontend.* It shows the server's state and asks for changes through the API; it
  keeps no state the server relies on.
- *Core, database, migrations, deployment.* Configuration and set-up. What the
  models use of the database is stated with them: row locks, unique keys,
  rollback.
- *MCP connections.* Discovery and health write one row per server in one
  transaction; what is hard about them is what the external servers answer.
- *Providers and the model gateway inside.* To `invoke_model` a model answers or
  fails. Credentials, prices and the choice of a provider change no row the
  properties speak of.
- *The legacy skill service.* It has no drafts, versions or keys. Teams capture
  from it a name, which the models keep.
- *Dispatchers without a sandbox* (`ThreadRunDispatcher`,
  `UnavailableRunDispatcher`). They are for development: no container, no gateway.
- *Authorization.* Who may see or decide what is a test of rows that no other
  request changes at the same time in a way the properties tell apart. A request
  that is not allowed changes nothing and is no step.
- *Audit.* The records that answers depend on are in `RunnerGateway`; the
  recorder's other callers write a row in the transaction of what they record.
- *The inside of an agent's graph and of a script.* The worker may send anything;
  what makes it send something is a language model.
- *Container policy, limits, signatures, digests, sizes.* Pure functions of one
  request.

## Plan

Done: the life of a run; the gateway's requests; the team scheduler; the
management API in five components and their composition; the proofs above.

Left, in this order:

1. `LeasesEndWithRun` and `EndedRunHasNoToken` for runs with approvals in which
   nothing fails: TLC finds no counterexample with one call. They need to know that a
   lease has a worker, and that a resumed execution looks at the status after the
   one before it.
2. What a rejected approval leaves behind, and the database errors of
   `_execute_approved_tool`, as soon as a document says what should happen.
