# Formal model of coordworks

coordworks lets people hire AI agents, assign them tasks, and approve the plans
the agents draft before anything is executed. A control plane (Go, SQLite)
serves a REST API and a web UI; LLM work runs on *runners*, either remote
processes that poll the control plane or one goroutine pool inside it.

This directory holds a TLA+ model of the control plane and its runners, the TLC
configurations that check it on small instances, and TLAPS proofs of its most
important invariants. The model follows the code in `src/`; `PROJECT.json` maps
every definition to the lines it translates.

1. [Inventory](#1-inventory)
2. [Modules](#2-modules-and-how-they-correspond-to-the-code)
3. [Runs](#3-runs)
4. [Findings](#4-findings)
5. [Proofs](#5-proofs)
6. [Bounds and fairness](#6-bounds-and-fairness)
7. [What is not modelled](#7-what-is-not-modelled)
8. [Plan](#8-plan)

## 1. Inventory

Paths are relative to `src/internal/`.

| Component | State | Operations | Talks to | What makes it correct |
|---|---|---|---|---|
| **Job queue** (`store/store.go`) | tables `jobs`, `runners` | CreateJob, ClaimJob, FinishJob, RequeueStaleJobs, UpsertRunner, TouchRunner, DeleteRunner | called by all below | an attempt of a job has one holder, which the row names; a job is started at most `maxJobAttempts` times; every job ends |
| **Runner API** (`server/runnerapi.go`) | none beyond the tables; one long poll per claim | register, heartbeat, claim, events, complete | job queue, orchestrator | a completion counts only for a running job |
| **Remote runner** (`runner/remote.go`) | its id, the job in hand, the posts made | run loop, heartbeat, execute, complete with four posts | runner API over HTTP | a job whose runner dies or cannot report does not run for ever |
| **Embedded runner** (`server/embedded.go`) | goroutines, the fixed row `embedded` | heartbeat, claim on each tick, execute and complete | job queue, orchestrator, in process | the same, across restarts |
| **Requeue loop** (`server/server.go`) | the pass in progress | scan, update, failJob | job queue, orchestrator | takes back only jobs of runners that are gone; fails only exhausted jobs |
| **Orchestrator** (`server/orchestrator.go`) | tables `tasks`, `plans`, `jobs` | startTask, buildBundle, applyEvent, completeJob, approvePlan, rejectPlan, requestChanges, failJob, delegate | store, hub | nothing executes before it is approved; a decision stands; the status of a task tells what goes on for it; one thing goes on for a task |
| **REST handlers** (`server/api.go`) | none | create, assign, delete task; decide plan; CRUD of agents, teams, providers, runners | orchestrator, store | guards on the status of tasks and plans |
| **Agent engine** (`agent/engine.go`, `runner/runner.go`) | the bundle of one job | GeneratePlan, ExecutePlan, completeJSON, delegation to teammates | LLM client; emits events | steps run in order, finished steps are not run again after a requeue, the outcome reflects every step |
| **Delegation** (`server/orchestrator.go`) | `tasks.parent_task_id` | delegate, taskDepth | store | no chain of delegations is longer than the cap; a delegated task with an assignee starts planning |
| **Agent status and counters** (table `agents`) | `status`, tokens, `tasks_done` | hire, edit, delete; mark at claim, usage events, count and reset at completion; pickTeamAgent reads | orchestrator, REST handlers, runner API | what the status says of the jobs of an agent, and when it may be wrong; every answer of a model and every finished task counted once; new tasks go to who rests |
| **Selector matching** (`store/store.go`, `src/cmd/runner/main.go`) | none | SelectorMatches, parseLabels | ClaimJob | a job runs only where its selector is met |
| **Live updates** (`server/hub.go`, `src/web/src/ws.ts`, `App.tsx`) | bounded queue per client, filters | broadcast, write loop, reconnect | browser | a view shows the last state in the end |
| **LLM clients** (`llm/`) | none | one HTTP request per call | providers | conversion of requests and answers |
| **Settings, authentication, static files** | rows without lifecycle | CRUD | store | – |
| **Web UI pages, charts, images** | presentation and deployment | – | – | – |

### What is hard here

* **No transactions.** The store opens one connection, so each SQL statement is
  atomic, but no function of the orchestrator runs in a transaction. Everything
  between two statements is a point where another handler, a disconnect or a
  crash may come.
* **Check-then-act on rows read earlier.** Completion, plan decision, task
  assignment and the sweep decide with a row read in an earlier statement and
  write by id.
* **Zombies.** A runner that went silent is not told that its job was requeued.
  It may report late, twice, or after the job was claimed by another runner. The
  remote path checks that the job is running, not who runs it; the embedded path
  checks nothing.
* **Identity across restarts.** A remote runner registers under a fresh id, the
  embedded one under the same id as before.
* **One flag for several jobs.** `agents.status` is set by each claim and reset by
  each completion of any job of the agent; nobody counts, and new tasks are assigned by
  it.
* **Deletion.** Tasks, agents, providers and runners can be deleted while jobs
  and plans refer to them. Each function finds out at a different statement.

Every hazard of this kind is listed with its line in `PROJECT.json` under
`hazards`, with the properties that watch it.

## 2. Modules and how they correspond to the code

| Module | Contents |
|---|---|
| `JobQueue.tla` | the queue, the runners that serve it, the network between them, the sweep, restarts |
| `JobQueueProofs.tla` | proofs about `JobQueue` |
| `MCJobQueue.tla` | selectors and labels for TLC |
| `JobRows.tla` | abstract specification: how a row of `jobs` moves and how its attempts are counted |
| `Selector.tla` | selectors, labels, and whether they match |
| `SelectorProofs.tla` | what matching means, for all selectors and labels |
| `Orchestrator.tla` | tasks, plans and jobs as handlers change them, one store call per step |
| `OrchestratorProofs.tla` | proofs about `Orchestrator`, whatever overlaps and fails |
| `SerialProofs.tla` | proofs about `Orchestrator` while no two handlers overlap |
| `MCOrchestrator.tla` | symmetry for TLC |
| `TaskLifecycle.tla` | abstract specification: the statuses of a task and the moves between them |
| `Execution.tla` | one execute job: the engine at work on each attempt, its step events and completions, and what they leave in the rows |
| `ExecutionProofs.tla` | proofs about `Execution` |
| `MCExecution.tla` | who claims which attempt, for TLC |
| `Delegation.tla` | tasks that agents open for each other, and the handlers that bound their depth |
| `DelegationProofs.tla` | proofs about `Delegation` |
| `Staff.tla` | the table `agents`: status and counters, who writes them, who assigns by them |
| `StaffProofs.tla` | proofs about `Staff` |
| `MCStaff.tla` | who may make which claim, for TLC |
| `LiveView.tla` | one view of the web UI, its connection to the hub, and its requests |
| `LiveViewProofs.tla` | proofs about `LiveView` |

`JobQueue` and `Orchestrator` cut the system along its two kinds of concurrency.
`JobQueue` has every step of a job from row to completion but does not say what
the job is about. `Orchestrator` has what jobs do to plans and tasks and takes
from the queue only what this needs: a claim, a report by anybody who has or had
the job, a requeue. `Execution` looks into a single execute job, where both meet:
runs of several attempts that are alive at once write the same plan row. `Delegation`
has the tree of tasks that executions open, where planning and approval are single
steps. `Staff` has what claims, usage events and completions do to the row of the agent
they concern. `JobQueue`, `Orchestrator` and `Staff` each have the table `jobs`, as
much of it as they need; all three are shown to implement `JobRows`, so what one of
them relies on, the others keep. `LiveView`
is about what all of them do last, the broadcast, and knows a row as a version.

### JobQueue

| Variable | In the code |
|---|---|
| `jobs` | `jobs.status`, `runner_id`, `attempts`; ids are in order of `created_at` |
| `runners` | row of `runners`: none, `last_seen` recent, `last_seen` before the cutoff of the requeue loop |
| `proc` | the process (or goroutine) behind a runner id, whether it is up |
| `claims` | a call of `ClaimJob` and the handler or tick around it: polling, rows of the SELECT still to be tried, the row that was won |
| `work` | jobs inside `ExecuteJob` or `Remote.complete`, with the outcome and the posts so far |
| `calls` | `POST .../complete` requests on the network or between the check and `FinishJob` |
| `sweep` | locals of `RequeueStaleJobs` and `requeueLoop` |

`ClaimJob` is a SELECT (`ClaimSelect`) and one guarded UPDATE per candidate
(`ClaimUpdate`). A completion is the request (`Post`), the read and check of the
row (`CompleteCheck`) and the unguarded `FinishJob` (`CompleteFinish`).
`RequeueStaleJobs` is a SELECT (`SweepScan`) and one unguarded UPDATE per row
(`SweepUpdate`), followed by `failJob` (`SweepFail`). All of them interleave with
each other and with the deletion, ageing and death of runners. `Lossy` lets the
network lose claim responses, completion requests and acknowledgements.

`Eligible` is `SelectorMatches` of `Selector`, applied to the selector of the job
(`SelectorOf`) and the labels of the runner (`LabelsOf`: the flag of a remote runner, the
fixed labels of the embedded one). `CreateJob` stands for all callers that append a job.

### Selector

Pure operators. `Item` is what lies between two commas: a pair, or `NoPair` when it
has no `=`. `ParseLabels` and `RunnerLabels` are how the runner command makes a map of
its flag (the last pair of a key wins, `runtime` has a default), `EmbeddedLabels` the map
of the embedded runner, `SelectorMatches` the loop of the same name, where a missing key
reads as `""`. `Carries` is the reference it is compared with, from the comment on
`Agent.RunnerSelector`.

### JobRows

`Create`, `Claim`, `End`, `Requeue` of one row. As weak as the statements are:
a row that was claimed may end or be queued again from any status, since neither
`FinishJob` nor the sweep names one. What remains is that only queued rows are
claimed, each claim is counted, no row is claimed more than `MaxAttempts` times, and
one that has used them is not queued again.

### Orchestrator

`handlers` is the heart of the module: for each request handler (and the requeue
loop) the sequence of store calls it has still to make. `StartTask`,
`ApprovePlan`, `RejectPlan`, `RequestChanges`, `FailJob`, `CompletePlanJob`,
`CompleteExecuteJob` give these sequences in the order of the Go functions of
the same names. A request (`CreateTask`, `AssignTask`, `PlanDecision`, `Claim`,
`CompleteRemote`, `CompleteEmbedded`, `StepEvent`, `SweepJob`) does its first
read and check and starts a sequence. `DoX` performs store call `X`, with its
effect when the row is gone: `SetTaskStatus` does nothing and reports nothing,
`UpdateTask` fails, `GetAgent` fails and ends the function. A call that reads
decides what is left: `DoRoute` approves at once for an autonomous agent,
`DoBuildBundle` fails the job when something it needs is missing.

`Overlap` chooses whether handlers interleave. `Faults` adds `Abort` (the client
disconnects and the request context is cancelled, or the database fails: the rest
of the sequence is not run) and `Crash`. `AgentsLeave` and `ProvidersLeave` add
deletions.

`verdicts` is a history variable. It records the decisions written for each plan,
by a human or by the automatic approval, also after the status of the plan has
moved on.

### TaskLifecycle

The lifecycle the README of the program draws: `inbox`, `planning`,
`awaiting_approval`, `executing`, and `done`, `failed` or `rejected`, from where a
task may be started again, with the promise that planning and execution end.
`Orchestrator` instantiates it with the status column as `Lifecycle`.

### Execution

| Variable | In the code |
|---|---|
| `job` | `jobs.status` and `attempts` of the execute job |
| `plan` | `plans.status` and the statuses in `plans.steps` |
| `task` | `tasks.status` |
| `runs` | one record for each attempt: the locals of `ExecutePlan` (steps that its bundle does not have as done, the step at hand, `failures > 0`), then the completion it reports |
| `events` | the step event each run waits for: on the network, or in `applyEvent` with the row that `GetPlan` has returned |
| `reports` | the handler of a completion of each run, and `failJob` called by `requeueLoop`: the store call it makes next, the row it has read |
| `swept` | `RequeueStaleJobs` has the job between its SELECT and its UPDATE |
| `finished` | history: steps which the model of some run has answered as done |
| `mishap` | history: an event was lost, or a run wrote that had lost the job |

A run is claimed (`Claim`), gets the plan as it is recorded (`BuildBundle`), and goes
through the steps that are not done: `StartStep`, then `StepDone`, `StepFailed` (the
engine goes on) or `StepError` (it returns at once). After the last step `WrapUp`
takes the verdict of the model, which counts only if no step failed *in this run*.
Each event is a request the engine waits for, and a read (`ReadEvent`) and a write
(`WriteEvent`) of the whole plan row; its failure is ignored (`LoseEvent`).
`completeExecuteJob` and `failJob` are the sequences of store calls `AfterCall` gives.

The model does not say when a row of `runners` ages: the sweep may take the job
whenever it is running, and the run that had it goes on or leaves. A completion is
posted again only after the request before it has ended. `Kinds` says for each attempt
which kinds of runner may claim it. Each run has one event
under way: a client that gives up on a request cancels its handler, which is
`LoseEvent`.

### Delegation

| Variable | In the code |
|---|---|
| `tasks` | rows of `tasks`: there or not, `parent_task_id`, `agent_id`, `status`, whether a plan job was queued; and, as history, the number of delegations that led to the task |
| `staff` | rows of `agents`, of one team |
| `runs` | the bundle of each engine: its task, its agent, its teammates |
| `calls` | the handler of the delegate event the engine waits for: the store call it makes next, `id` and `depth` of `taskDepth`, the task it has created |
| `mishap` | history: such a handler was cut off |

`Delegate` is `em.Delegate` for a reply of the model. The handler walks up the tree, one
`GetTask` per step (`taskDepth`), reads the creator and compares the depth with the
bound (`Check`), inserts the task (`Insert`), and, for a task with an assignee, makes
the three calls of `startTask` (`GetAssignee`, `SetStatus`, `CreateJob`). Between any two
of them tasks and agents may be deleted, which the walk finds out only if it comes
by (it then ends with the error of `GetTask`), other engines insert, and the handler may
be cut off (`CutOff`). The parents of deleted rows are kept in the model, to
measure chains with; no handler reads them.

What becomes of a task in other respects is coarse: `Approve` and `FailTask` stand for all
that `Orchestrator` has between planning and execution. An engine delegates as often
as it likes, also when its job is not its own any more, since `handleRunnerEvents`
does not ask. `resolveTeammate` returns any teammate of the bundle or nobody: how a
name is matched is text. Agents are not hired: a new one is in no bundle.

### Staff

| Variable | In the code |
|---|---|
| `staff` | rows of `agents`: there or not, `status` |
| `usage`, `credit` | `tokens_in + tokens_out` and `tasks_done`, split by the run they came from (the columns hold the sums) |
| `jobs` | `jobs.status`, `agent_id`, `attempts`, and the run of the last claim |
| `runs` | one record for each claim: the handler that builds the bundle, then the engine, then the posts of its completion |
| `reports` | the handler of the completion of each run: the statement it makes next |
| `swept` | jobs between the SELECT and the UPDATE of `RequeueStaleJobs` |
| `desk` | the agent that `pickTeamAgent` has returned to `handleCreateTask` |
| `edits` | the row that each open `handleUpdateAgent` has read |
| `stuck`, `mixed` | history: agents left working by a step that nothing makes good; agents that had two jobs at once, or whose status was overwritten |
| `upsets` | number of forms, deletions, losses, deaths, cuts and sweeps so far (a bound) |

A run is claimed (`Claim`), its agent is marked (`Mark`) or the bundle fails
(`Unbuildable`). The engine calls the model (`Complete`) and sends a usage event
(`AddUsage`, `LoseUsage`), any number of times, returns (`Return`) and reports (`Post`,
`GiveUp`), or goes without a word (`Leave`). A completion is checked (`Check`, not for
the embedded runner), ends the job (`Finish`), is counted (`Count`) if it was a
successful execution, and resets the status in the deferred call (`Rest`). Meanwhile the
sweep takes jobs back, people hire, edit and delete agents and open tasks for the team.

The code promises little about the status, and the two history variables say exactly
what it does not promise. An agent is **stuck** on working when the sweep or a late
bundle failure ends its job (nobody resets the status), a handler is cut off before the
deferred call, a mark comes after the job has been taken away, or a form that has read
`working` is saved after the reset. It is freed by the next completion of any of its
jobs. An agent is **mixed** from when it is claimed for while another of its jobs runs
or ends, when the embedded runner reports a job it has lost, or a form that has read
`idle` is saved after the mark. From then on it may be shown as idle while it works.
Autonomous agents are an example: `approvePlan` queues the execute job before the deferred
call of the plan job resets the status (`orchestrator.go:274`, `218`).

### LiveView

| Variable | In the code |
|---|---|
| `version` | what the query of the view returns, counted by the writes that change it |
| `owed` | handlers between such a write and their `Hub.Broadcast` |
| `open`, `registered` | the socket of `useLive` is connected; `HandleWS` has put it into `Hub.clients` |
| `queue`, `wire` | the channel of the connection (64 in the code); events written to the socket |
| `unread`, `answers` | requests of `useData` whose handler has not read yet; responses under way |
| `shown` | `data` of `useData` |
| `seen`, `promised`, `missed` | history: the newest version read for the view; the last version written while registered; since the last read something failed, or a full channel dropped the only event of its kind |

Each call of `useLive` opens a socket of its own and each `useData` has requests of
its own, so one view stands for all. A handler writes (`Change`), goes on and
broadcasts (`Announce`), or fails before it does (`Abandon`). `Broadcast` drops the
event if the channel is full. `Forward` is the write loop of `HandleWS`, `Receive`
the filter of `onmessage` with the request it starts, `Serve` the handler of that
request, `Arrive` the call of `setData`. Several requests may be under way: nothing
in the code joins or cancels them.

Three things are deliberately not promised, because the code does not do them. What is
written before the hub knows the connection, or while it is broken, is not fetched
when the socket is back (`ws.ts:34`). A response that is overtaken by a later one
replaces it (`ui.tsx:8`): with `Ordered` FALSE an old version stays on the screen until the
next event. And some writes have no broadcast at all: teams, providers, the
heartbeat of the embedded runner, the ageing of `last_seen`.

## 3. Runs

`tlc -config X.cfg M`, where `X` is the run and `M` is `MCJobQueue` for `queue_*`
and the first three of `bad_*`, `MCOrchestrator` for `orch_*` and `bad_decisions`,
`MCStaff` for `staff`, `MCExecution` for `execution`, `Delegation` for `delegation`, `LiveView` for `live_view`.

| Run | Instance | Properties | Shows |
|---|---|---|---|
| `queue_restart` | 1 job, 1 remote and the embedded runner, 2 attempts, 2 posts, 1 restart, lossy, fairness | TypeOK, OneHolderPerAttempt, HolderIsNamed, AttemptsBounded, FailedForGood, DeadRunnerReleased, RowsSpec | an attempt has one holder, the one the row names; the attempt budget holds; only exhausted jobs are failed for good; jobs of dead runners are taken back; `JobQueue` implements `JobRows` |
| `queue_settles` | 2 jobs, one with a selector of two pairs that the embedded runner meets by half, 1 remote and the embedded runner, window 2, no losses, fairness | IInv, HolderFits, EveryJobSettles | the inductive invariant of the proofs where two jobs compete; who is given a job has the labels it asks for; a job the embedded runner may run is done or failed in the end |
| `orch_serial` | 1 task, 2 plans, 4 jobs, one handler at a time, providers leave, fairness | TypeOK, StatusTells, OneActivity, VersionsDistinct, DecidedOnce, LifecycleSpec, RowsSpec | the status of a task tells what goes on, which is one thing at most; `Orchestrator` implements `TaskLifecycle` and `JobRows` |
| `orch_gate` | 1 task, 1 plan, 2 jobs, two overlapping handlers and the requeue loop, aborts, crashes, deletions | Gate, DecisionSticks, RowsSpec | nothing executes unapproved; no decided plan returns to the inbox; `JobRows` holds when everything overlaps and breaks off |
| `execution` | 2 steps, 2 attempts, the embedded runner first and then a remote one, lost events, cut handlers, restarts | IInv, WorkDone, StepsRecorded, RecordStays | a task is done only if its steps were; what is recorded as done stays so and is not run again, until a run writes that has lost the job or an event is lost; the inductive invariant of the proofs |
| `delegation` | 3 tasks, 2 agents, 1 engine, depth 1, cut handlers, deletions, fairness | IInv, NoLongChain, DelegatedStarts | no chain of delegations is longer than the bound; a delegated task starts planning; the inductive invariant of the proofs |
| `staff` | 2 agents, 2 jobs, 2 claims (the first by either kind of runner), 2 attempts, 1 answer of a model, 2 posts, 1 open form, 2 mishaps, fairness | IInv, RestsIdle, WorkingShown, LedgerExact, CountedOnce, PickIsFair, AgentRests, RowsSpec | what the status of an agent says, and when it may be wrong; nothing is counted twice; the inductive invariant of the proofs; `Staff` implements `JobRows` |
| `live_view` | channel of 2, socket of 1, 3 requests, 3 writes, failures, fairness | IInv, UpToDate, ChangesAppear | what was written while a view was connected is shown in the end, unless something fails or the last event of its kind is dropped; the inductive invariant of the proofs |

The runs named `bad_*` each check one statement of the repository that the code
does not keep; TLC finds the counterexample. They are the findings of section 4.

The properties in words:

* **OneHolderPerAttempt, HolderIsNamed.** Whatever claims, sweeps, lost
  responses and deletions race, one attempt of a job is in one place: the bundle
  of one claim, or one worker. While the row is running, the holder of its last
  attempt is the runner the row names, so the sweep judges the right runner.
  Earlier attempts may live on as zombies.
* **AttemptsBounded, FailedForGood.** The sweep decides with the attempts its
  SELECT returned. Nevertheless a job that used its attempts is never queued
  again, and only such jobs reach the final `failJob`.
* **DeadRunnerReleased.** A job does not stay running in the name of a process
  that is gone, whatever is lost and across a restart.
* **EveryJobSettles.** A queued job that the embedded runner may run ends, though
  it may be claimed first by a runner that dies with it or is deleted, and though
  jobs that nobody serves are in front of it in the window. Without losses and
  restarts: with them the code does not keep it (section 4).
* **HolderFits.** The runner a row names carries all pairs of the selector, as the
  README of the program says, whatever is claimed, requeued and restarted.
* **RowsSpec.** Seen from outside, a row is claimed only from the queue, each claim is
  counted, and one that has used its attempts does not come back, although the sweep
  and the completions write by id with what they have read before.
* **Gate.** An execute job exists only for a plan for which an approval was
  written, under every interleaving, abort and crash.
* **DecisionSticks.** A decided plan is never pending again, though step events
  write whole plan rows back.
* **StatusTells.** Between requests, `planning` means that a plan job is queued
  or running, `awaiting_approval` that a plan is in the inbox, `executing` that an
  execute job is queued or running, and any other status that nothing goes on.
* **OneActivity.** Between requests, at most one job or pending plan is open for a
  task, although runners report twice, late, and lose jobs to the sweep.
* **VersionsDistinct, DecidedOnce.** Plan versions of a task differ; a plan is
  decided once.
* **LifecycleSpec.** Tasks make the moves of `TaskLifecycle` only, and planning and
  execution end.
* **WorkDone.** A task is done, or its plan completed, only if every step was
  answered as done in some run. A run skips what its bundle has as done, the bundle
  comes from a row that stragglers overwrite with rows they have read before, and
  any run may report: the claim of success rests on a chain of records none of which
  is protected. It holds because all of them err on one side. A step may be run
  again or be recorded as running when it is done, and a completed plan may show
  steps that are not done, but nothing is recorded as done that was not.
* **StepsRecorded, RecordStays.** Until a run writes that has lost the job, or an
  event is lost, a completed plan shows every step as done, a step recorded as done
  stays so, and a plan that has ended is not opened again, through any number of
  requeues. After such a write all three fail: a straggler's event writes back the
  row it has read, its status included (drop `~mishap` to see it).
* **NoLongChain, DelegatedStarts.** The bound compares a number that was counted in many
  statements, while the tree lost rows, with a limit, and inserts a row in another
  statement. No chain exceeds it: rows do not move, a walk that misses a row ends, so
  a count that is finished is exact, and nothing is ever put between a task and its
  parent. A delegated task that has an assignee is planned, unless the handler is cut off
  between inserting and starting it (it then stays in the inbox with its
  agent's name on it), or the assignee or the task is deleted.
* **RestsIdle, WorkingShown, AgentRests.** The status is one flag for all jobs of an
  agent, which six places write without reading it. `RestsIdle`: who has no job running or
  ending is idle, or stuck in one of the named ways. `WorkingShown`: who has one job at a
  time is shown as working as soon as the claim has marked him, although runs of an
  earlier attempt still report, are refused, or are served twice. `AgentRests`: a
  working agent rests in the end, or is stuck, or his run has gone without a report and
  waits for the sweep.
* **LedgerExact, CountedOnce.** Each answer of a model is in the counters once, or its
  event was lost, although the row is written back by forms and by runs that have lost
  their job. A job that was claimed once counts once as a finished task, although its
  completion is posted again. (A job that was claimed again may count for each claim: the
  check of one completion may come before the sweep and the next claim, its write after
  them.)
* **PickIsFair.** A task for the team does not go to somebody at work while a colleague
  rests, unless a status is wrong in one of the named ways. It relates the choice to the
  jobs, not to the flag it is made by.
* **UpToDate, ChangesAppear.** An event says that something has changed, not what.
  A request may read before the write that the event is about, or after several
  writes; a full channel drops events, which is harmless only as long as one of the
  kind is still queued. Nevertheless: when nothing is on its way and nothing was missed, the
  view shows at least what was written while it was connected, and it comes to
  that. `Informed`, a part of `IInv`, says what has to be on its way meanwhile.

Each property of a passing run has a mutant: a plausible bug in one definition
(`...Unguarded`, `...OneMore`, `...JobFirst` and so on, written next to the
definition it replaces), with which TLC finds the property violated. No
specification uses these definitions.

## 4. Findings

What the code does against what the repository says of it. Each counterexample
can be followed in the code, statement by statement.

| Run | Code | What happens |
|---|---|---|
| `bad_requeue` | `store/store.go:543` | a completion between the SELECT and the UPDATE of the sweep is overwritten: a finished job is queued again |
| `bad_embedded_restart` | `server/embedded.go:24` | after a restart the embedded runner revives its row under the same id; the job its dead goroutine ran stays running for ever |
| `bad_lost_completion` | `runner/remote.go:162` | all posts of a completion fail while the runner lives: its heartbeat keeps the job from being requeued |
| `bad_decisions` | `server/api.go:561` | a plan is decided twice: two humans, or a human and the automatic approval |

Two more things the code does that its comments do not say, without a run of their own.
`ClaimJob` "atomically hands the oldest matching queued job to a runner"
(`store/store.go:479`), but its SELECT takes the 50 oldest queued jobs before selectors are
matched, so unmatched jobs can hide the matching ones behind them: `EveryJobSettles`
fails with `ClaimWindow = 1` in `queue_settles`. And `handleCreateTask` speaks of "falling
back to the least-loaded one" (`server/api.go:409`) where `pickTeamAgent` takes the first.

The properties of `orch_serial` hold because the run leaves four things out, one
at a time. Changing its constants shows what each does to them:

* `Overlap = TRUE` breaks `DecidedOnce` (`bad_decisions`), `StatusTells`
  (a plan is decided before `completePlanJob` sets `awaiting_approval`,
  `orchestrator.go:279`, which then overwrites the status the decision wrote) and
  `OneActivity` (two assignments of one task at once queue two plan jobs).
* `Faults = TRUE` breaks `PlanningDrafts`: `startTask` is cut off between
  `SetTaskStatus` and `CreateJob` (`orchestrator.go:38`). The task stays in planning,
  which no agent drafts and which `handleAssignTask` refuses to start again.
* `AgentsLeave = TRUE` breaks `PlanningDrafts` and `ExecutingRuns`: the end of
  `completePlanJob` and `approvePlan` (`orchestrator.go:373`) find out that the agent
  has been deleted when the plan, the job or the task has been written. The task
  stays in planning, or in executing with no job.
* `EmbeddedOn = TRUE` breaks `StatusTells`: the goroutine of the embedded runner
  calls `completeJob` without the check of `handleRunnerComplete` (`embedded.go:72`),
  so a job it has lost and that was claimed again ends twice, for example with a
  plan in the inbox of a task that the second report has failed. (With five jobs.)

In `JobQueue`, a completion whose check came before a requeue and whose write came
after it sets a queued or failed job to done (`runnerapi.go:127`). The safety
properties allow for this: they bound who holds an attempt and how many there are,
not where a row ends.

## 5. Proofs

`tlapm` on `JobQueueProofs.tla`, `SelectorProofs.tla`, `OrchestratorProofs.tla`,
`SerialProofs.tla`, `StaffProofs.tla`, `ExecutionProofs.tla`, `DelegationProofs.tla` and
`LiveViewProofs.tla` checks all proofs. They
hold for every value of the constants that satisfies the assumptions, and those
are weak: `QueueAssumption`, `SelectorAssumption`, `StaffAssumption`, `OrchestratorAssumption`, `ExecutionAssumption`,
`DelegationAssumption` and `LiveViewAssumption` only say that bounds are numbers, that
ids differ from the empty id and rows from no row, and that the loop is not a handler.
No set is assumed to be finite and no number of handlers, runners or rows is
fixed. The theorems of `SerialProofs` alone assume more, and say so in their statements.

**JobQueueProofs.** `QueueInvariant` is `Spec => []IInv`, and `TypeCorrect`,
`AttemptsAreBounded`, `OneHolder`, `HolderNamed`, `OnlyExhaustedFail` follow. None of
the four invariants is inductive: the UPDATE of the sweep is unguarded and could
put any row back into the queue. Three facts make it so.

* `SnapshotExact`: between SELECT and UPDATE, the attempts of a row the sweep has
  selected do not change and the row is not queued. Only a claim changes attempts,
  a claim needs a queued row, and only this sweep makes such a row queued. There
  is one requeue loop; with two the argument fails.
* `HoldersCounted`: a holder's attempt is at most the count in the row, so the
  next claim, which counts one more, gets an attempt nobody holds.
* `ClaimsCounted`: a running row has been claimed and a row that is not there has
  not.

`HoldersFit` is `Spec => []HolderFits`, from an invariant of its own, `Placed`: rows
still to be tried by a claim, and rows that name a runner, match that runner. It rests on
`MatchCarries` of `SelectorProofs`. `QueueRows` is `Spec => RowsSpec`, the refinement: from
`IInv`, each action maps to a step of `JobRows` or leaves the rows alone.

**SelectorProofs.** `MatchCarries` and `CarrierMatches` compare `SelectorMatches` with the
reference: a runner that matches carries all pairs, and a runner that carries all pairs
matches if no pair asks for `""`. `ContradictionUnmet`: two values for one key are met by
no runner. `OwnLabelsMatch`: a runner whose flag is the selector takes the job.

**StaffProofs.** `StaffInvariant` is `Spec => []IInv`; `WorkingIsShown`, `LedgerIsExact`,
`CountsOnce`, `RestsWhenIdle`, `FairPick` and the refinement `StaffRows` follow. Three
parts of `IInv` carry the rest. `StatusBacked`: who is working and not stuck has a running
job that was marked, or a completion about to reset the status. `OneAtATime`: for an agent
that is not mixed, no job runs beside a completion that is half way, other than the one
it is about to end; so the deferred reset never hits another job. `CreditEarned`: a run that is counted, or
about to be, has ended its job, so the check of a second completion refuses it.

**OrchestratorProofs.** `GateInvariant` is `Spec => []GateInv`; `TypeCorrect`,
`ApprovalGate` and `DecisionsStick` follow. `GateInv` adds to the two properties what
is true of handlers half way: one that still has to queue an execute job either
has the approval of its plan written already or writes it first
(`HandlersGated`), no handler has a write of a pending status left for a decided
plan, and every write that takes a plan out of `pending_approval`
leaves a verdict or comes after one (`VerdictsWritten`, `JobsGated`). The step
event is the delicate case: it writes the status it has read. It is harmless
because it refers to a plan of an execute job, and by `JobsGated` such a plan was
approved before, so the status that was read is not `pending_approval`.

`RowsInvariant` is `Spec => []RowsInv`, and `OrchestratorRows` is `Spec => RowsSpec`: the
refinement of `JobRows` under every overlap, cut, crash and deletion. A step of `JobRows`
needs the row it moves to be where the step starts, but the store calls of a handler are
made long after it has read the row. `RowsInv` says what such a call can still rely on:
whoever has or had a job, and every call that is made for a job, has its claim counted in
the row, for attempts never fall (`CallsCounted`, `HoldersCounted`); and only the requeue
loop queues a row again, with nothing else left to do, for a row that is not queued and
has attempts left (`RequeueAlone`, `Counted`). So an end or a requeue that comes late
still maps to `End` or `Requeue`. `AttemptsAreCapped` (no row counts more than
`MaxAttempts`) is then a consequence of `JobRows` alone.

**SerialProofs.** The properties of `orch_serial` for every size of the tables. What the
theorems assume beside `OrchestratorAssumption` are switches of the model, and section 4
shows what each of them does to the properties when it is on, so no weaker
assumption would do:

* `DistinctVersions` and `OneDecision` assume `~Overlap` only. The code does not
  enforce that; it is the load under which one request is served before the next comes.
  Handlers may be cut off, the process may crash, agents may leave.
* `StatusTold`, `OneThingGoesOn` and `TasksFollowLifecycle` assume also `~Faults`,
  `~EmbeddedOn` and `~AgentsLeave`, the constants of `orch_serial`: requests run to their
  end, jobs run on remote runners, whose completion is checked, and agents with work are not
  deleted. Providers may leave, tasks may be deleted, runners may report late and twice
  and lose their jobs to the requeue loop.

`ReadyInv` says of each call left of a handler what it needs of the table of plans: a
version that is about to be written is above those of its task, a decision is the
first call and its plan has no verdict, a plan is routed right after its creation.
Without overlap nothing comes between. `SerialInv` is an account of handlers half way: one
disjunct for each kind of work (`ToStart`, `ToApprove`, `ToReplan`, `ToPropose`,
`ToConclude` and so on) gives the calls that may be left and, for each, what
goes on for the task at that moment: nothing, one job, or one plan in the inbox. For each
other task, and for all when no handler is at work, `Tells` holds, which is `StatusTells` and
`OneActivity` in one and covers deleted tasks too. Each step then takes a disjunct to
the next, or ends in `Tells`. The same disjuncts say from which status a task may be
moved, which is the refinement of `TaskLifecycle`: `TasksFollowLifecycle` is its safety
part, `Spec => Lifecycle!Spec`. The theorem `OneThingGoesOn` needs of cardinality only that of
the empty set and of singletons.

**ExecutionProofs.** `ExecutionInvariant` is `Spec => []IInv`; `TypeCorrect` and
`WorkIsDone` follow. `WorkDone` is about two rows; `IInv` says the same of every copy
of them: of rows that handlers have read and not yet written back, of events on
their way, of completions, and of runs half way, where it reads: as long as nothing
has failed in this run, each step is finished, at hand, or ahead (`RunHonest`). Two
things carry the proof. `finished` only grows, so a copy that was honest stays
honest however old it is when it is written (`HonestGrows`). And failures are
remembered by the run that had them, so a verdict of success is taken only from a
run whose bundle and answers account for all steps. The proof covers lost events,
cut handlers, restarts and any number of stragglers.

`RecordInvariant` is `Spec => []RecInv`; `StepsAreRecorded` and `RecordsStay` follow.
Both properties speak of the time before the first mishap: an event lost, or a write
by a run that has lost its job. `RecInv` keeps, at all times, the order of things: runs follow
their claims, an engine waits for its event before it reports, the requeue loop fails
only a job of the last attempt (`Ordered`). Until the mishap it keeps
`Faithful`: of the last run, the row its event was read from is the row there is; no
recorded step is ahead of it or reported as anything but done; and while nothing has failed
in it, a step that is neither ahead nor at hand is recorded or on its way. The runs before the
last are of no concern: a write of theirs is the mishap.

**DelegationProofs.** `DelegationInvariant` is `Spec => []IInv`; `DepthIsBounded` follows:
no task is further than `MaxDepth` delegations from the task of a human.
`LevelsCount` says that the recorded level of a task is one more than its parent's,
and `WalkExact` is the invariant of the loop of `taskDepth`: what is counted and the level of
the task the walk has come to make the level of the task it started from. Both rest on
`Rooted`: no step, a deletion included, moves a row in the tree. `NoLongChain` says the
same of chains of parents, without the recorded levels. It is proved as `NoRunawayChain`: in
a chain that starts anywhere, the place of a task is at most its level (`LevelsRise`), since a first
place where this fails would come after one where it holds; the least element of the
places that fail takes the part of an induction. A chain of `MaxDepth + 2`
tasks would then end above the bound.

**LiveViewProofs.** `ViewInvariant` is `Spec => []IInv`; `ViewUpToDate` follows.
`UpToDate` speaks of a moment at rest; `Informed` extends it to all others: as
long as the newest read is behind what was promised, a handler owes a broadcast, an
event that the view watches is queued or on the socket, or a request has still to
read. Each step hands this on to the next stage. The lemmas on sequences say that
appending, taking the head and taking an answer out keep what `Informed` and the
last answer need. `StarMissesNothing` is the case where dropping cannot hurt: if
every event is watched, a full channel holds one (a capacity of 1 would do).

Every invariant and action property that a passing run checks is the subject of a theorem.
Model-checked only is what the prover cannot reach: liveness under fairness
(`EveryJobSettles`, `DeadRunnerReleased`, `AgentRests`, `DelegatedStarts`,
`ChangesAppear`, and the fairness that `LifecycleSpec` adds to `Lifecycle!Spec`), and
`ENABLED`. What
`ParseLabels` makes of a flag is taken as the function it computes: the loop
over the pieces of the string is not modelled.

## 6. Bounds and fairness

**Queue.** `MaxJobs`, `Remotes`, `MaxPosts`, `MaxRestarts` bound the instances.
Jobs interact only through the window of the SELECT and through a runner being
busy, which two jobs show (`queue_settles`); the races over one row need one job, two
runners, here one of each kind, and
the sweep. `MaxAttempts` is 2 instead of 3: the boundary matters and not its value, and
the first requeue differs from the last one already. Two posts are a report and
its repetition. One remote id per registration, so a
runner that registers again is the next id. The 50 of the SELECT is scaled to 1
or 2. The safety results are proved without bounds.

**Orchestrator.** `TaskIds`, `PlanIds`, `JobIds` and `Handlers` bound the instances.
Two plans and four jobs allow plan, request for changes or retry, plan again,
execute. `Room` is the guard that keeps a bounded instance from running out of rows
half way through a function, which the database does not do: a request that leads
to a new plan job starts only while there are rows for what may come of it. In
`orch_gate` one plan and two jobs suffice for two decisions, the automatic
approval, step events and late reports to race over one plan.

**Execution.** Two steps are needed for one to be recorded while another is at hand,
and for a write-back to concern a step that is not the event's; two attempts, for a
successor and a straggler, with the last sweep failing the job. The first attempt is
the embedded runner's, which a restart kills and whose completion is not checked,
the second a remote runner's. `WorkDone` is proved without bounds and for all kinds.

**Delegation.** The bound is scaled from 3 to 1. Three tasks are a root, its child and
the one that must not be. One engine can be given a root, and later its child, and
its walk races with everything humans do; engines do not share anything but rows,
and a walk never meets a row that is inserted after its own task. The depth is proved for any
bound and number of engines.

**Staff.** Two agents are the one that is picked and the one that is not. Two claims are
two attempts of one job, or two jobs, of one agent or of two. The embedded runner, whose
completion is not checked, may make the first. One answer of a model is enough to be lost, doubled or
overwritten. Two mishaps make a sweep with a straggler, a form over a completion, a cut in
a completion of a swept job. More of each is covered by the proof.

**Live updates.** A channel of two can be full of other events, full of watched ones, or
mixed; three requests overlap in every order that matters to a write between them.
Versions are counted to four: a write before the connection, two that race, and one
after. `Refetch`, which users start, leaves room for one more request, so that the
bound on requests never takes away the one an event starts. The invariant is
proved without bounds.

`CHECK_DEADLOCK FALSE` is set because an instance stops when its bounded rows are
used up and all work is done.

**Fairness of the queue** (`Fairness` in `JobQueue`). The requeue loop ticks for
ever (weak fairness of the scan, of each update, of each failure). A live runner's
loops run: it claims, the scan of candidates proceeds, the job it received ends
(`ExecuteJob` returns, the LLM client has a timeout), it posts and gives up after the last
post. The row of a dead process ages. A silent live runner is heard again: its
heartbeat is weakly fair, since the ticker goes on. Requests that are neither
lost nor cut off are served. Nothing is assumed of registrations, deletions,
deaths, losses, restarts. `EveryJobSettles` needs somebody who goes on serving: the
embedded runner, which never dies by itself.

**Fairness of the orchestrator** (`Fairness` in `Orchestrator`). A handler that
runs makes its next call (weak). Some runner claims each queued job and reports it
(strong, because with one handler at a time another request may take the turn in
between, and because the sweep may take the job back in between; attempts are
bounded, so this happens finitely often). Humans need not decide, which is why
`awaiting_approval` may last.

**Fairness of delegation** (`FairSpec` in `Delegation`). A handler that has begun makes its
next store call (weak, for each engine). Nothing is assumed of engines, humans or jobs.

**Fairness of the agents** (`Fairness` in `Staff`). For each run, the claim handler or the
engine goes on (the client of the model has a timeout) and the handler of its completion
makes its next statement (weak). Nothing is assumed of claims, deaths, cuts, sweeps and
people.

**Fairness of live updates** (`Fairness` in `LiveView`). Handlers that have written
broadcast or fail, the write loop of a connection that stays up writes, the browser
delivers messages and answers, handlers of requests read. All weak. Nothing is
assumed of reconnecting.

## 7. What is not modelled

* **Texts and logs** on which no decision depends: descriptions, results, priorities, the
  activity log, the statistics.
* **What a deletion of the task or plan does in the middle of an execution**;
  `Orchestrator` has it at the granularity of jobs.
* **CRUD of providers and teams**: single statements, without a decision that is made
  with what they return, but for the check that the provider or team of an agent exists.
  Only what they do to the rest is in: a missing provider fails a bundle. (The
  schema declares no foreign keys; `buildBundle` is where a deleted provider is noticed.)
* **The connection pool**: one connection; each query closes its rows before
  the next statement, which is what makes statements atomic steps.
* **HTTP, JSON, tokens, static files, LLM clients, UI pages, charts, images**:
  conversions and presentation without state of their own.
* **Several control planes** on one database: the code does not support them.

## 8. Plan

In the order of importance. All of it is done; what may still be added stands at the end.

1. `JobQueue` – the queue under losses, restarts and races. *Done.*
2. `Orchestrator` – tasks, plans and jobs, one store call per step. *Done.*
3. `TaskLifecycle` and its refinement by `Orchestrator`. *Done;
   the safety part is proved.*
4. Proofs of the queue invariant and of the approval gate. *Done.*
5. `Execution` – one execute job step by step, and the proof of `WorkDone`. *Done.*
   `StepsRecorded` and `RecordStays` are proved as well.
6. `Delegation` – the delegate events of a step, `delegate` and `taskDepth` over a forest of
   tasks with deletions, and the proof of the bound. *Done.*
7. `Staff` – `agents.status` under several jobs of one agent, failures by the sweep and forms,
   the counters, and `pickTeamAgent`; its invariant and refinement proved. *Done.*
8. `Selector` – `SelectorMatches` against a reference definition, with proofs, and in
   place of the constant relation of `JobQueue`. *Done.*
9. `LiveView` – the hub's queues that drop events, clients that filter, refetch and
   reconnect. Property: a view shows the last state in the end, and when not. *Done.*
10. `JobRows`, and the proofs that `JobQueue`, `Staff` and `Orchestrator` implement it.
    *Done.*
11. A serial inductive invariant for `StatusTells` and `OneActivity`, and the
    step-by-step proof of the safety part of `LifecycleSpec`. *Done.*

Still of interest: what remains of `StatusTells` when agents leave or handlers are cut
off, as a weaker property of every task that names the stranded statuses; the safety part of
the liveness arguments of the queue (who can act next on a job that is not at its end); and
the connection of `Execution` with `JobRows`.
