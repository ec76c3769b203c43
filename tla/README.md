# A verification project for n8n

TLA+ modules, TLC configurations and TLAPS proofs for the parts of n8n whose
correctness depends on the order in which things happen:

* the task runners (`packages/cli/src/task-runners`, `packages/@n8n/task-runner`);
* the life of an execution in a regular-mode process (`workflow-runner.ts`,
  `active-executions.ts`, `concurrency/`, `wait-tracker.ts`,
  `waiting-webhooks.ts`, `execution.service.ts`);
* executions in queue mode (`scaling/scaling.service.ts`,
  `scaling/job-processor.ts`, `workflow-runner.ts`);
* the election of a leader among several mains (`scaling/multi-main-setup*.ts`);
* the main loop of the engine (`packages/core/src/execution-engine/workflow-execute.ts`).

`PROJECT.json` lists the components, the runs, the mutants every property is
tested with, the source lines behind each definition, the findings, the hazards
and the theorems.

Run a model with `tlc -config <run>.cfg <module>`, check a proof module with
`tlapm <module>.tla`.

## 1. Inventory

### The processes

An n8n instance is one *main* process (editor, API, triggers, webhooks,
timers), in queue mode also *worker* and *webhook* processes and possibly
several mains, of which one is the leader. In regular mode the main process
executes the workflows itself. User code of Code nodes is executed by *task
runner* processes, in internal mode children of the process that executes the
workflow, in external mode started by a launcher. State is shared through the
database (the execution table above all) and, in queue mode, Redis.

All of these are Node.js processes: code between two `await`s is atomic, and
everything that is read before an `await` may be stale after it. That is where
most of the hazards are.

| Component | State it keeps | Operations | Interacts with | Correct when |
|---|---|---|---|---|
| Task broker (`task-broker.service.ts`, `task-broker-ws-server.ts`) | known runners, pending offers and requests, tasks, pending accept callbacks, timers | register, offer, request, acceptOffer, done/error, rpc routing, timeouts, drain | requester by direct calls, runners by WebSocket | every request settles, is executed by one runner at most, and no task is left behind |
| Task requester (`task-requester.ts`) | promises of `startTask`, running tasks | startTask, cancelTasks, data/rpc answers | broker | every promise is settled |
| Task runner (`@n8n/task-runner`) | open offers, running tasks and their status, timers, pending calls | sendOffers, accept, settings, cancel, timeout, drain, stop | broker | never more than `maxConcurrency`; no impossible status |
| Runner processes (`task-runner-process-base.ts`) | child process | start, kill, restart | runner lifecycle events | tasks of a killed runner end |
| Concurrency control (`concurrency/`) | capacity, queue, reservations | throttle, release, remove, disable | ActiveExecutions, stop | capacity accounts for everybody; nobody waits beside a free slot |
| ActiveExecutions, WorkflowRunner, saving hooks | entries with status, workflow, promise; the execution row | add, attach, setStatus, stop, finalize, shutdown, run | database, concurrency control | one run at a time; a `running` row is being carried out |
| WaitTracker, waiting webhooks | tracked executions, timers | poll, startExecution, stop, executeWebhook | WorkflowRunner | each wait is resumed once |
| ExecutionService.stop, startup | none of their own | stop, runEnqueuedExecutions | all of the above | a stop ends the execution; queued executions survive a restart |
| Queue mode (`scaling/`) | Bull jobs, running jobs, job results | addJob, processJob, stopJob, recoverFromQueue | Redis, workers | one worker runs an execution; whoever awaits a job comes to an end; every execution ends |
| Leader election (`multi-main-setup*.ts`) | lease in Redis, role | init, checkLeader, shutdown | Redis; services that follow the role | one leader at a time while Redis answers, one in the end whatever was lost; services follow the role |
| Workflow engine (`workflow-execute.ts`) | node stack, waiting inputs, run data | processRunExecutionData | nodes, hooks | what a node sends is executed once where it was sent; no node runs without data that still comes |
| Partial execution (`partial-execution-utils/`) | none | findStartNodes, findSubgraph, handleCycles, recreate stack | manual executions | the stack it builds equals the one a full run would have |
| Crash recovery, pruning, activation | timers, rows | recoverFromLogs, soft/hard delete, add/remove triggers | leadership | only the leader acts; nothing acts after shutdown |
| Nodes, editor, AI packages, accounts, REST and public API | - | - | - | not modelled: I/O, user interface or request handlers over the database |

### What is hard

`PROJECT.json` lists the hazards at their lines. In short: a timeout that
races a late answer (broker), a promise kept alive by one of several structures
(requester), slots shared by offers, tasks and aborting tasks (runner), wakeups
and returned capacity (concurrency queue), a row that several coroutines
update with and without a condition (executions), data read before a throttle
and used after it (resumption), and crashes in between. In queue mode the end of
one job is told to three parties by three channels (Bull's completion, a
progress message, the row), any of which may be late or missing. A leader's role
is cached on both sides of an `await` on Redis, whose lease runs out meanwhile.
The engine keeps data that waits for other data under indexes that are reused.

## 2. Modules

| Module | Models | Extends |
|---|---|---|
| `TaskMatching` | which request gets which offer, as a set of pairs | - |
| `TaskMatchingProofs` | lemmas about it: the pairs are one to one | TaskMatching |
| `SettleLoop` | the loop of `settleTasks`, iteration by iteration | TaskMatching |
| `SettleLoopProofs` | theorem: the loop computes the pairs | SettleLoop, TaskMatchingProofs |
| `TaskProtocol` | messages and WebSocket channels | TaskMatching |
| `TaskRunner` | a runner process, or the launcher posing as one | TaskProtocol |
| `TaskBroker` | broker and local requester | TaskProtocol |
| `TaskRunners` | both composed; kills, heartbeats, disconnects; properties | TaskRunner, TaskBroker |
| `TaskRunnersProofs` | theorems: types and capacity | TaskRunners |
| `TaskLifeProofs` | theorems: promises, tasks, calls and the requests being served | TaskRunnersProofs, TaskMatchingProofs |
| `ConcurrencyQueue` | capacity, queue and reservations | - |
| `ExecutionLifecycle` | runs, rows, entries, timers, webhooks, stops, restart; properties | ConcurrencyQueue |
| `ExecutionLifecycleProofs` | theorems, in four parts: the capacity; one run at a time, the shutdown and types; a `running` row is being carried out; the limit, with and without stops | ExecutionLifecycle |
| `LeaderLease` | abstract: a lease, and leadership under it | - |
| `MultiMainSetup` | Redis key, connections, timers, processes, shutdown: what both strategies share | - |
| `MultiMainSetupV2` | the new strategy; refinement of `LeaderLease`; properties | MultiMainSetup |
| `MultiMainSetupLegacy` | the legacy strategy | MultiMainSetup |
| `LeaderElectionProofs` | theorems about the new strategy; its refinement of `LeaderLease` | MultiMainSetupV2 |
| `ScalingQueue` | mains, workers, Bull, messages, stop and recovery in queue mode; properties | - |
| `ScalingQueueProofs` | theorems about it | ScalingQueue |
| `WorkflowEngine` | stack, waiting inputs and run data of the main loop; properties | - |
| `WorkflowEngineProofs` | theorems about it | WorkflowEngine |
| `MCSettleLoop`, `MCTaskRunners`, `MCExecutions`, `MCWorkflowEngine` | small instances | |

### Task runners

A task and the offer it was made from have one name, `<<runner, n>>`: an offer
leaves the broker's list before its task is created, so at most one task comes
from it. A restarted process registers with a new id and is another member of
`Runners`.

The broker and its requester live in one process and call each other directly,
so a message handler, with every call it makes until the next macrotask, is one
action: `OnTaskOffer` includes the `settleTasks` it ends with, `OnTaskAccepted`
includes `taskReady` and the settings sent back. The one suspension that
matters is `acceptOffer`, which awaits the runner's answer or a two-second
timer: a task is in `accepting` meanwhile. Pending offers and requests are sets
with an append-only log for their order. `Matches` says which pairs the loop of
`settleTasks` makes; `SettleLoop` has the loop itself.

Runners read one message at a time from a FIFO channel; what a runner wrote
before it died is still read by the broker, and what the broker sends to a
closed connection is lost. Whether an offer is still valid is decided by clocks
the model does not have: any subset of the open offers may be stale when a
runner looks at them, and any offer of a runner may have expired when the broker
does. Offers of the launcher never expire.

`TaskTimeout` in internal mode kills every open runner, as the event it emits is
heard by every `TaskRunnerProcessBase`. `HeartbeatFails` does the same.

Left out, because the local requester is synchronous and they cannot be reached:
`requesterAcceptRejects`, the error of `taskReady` for an unknown requester, and
the failure branch of `getRunnerOrFailTask`. Also left out: remote requesters,
the detector of restart loops, authentication of the WebSocket.

### Executions

A *run* `<<e, n>>` is one call of `WorkflowRunner.run` for execution `e`;
`<<e, 1>>` creates it, the others resume it. Each action is the code between
two awaits, or the commit of one database statement. `pc` follows a run:

    idle -> loading -> adding -> reserving -> marked -> registered -> starting
         -> executing (-> putToWait) -> saving -> saved -> over
                                     \-> closing -> over

and ends in `refused` (ExecutionAlreadyResumingError), `failed` (an error before
it was registered, or nothing to resume), `over`, or `lost` (the process ended).
A run is `closing` when its entry is settled, or nobody awaits its workflow, and
only its hooks are left to write the row.

| Action | Code |
|---|---|
| `Create`, `Reserve`, `MarkRunning`, `AddFails`, `Register` | `ActiveExecutions.add`, with `ConcurrencyControlService.throttle` and the two forms of the row's update |
| `PreflightFails`, `ResponseFails`, `SetRunning`, `StartWorkflow` | `WorkflowRunner.run` and `runMainProcess` |
| `RunFails` | a statement of `runMainProcess` fails before its `try` (`workflow-runner.ts:327-384`): `run` rejects and takes nothing back |
| `StartThrows` | `processRunExecutionData` throws as it starts, because the workflow has issues: `processError` settles the entry and then runs the hooks |
| `PutToWait`, `WorkflowEnds`, `Save`, `CancelSave` | the node that waits, the end of `processRunExecutionData`, and the saving hook, also when a cancellation runs it |
| `SaveFails`, `CancelSaveFails` | the same hook when its statement fails: the workflow logs it and resolves, `failExecution` and `processError` end with it |
| `Finalize`, `ExecutionTimeout` | `finalizeExecution`, and the timeout of the workflow |
| `Poll`, `Track`, `TimerFires`, `Load`, `StopTracking` | `WaitTracker` |
| `WebhookResumes` | `WaitingWebhooks.executeWebhook` |
| `StopRequest`, `StopInRegularMode`, `StopWrites`, `StopFails` | `ExecutionService.stop`, whose last statement may fail |
| `Shutdown`, `Restart`, `RunEnqueued` | `ActiveExecutions.shutdown`, the end of the process and the start of the next |

The data of an execution is the number of times it was saved as waiting
(`waits`), which tells apart what two resumptions read. The entry of
`ActiveExecutions` is the run that made it, its status, and whether its workflow
is attached and its promise settled. `unwritten` is a history variable: the
executions whose row a failed statement was to write, and that no statement has
written since.

Left out: an insert of `add` that fails (there is no row and no slot yet); that a
save which failed is tried once more (the second attempt writes the same status,
with the error and without the time to wait until, so `Save` and `SaveFails`
stand for both); hooks that fail after the row was written;
settings under which a finished execution is deleted instead of saved,
resumption of a parent by its sub-workflow, response promises beyond the failure
to find an entry, streaming, the evaluation queue (a second instance of the same
class). `startTracking` and `stopTracking` as leadership changes are in
`MultiMainSetup`.

### Leader election

Time passes in ticks: the key's time to live, the interval of the checks, and
how long a command takes are counted in them (`Tick` waits for whatever is due).
An asynchronous call is a record with the place of its `await`, the reply and an
age; a main has two for its checks, because nothing but the flag
`leaderCheckInProgress` keeps checks from overlapping, and one for the shutdown.
Redis runs the commands of a connection in order and the replies are handled in
order: `ahead[m][s]` is the set of a main's calls that sent a command before call
`s` did and still await its reply. `Lose` drops a command or its reply: the call fails after
`CommandTimeout`, and the command may yet be carried out when the connection is
back (`ArriveLate`).

| Action | Code |
|---|---|
| `Start`, `InitDone` | `init` before and after its `await` |
| `CheckLeader` | the interval and the start of `checkLeader` |
| `RenewDone`, `ReclaimDone` | `checkAreWeStillLeader` after the renewal and after the attempt to take an absent key |
| `GetDone`, `ClaimDone` | `checkCanBecomeLeader`, likewise; in the legacy strategy `checkLeader` and `tryBecomeLeader` |
| `StopProcess`, `Shutdown`, `Close`, `Exit`, `Crash` | `Start.stopProcess` and `shutdown`, and the end of a process |
| `TakeOver`, `StepDown`, `Emit` | the events `leader-takeover` and `leader-stepdown`, and who hears them |
| `InitWaitTracker`, `registerEventHandlers` | the start of a process after `init`: `WaitTracker.init` (`start.ts:260`) and the registration of the handlers (`:295`) |
| `startTracking`, `stopTracking` | the handlers of `WaitTracker`, the example of a leader's service: `serving` are the mains with a live interval |

A restarted process keeps its host id, as it does in a container.

The checks run from the end of `init` (`start.ts:232`) on, but an event is heard
only once `registerEventHandlers` has run, and the `WaitTracker` reads the role in
between. `phase` has a place for each part: `booting` after `init`, `tracked`
after `WaitTracker.init`, `up` after the registration. `missed` are the mains
whose role changed unheard while they were `tracked`, until an event is heard.
`startTracking` overwrites `mainTimer` without clearing it, so that a main which
missed a stepdown and is told to take over polls twice, and the first interval is
beyond `stopTracking`: `orphaned`. Other services of a leader are registered by
the same call and start later in `start.ts`; a signal that ends a process while it
boots is not modelled.

`LeaderLease` is what the services rely on: one main holds the lease, a main
leads only while it holds it, and it cannot be taken from a main that leads.
`ImplementsLease` maps the lease to the key and the leaders to the mains that are
marked so and are not shutting down. It holds until the first command is lost or
a process comes back under an old id; from then on the abstract lease is in
`Outage`, since n8n promises no exclusion then: a leader whose renewals fail stays
leader while its key expires.

### Queue mode

A *job* `<<e, n>>` is the n-th run of execution `e`. Each action is the code
between two awaits in a main, in a worker or in the leader's recovery, or one
command of Bull. Bull itself is external: a job is waiting, active, completed,
failed or removed; a worker that lost its job cannot complete it; a job whose
worker is gone, or is too busy to renew its lock, is failed by the check for
stalled jobs (`maxStalledCount` is 0).

| Action | Code |
|---|---|
| `Create`, `FindWaiting`, `Resume` | `ActiveExecutions.add` for a new and for a waiting execution |
| `AddJob`, `EnqueueFails`, `Attach` | `enqueueExecution` up to `await job.finished()`; a main is `deaf` if the job ended before |
| `JobFinished`, `FetchRow`, `JobFailed`, `ErrorProcessed`, `ProcessError`, `SaveError`, `StatementFails` | the rest of it, with `processError` and the hooks, and statements that fail |
| `ReceiveResult`, `popJobResult` | the progress message at a main, and what is kept of it |
| `StopRequest`, `StopInScalingMode`, `StopWrites`, `StopJob`, `RemoveJob`, `ReceiveAbort` | `ExecutionService.stop`, `ScalingService.stopJob`, and `abort-job` at the worker |
| `LoadExecution`, `SetRunning`, `StartRun`, `EndRun`, `SaveOutcome`, `SaveCancelled`, `SaveFails`, `Report`, `EndJob`, `PrepareFails` | `JobProcessor.processJob` and the hooks of a worker |
| `ReadRows`, `ReadJobs`, `MarkAsCrashed` | `recoverFromQueue` between its awaits |

Jobs are added with `removeOnComplete` and `removeOnFail`
(`scaling.service.ts:222-226`), so one that has ended is gone. A main hears of
its end only if it listens by then: `job.finished()` is called after the hooks
awaited at `workflow-runner.ts:530`, and `Attach` looks whether the job is still
there.

Left out: webhook responses, stream chunks and MCP results, which share the
channel; metrics; the graceful stop of a worker; executions that are deleted
instead of saved; the path for a workflow that has issues.

### The engine

A workflow is an array of connections per node. Data is told apart by its source
(node, run, output), which is what `waitingExecutionSource` keeps, so lost,
doubled and misdirected data can be seen. The stack is a sequence of items;
`waiting[n]` is a function from indexes to partial inputs, as `waitingExecution`
is; `names` keeps the order of its keys, which decides who is looked at first.
One action is one turn of the loop: a node gives data on some of its outputs
(`RunNode`), returns null, fails, puts the execution to wait, or the execution is
cancelled. `RunNode` includes the sort by position, every `addNodeToBeExecuted`
and the search for an executable waiting node, in that order. Items made by one
process share the object of their node (`made`), and saving keeps the sharing:
`Resume` disables the node in all of them.

Left out: the legacy order, manual and partial runs (destination node, filter,
pinned data), requests of AI nodes to the engine, retries inside a node, required
inputs given as a list. A node that fails and continues gives data on its first
output, which `RunNode` covers.

## 3. Runs

| Run | Instance | Checks |
|---|---|---|
| `tasks_external` | a runner and a launcher, two offers each, one request | `TypeOK`, `PromiseIsGuarded`, `ExecutedForItsRequest`, `ActiveTaskEnds`, `NoUnexpectedTaskStatus` |
| `tasks_internal` | internal mode, runners of two types, data and rpc calls | `ActiveTaskEnds`, `NoLostCall` |
| `tasks_live` | one runner, two offers, two requests, fairness | `CapacityRespected`, `ServedOnce`, `EveryRequestSettles`, `EveryTaskEnds`, `EverySlotIsFreed` |
| `settle_loop` | all lists of up to three requests and offers of two types | `LoopComputesMatches` |
| `exec_lifecycle` | two executions, one slot; one is resumed up to twice; one restart | `LimitRespected`, `OneRunAtATime`, `ShutdownHoldsQueue` |
| `exec_live` | two executions of two runs each, one slot; one is stopped or times out; fairness | `TypeOK`, `CapacityAccounts`, `WorkConserving`, `RunningIsCarriedOut`, `ThrottledProceeds` |
| `leader` | two mains, one of them slow to boot, one lost or late command, one stop or crash, one restart, fairness | `TypeOK`, `AssertsHold`, `ServicesFollowRole`, `ImplementsLease`, `OneLeaderInTheEnd` |
| `queue` | one execution that waits and is resumed, a timeout, one stop or failure, recovery at any point, fairness | `TypeOK`, `OneWorkerPerExecution`, `EveryJobSettles`, `EveryExecutionEnds` |
| `engine` | every connected workflow over five nodes with connections among ten, one wait | `TypeOK`, `NothingTwice`, `DataConserved`, `SourceIsRecorded`, `PartialIsFinal` |
| `leader_legacy`, `queue_recovery`, `engine_merge` | the smallest that shows it (`engine_merge`: that of `engine`) | violations, see section 6 |

### Bounds, and why they are enough

* `MaxOffers` bounds the offers of a runner process. Two let a slot be offered
  again after a stale or refused offer; three with capacity two add a second
  task beside it. When they are used up a runner is silent, so the models may
  stop: `CHECK_DEADLOCK FALSE`. Endless deferral by a launcher is cut off in the
  same way.
* Two competitors for one request, and two requests for one runner, are what
  the races of `acceptOffer` need. Calls of tasks are enumerated only in
  `tasks_internal`; each kind at most once at a time.
* `MaxRuns` bounds the calls of `run` for an execution: three give one that
  creates it and two that race to resume it. `MaxRestarts` is one where the
  process ends. Executions end and nobody creates more, so these models stop too.
* In `exec_lifecycle` nobody is stopped, since `LimitRespected` does not hold with
  stops (section 6), and its two resumptions race with a restart. `exec_live`
  stops one execution only, or has it time out; a second one next to it is the
  competitor for the slot. Any statement may fail at any point in both. One
  execution with three runs, stopped at any point and with one restart, was
  checked against the invariants of section 5 (449,368 states).
* `leader`: `TTL` 5, `Interval` 1, `Latency` 1 keep the relation that the
  defaults (10 and 3 seconds) have to a Redis that answers within 2 seconds,
  `LeaseAssumption`; with slower answers a leader can outlive its lease without
  any command being lost. One fault is enough for a lease to run out unnoticed
  or for a late SET or DEL. Two mains race for an absent key only after a fault
  or a stop. `CommandTimeout` is 2; a lost command arrives within `Lateness`
  ticks (3) or never: by then the key it was meant for has been renewed, has
  expired or has changed hands. `Slow` are the mains in which time passes between
  `init` and the registration of the handlers; the others boot between two ticks.
  One slow main meets every check of its own and of the other during its start.
* `queue`: one execution with two jobs is the smallest in which an old worker,
  an old promise or an old result can meet a new run. Two mains were checked
  without fairness (2.2 million states), a stop together with a failure as well.
  `MaxUpsets` counts stops, deaths, stalls and failed calls together.
* `engine`: five nodes allow a fork, two joins in a row and a loop through a
  join. The arrays of connections come in two orders and the nodes in two
  positions on the canvas. `MaxRuns` cuts loops off after four runs of a node.

Symmetry is used for executions that are not told apart by `Stops`, and for
requests of one type, and never with a liveness property.

### Fairness

* Task runners: sockets deliver to the broker, a closed socket is noticed, the
  broker's and the runner's timers fire, and code whose abort signal fired ends
  (`executeTask` rejects on it). Nothing is assumed of runners that do not
  answer, of users' code, or of offers being made.
* Executions: database statements complete, with or without an error (the failing
  step is an alternative of the same fair action), promises resolve, and each
  workflow comes to an end. The last is an assumption about
  users' workflows; without it a throttled execution may well wait for ever.
  Nothing is assumed of timers, webhooks, stops or restarts.
* Leader election: time passes, Redis answers commands that are not lost, and
  each main's handlers run. Faults, stops and restarts are bounded in number, so
  "in the end" means after the last of them.
* Queue mode: mains and workers that live take their steps, messages arrive,
  and Bull's check for stalled jobs and the leader's recovery run again and
  again, as their intervals make them. The steps of a workflow are among a
  worker's: it is assumed to end.

## 4. Properties

Task runners. `PromiseIsGuarded`: while `startTask` awaits something, the broker
has what will settle it and a timer for it. `ExecutedForItsRequest`: however
late a runner accepts, code is executed only as the task `startTask` was given.
`ServedOnce`: a request flagged `acceptInProgress` is served by exactly one
`acceptOffer`; one that is not, by none. `ActiveTaskEnds`: a task in the broker's
table can end without the broker's own timeout. `CapacityRespected`: open offers
and tasks stay within `maxConcurrency`. `NoUnexpectedTaskStatus`: the runner's
`throwUnexpectedTaskStatus` is never reached. `NoLostCall`: what a running task
asks for is under way somewhere.

Executions. `CapacityAccounts`: capacity is the limit less what is held and what
is queued. It does not say that whoever holds a slot will return it, which is
`ThrottledProceeds`. `WorkConserving`: no wakeup is lost. `OneRunAtATime`: timers, webhooks and restarts never
have two runs carry out one execution. `RunningIsCarriedOut`: until it is first
resumed, a row says `running` only while somebody will still write to it, unless
a statement that was to write it failed: nothing in the code mends that before
the next start of the process (section 6).
`ShutdownHoldsQueue`: what ends during shutdown lets nobody out of the queue.
`LimitRespected`: the limit of concurrent executions holds when nobody is
stopped (and is exceeded by one per stop at most, section 5).
`ThrottledProceeds`: who is throttled gets through, unless the process is shut
down, its own execution is stopped, or runs that are over have leaked every slot.
The last is a real restriction: `Leaked` are the runs that are over and hold a
slot, and section 6 says how the code comes to have some. The property says that
there is no other way to be held back for ever.

Leader election. `ImplementsLease`: the refinement above. `AssertsHold`: the
role is the one that the asserts of the checks expect, whatever happened during
an `await`. `ServicesFollowRole`: a main that is up polls for waiting executions
exactly if it is marked as leader, except after a role change that nobody heard
while it booted, until the next event, or with the interval that it orphaned.
`FollowersDoNotServe` is one half of it for the legacy strategy. `OneLeaderInTheEnd`: after partitions, late commands,
crashes and restarts the mains agree on one leader, and the key is its own.

Queue mode. `OneWorkerPerExecution`: not even a worker whose job was taken for
stalled is joined by another one, since the execution is then in error or
crashed and nothing resumes it. `EveryJobSettles`: a main that listens for the
end of a job goes on when it ends, whoever fails, unless it was stopped; one that
listens too late is in section 6. `EveryExecutionEnds`: no
row stays `new` or `running`.

Engine. `NothingTwice`: whatever a node sends is in one place at most (stack,
waiting entry, executed), in every workflow. `DataConserved`: it is in exactly
one, in workflows without loops where an input has one connection; `engine_merge`
is what happens in the others. `SourceIsRecorded`: the run that data refers to exists and gave data
on that output, also after runs were removed. `PartialIsFinal`: a node that was
executed without data on an input is not sent any there later, in workflows
without loops.

## 5. Proofs

All theorems hold for every value of the constants that satisfies the named
assumptions: finite sets of runners, requests and executions; positive capacity,
limit and numbers of runs and jobs; markers such as `NoTask` that are no values;
and for the lease `Interval + 3 * Latency < TTL`. Every safety property that a
run checks is a theorem, of every part of the system; `LimitRespected` is one for
the states before the first stop.

The theorems of the library that do induction take an operator as a parameter,
which no backend instantiates. Where an argument goes through a list one by one
(the iterations of a loop, the connections of a node) the cases are therefore
collected in a set of numbers, and a lemma says that a set which has 0, and n + 1
whenever it has n, has them all; it comes from the least element of a set that
is not empty, in `WellFoundedInduction`.

### Task runners

* `TypeCorrect`: `TypeOK`. The messages a handler posts are of the protocol, and
  the pairs of `settleTasks` are of pending requests and offers.
* `CapacityTheorem`: `CapacityRespected`. The invariant is inductive with
  `TypeOK`: `sendOffers` counts open offers and tasks before it offers, an
  acceptance turns an offer into a task, and every other step only drops some.
* `PromiseTheorem`, `ExecutedTheorem`, `ActiveTaskTheorem`, `StatusTheorem`:
  `PromiseIsGuarded`, `ExecutedForItsRequest`, `ActiveTaskEnds` and
  `NoUnexpectedTaskStatus` all follow from one invariant, `TaskInv`, and none of
  them is inductive without it. `Life(t)` follows an offer through both
  processes: which messages about it may be in its two channels, each at most
  once, in which order (`InOrder`, `OutOrder`), and what runner and broker
  believe while they are there. It says that an offer is listed once and has no
  request before it is taken (`FreshOf`), that settings are sent and code
  executed only for a task `startTask` was given (`GivenOf`), and that a task in
  the broker's table is with its runner, reported, or the runner is gone
  (`ActiveOf`). `PromiseOf(q)` says where the promise of a request stands, and
  that a request which never reached the broker is nowhere. That a runner may
  crash or be killed at any point is where the disjuncts come from: a closed
  connection loses what was sent to the runner, but not what it wrote.
* `CallTheorem`: `NoLostCall`, from `CallInv` beside `TaskInv`. A task that
  makes calls has read its settings (`GivenOf`), and a call that was read leaves
  the channel, the requester's list or the answer behind until the task reads it.
* `ServedOnceTheorem`: `ServedOnce`. That the flag is set on one request for one
  `acceptOffer` needs that `settleTasks` never hands a request to two offers.
  `MatchesPair` proves it of `Matches` for all lists without repetition: an entry
  is matched with the entry of its type that has as many of the type ahead of
  it, and this number determines the entry (`FewerAhead`, `SamePlace`). `LogInv`
  says that the lists repeat nothing, `ServeInv` that requests flagged and offers
  being accepted correspond one to one.

* `LoopTheorem`: `LoopComputesMatches`. What the loop has done after i
  iterations says too little about what it will do: `LoopInv` adds that the
  offers that are left are in their order, that a request which was passed over
  has left no offer of its type, and that the offers taken were ahead of those of
  their type that are left. `FirstFits` is the heart of it: the first offer of
  the right type is the one with as many of its type ahead of it in the full list
  as the request has, which is how `Matches` defines the pair.

### Executions

* `OneRunTheorem`: `OneRunAtATime`. It is not inductive: `MarkRunning` of a
  resumption must find no run in progress, which needs `WaitingIsIdle` (a row
  that says `waiting` has no run in progress); and the first run marks its row
  without a condition, which needs `FirstIsAlone` (until then the row is not
  `waiting` and nobody else is in progress). A run that is `closing` counts as
  carrying out its execution, although its entry and its slot are gone: it will
  write. Stops and cancellations write only
  `canceled`, which keeps both.
* `CapacityAccountsTheorem` and `WorkConservingTheorem`. The arithmetic needs
  that a run holds at most one slot and is queued at most once, and not both:
  `SlotsInv` says so of queue and reservations, and `EarlyHoldNothing` that a
  run which has yet to reserve has neither. `remove` is where it is delicate: the
  array without its first entry for an execution is one shorter and loses
  nobody else (`WithoutFirstProperties`, which takes the least position from the
  well-foundedness of the naturals).
* `ExecutionTypeCorrect`: `TypeOK`, from these invariants.
* `ShutdownTheorem`: `ShutdownHoldsQueue`, an action property: no action that
  leaves concurrency control disabled changes the queue.
* `CarriedOutTheorem`: `RunningIsCarriedOut`. `EntryInv` relates the entry of an
  execution in `ActiveExecutions` to the run that made it, its row and its
  cancellation; `CarriedInv` follows the first run of an execution that was not
  resumed, and says at each point of it who will still write: the run, the hook
  of a cancellation, or the stop; otherwise a statement has failed (`unwritten`).
  The delicate cases are those in which the entry is gone and the run goes on: a
  workflow that nobody awaits still runs its hooks.
* `LimitBound` and `LimitTheorem`. `LimitRespected` is not an invariant once an
  execution was stopped (section 6). What is proved is how far it can be missed:
  never by more than the number of executions stopped so far (`LimitWithStops`),
  hence not at all before the first stop. `SlotInv` gives each execution that
  counts a slot of its own, and rests on `OneRunInv`, for a run that throws
  settles whatever entry its execution has; and `ReservedInv` bounds the slots: a release
  returns capacity or hands the slot on, and only `remove` lets somebody in
  without one.

### Leader election

* `LeaderTypeCorrect`: `TypeOK`.
* `AssertsTheorem` and `ServicesTheorem`: `AssertsHold` and `ServicesFollowRole`,
  from `RoleInv`. A check of one kind is under way only in the role it was
  started in, because the flag `leaderCheckInProgress` lets no second one start
  and only a check changes the role. For the services the invariant follows the
  start of a process: nobody tracks before `WaitTracker.init`, from then on
  `serving` and role agree except in `missed`, and `orphaned` has only mains that
  were in it. (The legacy strategy has no such argument,
  and `leader_legacy` shows what becomes of it.) They hold with faults.
* `OneLeaderTheorem` (until the first fault a main leads only while the key has
  its id) and `LeaseRefinement` (`ImplementsLease`, step by step), from
  `LeaseInv`. It bounds the time the key has left by where the leader is in its
  check: between checks, while the renewal is on its way, and after the answer
  (`Held`), and for a main that shuts down until its DEL is carried out
  (`Kept`). This is where `LeaseAssumption` is used: the worst case is an answer
  that took `Latency`, the interval, the next command's `Latency`, and another
  one for the DEL behind it.

### Queue mode

* `QueueTypeCorrect`: `TypeOK`, with what a worker is about to save.
* `OneWorkerTheorem`: `OneWorkerPerExecution`. The property speaks of workers
  only; a job that waits in the queue, or is about to be added, will have one.
  `OneLive` counts these too, and `WaitingHasNone` says that a row at `waiting`
  has none, which is what `add` with `requireStatus` relies on. A worker that
  lost its job to the check for stalled jobs stays live until it saved.

### The engine

The workflow is arbitrary: any finite arrays of connections between any nodes,
with loops and inputs with several connections, unless a property excludes them.

`RunFacts` takes a step of `RunNode` apart: the connections that get data are
different ones of the node (`NodesToAddFacts`, which needs that every rank in a
finite order is taken, `Ranking`); the queue goes through one
`addNodeToBeExecuted` after the other (`AddNodesSteps`, for the recursive
function of `AddNodes`), each of which executes the node, joins or starts an
entry that waits, or completes one (`AddFacts`); and in the end a waiting node
may be released (`ExecuteWaitingFacts`). What holds of each queue on the way is
an induction over the connections.

* `EngineTypeCorrect`: `TypeOK`. Inductive with `QueueInv`: a node with one input
  never waits, entries are finite in number and a node is a key of
  `waitingExecution` exactly while it has some.
* `SourceTheorem`: `SourceIsRecorded`. `SentInv` says that whatever is held was
  sent, and along a connection; `RecordedInv` that the run of everything sent is
  recorded, and is not the run that a node which waits has made for the moment.
  Without the last part the run that `Resume` removes could be the one that data
  comes from.
* `NothingTwiceTheorem`: `NothingTwice`, in every workflow in which no connection
  is listed twice. `OnceInv`: data is in one place of stack and entries, and in
  none once it was executed. New data is new because its run is not recorded yet
  (`Fresh`), and different connections of one run carry different data.
* `PartialTheorem`: `PartialIsFinal`, an action property, in workflows without
  loops. The code looks only at parents that wait, when the stack is empty;
  `ClosedInv` says why that is enough: no node before a node that was executed
  without data at some input is on the stack or waits, ever after. A node can
  become active only by data from an active node, which would be a parent as
  well (`ParentFacts`).
* `ConservedTheorem`: `DataConserved`. `SingleInv` says that, without loops and
  with one connection to an input, a node is in one item of the stack or has one
  entry, is executed once, and sends nothing before. An input that gets data is
  therefore untouched (`Untouched`, with `ClosedInv`): the node is not on the
  stack, and its entry, if it has one, lacks that input (`FreeAt`). So entries
  are joined and never made beside another, the situation in which one is
  overwritten (`engine_merge`).

TLC checked these invariants on the instance of `engine` before they were proved.

### Only model-checked

* `EveryRequestSettles`, `EveryTaskEnds`, `EverySlotIsFreed`, `ThrottledProceeds`,
  `OneLeaderInTheEnd`, `EveryJobSettles`, `EveryExecutionEnds`: liveness under
  fairness, out of the prover's reach.

## 6. Where code and words differ

With a run:

* `leader_legacy`: two checks of one main overlap, both find the key absent, the
  first takes it and starts the services, the second is refused and marks the
  main as follower without an event. The services of a leader run on a main that
  is none, for ever if another main has the key by the next check.
* `queue_recovery`: the rows, then the jobs are read, then rows are written
  without a condition: an execution that succeeded meanwhile becomes crashed.
* `engine_merge`: a new entry of `waitingExecution` gets the number of entries as
  its index. When entry 0 was completed and deleted while entry 1 waits, the next
  one overwrites entry 1, and its data is never executed. The smallest workflow:
  1 and 2 connect to the first input of 4, 3 to both. A loop does it too when
  each input has one connection: a node in a loop sends to the same input again
  while an entry waits there. This is why `DataConserved` excludes both.

Properties that the modules define and no run checks, because the code violates
them; the constants show it:

* `NoOrphanTask` (`TaskRunners`; one runner, one request): a request expires
  while a runner is being asked to accept it; the accepted task stays in the
  broker's table although nobody awaits it ("This shouldn't happen, and might be
  a race condition").
* `LimitRespected` (`ExecutionLifecycle`; three executions, `Stops = {e2}`, limit
  1): `ConcurrencyQueue.remove` (`concurrency-queue.ts:53`) starts the next one
  in the queue though no slot is free, against "Max production executions allowed
  to run concurrently" (`executions.config.ts:19`). `LimitBound` proves that each
  stop adds one at most.
* `EnqueuedAreRun` (`ExecutionLifecycle`; one execution, one restart): executions
  left `new` by a stopped process are refused at the next start, because `add`
  updates existing rows only if they are `waiting` (`active-executions.ts:114`),
  against "start running any such executions concurrently up to the concurrency
  limit" (`start.ts:441`).
* `EachWaitResumedOnce` (`ExecutionLifecycle`; one execution, `MaxRuns` 3): the
  condition on `waiting` does not notice that the execution was resumed and waits
  again; the nodes after the earlier wait run a second time.
* `OnlyWaiterDisabled` (`WorkflowEngine`; the constants of `engine`): two items of
  one node on the stack share its object, so that when the first has waited the
  second is disabled too and passes its data on without waiting
  (`workflow-execute.ts:1320`).

Seen in the models and not kept as runs:

* A role that changes between `WaitTracker.init` (`start.ts:260`) and
  `registerEventHandlers` (`:295`) is heard by nobody: a leader that does not poll
  for waiting executions, or a follower that does, until the role changes again.
  If the follower then takes over, `startTracking` sets a second interval over the
  first, which `stopTracking` can no longer clear: it polls on as a follower.
* A job that ends between `addJob` (`workflow-runner.ts:524`) and
  `job.finished()` (`:561`) is removed at once, and its event came before anybody
  listened: the promise of the main never settles, and the entry stays. The
  execution itself ends, on the worker (`EveryExecutionEnds`).
* A statement of `runMainProcess` that fails before its `try`
  (`workflow-runner.ts:327-384`, the second `setRunning` among them) rejects `run`:
  the row stays at `running`, the entry in the table, and the slot reserved. A
  save that fails leaves the row as well; one of `failExecution` also the slot.
* A workflow that has issues is settled before its row is saved (`processError`),
  and while its hook runs the next one is let in.
* A stop or timeout between `putExecutionToWait` and `finalizeExecution` drops
  the entry of a run whose promise is pending, and its slot is never released
  (the comment at `active-executions.ts:212` says that a waiting execution has
  neither).
* `finalizeExecution` finds its entry by execution id: if a webhook resumed the
  execution after it was saved and before it was finalized, the entry of the new
  run is settled, the new run finds no entry though nobody cancelled it, and the
  slot of the old one leaks.
* A stop is not final: `setRunning` and the saving hook overwrite `canceled`.
* `broker:drain` is sent once; a runner that registers later still offers tasks
  (`task-broker.service.ts:76`). The draining broker accepts no requests, so
  nothing follows.
* In internal mode one task's timeout restarts the runners of both languages.
* `removeAll` returns at once, as concurrency control is disabled before it.
* A main restarted in its container finds its own id in the key and takes over
  without renewing it; if the key expires before the first renewal, two mains
  lead for a while.
* A follower may take over while `stopProcess` awaits: its services start again
  after they were stopped.
* An execution that times out on a worker ends with an error that says
  cancelled; `processError` takes it for one the main has cleaned up, and the
  entry on the main is never settled.
* A main that does not own a job keeps its result for ever (`jobResults`).
* A stopped execution may yet be overwritten: `setRunning`, the hooks of the
  worker and `processError` write rows without looking at them.
* A node that returns null as the last on the stack ends the loop before the
  search for waiting nodes: a node that could be executed is not.
* Entries of a node that waits are looked at in the order of their indexes as
  strings: 10 comes before 2 (`workflow-execute.ts:2176`). The models have fewer.
* Calls that are in flight when leadership is lost schedule the next one after
  their timers were cleared (`scheduleQueueRecovery`, the pruning service).

## 7. Plan

Built so far: task runners, executions in regular mode, leader election with its
refinement, queue mode, the main loop of the engine, and proofs of all safety
properties. Next, in this order:

1. Theorems about the modules as they are: action properties of the task runners
   and of queue mode (a settled promise stays settled, an ended job is not taken
   up again).
2. Abstract specifications of the task broker (a request is pending, executed
   once, settled) and of the concurrency limit (a counting semaphore with a
   queue), with refinement checked and proved.
3. Pruning under leadership changes; crash recovery of rows that say `running`.
4. `PartialExecution`: the graph algorithms of `partial-execution-utils` as
   operators against reference definitions; the legacy order of the engine.

## 8. Not modelled

Nodes and integrations, the editor, the AI packages, accounts and permissions,
REST and public API, migrations, expressions, the Python runner's own process
pool. They are I/O, user interface, or request handlers whose correctness is not
a matter of order; `PROJECT.json` gives the reason for each.
