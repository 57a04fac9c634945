# A specification of django-absurd

django-absurd runs Django tasks on Absurd, a durable queue that lives in PostgreSQL: five tables
per queue and the stored procedures in `django_absurd/migrations/0001_initial_0_5_0.sql`. A task
is a row; an attempt at it is a run, also a row; a worker claims runs, executes them, writes
checkpoints as it goes, and completes, fails or suspends them. Everything that must survive a
crash is in those tables, so they are the core of this specification.

## The system

| part | where | state | operations |
|---|---|---|---|
| queue engine | `migrations/0001_initial_0_5_0.sql` | `t_`, `r_`, `c_`, `e_`, `w_` of a queue | spawn, claim, complete, schedule, fail, retry, checkpoint, extend, await, emit, cancel, cleanup |
| partitions and engine cron | the same file, from `ensure_partitions` on | partitions, detach jobs | create, detach, drop, enable, disable |
| backend | `backends.py`, `tasks.py`, `params.py` | none of its own | enqueue, deferred enqueue, get_result |
| worker | `worker.py` | the window of runs in flight, the stop event | claim, execute, refill, stop, drain |
| task context | `context.py` | the step counter of a body, the bridge from a thread to the loop | step, sleep, await, emit, heartbeat |
| deferred enqueue | `deferred.py` | a wrapper task | sleep until due, enqueue the target as a step |
| beat | `scheduler.py` | the next due time of each schedule | fire, advance, stop |
| pg_cron | `pg_cron/` | `ScheduledTask` rows and `cron.job` rows | save, delete, reconcile, tear down, fire |
| provisioning | `queues.py`, `flush.py` | the catalog of queues, the tables | plan, apply, lock, flush |
| the rest | admin, checks, test support, benchmarks | none that the queue depends on | |

They meet in the queue's tables. Workers, clients and schedulers only call stored procedures; a
procedure is one transaction at READ COMMITTED. A worker holds a run by a lease (`claim_expires_at`)
that any other worker's claim may sweep; it learns that it lost the run only when a later call is
refused.

What is hard here, and what `PROJECT.json` lists line by line under `hazards`:

- a late worker against the sweep, the retry, the cancellation and the cleanup of its run;
- the deadlines of a task (`max_delay`, `max_duration`) against leases, delays and sleeps;
- the handshake of `await_event` and `emit_event`, whose statements interleave with each other and
  with `cleanup_events`;
- rows picked in a snapshot and rewritten after a wait for a lock;
- a worker's window of runs against its stop, its crash and the leases of runs it has not begun;
- threads that wait for a loop whose own thread waits for them, and writes of attempts that are over;
- a wrapper that is retried between what it enqueued and what it recorded of that;
- clocks read once per pass by schedulers of which several may run;
- schedules written in two databases without a lock;
- provisioners that plan by reading, beside a flush and operators who take no lock.

What makes each part correct: the queue keeps a task and its runs in agreement, counts attempts
right and never revives what ended; an event's first payload reaches every run that waits for it
and changes nothing afterwards; a worker never holds more than its concurrency and loses no run it
claimed; a deferred or scheduled task is enqueued once; schedules and jobs agree again once writers
are quiet.

## The modules

| module | models | checked by |
|---|---|---|
| `TaskLifecycle` | the promise to clients: the states of `STATE_TO_STATUS`, the attempts, `max_attempts`; no runs, leases, waits or clock | refined by `AbsurdQueue` and by `AbsurdWorker`'s view of the queue |
| `AbsurdQueue` | the engine; one procedure is one action | `QueueLifecycle`, `QueueEvents` |
| `AbsurdQueueProofs` | theorems about `AbsurdQueue`: its tables, its refinement of `TaskLifecycle`, its waits and checkpoints | tlapm |
| `EventHandshake` | `await_event`, `emit_event`, `cleanup_events` on one event, statement by statement | `Handshake` |
| `CleanupRaces` | `spawn_task` with an idempotency key and `retry_task` against `cleanup_tasks`, statement by statement | `CleanupKeys`, and `CleanupPending`, which finds what the code does wrong |
| `AbsurdWorker` | the two loops of `worker.py`, their runs in flight, stop, cancellation, crash, and the `task_finished` signals | `WorkerWindow`, `WorkerFleet` |
| `DurableSteps` | bodies and their steps in threads and on the loop, the bridge between them, the drain, the end of a runtime | `Durable` |
| `DeferredEnqueue` | `enqueue` with `run_after`, the wrapper task, `get_result` | `Deferred` |
| `BeatSchedules` | `run_beat`, alone and on a worker's thread | `Beat` |
| `PgCronSchedules` | `ScheduledTask` rows, `cron.job` rows, and the commands and hooks that write both | `PgCronReconcile` |
| `Provisioning` | `provision_backend` behind its lock, `absurd_flush`, a worker that starts, operators | `Provision` |
| `StatementRacesProofs` | theorems about `CleanupRaces` and `EventHandshake` | tlapm |
| `AbsurdWorkerProofs`, `BeatScheduleProofs`, `ProvisioningProofs`, `DurableStepsProofs`, `DeferredEnqueueProofs`, `PgCronSchedulesProofs` | theorems about the module of that name | tlapm |

`MC*` modules give the constants of each run. `StatementRacesProofs` extends both modules it is about, so
the second prefixes the names that both would have (`EHInit`, `EHNext`, `EHSpec`). The first property of each
module, `TypeOK` (`EHTypeOK`), says what its
variables hold; the queue's is a theorem, those of `DeferredEnqueue` and `PgCronSchedules` are parts of the invariants proved there (`RowsInv`, `Listed`), the others
are documentation and in no run.

### AbsurdQueue

The five tables are five variables, keyed by identifier; a row that does not exist yet and a row
that was deleted are told apart, since an identifier is never handed out twice. `now` is
`absurd.current_time()`. A procedure that raises changes nothing, so its raising paths are the
negations of the action's guards; the calls a lost worker makes are ordinary actions, because the
procedures do not know who calls them: `CompleteRun(r)`, `FailRun(r)` and the others may be called
with any run that was ever handed out.

`ClaimTask` is the whole of `claim_task`: it cancels every overdue task, then fails at most `qty` runs
whose lease ran out (with the whole of `fail_run`, new run included), then starts at most `qty` runs.
The intermediate tables are LET definitions, and any batch is possible, since `skip locked` may leave
any. `fail_run` and `cancel_task` are operators over tables for that reason: the same definitions
are used by `FailRun`, `CancelTask` and `ClaimTask`.

Abstracted: names, parameters, headers, results, failure reasons and worker identities are not
stored; the retry delay is a constant of the task (`retry_delay_seconds` is not computed, strategies
it rejects are not modelled); an idempotency key is a column of `t_`, as in an unpartitioned queue.

### EventHandshake

A transaction at READ COMMITTED takes one step per statement. The event's row is its committed
version, at most one writer with an uncommitted version, and the set of transactions that hold it
`FOR SHARE`. `insert ... on conflict do nothing` waits for the writer and then leaves the row alone,
unlocked; `select ... for share` locks only a row it sees; the upsert of `emit_event` waits for
writers and sharers; `cleanup_events` picks the row in its snapshot, waits for the lock, and looks
only at the name again. A worker may lose its connection inside `await_event` and deliver the run
again.

### CleanupRaces

The same READ COMMITTED statements for tasks. `spawn_task` is an insert that a committed row of the
same key turns into a look at who owns it, in a statement of its own; `retry_task` holds the task's row
from its `select ... for update` to its commit; `cleanup_tasks` picks tasks and runs in a snapshot,
waits for row locks, and deletes what still satisfies the delete's own condition (the identifier).
`spawn_task` has a branch for partitioned queues too, which is not modelled, since django-absurd refuses such
queues (docs/WHY.md). Abstracted: batches (one pick takes any eligible set), waits, checkpoints.

### AbsurdWorker

A worker is one asyncio loop, so what stands between two awaits is one action: `LoopHead` tests the
stop event, reaps, computes the capacity; `Claims` commits a claim and registers its runs; `IdleEnds`,
`BatchEnds` and `Close` are the other awaits that return. With `Concurrency = 1` the loop executes its
batch one run after the other (`execute_one_run_at_a_time`), otherwise it refills its window. An
execution is the handler of `build_handler` inside the SDK's `_execute_task`, which is external: it
calls the handler, then `complete_run` or `fail_run`, and takes a refusal for the end of the run.
`finished` is the history of FAILED signals, sent before `fail_run` is called; the successful ones are
not stored. A loop ends "closed" if it returned and "dead" if an exception or its process ended it.

`Cancel` is a `CancelledError` at whichever await the loop is in: in the loop's body it cancels the
window and waits for it, in the `finally` it closes the loop at once; `CancelAnswer` is a claim that
was committed whose answer never arrived. A crash takes the process; `Restart` is its supervisor.

The queue is what a worker sees of it: a task's state, its attempt number, its lease and its holder.
A claim may take any batch up to its size (`skip locked`); retry delays are zero, a lease may expire as
soon as it is taken, and `Heartbeat` renews it. Every task has a limit of attempts: one without
(`max_attempts` null, worker.py:526-533) is retried for ever and never announced as failed. Not modelled here:
such a task; a body that swallows its cancellation; the five seconds that `run_worker` waits for its beat; the drain and the thread that a synchronous body runs in, which `DurableSteps` has.

### DurableSteps

A run is a coroutine of the SDK (`coroutine`) and a body (`at`, `held`, `outcome`); the last durable
operation that a body handed to its loop is `op`, which outlives the body's wait for it, as a coroutine
does after `future.result(timeout=BRIDGE_TIMEOUT)` has given up. An operation is executed by the loop
(`LookUp`, `Record`) while the loop turns; a body's own step functions (`Compute`) run in its thread. A
step's value is the attempt that computed it, so the properties can tell whose value was kept.
`Record` is `set_task_checkpoint_state` while the run holds its claim, and so its run's lock; `RecordStalls`,
`RecordResumes`, `StaleLooks` and `StaleWrites` are the same call statement by statement, which lets other transactions
in between the look at the run's state, the extension of the claim (which finds nothing and locks nothing once
the run was swept), the look at the attempt that owns the record (`existing`) and the upsert, which asks nothing any
more. `replaced` is a history: the steps whose record such a call wrote over.
`loop` follows the end of a runtime: `finishing` (stopped, waits for its runs), `closing` (the connection
goes), `blocked` (`ThreadPoolExecutor.__exit__` holds the loop's own thread, so no coroutine moves), `gone`.
A drain claims batches, waits for each with `gather`, reads each outcome by `run_id`, and ends when a
claim is empty. Abstracted: names of steps (a body takes its steps in order), sleeps and events of a
body (the queue's actions), the values.

### DeferredEnqueue

The rows of a queue with the key index, and of wrappers also their runs, those of lost leases
included: `deferred.py` is `SleepUntil`, `ReplayStep` or `EnqueueTarget` and `CompleteStep`, then `Complete`, and
each of them may be the last that a run does. `Merge` is the layering of options of `tasks.py` and
`params.py`; `WrapperOptions` and `Replayed` are what `backends.py` gives the wrapper and what it
gives the task. `get_result` is one `FetchTask` per row it reads, and other steps come in between. A task
that is no wrapper is claimed and ends.

### BeatSchedules

What `run_beat` does between two reads of the clock is one step, and a pass fires entry by entry while
time goes on. Beats have no relation to each other but the key of a slot. `missed` is a history: the
slots a pass left behind because they had passed when it began, and the slots whose firing failed.
A colocated beat is a daemon thread of a worker, which sets its stop event and joins it for five seconds.
A firing may hang, and then nothing but the process's end moves that beat.

### PgCronSchedules

A process is the list of statements it has still to run. A row's save or delete commits and leaves a
hook; `sync_settings_crons` is saves, a delete, a prune and the cleanup job; `sync_admin_crons` reads the rows and
then emits them; a teardown and a flush are lists too. A statement of a hook that fails is logged, one of a command ends the command.
`schedule_in_database` and `alter_job` are two statements, and so are the search for jobs and
their removal. `owed` is a history: what the processes that now run promise once all are done
(`agreement` for reconciles of one release, `teardown`), withdrawn when a failure or another writer comes
between. The look at the environment is `absurd_sync_crons`'s and the hooks'; `absurd_flush` and `flush_absurd_state`
tear down in any environment, and the catalogue's own guards decide what is written. Abstracted: a row is its cron and its switch.

### Provisioning

`rows`, `tables` and `views` are the committed state, and `made`, `built`, `fixed`, `viewed` the open
transaction of a provisioner. `Lock` is `pg_advisory_xact_lock`, which ends with its transaction, `PlanRow` and
`PlanTables` the two reads of `plan_queue`, `Apply` `apply_queue_plan`, `RebuildViews` the admin's views over
the tables of every catalogued queue. Where a statement meets an object of another open transaction it
waits or fails as PostgreSQL has it (`Collides`, `ViewsCollide`). `absurd_flush` lists the queues,
tears the schedules down (which `PgCronSchedules` has), lists again and drops queue after queue. `workerCalm` is a history of the tables of the worker's own queue, which
only the drop of that queue disturbs. `calm` and `settled` are histories: nobody but provisioners
touched a queue since the transaction began, since the last calm commit.

## The runs

| run | instance | shows |
|---|---|---|
| `QueueLifecycle` | 2 tasks, 3 runs, clock 0..2, leases of 0 (none) and 1, batches of 2, a key, both deadlines | agreement of tasks and runs, attempt numbers, no start past a deadline, and the refinement of `TaskLifecycle`, which bounds the attempts and keeps ends final |
| `QueueEvents` | 1 task, 2 runs, 2 await steps and 1 body step on 1 event, 2 payloads, cleanup | waits and sleepers agree, no lost wake-up, no orphans, stable results |
| `Handshake` | 2 runs, 2 emitters, 2 cleanups, 1 lost connection; fair | without a cleanup no lost wake-up; always one payload for all, every waiter gets through, no deadlock |
| `CleanupKeys` | 3 clients of one key, 2 retries, 2 cleanups | one task answers every call until a cleanup deletes it, no orphaned first runs |
| `CleanupPending` | 2 clients, 2 retries, 2 cleanups | **violated**: a pending task is deleted |
| `WorkerWindow` | 1 refilling worker, 2 tasks of 2 attempts, concurrency 2; a crash and a stop, a cancellation, a broken run, `cancel_task` or `retry_task`; fair | the window stays within the concurrency, runs end before their loop, every task ends, every stop is honoured |
| `WorkerFleet` | a sequential worker with batches of 2 and a refilling one, 2 tasks of 2 attempts; a crash, a stop or a sleep | one execution per attempt, a stopped worker leaves nothing claimed, FAILED is final, the lifecycle is kept |
| `Durable` | a worker of 1 and a drain of 2, a sync and an async task of 2 steps and 2 attempts; 7 scenarios of rare events; fair | a task completes with what its steps recorded, but for what a late write replaced; recorded work is not redone, a drain reports the run, the runtime ends |
| `Deferred` | a deferral with a key (made twice, or beside an immediate enqueue of the key) or one without, 3 rows, clock 0..2, 1 fault; fair | launched once, a completed wrapper names a task, answers are final, deferrals land and `max_duration` never ends their wrapper |
| `Beat` | a beat and a worker's beat, an entry of 2 slots and the cleanup, 2 starts, 1 fault; fair | no slot skipped unseen, one task per slot, a beat goes on firing |
| `PgCronReconcile` | 2 processes, 1 name in 2 lanes, 2 releases, 4 environments, 3 budgets | reconciles converge, teardown is terminal and of its own database only, an inert environment writes nothing |
| `Provision` | 2 provisioners, a declared queue with a policy and one that is not, 2 of the 5 tables, 3 provisionings, 1 act of an operator or crash, 1 flush | no collision, a calm provisioning is whole, a worker that announced itself is not refused unless its own queue was dropped |

Bounds. Two tasks and three runs are enough for a retry of one task to meet the claim, the sweep or
the cancellation of the other in one batch, and for a run to be the second attempt while its
predecessor's worker is still calling. One extra identifier gives a third attempt by `retry_task`. The
clock must pass a lease, a retry delay and a sleep, and return to the task: 2 ticks, and the deadlines of
one option set (1 from the enqueueing, 2 from the first start) fall inside them. The replay of
an await needs two steps of one task. `MaxTime` and `MaxAborts`
are the only bounds in guards; the sizes of `Task` and `Run` bound what is handed out. Deadlock is
checked wherever it means something: in `EventHandshake` a state without a step that is not at rest
is a set of transactions that wait for each other. The queue's clock is always able to
tick or some procedure to be called within the bounds checked.

In `AbsurdWorker` the rare events (crash, stop, cancellation, break, `cancel_task`, `retry_task`,
suspension) come as often as a scenario of `Scenarios` says: one event, or two that meet (a crash and a
stop, a stop and a cancellation). Everything else, leases that expire included, may happen at any time
and any number of times. Two workers are needed for an attempt to be swept and claimed by another, two
tasks for a batch whose second run waits, two tasks of two attempts for a window of two to be claimed
into while it is full (a worker may claim the second attempt of a run it is still executing).

In `DurableSteps` two steps are needed for a replay that skips one and computes the next, two attempts for
one that overlaps the other's, a sync and an async body for what a cancellation does to each. The
scenarios are the rare events that may meet: a lost lease and a stalled write; a slow wait; a
cancellation; a crash; a broken run and a raising step; a stop and a raising step; two raising steps.
`Deferred` has one row more than a deferral takes, for the second task that a lost lease may launch, and a
clock that goes past the due time by the target's `max_duration`. `Beat` needs two slots, for one that comes
due while a pass fires the other, two beats on one slot, and a cleanup in the same pass. In
`PgCronReconcile` two processes are enough for any pair of statements to meet, and two commands with two
writes, or three commands, for a reconcile that reads before and prunes after another's; one name stands in
the settings and in the admin lane, which is where the lanes could be confused. The environments are a
deployment, one of tests, and a test database with `PG_CRON_ON_TEST_DB` or with `SYNC_SCHEDULES_ON_TEST_DB`. `Provision` has two
tables so that a queue can be in part missing, and three provisionings for two that race and one that repairs.
Deadlock is not checked in `Deferred`, `Beat`, `PgCronReconcile`, `Provision` and `Durable`: their budgets
run out, and a drained queue or a beat past its horizon really is at rest.

Fairness is assumed in five modules. In `EventHandshake`, PostgreSQL executes the statements of an open
transaction, and a polling worker claims what is pending and goes on with what it claimed. Nothing
promises that an event is emitted or a cleanup runs, and nothing is assumed of connections lost. In
`AbsurdWorker`, asyncio resumes a loop and the runs it executes, a body ends, time passes (leases and
sleeps end), and the supervisor restarts a process that ended; a claim is strongly fair, because the row
locks that may leave it empty-handed last one transaction. Nothing promises that leases outlive the
bodies they are for. In `DurableSteps` a step function returns or raises, a loop that is not held up runs what it
is handed, the server answers, a bridge's wait gives up (it has a timeout), and a drain claims. In
`DeferredEnqueue` a worker polls and its handlers go on, expired leases are swept, time passes; in
`BeatSchedules` a thread that is not stuck runs on, and time passes. No fairness is assumed of rare events,
operators or clients.

Each property has a mutant in `PROJECT.json`: a plausible mistake in one definition, kept beside
it under the comment `mutant`, that violates the property in the same run.

## What the runs found

`cleanup_tasks` picks a failed task, waits for the `retry_task` that holds its row, and deletes the
task that is now pending, leaving its new run behind (`CleanupPending`), where docs/web/cleanup.md
says that pending tasks are never touched.

## What was read from the code, or found under other constants

These have no run of their own.

- *A wake-up lost to a cleanup.* `NoLostWakeup` of `EventHandshake` starts with `NoCleanup =>`; without it
  TLC finds: a run's `await_event` meets the event's row (an unemitted sentinel) and its
  `insert ... on conflict do nothing` leaves the row unlocked; `cleanup_events` regards the sentinel
  (`emitted_at` 'epoch') as old and deletes it; the `select ... for share` finds no row and locks nothing;
  `emit_event` inserts the row with its payload, finds no wait and commits; the run reads, as in the snapshot
  before, no payload, inserts its wait and sleeps forever, since a second emission does nothing.
- *A key's answer that is null.* `KeyHasOneTask` of `CleanupRaces` allows it once a cleanup has deleted a task of the
  key, and without that disjunct it does not hold: a client's insert meets the key of an ended task, `cleanup_tasks`
  deletes that task, the `select` of the owner finds nothing, and `spawn_task` answers with a null task id and
  `created = false`; the client's task is stored nowhere. docs/web/tasks.md says that a later enqueue is handed the
  first task's id.
- *A job for a dropped queue.* `absurd_flush` removes the pg_cron jobs first, since a job that fires "in the window
  between" would spawn into a queue that is gone (absurd_flush.py:61); nothing stops `absurd_sync_crons`
  from scheduling every declared job again before the drops, because reconciles take no lock and do not look at the
  catalogue of queues.
- *Runs left behind by a cancelled worker.* With a stop and then a cancellation in one scenario of `WorkerWindow`,
  `RunsEndBeforeLoop` does not hold: the stop brings the loop to `finish_remaining_runs`, the
  cancellation ends that `asyncio.wait`, which does not cancel what it waits for, and the connection
  is closed under the runs. Even where the comment at worker.py:644 is kept ("none of them may outlive the
  loop"), it is kept for coroutines: the thread of a synchronous body goes on (`Cancel` of `DurableSteps`).
- `cleanup_events` deletes by name, so it may delete an event that was emitted while it waited for the row.
- `task_finished` with SUCCESSFUL is sent before `complete_run`, which may be refused.
- A claim timeout of 0 is accepted and means that a claim never expires (`AbsurdWorker` assumes more).
- An awaited event that timed out leaves no checkpoint, so a replay of the body awaits it again.
- *A late write over a newer record.* Without the exemption of `replaced`, `CompletedAsRecorded` does not
  hold: the write of attempt 1 stalls and its lease is lost; having lost the claim it finds no record of the step; attempt 2
  records the step and completes the task with that value; the upsert of attempt 1 comes last and writes over it.
  The task's result stays what it was, but a checkpoint no longer says what the task completed with.
- `adrain_queue`'s `gather` raises at the first run whose machinery fails and leaves the others to the end of
  the runtime (`Break` of `DurableSteps`).
- The wrapper of a deferral may be cleaned up before the task it launched has ended; `get_result` of the
  caller's id then raises DoesNotExist (`AnswersAreFinal` allows that answer).
- A caller's key may be another deferral's key with ":run_after" appended; then the wrapper of one owns the key of
  the other's task, and `get_result` follows two wrappers in a row (`KeysApart`).
- docs/web/cron-jobs.md says that concurrent beats each fire every slot; the key of a slot makes it one
  task (`AtMostOncePerSlot`).
- `absurd_sync_queues --check` does not look at the views; a catalogued queue that is not declared and has
  lost a table makes `rebuild_views`, and with it every provisioning, fail; a `drop_queue` that comes
  between a repair's plan and its commit leaves tables without a row (`ProvisionedIsWhole` is of
  calm provisionings for that reason).
- `build_queue_table_model` keys its models by a queue's name with "-" for "_" in lower case, so that "a-b"
  and "a_b" share one.

In `AbsurdQueue`, where a procedure is one step, the lost wake-up, the null answer and the finding above cannot happen; the
invariants checked there hold of the procedures one at a time.

## What is proved

`AbsurdQueueProofs` proves, in its first part, for any sets of tasks, runs, events, steps, payloads and keys, any options,
timeouts, batch sizes and cleanup policies that satisfy `NullAssumption`, `InputAssumption` and
`StepAssumption`:

- `QueueTypeOK`: `Spec => []TypeOK`;
- `QueueTaskRunsAgree`, `QueueEarlierAttemptsFailed`, `QueueAttemptsDistinct`: the agreement of a task with
  its runs, that every earlier attempt has failed, and that attempt numbers are distinct;
- `QueueIInv`: the inductive invariant they follow from.

None of the three safety properties is inductive alone. That `claim_task` may start a run rests on the
run being its task's last, which rests on the earlier ones having failed, which rests on a
retry being numbered after the task's `attempts`; so `IInv` is the conjunction of the type
invariant and of `Consistent`, the three together over any pair of tables. The proof has one lemma
per table operation (`CancelTasks`/`CancelRuns`, `FailTasks`/`FailRuns`, `StartTasks`/`StartRuns`), each
stating that the operation takes consistent tables to consistent tables; an action's lemma applies
them, `ClaimTask` three in a row over its intermediate tables, and `NextIInv` has one case per action.

Its second part rests on `IInv` and proves what the queue does step by step:

- `QueueImplementsLifecycle`: `Spec => ImplementsLifecycle`, the refinement of `TaskLifecycle`. A procedure rewrites
  whole tables, so the proof goes row by row: `Becomes` is what one transaction may make of a task's row,
  `RowsMakeLifecycle` takes it to a step of `TaskLifecycle`, and each procedure has a lemma that it does
  that and no more. For `claim_task` the three stages are shown apart (`CancelRows`, `FailRows`,
  `StartRows`) and then to be one move (`StagesCompose`): a task cancelled for its deadline is neither failed
  nor started, and one that failed for good is not started.
- `QueueOverdueNeverStarts`: `Spec => OverdueTasksNeverStart`, by the same lemmas: a run that starts was
  claimed, so its task was left alone by the cancellation of what is overdue.

Its third part proves `QueueWaitsMatchSleepers`, `QueueLosesNoWakeup`, `QueueLeavesNoOrphans` and, of steps,
`QueueAwaitResultsStable`. They hold together or not at all: that an emission finds every sleeper through the waits
rests on waits and sleepers matching, and that it overwrites no result rests on the steps of waits being
open. Their invariant `WInv` is `IInv` with the first two and `OwnersKnown` (a checkpoint's owner is a
run of its task), without which the cleanup of one task could take another's owner away. Most procedures only
take waits away, and leave the runs of those that stay alone (`StepKeepsWaits`); the case to look at is
`claim_task`, where a claimed run that slept with a wait has reached that wait's timeout, so that `wait_cleanup`
deletes the wait in the same transaction.

So every property that `QueueLifecycle` and `QueueEvents` check is proved.

The other modules prove each property with what keeps it inductive and no more. First those that hold of every
instance:

- `HandshakeLosesNoWakeup` and `HandshakeWaitersAgree`, of a system without cleanups of events, for any runs,
  emitters and lost connections. `Handshake` says what the locks are for: from its second statement on a run's
  transaction writes the event's row or shares it, an emitter between its statements is the only writer of a row that
  nobody shares, and so what a run has read stays true until it commits. `NeverCleaned` shows that a
  system without cleanups never had one.
- `WorkersDeliverOnce`: no run is executed twice at once, for any workers and tasks. The invariant adds
  `HeldOrOvertaken`: an execution is of an attempt that its task has left behind, or of the last one, and then
  the task is neither pending nor asleep, so that no claim can deliver the attempt again.
- `WorkersKeepLifecycle`: each step of any number of workers is a step of `TaskLifecycle`, or none of its business.
- `WorkerWindowsBounded`: a refilling worker counts what it has asked for as if it were in flight already
  (`Bounded`); one that takes batches asks only when nothing is in flight, and begins a run when no other is begun.
- `BeatAtMostOncePerSlot`: a slot has at most one task that cleanup has not deleted, for any beats, schedules
  and clocks. The invariant (`KeyedBySlot`) adds that a task's key is its slot's, which is why an insert that
  finds no live row of the key adds no second task of the slot; the tasks are otherwise rewritten row by row.
- `ProvisionersDoNotCollide`: provisioners never meet each other's uncommitted objects, for any number of them.
  `LockInv` is mutual exclusion with what makes it useful: only the holder of the lock has objects open.
- `KeysHaveOneTask`: however enqueues of one key, their rollbacks, retries and cleanups interleave, two calls are answered with
  two tasks, or one with none, only after a cleanup has deleted a task that had the key. `OneOwner` says that the key
  belongs to at most one stored task or open insert, and `Answered` that what a call was answered with has existed, so
  that of two different answers one is gone.
- `DrainReportsItsRuns`: what a drain reports of a run is how that run ended, for any processes, numbers of steps and
  attempts and budgets of faults. Every step moves the queue only onward (`Onward`), so a run that ended stays
  as it ended (`EndedRunsStay`); `DrainInv` adds that a coroutine that reads its outcome has a run that ended.

- `CompletedWorkIsKept`: an attempt redoes no step that was recorded when it was claimed. `BodyInv` says that where a body is
  agrees with what it last handed to its loop (`Shape`), that a run which was not claimed has no body, and that what was known
  at the claim is still recorded, since records are never taken back; so a body that found a step missing
  did not know it.
- `BeatSkipsNoSlotUnseen`: no slot is passed over unseen, for any clocks, restarts and faults. What was served stays served,
  because rows only change their state (`ServedStays`, on `KeyedBySlot`); and an entry moves from one next slot to the
  least one after the time its pass read. That there is a least one is `LeastNatural`, from the library's
  well-foundedness of strict inclusion among finite sets, since the induction theorems cannot be used.
- `BannerMeansServed`: a worker that announced itself is refused only if its own queue was dropped, or lost a table, while it ran.
  `BannerInv`: a worker that runs and is calm has all the tables of its queue; provisioners only add to them.
- `CalmProvisioningIsWhole`: a calm provisioning that commits leaves everything declared in place. `WholeInv` says what a
  provisioner knows at each place (`Knows`): the queues behind it are ready in its transaction, the plan for the one in
  hand asks for all that it lacks, and before the commit the views are over the catalogue it will write. It assumes that
  the declared queues are a nonempty sequence (`ProvisioningAssumption`).
- `CleanupLeavesNoFirstRun`: however snapshots, locks and retries interleave, the first run goes with its task. `Snapshots`
  is what stays true of a picked set while its delete waits: the first run of a picked task is among the picked
  runs or gone, because only the commit of a new identifier adds a first run. The run that `retry_task` adds is the
  finding of `CleanupPending`, and `NoOrphanRuns` speaks of first runs for that reason.

- `DeferralsLaunchOnce`: a wrapper launches one task, and another at most for each lease lost, worker killed or handler
  failed between the enqueue and the checkpoint; with a key there is one at a time in any case. `LaunchInv` is a budget: what a
  wrapper has launched, its runs on the way to the step, and the claim that it may still get without another fault
  are together at most the faults and one. A claim turns that chance into a run, the enqueue turns the run into a launch,
  and only a fault, or the checkpoint that ends all launching, changes the sum. The claim about keys is `KeyTaken`, that
  live rows of a key are one.
- `AnswersStayFinal`: what `get_result` has said of an id is final, whatever completes or is deleted between its reads. `ReadInv`
  speaks of the least set of rows from which following ids leads to a task that succeeded, or to a row that is gone
  (`Before`); the caller's row and the one a read has come to are both in it, so the argument holds for
  any number of rows to follow.

- `ReconcilesConverge`, `TeardownsAreTerminal` and `InertTouchesNoJob`, of the schedules in pg_cron, for any number of processes, names,
  releases and environments. The order in which statements wait does not matter, only which are `Pending`: each step
  takes one from that set and adds what it leaves to do (`Executes`), so that no induction over lists is needed.
  `Agreement` says of every statement that it does nothing that the release and the admin's rows do not ask for
  (`Right`), and of every row and every job that it is as they ask or that a pending statement will see to it
  (`SettlesRow`, `SettlesJob`); a reconcile's own statements see to everything, which is why reconciles need
  no lock. `TeardownInv` is the same argument with nothing asked for, and `InertInv` says that behind
  the guards of the catalogue's verbs no `alter` or `drop` is pending. They assume finitely many names and at least one
  cron expression (`PgCronAssumption`).
- `AnswersAreTheRecords`: what a task completed with is what its steps are recorded with, but for the steps whose record a
  late call wrote over. `RecordsInv`: the values that a run which has not failed holds are the recorded ones or
  replaced, and a call that goes on without its claim (`stale`, `cleared`) is of a run that has failed; such a
  write either says so in `replaced`, or repeats its own attempt's value, or fills a step of which nobody can hold a
  value (`StaleWriteAgrees`).
- `StatementsStayFinite`, which they need: finitely many statements refer to finitely many ids, so that pg_cron's
  sequence has a fresh one (`FreshIdIsAnId`).

Four hold under a hypothesis that the theorem states, and TLC shows of each that it is needed:

- `RunsEndBeforeTheirLoop`, where a cancellation comes alone (`CancelsAlone`), which covers every scenario of
  `WorkerWindow`. `LoopInv` counts the cancellations left: as long as one may come no loop is on its way out, so that it
  finds the window where the loop cancels and awaits it.
- `StopsStrandNothing`, where stops meet no crash, cancellation or broken run (`StopsAlone`), which covers every
  scenario of `WorkerFleet`. `Undisturbed` says that a running task is executed by its holder, in the attempt that is
  counted; where there is no stop, `Unstopped` says that no loop returns. A run claimed before a crash stays claimed by
  a process that may be stopped later, and waits for its lease.
- `AnnouncedFailuresStand`, where no client retries (`NoRetries`): a task announced as FAILED has no attempt to come and never
  completes. `FinalInv` adds that the execution that announced it has only its failure left to report, and that any
  other execution is of an attempt that the queue refuses. A client's `retry_task` adds an attempt whatever was said.
- `WrappersNameTasks`, where no caller's key is another's with the suffix that the wrapper's has (`KeysApart`): a wrapper completes with
  a task of its caller's call or key. With two deferrals of the keys k and "k:run_after" the task of the second
  dedupes against the wrapper of the first.

So every invariant and action property that a run checks is proved, but for `PendingTasksKept`, which the code violates.
Liveness under fairness (`DeferralsLand` and its like) is out of the prover's reach and stays with TLC.

## The plan

What could come next, in order of importance:

1. The locks of the runs' rows in `await_event` and `emit_event`, whose order `EventHandshake` does not have.
2. The batches of `cleanup_tasks` and `cleanup_events` as several statements, and lock orders over several tasks.

## What is not modelled

- Partitioned storage, detaching and the engine's own cron jobs: their state is PostgreSQL's catalogue of
  partitions, and pg_cron runs the steps.
- `retry_delay_seconds`: floating point, which TLC does not have; the queue takes the delay as a constant.
- The admin's pages over tasks and runs, which only read; the system checks and validators, which are functions of
  the settings; messages and logging.
- A task without a limit of attempts in the worker; the five seconds in which a stopping worker joins its beat; the locks
  of runs' rows in the handshake of events.
- The signals `task_enqueued` and `task_started`, and the hooks, which build SDK options.
- The flush of a test case, which truncates the tables with nothing else running, and the test support
  around it; benchmarks, examples and documentation.
- The serialisation of arguments and results, whose values no property tells apart.
