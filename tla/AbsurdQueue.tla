----------------------------- MODULE AbsurdQueue -----------------------------
(***************************************************************************)
(* The durable queue engine of django_absurd/migrations/0001_initial_0_5_0 *)
(* .sql: the five tables t_, r_, c_, e_ and w_ of one queue and the stored *)
(* procedures that read and write them.  A procedure is one transaction, so*)
(* each one is one action here; a procedure that raises leaves every table *)
(* as it was, so its raising paths are the negated guards.  Whoever calls  *)
(* a procedure (a worker, a client, a scheduler, a worker whose claim was  *)
(* lost long ago) may call it at any moment with any identifier that was   *)
(* ever handed out.                                                        *)
(*                                                                         *)
(* Bounds of the checked instances: MaxTime ends the clock, the sizes of   *)
(* Task and Run are the identifiers portable_uuidv7 can still hand out.    *)
(*                                                                         *)
(* A definition marked "mutant" is a plausible mistake in the one after it:*)
(* no action uses it, and a property is violated when one does.            *)
(***************************************************************************)
EXTENDS Integers, FiniteSets, Functions

CONSTANTS
  Task, Run,              \* identifiers of rows of t_ and r_, never reused
  Event, Payload,         \* event names, event payloads and step results
  AwaitStep, BodyStep,    \* step names of await_event, of ordinary steps
  Key,                    \* idempotency keys
  Options,                \* the options the clients pass to spawn_task
  ClaimTimeout, ClaimQty, \* p_claim_timeout (already clamped to >= 0), p_qty
  WakeAt, RetryAt,        \* p_wake_at, p_retry_at (Null: not given)
  AwaitTimeout, ExtendBy, \* p_timeout (Null: none), p_extend_claim_by
  RetryMax,               \* max_attempts given to retry_task (Null: none)
  Ttl, CleanupLimit,      \* the cleanup policy
  MaxTime,                \* bound of the clock
  Null, Never, Epoch      \* SQL null, 'infinity' and 'epoch'

VARIABLES
  now,          \* absurd.current_time()
  tasks,        \* t_<queue>
  runs,         \* r_<queue>
  checkpoints,  \* c_<queue>
  events,       \* e_<queue>
  waits         \* w_<queue>

vars == <<now, tasks, runs, checkpoints, events, waits>>

Step == AwaitStep \cup BodyStep

Live  == {"pending", "running", "sleeping"}
Ended == {"completed", "failed", "cancelled"}
Absent == {"none", "deleted"}     \* no row: not handed out yet, or cleaned up

OptionRow == [maxAttempts : Nat \cup {Null}, delay : Nat,
              maxDelay : Nat \cup {Null}, maxDuration : Nat \cup {Null},
              key : Key \cup {Null}]

ASSUME NullAssumption ==
  /\ Null \notin Nat \cup Task \cup Run \cup Event \cup Payload \cup Key
  /\ Never \notin Nat \cup {Null}
  /\ Epoch \notin Nat \cup {Null}
ASSUME InputAssumption ==
  /\ Options \subseteq OptionRow
  /\ \A opt \in Options : opt.maxAttempts # Null => opt.maxAttempts >= 1
  /\ ClaimTimeout \subseteq Nat /\ ClaimQty \subseteq Nat \ {0}
  /\ WakeAt \subseteq Nat /\ RetryAt \subseteq Nat \cup {Null}
  /\ AwaitTimeout \subseteq Nat \cup {Null} /\ ExtendBy \subseteq Nat \ {0}
  /\ RetryMax \subseteq (Nat \ {0}) \cup {Null}
  /\ Ttl \subseteq Nat /\ CleanupLimit \subseteq Nat /\ MaxTime \in Nat
ASSUME StepAssumption == AwaitStep \cap BodyStep = {}

-----------------------------------------------------------------------------
(* Rows *)

NoTask(state) ==
  [state |-> state, attempts |-> 0, enqueueAt |-> Null, firstStarted |-> Null,
   lastRun |-> Null, cancelledAt |-> Null, opt |-> Null]
NoRun(state) ==
  [state |-> state, task |-> Null, attempt |-> 0, availableAt |-> Null,
   wakeEvent |-> Null, eventPayload |-> Null, expires |-> Null, endedAt |-> Null]
NoCheckpoint == [payload |-> Null, owner |-> Null]
NoEvent  == [payload |-> Null, emittedAt |-> Null]
Sentinel == [payload |-> Null, emittedAt |-> Epoch]   \* "not emitted yet"

TaskRow == [state : Live \cup Ended, attempts : Nat,
            enqueueAt : Nat, firstStarted : Nat \cup {Null},
            lastRun : Run, cancelledAt : Nat \cup {Null}, opt : OptionRow]
RunRow  == [state : Live \cup Ended, task : Task, attempt : Nat,
            availableAt : Nat \cup {Never}, wakeEvent : Event \cup {Null},
            eventPayload : Payload \cup {Null}, expires : Nat \cup {Null},
            endedAt : Nat \cup {Null}]
CheckpointRow == [payload : Payload, owner : Run]
EventRow == [payload : Payload, emittedAt : Nat]
WaitRow  == [task : Task, run : Run, step : AwaitStep, event : Event,
             timeout : Nat \cup {Null}]

NewTask(opt, r) ==
  [state |-> "pending", attempts |-> 1, enqueueAt |-> now, firstStarted |-> Null,
   lastRun |-> r, cancelledAt |-> Null, opt |-> opt]
NewRun(t, n, state, at) ==
  [state |-> state, task |-> t, attempt |-> n, availableAt |-> at,
   wakeEvent |-> Null, eventPayload |-> Null, expires |-> Null, endedAt |-> Null]

HasRow(row) == row.state \notin Absent
Larger(a, b) == IF a < b THEN b ELSE a
ElapsedStrictly(since, limit, at) ==   \* mutant: > for >=
  limit # Null /\ since # Null /\ at - since > limit
Elapsed(since, limit, at) == limit # Null /\ since # Null /\ at - since >= limit

-----------------------------------------------------------------------------
(* spawn_task: the strategy and max_attempts were validated before (Options *)
(* holds what passes), so the call inserts the task and its first run.  With*)
(* an idempotency key that some row holds, it inserts nothing and returns   *)
(* that row: a stutter.                                                     *)

KeyFree(key) == key = Null \/ \A t \in Task : HasRow(tasks[t]) => tasks[t].opt.key # key

SpawnTask(t, r, opt) ==
  /\ tasks[t].state = "none"
  /\ runs[r].state = "none"
  /\ KeyFree(opt.key)
  /\ tasks' = [tasks EXCEPT ![t] = NewTask(opt, r)]
  /\ runs' = [runs EXCEPT ![r] = NewRun(t, 1, "pending", now)]
  /\ UNCHANGED <<now, checkpoints, events, waits>>

-----------------------------------------------------------------------------
(* cancel_task, for a set of tasks: claim_task cancels several at once.  A  *)
(* task that has ended is left alone.                                       *)

CancelledTask(task) ==
  [task EXCEPT !.state = "cancelled", !.cancelledAt = IF @ = Null THEN now ELSE @]
CancelledRun(run) == [run EXCEPT !.state = "cancelled", !.expires = Null]

CancelTasks(tk, S) == [t \in Task |-> IF t \in S THEN CancelledTask(tk[t]) ELSE tk[t]]

CancelRunsAwake(rn, S) ==   \* mutant: a sleeping run is not cancelled
  [r \in Run |-> IF rn[r].task \in S /\ rn[r].state \in {"pending", "running"}
                 THEN CancelledRun(rn[r]) ELSE rn[r]]
CancelRuns(rn, S) ==
  [r \in Run |-> IF rn[r].task \in S /\ rn[r].state \in Live THEN CancelledRun(rn[r])
                                                             ELSE rn[r]]

CancelTask(t) ==
  /\ tasks[t].state \in Live
  /\ tasks' = CancelTasks(tasks, {t})
  /\ runs' = CancelRuns(runs, {t})
  /\ waits' = {w \in waits : w.task # t}
  /\ UNCHANGED <<now, checkpoints, events>>

-----------------------------------------------------------------------------
(* fail_run, for a set of runs: claim_task fails every swept run.  A retry  *)
(* is a new run row; fresh maps each failed run that gets one to its id.    *)

RetryTime(task, retryAt) ==
  LET at == IF retryAt = Null THEN now + task.opt.delay ELSE retryAt
  IN  Larger(at, now)

AttemptsLeft(task, run) ==
  task.opt.maxAttempts = Null \/ run.attempt + 1 <= task.opt.maxAttempts

\* The task's state after the failure of the run.
AfterFailure(task, run, retryAt) ==
  IF ~AttemptsLeft(task, run) THEN "failed"
  ELSE IF Elapsed(task.firstStarted, task.opt.maxDuration, RetryTime(task, retryAt))
       THEN "cancelled"
       ELSE IF RetryTime(task, retryAt) > now THEN "sleeping" ELSE "pending"

FailedRun(run) == [run EXCEPT !.state = "failed", !.wakeEvent = Null, !.endedAt = now]

RetryRunRepeated(task, run, retryAt) ==   \* mutant: the attempt is not advanced
  NewRun(run.task, run.attempt, AfterFailure(task, run, retryAt), RetryTime(task, retryAt))
RetryRun(task, run, retryAt) ==
  NewRun(run.task, run.attempt + 1, AfterFailure(task, run, retryAt),
         RetryTime(task, retryAt))

FailedTask(task, run, r, retryAt) ==
  LET next == AfterFailure(task, run, retryAt) IN
  [task EXCEPT !.state = next,
               !.attempts = Larger(@, run.attempt),
               !.lastRun = r,
               !.cancelledAt = IF next = "cancelled" /\ @ = Null THEN now ELSE @]

RetriedTask(task, run, new, retryAt) ==
  [task EXCEPT !.state = AfterFailure(task, run, retryAt),
               !.attempts = Larger(@, run.attempt + 1),
               !.lastRun = new]

Retries(tk, rn, r, retryAt) == AfterFailure(tk[rn[r].task], rn[r], retryAt) \in Live

FreshIds(S, rn) == Injection(S, {r \in Run : rn[r].state = "none"})
RunOf(t, S, rn) == CHOOSE r \in S : rn[r].task = t

FailTasks(tk, rn, S, fresh, retryAt) ==
  [t \in Task |->
    IF t \notin {rn[r].task : r \in S} THEN tk[t]
    ELSE LET r == RunOf(t, S, rn) IN
         IF r \in DOMAIN fresh THEN RetriedTask(tk[t], rn[r], fresh[r], retryAt)
                               ELSE FailedTask(tk[t], rn[r], r, retryAt)]

FailRuns(tk, rn, S, fresh, retryAt) ==
  [r \in Run |->
    IF r \in S THEN FailedRun(rn[r])
    ELSE IF r \notin Range(fresh) THEN rn[r]
    ELSE LET old == CHOOSE x \in DOMAIN fresh : fresh[x] = r
         IN  RetryRun(tk[rn[old].task], rn[old], retryAt)]

FailRun(r, retryAt) ==
  /\ runs[r].state \in {"running", "sleeping"}
  /\ \E fresh \in FreshIds({x \in {r} : Retries(tasks, runs, x, retryAt)}, runs) :
       /\ tasks' = FailTasks(tasks, runs, {r}, fresh, retryAt)
       /\ runs' = FailRuns(tasks, runs, {r}, fresh, retryAt)
  /\ waits' = {w \in waits : w.run # r}
  /\ UNCHANGED <<now, checkpoints, events>>

-----------------------------------------------------------------------------
(* claim_task: cancel what is overdue, fail at most qty runs whose lease    *)
(* ran out, claim at most qty available runs.  The queries order their rows *)
(* and skip those another transaction has locked, so any batch may be what  *)
(* is left.                                                                 *)

Overdue(task) ==
  /\ task.state \in Live
  /\ \/ task.firstStarted = Null /\ Elapsed(task.enqueueAt, task.opt.maxDelay, now)
     \/ Elapsed(task.firstStarted, task.opt.maxDuration, now)

LeaseExpired(run) == run.state = "running" /\ run.expires # Null /\ run.expires <= now

Due(at) == at # Never /\ at <= now

Claimable(tk, run) ==
  /\ run.state \in {"pending", "sleeping"}
  /\ tk[run.task].state \in Live
  /\ Due(run.availableAt)

StartedTaskCounting(task, run, r) ==   \* mutant: every claim counts as an attempt
  [task EXCEPT !.state = "running", !.attempts = Larger(@, run.attempt) + 1,
               !.firstStarted = IF @ = Null THEN now ELSE @, !.lastRun = r]
StartedTask(task, run, r) ==
  [task EXCEPT !.state = "running", !.attempts = Larger(@, run.attempt),
               !.firstStarted = IF @ = Null THEN now ELSE @, !.lastRun = r]

StartedRun(run, timeout) ==
  [run EXCEPT !.state = "running", !.availableAt = now,
              !.expires = IF timeout > 0 THEN now + timeout ELSE Null]

StartTasks(tk, rn, S) ==
  [t \in Task |->
    IF t \notin {rn[r].task : r \in S} THEN tk[t]
    ELSE LET r == RunOf(t, S, rn) IN StartedTask(tk[t], rn[r], r)]

StartRuns(rn, S, timeout) ==
  [r \in Run |-> IF r \in S THEN StartedRun(rn[r], timeout) ELSE rn[r]]

TimeoutsKept(wt, S) == {}   \* mutant: claim_task without wait_cleanup
Timeouts(wt, S) == {w \in wt : w.run \in S /\ w.timeout # Null /\ w.timeout <= now}

Batches(S, qty) == {B \in SUBSET S : Cardinality(B) <= qty}

ClaimTask(timeout, qty) ==
  LET doomed == {t \in Task : Overdue(tasks[t])}
      tk1 == CancelTasks(tasks, doomed)
      rn1 == CancelRuns(runs, doomed)
  IN
  \E swept \in Batches({r \in Run : LeaseExpired(rn1[r])}, qty) :
  \E fresh \in FreshIds({r \in swept : Retries(tk1, rn1, r, Null)}, rn1) :
    LET tk2 == FailTasks(tk1, rn1, swept, fresh, Null)
        rn2 == FailRuns(tk1, rn1, swept, fresh, Null)
        wt2 == {w \in waits : w.task \notin doomed /\ w.run \notin swept}
    IN
    \E taken \in Batches({r \in Run : Claimable(tk2, rn2[r])}, qty) :
      /\ tasks' = StartTasks(tk2, rn2, taken)
      /\ runs' = StartRuns(rn2, taken, timeout)
      /\ waits' = wt2 \ Timeouts(wt2, taken)
      /\ UNCHANGED <<now, checkpoints, events>>

-----------------------------------------------------------------------------
(* complete_run and schedule_run: the run must be running.                  *)

MayFinishFailed(run) ==   \* mutant: the failed run is not refused
  run.state \in {"running", "failed"}
MayFinish(run) == run.state = "running"

CompleteRun(r) ==
  /\ MayFinish(runs[r])
  /\ runs' = [runs EXCEPT ![r].state = "completed", ![r].endedAt = now]
  /\ tasks' = [tasks EXCEPT ![runs[r].task].state = "completed",
                            ![runs[r].task].lastRun = r]
  /\ waits' = {w \in waits : w.run # r}
  /\ UNCHANGED <<now, checkpoints, events>>

Parked(run, at, event) ==
  [run EXCEPT !.state = "sleeping", !.expires = Null, !.availableAt = at,
              !.wakeEvent = event]

ScheduleRun(r, at) ==
  /\ MayFinish(runs[r])
  /\ runs' = [runs EXCEPT ![r] = Parked(runs[r], at, Null)]
  /\ tasks' = [tasks EXCEPT ![runs[r].task].state = "sleeping"]
  /\ UNCHANGED <<now, checkpoints, events, waits>>

-----------------------------------------------------------------------------
(* retry_task: only a failed task, in place with one more attempt or as a   *)
(* new task with the same inputs (and no idempotency key).                  *)

NewLimit(task, requested) ==
  IF requested # Null THEN requested
  ELSE (IF task.opt.maxAttempts = Null THEN task.attempts ELSE task.opt.maxAttempts) + 1

RetryTask(t, r, requested) ==
  LET n == tasks[t].attempts + 1
      limit == NewLimit(tasks[t], requested)
  IN
  /\ tasks[t].state = "failed"
  /\ limit > tasks[t].attempts
  /\ runs[r].state = "none"
  /\ runs' = [runs EXCEPT ![r] = NewRun(t, n, "pending", now)]
  /\ tasks' = [tasks EXCEPT ![t].state = "pending", ![t].attempts = n,
                            ![t].opt.maxAttempts = limit,
                            ![t].lastRun = r, ![t].cancelledAt = Null]
  /\ UNCHANGED <<now, checkpoints, events, waits>>

RetryAsNewTask(t, u, r, requested) ==
  /\ tasks[t].state = "failed"
  /\ SpawnTask(u, r, [tasks[t].opt EXCEPT
                       !.key = Null,
                       !.maxAttempts = IF requested = Null THEN @ ELSE requested])

-----------------------------------------------------------------------------
(* set_task_checkpoint_state and extend_claim.                              *)

Extended(run, by) ==
  IF by > 0 /\ run.state = "running" /\ run.expires # Null
  THEN [run EXCEPT !.expires = now + by]
  ELSE run

\* The row is written unless a later attempt already owns it.
MayWrite(cp, n, rn) == cp = NoCheckpoint \/ ~HasRow(rn[cp.owner]) \/ n >= rn[cp.owner].attempt

SetCheckpoint(r, s, p, by) ==
  LET t == runs[r].task IN
  /\ HasRow(runs[r])
  /\ runs[r].state # "failed"
  /\ tasks[t].state # "cancelled"
  /\ runs' = [runs EXCEPT ![r] = Extended(@, by)]
  /\ checkpoints' =
       IF MayWrite(checkpoints[<<t, s>>], runs[r].attempt, runs)
       THEN [checkpoints EXCEPT ![<<t, s>>] = [payload |-> p, owner |-> r]]
       ELSE checkpoints
  /\ UNCHANGED <<now, tasks, events, waits>>

ExtendClaim(r, by) ==
  /\ HasRow(runs[r])
  /\ tasks[runs[r].task].state # "cancelled"
  /\ runs[r].state = "running"
  /\ runs[r].expires # Null
  /\ runs' = [runs EXCEPT ![r].expires = now + by]
  /\ UNCHANGED <<now, tasks, checkpoints, events, waits>>

-----------------------------------------------------------------------------
(* await_event and emit_event.  A step that has a checkpoint returns it: a  *)
(* stutter.  Otherwise the event's row is created when it is missing, and   *)
(* the call ends in one of three ways.                                      *)

AwaitStartAgain(r, s, e) ==   \* mutant: the step's checkpoint is not looked up
  /\ HasRow(runs[r])
  /\ tasks[runs[r].task].state # "cancelled"
  /\ runs[r].state = "running"
  /\ events' = [events EXCEPT ![e] = IF @ = NoEvent THEN Sentinel ELSE @]
AwaitStart(r, s, e) ==
  LET t == runs[r].task IN
  /\ HasRow(runs[r])
  /\ checkpoints[<<t, s>>] = NoCheckpoint
  /\ tasks[t].state # "cancelled"
  /\ runs[r].state = "running"
  /\ events' = [events EXCEPT ![e] = IF @ = NoEvent THEN Sentinel ELSE @]

\* wake_event still names the event and no payload came: its timeout passed.
WokenByTimeout(run, e) == run.wakeEvent = e /\ run.eventPayload = Null

\* The event has been emitted: the payload is returned and checkpointed.
AwaitResolved(r, s, e) ==
  /\ AwaitStart(r, s, e)
  /\ events[e].payload # Null
  /\ checkpoints' = [checkpoints EXCEPT
                      ![<<runs[r].task, s>>] = [payload |-> events[e].payload, owner |-> r]]
  /\ runs' = [runs EXCEPT ![r].eventPayload = Null]
  /\ UNCHANGED <<now, tasks, waits>>

\* The run comes back from a timed-out wait: null is returned, nothing kept.
AwaitTimedOut(r, s, e) ==
  /\ AwaitStart(r, s, e)
  /\ events[e].payload = Null
  /\ WokenByTimeout(runs[r], e)
  /\ runs' = [runs EXCEPT ![r].wakeEvent = Null]
  /\ UNCHANGED <<now, tasks, checkpoints, waits>>

NewWait(r, s, e, timeout) ==
  [task |-> runs[r].task, run |-> r, step |-> s, event |-> e,
   timeout |-> IF timeout = Null THEN Null ELSE now + timeout]

\* The run parks until the event or the timeout.
AwaitParks(r, s, e, timeout) ==
  LET w == NewWait(r, s, e, timeout) IN
  /\ AwaitStart(r, s, e)
  /\ events[e].payload = Null
  /\ ~WokenByTimeout(runs[r], e)
  /\ waits' = {v \in waits : ~(v.run = r /\ v.step = s)} \cup {w}
  /\ runs' = [runs EXCEPT
               ![r] = [Parked(runs[r], IF timeout = Null THEN Never ELSE w.timeout, e)
                       EXCEPT !.eventPayload = Null]]
  /\ tasks' = [tasks EXCEPT ![runs[r].task].state = "sleeping"]
  /\ UNCHANGED <<now, checkpoints>>

UnexpiredTimed(w) ==   \* mutant: "timeout_at is null or" dropped
  w.timeout # Null /\ w.timeout > now
Unexpired(w) == w.timeout = Null \/ w.timeout > now

\* The waits of e whose run the emission wakes.
WokenWaits(e) ==
  {w \in waits : w.event = e /\ Unexpired(w) /\ runs[w.run].state = "sleeping"}

WokenRun(run, p) ==
  [run EXCEPT !.state = "pending", !.availableAt = now, !.wakeEvent = Null,
              !.eventPayload = p, !.expires = Null]

\* The first emission of a name; a later one finds the payload and does nothing.
EmitEvent(e, p) ==
  LET woken == {w.run : w \in WokenWaits(e)} IN
  /\ events[e].payload = Null
  /\ events' = [events EXCEPT ![e] = [payload |-> p, emittedAt |-> now]]
  /\ runs' = [r \in Run |->
       IF r \in woken THEN WokenRun(runs[r], p) ELSE runs[r]]
  /\ checkpoints' = [c \in Task \X Step |->
       IF \E w \in WokenWaits(e) : c = <<w.task, w.step>>
       THEN [payload |-> p,
             owner |-> (CHOOSE w \in WokenWaits(e) : c = <<w.task, w.step>>).run]
       ELSE checkpoints[c]]
  /\ tasks' = [t \in Task |->
       IF t \in {runs[r].task : r \in woken} THEN [tasks[t] EXCEPT !.state = "pending"]
                                            ELSE tasks[t]]
  /\ waits' = {w \in waits : w.event = e => Unexpired(w) /\ w.run \notin woken}
  /\ UNCHANGED now

-----------------------------------------------------------------------------
(* cleanup_tasks and cleanup_events: one batch, oldest first.               *)

Oldest(B, S, age, limit) ==
  /\ B \subseteq S
  /\ Cardinality(B) = IF Cardinality(S) < limit THEN Cardinality(S) ELSE limit
  /\ \A b \in B, s \in S \ B : age[b] <= age[s]

TerminalAt(t) == IF tasks[t].state = "cancelled" THEN tasks[t].cancelledAt
                                                 ELSE runs[tasks[t].lastRun].endedAt

Cleanable(ttl) ==
  {t \in Task : /\ tasks[t].state \in Ended
                /\ TerminalAt(t) # Null
                /\ TerminalAt(t) < now - ttl}

StepsKept(B) == checkpoints   \* mutant: cleanup forgets c_
\* The steps of the tasks of B go with them.
StepsWithout(B) ==
  [c \in Task \X Step |-> IF c[1] \in B THEN NoCheckpoint ELSE checkpoints[c]]

CleanupTasks(ttl, limit) ==
  \E B \in SUBSET Cleanable(ttl) :
    /\ Oldest(B, Cleanable(ttl), [t \in Task |-> TerminalAt(t)], limit)
    /\ tasks' = [t \in Task |-> IF t \in B THEN NoTask("deleted") ELSE tasks[t]]
    /\ runs' = [r \in Run |-> IF runs[r].task \in B THEN NoRun("deleted") ELSE runs[r]]
    /\ checkpoints' = StepsWithout(B)
    /\ waits' = {w \in waits : w.task \notin B}
    /\ UNCHANGED <<now, events>>

EmittedAt(e) == IF events[e].emittedAt = Epoch THEN -1 ELSE events[e].emittedAt

Stale(ttl) ==
  {e \in Event : \/ events[e].emittedAt = Epoch
                 \/ events[e].emittedAt \in Nat /\ events[e].emittedAt < now - ttl}

CleanupEvents(ttl, limit) ==
  \E B \in SUBSET Stale(ttl) :
    /\ Oldest(B, Stale(ttl), [e \in Event |-> EmittedAt(e)], limit)
    /\ events' = [e \in Event |-> IF e \in B THEN NoEvent ELSE events[e]]
    /\ UNCHANGED <<now, tasks, runs, checkpoints, waits>>

-----------------------------------------------------------------------------
Tick ==
  /\ now < MaxTime
  /\ now' = now + 1
  /\ UNCHANGED <<tasks, runs, checkpoints, events, waits>>

Init ==
  /\ now = 0
  /\ tasks = [t \in Task |-> NoTask("none")]
  /\ runs = [r \in Run |-> NoRun("none")]
  /\ checkpoints = [c \in Task \X Step |-> NoCheckpoint]
  /\ events = [e \in Event |-> NoEvent]
  /\ waits = {}

ClientNext ==
  \/ \E t \in Task, r \in Run, opt \in Options : SpawnTask(t, r, opt)
  \/ \E t \in Task : CancelTask(t)
  \/ \E t \in Task, r \in Run, limit \in RetryMax : RetryTask(t, r, limit)
  \/ \E t, u \in Task, r \in Run, limit \in RetryMax : RetryAsNewTask(t, u, r, limit)
  \/ \E e \in Event, p \in Payload : EmitEvent(e, p)

WorkerNext ==
  \/ \E timeout \in ClaimTimeout, qty \in ClaimQty : ClaimTask(timeout, qty)
  \/ \E r \in Run :
       \/ CompleteRun(r)
       \/ \E at \in WakeAt : ScheduleRun(r, at)
       \/ \E at \in RetryAt : FailRun(r, at)
       \/ \E s \in BodyStep, p \in Payload, by \in ExtendBy \cup {0} : SetCheckpoint(r, s, p, by)
       \/ \E by \in ExtendBy : ExtendClaim(r, by)
       \/ \E s \in AwaitStep, e \in Event : AwaitResolved(r, s, e)
       \/ \E s \in AwaitStep, e \in Event : AwaitTimedOut(r, s, e)
       \/ \E s \in AwaitStep, e \in Event, timeout \in AwaitTimeout : AwaitParks(r, s, e, timeout)

CleanupNext ==
  \/ \E ttl \in Ttl, limit \in CleanupLimit : CleanupTasks(ttl, limit)
  \/ \E ttl \in Ttl, limit \in CleanupLimit : CleanupEvents(ttl, limit)

Next == ClientNext \/ WorkerNext \/ CleanupNext \/ Tick

Spec == Init /\ [][Next]_vars

-----------------------------------------------------------------------------
(* Properties.  The invariants the proofs carry through the intermediate    *)
(* tables of claim_task take the tables as parameters.                      *)

\* Each table holds whole rows: a call that fills some columns of a row that
\* is not there, or empties some columns of one that is, breaks this.
TablesTyped(tk, rn) ==
  /\ tk \in [Task -> TaskRow \cup {NoTask(a) : a \in Absent}]
  /\ rn \in [Run -> RunRow \cup {NoRun(a) : a \in Absent}]

TypeOK ==
  /\ now \in Nat
  /\ TablesTyped(tasks, runs)
  /\ checkpoints \in [Task \X Step -> CheckpointRow \cup {NoCheckpoint}]
  /\ events \in [Event -> EventRow \cup {NoEvent, Sentinel}]
  /\ waits \subseteq WaitRow

\* What the procedures rely on without ever checking it: a live task has one
\* live run, the one last_attempt_run names, in the task's own state; a task
\* that ended has a run that ended with it.
TaskRunsAgreeIn(tk, rn) ==
  \A t \in Task : HasRow(tk[t]) =>
    LET last == tk[t].lastRun IN
    /\ rn[last].task = t
    /\ rn[last].attempt = tk[t].attempts
    /\ tk[t].state = "cancelled" => rn[last].state \in {"cancelled", "failed"}
    /\ tk[t].state # "cancelled" => rn[last].state = tk[t].state

\* Every other run of a task is an earlier attempt that failed, so a worker
\* that lost its claim can finish nothing: not its run, not its task.
EarlierAttemptsFailedIn(tk, rn) ==
  \A r \in Run : HasRow(rn[r]) =>
    LET t == rn[r].task IN
    /\ HasRow(tk[t])
    /\ rn[r].attempt >= 1
    /\ r # tk[t].lastRun => rn[r].state = "failed" /\ rn[r].attempt < tk[t].attempts

TaskRunsAgree == TaskRunsAgreeIn(tasks, runs)
EarlierAttemptsFailed == EarlierAttemptsFailedIn(tasks, runs)

\* No two runs of a task are the same attempt, whoever retried it and however
\* often its lease was swept.
AttemptsDistinctIn(rn) ==
  \A q, r \in Run : q # r /\ HasRow(rn[q]) /\ rn[q].task = rn[r].task
                      => rn[q].attempt # rn[r].attempt

AttemptsDistinct == AttemptsDistinctIn(runs)

\* A wait belongs to a sleeping run that names the event and becomes available
\* at the wait's timeout, and a run has one wait: emit_event finds the runs to
\* wake through the waits alone.
WaitsMatchSleepers ==
  /\ \A w \in waits :
       /\ runs[w.run].state = "sleeping"
       /\ runs[w.run].task = w.task
       /\ runs[w.run].wakeEvent = w.event
       /\ runs[w.run].availableAt = IF w.timeout = Null THEN Never ELSE w.timeout
       /\ checkpoints[<<w.task, w.step>>] = NoCheckpoint
  /\ \A v, w \in waits : v.run = w.run => v = w

\* A run that sleeps without a wake-up time is waiting for an event that has
\* not been emitted: no wake-up is lost.
NoLostWakeup ==
  \A r \in Run : runs[r].state = "sleeping" /\ runs[r].availableAt = Never =>
    \E w \in waits : w.run = r /\ events[w.event].payload = Null

\* Cleanup leaves nothing behind: what refers to a task refers to a task that
\* has a row.
NoOrphans ==
  /\ \A c \in Task \X Step : checkpoints[c] # NoCheckpoint =>
       HasRow(tasks[c[1]]) /\ HasRow(runs[checkpoints[c].owner])
  /\ \A w \in waits : HasRow(tasks[w.task]) /\ HasRow(runs[w.run])

\* Action properties.

\* What await_event returned for a step stays the step's result, even when the
\* event is cleaned up and emitted again with another payload.
AwaitResultsStable ==
  \A t \in Task, s \in AwaitStep :
    checkpoints[<<t, s>>] # NoCheckpoint /\ HasRow(tasks'[t]) =>
      checkpoints'[<<t, s>>].payload = checkpoints[<<t, s>>].payload

\* No run starts once its task's deadline has passed: max_delay counted from
\* the enqueueing until the first start, max_duration from the first start on.
OverdueNeverStarts ==
  \A r \in Run : runs[r].state # "running" /\ runs'[r].state = "running" =>
    LET task == tasks[runs'[r].task] IN
    /\ task.firstStarted = Null /\ task.opt.maxDelay # Null
         => now < task.enqueueAt + task.opt.maxDelay
    /\ task.firstStarted # Null /\ task.opt.maxDuration # Null
         => now < task.firstStarted + task.opt.maxDuration

AwaitResultsAreStable == [][AwaitResultsStable]_vars
OverdueTasksNeverStart == [][OverdueNeverStarts]_vars

\* The queue implements the lifecycle its clients see: a task fails only after
\* its last attempt, a wake-up is not a retry, an end is an end.
LimitOf(t) == IF HasRow(tasks[t]) THEN tasks[t].opt.maxAttempts ELSE Null

Lifecycle == INSTANCE TaskLifecycle WITH
  state <- [t \in Task |-> tasks[t].state],
  attempts <- [t \in Task |-> tasks[t].attempts],
  limit <- [t \in Task |-> LimitOf(t)]

ImplementsLifecycle == Lifecycle!Spec
=============================================================================
