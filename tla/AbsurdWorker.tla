---------------------------- MODULE AbsurdWorker ----------------------------
(***************************************************************************)
(* The loops of worker.py, its runs in flight, and the signals they send.  *)
(* A process is one asyncio loop: what stands between two awaits is one    *)
(* step.  The queue is seen as a worker sees it: a task has a state, the   *)
(* number of its attempt and a lease; AbsurdQueue has the whole of it.     *)
(*                                                                         *)
(* With a concurrency of 1 a worker claims a batch and executes it one run *)
(* after the other; otherwise it keeps a window of runs in flight and fills*)
(* it up.  The SDK's _execute_task is external: it calls the handler, then *)
(* complete_run or fail_run, and takes a refusal of either for the end of  *)
(* the run.                                                                *)
(*                                                                         *)
(* A task without max_attempts (null: retried for ever) is left out: no    *)
(* attempt of it is terminal, so FAILED is never said of it.               *)
(*                                                                         *)
(* Bounds: a scenario says how often each rare event (a crash, a stop, ...)*)
(* happens at most; retry_task adds at most MaxRetries attempts to a task. *)
(***************************************************************************)
EXTENDS Integers, FiniteSets

CONSTANTS
  Worker, Task,
  Concurrency, BatchSize,   \* the options of each worker
  MaxAttempts,
  Scenarios, MaxRetries,
  Null

Rare == {"crash", "stop", "cancel", "break", "client", "retry", "suspend"}

ASSUME WorkerAssumption ==
  /\ Concurrency \in [Worker -> Nat \ {0}] /\ BatchSize \in [Worker -> Nat \ {0}]
  /\ MaxAttempts \in Nat \ {0}
  /\ Scenarios \subseteq [Rare -> Nat] /\ MaxRetries \in Nat
  /\ \A s \in Scenarios : s["retry"] <= MaxRetries
  /\ IsFiniteSet(Task) /\ Null \notin Worker \cup Nat

VARIABLES
  state,     \* a task's state
  attempt,   \* the number of its current run
  lease,     \* the current claim's claim_expires_at
  holder,    \* claimed_by
  loop,      \* where each worker's loop is
  quota,     \* how much the claim under way asks for
  stop,      \* the stop event of each worker
  window,    \* the runs each worker has claimed and not reaped
  finished,  \* the runs whose task_finished said FAILED
  left       \* rare events still to come

vars == <<state, attempt, lease, holder, loop, quota, stop, window, finished, left>>
queue == <<state, attempt, lease, holder>>
proc == <<loop, quota, stop, window>>

Live == {"pending", "running", "sleeping"}
Ended == {"completed", "failed", "cancelled"}
Attempt == 1..(MaxAttempts + MaxRetries)

\* A loop that is over returned, or ended by an exception or with its process.
Gone == {"closed", "dead"}

\* Where an execution stands: claimed, in the handler, past the handler's end,
\* parked in the database, cancelled and unwinding, or done.
Executing == {"created", "body", "returned", "raised"}
InFlight == Executing \cup {"suspending", "unwinding"}
Execution == [task : Task, n : Attempt, at : InFlight \cup {"broken", "ended"}]

TypeOK ==
  /\ state \in [Task -> Live \cup Ended] /\ attempt \in [Task -> Attempt]
  /\ lease \in [Task -> {"none", "live", "expired"}]
  /\ holder \in [Task -> Worker \cup {Null}]
  /\ loop \in [Worker -> {"head", "claiming", "idle", "batch", "finishing", "unwinding"} \cup Gone]
  /\ quota \in [Worker -> Nat]
  /\ stop \in [Worker -> BOOLEAN]
  /\ window \in [Worker -> SUBSET Execution]
  /\ finished \subseteq Task \X Attempt
  /\ left \in [Rare -> Nat]

Happens(what) == left[what] > 0 /\ left' = [left EXCEPT ![what] = @ - 1]

Busy(w) == {e \in window[w] : e.at \in InFlight}
Moved(w, e, at) == [window EXCEPT ![w] = (@ \ {e}) \cup {[e EXCEPT !.at = at]}]
Sequential(w) == Concurrency[w] = 1

-----------------------------------------------------------------------------
(* The queue, as a worker sees it.                                          *)

\* max_attempts: retry_task raises it to the attempt it adds.
Limit(n) == IF n < MaxAttempts THEN MaxAttempts ELSE n
Current(e) == state[e.task] = "running" /\ attempt[e.task] = e.n

\* fail_run: another attempt, or the end.
FailedStateLate(t) == IF attempt[t] <= Limit(attempt[t]) THEN "pending" ELSE "failed"   \* mutant
FailedState(t) == IF attempt[t] < Limit(attempt[t]) THEN "pending" ELSE "failed"
FailStates(S) == [t \in Task |-> IF t \in S THEN FailedState(t) ELSE state[t]]
FailAttemptsSame(S) == attempt   \* mutant: the retry run keeps its number
FailAttempts(S) ==
  [t \in Task |-> IF t \in S /\ FailedState(t) = "pending" THEN attempt[t] + 1 ELSE attempt[t]]

ExpiredNone == {}   \* mutant: no sweep
Expired == {t \in Task : state[t] = "running" /\ lease[t] = "expired"}

\* claim_task sweeps the leases E and starts the tasks B.
Sweeps(w, E, B) ==
  LET failed == FailStates(E) IN
  /\ E \subseteq Expired /\ B \subseteq {t \in Task : failed[t] = "pending"}
  /\ Cardinality(E) <= quota[w] /\ Cardinality(B) <= quota[w]
  /\ state' = [t \in Task |-> IF t \in B THEN "running" ELSE failed[t]]
  /\ attempt' = FailAttempts(E)
  /\ lease' = [t \in Task |-> IF t \in B THEN "live"
                              ELSE IF t \in E THEN "none" ELSE lease[t]]
  /\ holder' = [t \in Task |-> IF t \in B THEN w ELSE IF t \in E THEN Null ELSE holder[t]]

LeaseExpires(t) ==
  /\ state[t] = "running" /\ lease[t] = "live"
  /\ lease' = [lease EXCEPT ![t] = "expired"]
  /\ UNCHANGED <<state, attempt, holder, finished, left>> /\ UNCHANGED proc

\* The task ends, or goes to sleep, and nobody holds it.
Leaves(t, to) ==
  /\ state' = [state EXCEPT ![t] = to]
  /\ lease' = [lease EXCEPT ![t] = "none"] /\ holder' = [holder EXCEPT ![t] = Null]

Wake(t) ==
  /\ state[t] = "sleeping"
  /\ state' = [state EXCEPT ![t] = "pending"]
  /\ UNCHANGED <<attempt, lease, holder, finished, left>> /\ UNCHANGED proc

CancelTask(t) ==
  /\ state[t] \in Live
  /\ Happens("client")
  /\ Leaves(t, "cancelled")
  /\ UNCHANGED <<attempt, finished>> /\ UNCHANGED proc

RetryTask(t) ==
  /\ state[t] = "failed"
  /\ Happens("retry")
  /\ state' = [state EXCEPT ![t] = "pending"]
  /\ attempt' = [attempt EXCEPT ![t] = @ + 1]
  /\ UNCHANGED <<lease, holder, finished>> /\ UNCHANGED proc

-----------------------------------------------------------------------------
(* The loops.  Ended and broken runs stay in the window until the loop's    *)
(* head looks at them; a broken one ends the loop with an exception.        *)

Broken(w) == {e \in window[w] : e.at = "broken"}
CapacityWhole(w) == Concurrency[w]   \* mutant: the runs in flight are not counted
Capacity(w) == Concurrency[w] - Cardinality(Busy(w))
Quota(w) ==
  IF Sequential(w) \/ BatchSize[w] < Capacity(w) THEN BatchSize[w] ELSE Capacity(w)

MayStopNever(w) == FALSE   \* mutant: the loop's head does not look at the stop event
MayStop(w) == stop[w]

\* while not stop.is_set(): reap, then claim what there is room for.
LoopHead(w) ==
  /\ loop[w] = "head"
  /\ \/ /\ MayStop(w)
        /\ loop' = [loop EXCEPT ![w] = "finishing"] /\ UNCHANGED <<quota, window>>
     \/ /\ ~MayStop(w) /\ Broken(w) # {}
        /\ loop' = [loop EXCEPT ![w] = "finishing"] /\ UNCHANGED <<quota, window>>
     \/ /\ ~MayStop(w) /\ Broken(w) = {}
        /\ window' = [window EXCEPT ![w] = Busy(w)]
        /\ IF Capacity(w) <= 0 THEN loop' = [loop EXCEPT ![w] = "idle"] /\ UNCHANGED quota
           ELSE /\ loop' = [loop EXCEPT ![w] = "claiming"]
                /\ quota' = [quota EXCEPT ![w] = Quota(w)]
  /\ UNCHANGED <<stop, finished, left>> /\ UNCHANGED queue

Created(B) == {[task |-> t, n |-> attempt'[t], at |-> "created"] : t \in B}

Claims(w, E, B) ==
  /\ loop[w] = "claiming"
  /\ Sweeps(w, E, B)
  /\ window' = [window EXCEPT ![w] = @ \cup Created(B)]
  /\ loop' = [loop EXCEPT ![w] = IF B = {} THEN "idle" ELSE IF Sequential(w) THEN "batch" ELSE "head"]
  /\ quota' = [quota EXCEPT ![w] = 0]
  /\ UNCHANGED <<stop, finished, left>>

ClaimTasks(w) == \E E, B \in SUBSET Task : Claims(w, E, B)

\* No other worker's claim holds the rows this one asks for.
ClaimUnhindered(w) ==
  \E E, B \in SUBSET Task :
    /\ Claims(w, E, B)
    /\ Cardinality(E) = quota[w] \/ E = Expired
    /\ Cardinality(B) = quota[w] \/ B = {t \in Task : FailStates(E)[t] = "pending"}

\* The poll interval passes, the stop is set or a run finishes.
IdleEnds(w) ==
  /\ loop[w] = "idle"
  /\ loop' = [loop EXCEPT ![w] = "head"]
  /\ UNCHANGED <<quota, stop, window, finished, left>> /\ UNCHANGED queue

\* The runs of a batch that has not begun are waiting for their turn.
Alone(w) == \A e \in Busy(w) : e.at = "created"
BatchOverStopped(w) == Busy(w) = {} \/ (Alone(w) /\ stop[w])   \* mutant: a stop breaks off the batch
BatchOver(w) == Busy(w) = {}
BatchEnds(w) ==
  /\ loop[w] = "batch"
  /\ \/ /\ Broken(w) # {} /\ loop' = [loop EXCEPT ![w] = "dead"]
     \/ /\ Broken(w) = {} /\ BatchOver(w) /\ loop' = [loop EXCEPT ![w] = "head"]
  /\ window' = [window EXCEPT ![w] = {}]
  /\ UNCHANGED <<quota, stop, finished, left>> /\ UNCHANGED queue

Stop(w) ==
  /\ loop[w] \notin Gone /\ ~stop[w]
  /\ Happens("stop")
  /\ stop' = [stop EXCEPT ![w] = TRUE]
  /\ UNCHANGED <<loop, quota, window, finished>> /\ UNCHANGED queue

\* CancelledError at the loop's await.  What the loop executes itself unwinds;
\* the rest of a batch is dropped.  In the wait of finish_remaining_runs nobody
\* cancels the runs.
Cancel(w) ==
  /\ loop[w] \in {"claiming", "idle", "batch", "unwinding"}
     \/ (loop[w] = "finishing" /\ Busy(w) # {})
  /\ Happens("cancel")
  /\ loop' = [loop EXCEPT ![w] = IF @ = "finishing" THEN "dead"
                                 ELSE IF @ = "unwinding" /\ ~Sequential(w) THEN "finishing"
                                 ELSE "unwinding"]
  /\ window' = IF loop[w] = "finishing" THEN window
               ELSE [window EXCEPT ![w] =
                      {[e EXCEPT !.at = "unwinding"] :
                         e \in {f \in Busy(w) : Sequential(w) => f.at # "created"}}]
  /\ UNCHANGED <<quota, stop, finished>> /\ UNCHANGED queue

\* The claim was committed, but its answer was lost with the cancelled await.
CancelAnswer(w) ==
  /\ loop[w] = "claiming"
  /\ Happens("cancel")
  /\ \E E, B \in SUBSET Task : Sweeps(w, E, B)
  /\ loop' = [loop EXCEPT ![w] = "unwinding"]
  /\ window' = [window EXCEPT ![w] = {[e EXCEPT !.at = "unwinding"] : e \in Busy(w)}]
  /\ UNCHANGED <<quota, stop, finished>>

\* finish_remaining_runs and cancel_and_drain_runs wait for the whole window;
\* then the connection is closed.
SettledBroken(w) == Busy(w) = {} \/ Broken(w) # {}   \* mutant: a bare gather
Settled(w) == Busy(w) = {}
Close(w) ==
  /\ loop[w] \in {"finishing", "unwinding"} /\ Settled(w)
  /\ loop' = [loop EXCEPT ![w] = IF @ = "unwinding" \/ Broken(w) # {} THEN "dead" ELSE "closed"]
  /\ UNCHANGED <<quota, stop, window, finished, left>> /\ UNCHANGED queue

Crash(w) ==
  /\ loop[w] \notin Gone
  /\ Happens("crash")
  /\ loop' = [loop EXCEPT ![w] = "dead"]
  /\ window' = [window EXCEPT ![w] = {}]
  /\ UNCHANGED <<quota, stop, finished>> /\ UNCHANGED queue

\* The supervisor starts another process.
Restart(w) ==
  /\ loop[w] \in Gone
  /\ loop' = [loop EXCEPT ![w] = "head"]
  /\ stop' = [stop EXCEPT ![w] = FALSE]
  /\ quota' = [quota EXCEPT ![w] = 0] /\ window' = [window EXCEPT ![w] = {}]
  /\ UNCHANGED <<finished, left>> /\ UNCHANGED queue

-----------------------------------------------------------------------------
(* One execution: build_handler's handler inside the SDK's _execute_task.   *)

Connected(w) == loop[w] \notin Gone

BodyStarts(w, e) ==
  /\ e.at = "created" /\ (Sequential(w) => Alone(w))
  /\ window' = Moved(w, e, "body")
  /\ UNCHANGED <<loop, quota, stop, finished, left>> /\ UNCHANGED queue

\* context.heartbeat: the lease is renewed while the run is the current one.
Heartbeat(w, e) ==
  /\ e.at = "body" /\ Current(e) /\ Connected(w) /\ lease[e.task] = "expired"
  /\ lease' = [lease EXCEPT ![e.task] = "live"]
  /\ UNCHANGED <<state, attempt, holder, finished, left>> /\ UNCHANGED proc

BodyReturns(w, e) ==
  /\ e.at = "body"
  /\ window' = Moved(w, e, "returned")
  /\ UNCHANGED <<loop, quota, stop, finished, left>> /\ UNCHANGED queue

\* is_terminal_attempt, with the max_attempts the run was claimed with.
TerminalEarly(n) == n + 1 >= Limit(n)   \* mutant: off by one
Terminal(n) == n >= Limit(n)
BodyRaises(w, e) ==
  /\ e.at = "body"
  /\ finished' = IF Terminal(e.n) THEN finished \cup {<<e.task, e.n>>} ELSE finished
  /\ window' = Moved(w, e, "raised")
  /\ UNCHANGED <<loop, quota, stop, left>> /\ UNCHANGED queue

Suspends(w, e) ==
  /\ e.at = "body" /\ Current(e) /\ Connected(w)
  /\ Happens("suspend")
  /\ Leaves(e.task, "sleeping")
  /\ window' = Moved(w, e, "suspending")
  /\ UNCHANGED <<attempt, loop, quota, stop, finished>>

\* complete_run or fail_run, if the run is still the current one; a refusal only
\* ends the execution.
Reports(w, e) ==
  /\ e.at \in {"returned", "raised"} /\ Connected(w)
  /\ IF ~Current(e) THEN UNCHANGED queue
     ELSE IF e.at = "returned" THEN Leaves(e.task, "completed") /\ UNCHANGED attempt
     ELSE Leaves(e.task, FailedState(e.task)) /\ attempt' = FailAttempts({e.task})
  /\ window' = Moved(w, e, "ended")
  /\ UNCHANGED <<loop, quota, stop, finished, left>>

Unwinds(w, e) ==
  /\ e.at \in {"suspending", "unwinding"}
  /\ window' = Moved(w, e, "ended")
  /\ UNCHANGED <<loop, quota, stop, finished, left>> /\ UNCHANGED queue

\* The worker's own machinery fails, as when the connection is gone.
Breaks(w, e) ==
  /\ e.at \in {"returned", "raised"}
  /\ Happens("break")
  /\ window' = Moved(w, e, "broken")
  /\ UNCHANGED <<loop, quota, stop, finished>> /\ UNCHANGED queue

-----------------------------------------------------------------------------
Init ==
  /\ state = [t \in Task |-> "pending"] /\ attempt = [t \in Task |-> 1]
  /\ lease = [t \in Task |-> "none"] /\ holder = [t \in Task |-> Null]
  /\ loop = [w \in Worker |-> "head"] /\ quota = [w \in Worker |-> 0]
  /\ stop = [w \in Worker |-> FALSE] /\ window = [w \in Worker |-> {}]
  /\ finished = {} /\ left \in Scenarios

LoopStep(w) == LoopHead(w) \/ IdleEnds(w) \/ BatchEnds(w) \/ Close(w) \/ Restart(w)
BodyStep(w, e) == BodyReturns(w, e) \/ BodyRaises(w, e) \/ Suspends(w, e)
ExecutionStep(w, e) == BodyStarts(w, e) \/ BodyStep(w, e) \/ Reports(w, e) \/ Unwinds(w, e)

Next ==
  \/ \E t \in Task : LeaseExpires(t) \/ Wake(t) \/ CancelTask(t) \/ RetryTask(t)
  \/ \E w \in Worker :
       \/ LoopStep(w) \/ ClaimTasks(w)
       \/ Stop(w) \/ Cancel(w) \/ CancelAnswer(w) \/ Crash(w)
       \/ \E e \in window[w] : ExecutionStep(w, e) \/ Heartbeat(w, e) \/ Breaks(w, e)

Spec == Init /\ [][Next]_vars

\* The loop and what it executes make progress, time passes, and a dead worker is
\* restarted.  A claim may find rows locked by another, but not every time.
Fairness ==
  /\ \A t \in Task : WF_vars(LeaseExpires(t)) /\ WF_vars(Wake(t))
  /\ \A w \in Worker :
       /\ WF_vars(LoopStep(w)) /\ WF_vars(ClaimTasks(w)) /\ SF_vars(ClaimUnhindered(w))
       /\ WF_vars(\E e \in window[w] : ExecutionStep(w, e))

FairSpec == Spec /\ Fairness

-----------------------------------------------------------------------------
\* --concurrency is the "max tasks in flight": the window never outgrows it,
\* though runs end, and claims are under way, while it is counted.
WindowBounded == \A w \in Worker :
  Cardinality({e \in Busy(w) : Sequential(w) => e.at # "created"}) <= Concurrency[w]

\* The connection every run of a worker writes through is closed after the loop,
\* "so none of them may outlive the loop" (refill_in_flight_runs_until_stopped).
RunsEndBeforeLoop == \A w \in Worker : loop[w] \in Gone => Busy(w) = {}

\* A run is one delivery: no two workers, nor one worker twice, execute it at the
\* same time, whatever leases expire, workers crash and tasks go to sleep.
RunDeliveredOnce ==
  \A v, w \in Worker : \A d \in window[v], e \in window[w] :
    d.at \in Executing /\ e.at \in Executing /\ d.task = e.task /\ d.n = e.n => v = w /\ d = e

\* "A stop means stop CLAIMING: the window it already owns runs to completion":
\* a loop that returned leaves no run claimed and waiting for its lease.
StopStrandsNothing ==
  \A w \in Worker, t \in Task : loop[w] = "closed" /\ state[t] = "running" => holder[t] # w

\* task_finished says FAILED only when no further attempt comes (is_terminal_attempt
\* mirrors fail_run's arithmetic).
AnnouncedFailureIsFinal ==
  \A f \in finished : attempt[f[1]] = f[2] /\ state[f[1]] # "completed"

\* What the workers see of the queue keeps the promise made to clients.
Lifecycle == INSTANCE TaskLifecycle
  WITH attempts <- attempt, limit <- [t \in Task |-> Limit(attempt[t])]
QueueKeepsLifecycle == [][Lifecycle!Next]_queue

\* A claimed task returns to the queue when its worker dies, so every task ends.
EveryTaskEnds == \A t \in Task : state[t] = "pending" ~> state[t] \in Ended

\* A stop request is honoured once the runs in flight are done.
StopEnds == \A w \in Worker : stop[w] ~> loop[w] \in Gone
=============================================================================
