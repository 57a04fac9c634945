---------------------------- MODULE DurableSteps ----------------------------
(***************************************************************************)
(* The bodies of tasks and their durable steps.  A process (a worker or a  *)
(* drain) is an asyncio loop and a pool of threads.  A sync body runs in a *)
(* thread: each durable operation is a coroutine it hands to the loop and  *)
(* waits for, at most BRIDGE_TIMEOUT; its step functions run in the thread.*)
(* An async body runs on the loop.  Cancelling a run ends an async body,   *)
(* but a thread goes on, and at the end of the process the loop's own      *)
(* thread waits for the pool.                                              *)
(*                                                                         *)
(* A body is its steps, one after the other; the value of a step is the    *)
(* number of the attempt that computed it.                                 *)
(*                                                                         *)
(* Bounds: a scenario says how often each rare event happens at most.  A   *)
(* "stall" lets other transactions in between the look at the run's state  *)
(* and the rest of a set_task_checkpoint_state.                            *)
(***************************************************************************)
EXTENDS Integers, Sequences, FiniteSets

CONSTANTS
  Process, Drains,    \* the processes; those that drain the queue and end
  Concurrency,
  Task, Async,        \* the tasks; those with an async def
  Steps, MaxAttempts,
  Scenarios

Events == {"stop", "cancel", "crash", "break", "raise", "slow", "stall", "expire"}

ASSUME DurableAssumption ==
  /\ Drains \subseteq Process /\ Async \subseteq Task
  /\ Concurrency \in [Process -> Nat \ {0}]
  /\ Steps \in Nat \ {0} /\ MaxAttempts \in Nat \ {0}
  /\ Scenarios \subseteq [Events -> Nat] /\ "nobody" \notin Process

Attempt == 1..MaxAttempts
Run == Task \X Attempt
Step == 1..Steps
NoOne == "nobody"
Nothing == 0    \* no checkpoint

VARIABLES
  state, attempt, expired,   \* of each task: its last run and whether its lease is over
  record, answer,            \* c_: the value of each step; the value it completed with
  existing,                  \* of a run: v_existing_attempt, in a call without its lock
  replaced,                  \* history: <<task, step>> whose value a late call wrote over
  process, coroutine,        \* of each run: its process and its _execute_task
  at, held, outcome,         \* its body: where it is, the values it has, how it ended
  op,                        \* the durable operation it last handed to the loop
  known,                     \* the steps recorded when it was claimed
  loop,                      \* of each process
  drained,                   \* the DrainedRuns: a run and the state read for it
  left

queue == <<state, attempt, expired, record, answer, existing, replaced>>
body == <<at, held, outcome, op>>
vars == <<queue, process, coroutine, body, known, loop, drained, left>>

Working == {"body", "lookup", "fn", "record"}
Sent == {"checked", "stale", "cleared"}   \* a call the server is executing
Answers == {"found", "missing", "written", "refused"}

TypeOK ==
  /\ state \in [Task -> {"pending", "running", "completed", "failed"}]
  /\ attempt \in [Task -> Attempt] /\ expired \in [Task -> BOOLEAN]
  /\ record \in [Task -> [Step -> Attempt \cup {Nothing}]]
  /\ \A t \in Task : answer[t] \in Seq(Attempt)
  /\ existing \in [Run -> Attempt \cup {Nothing}] /\ replaced \subseteq Task \X Step
  /\ process \in [Run -> Process \cup {NoOne}]
  /\ coroutine \in [Run -> {"none", "waiting", "reading", "ended"}]
  /\ at \in [Run -> {"none", "queued", "over"} \cup Working]
  /\ \A r \in Run : held[r] \in Seq(Attempt) /\ Len(held[r]) <= Steps
  /\ outcome \in [Run -> {"none", "returned", "raised"}]
  /\ op \in [Run -> {"none", "lookup", "record"} \cup Sent \cup Answers]
  /\ known \in [Run -> SUBSET Step]
  /\ loop \in [Process -> {"open", "finishing", "closing", "blocked", "gone"}]
  /\ drained \subseteq Run \X {"running", "completed", "failed", "pending"}
  /\ left \in [Events -> Nat]

Happens(what) == left[what] > 0 /\ left' = [left EXCEPT ![what] = @ - 1]

Of(p) == {r \in Run : process[r] = p}
Busy(p) == {r \in Of(p) : coroutine[r] \in {"waiting", "reading"}}
Threads(p) == {r \in Of(p) : r[1] \notin Async /\ at[r] \in Working}
Connected(p) == loop[p] \in {"open", "finishing"}

\* The run's row: an earlier attempt's has failed.
RunState(r) == IF r[2] < attempt[r[1]] THEN "failed" ELSE state[r[1]]
Current(r) == RunState(r) = "running"

-----------------------------------------------------------------------------
(* claim_task.                                                              *)

Expired == {t \in Task : state[t] = "running" /\ expired[t]}
FailedState(t) == IF attempt[t] < MaxAttempts THEN "pending" ELSE "failed"
FailStates(S) == [t \in Task |-> IF t \in S THEN FailedState(t) ELSE state[t]]
FailAttempts(S) ==
  [t \in Task |-> IF t \in S /\ attempt[t] < MaxAttempts THEN attempt[t] + 1 ELSE attempt[t]]

\* A drain waits for its whole batch, a worker fills up its window.
Room(p) == IF p \in Drains /\ Busy(p) # {} THEN 0 ELSE Concurrency[p] - Cardinality(Busy(p))

Recorded(t) == {s \in Step : record[t][s] # Nothing}

\* The SDK creates the run's context and calls the handler, which hands a sync
\* body to the pool.  A drain that claims nothing is over.
Claim(p) ==
  LET states == FailStates(Expired)
      pending == {t \in Task : states[t] = "pending"}
  IN
  /\ loop[p] = "open" /\ Room(p) > 0
  /\ \E B \in SUBSET pending :
       LET new == {<<t, FailAttempts(Expired)[t]>> : t \in B} IN
       /\ Cardinality(B) <= Room(p) /\ (B = {} => pending = {})
       /\ IF B = {} THEN p \in Drains /\ loop' = [loop EXCEPT ![p] = "closing"]
                    ELSE UNCHANGED loop
       /\ attempt' = FailAttempts(Expired)
       /\ state' = [t \in Task |-> IF t \in B THEN "running" ELSE states[t]]
       /\ expired' = [t \in Task |-> expired[t] /\ t \notin Expired]
       /\ process' = [r \in Run |-> IF r \in new THEN p ELSE process[r]]
       /\ coroutine' = [r \in Run |-> IF r \in new THEN "waiting" ELSE coroutine[r]]
       /\ at' = [r \in Run |-> IF r \in new THEN "queued" ELSE at[r]]
       /\ known' = [r \in Run |-> IF r \in new THEN Recorded(r[1]) ELSE known[r]]
  /\ UNCHANGED <<record, answer, existing, replaced, held, outcome, op, drained, left>>

Expire(t) ==
  /\ state[t] = "running" /\ ~expired[t]
  /\ Happens("expire")
  /\ expired' = [expired EXCEPT ![t] = TRUE]
  /\ UNCHANGED <<state, attempt, record, answer, existing, replaced, process, coroutine, body,
                 known, loop, drained>>

-----------------------------------------------------------------------------
(* The body.                                                                *)

Runs(r) == IF r[1] \in Async THEN loop[process[r]] \in {"open", "finishing", "closing"}
                             ELSE loop[process[r]] # "gone"
Free(p) == Cardinality(Threads(p)) < Concurrency[p]
Next1(r) == Len(held[r]) + 1      \* the step the body is at

Begin(r) ==
  /\ at[r] = "queued" /\ Runs(r) /\ (r[1] \in Async \/ Free(process[r]))
  /\ at' = [at EXCEPT ![r] = "body"]
  /\ UNCHANGED <<queue, process, coroutine, held, outcome, op, known, loop, drained, left>>

\* step(name, fn): begin_step first.
BeginStep(r) ==
  /\ at[r] = "body" /\ Runs(r) /\ Next1(r) <= Steps
  /\ at' = [at EXCEPT ![r] = "lookup"] /\ op' = [op EXCEPT ![r] = "lookup"]
  /\ UNCHANGED <<queue, process, coroutine, held, outcome, known, loop, drained, left>>

\* The loop answered: a step that is done is skipped, any other is computed, a
\* recorded one is over.
Answered(r) ==
  /\ at[r] \in {"lookup", "record"} /\ op[r] \in Answers /\ Runs(r)
  /\ at' = [at EXCEPT ![r] = CASE op[r] = "missing" -> "fn"
                               [] op[r] = "refused" -> "over"
                               [] OTHER -> "body"]
  /\ outcome' = [outcome EXCEPT ![r] = IF op[r] = "refused" THEN "raised" ELSE @]
  /\ held' = [held EXCEPT ![r] = IF op[r] = "written" THEN Append(@, r[2]) ELSE @]
  /\ op' = [op EXCEPT ![r] = "none"]
  /\ UNCHANGED <<queue, process, coroutine, known, loop, drained, left>>

\* fn returns, and complete_step is next, or it raises.
Compute(r) ==
  /\ at[r] = "fn" /\ Runs(r)
  /\ \/ /\ at' = [at EXCEPT ![r] = "record"] /\ op' = [op EXCEPT ![r] = "record"]
        /\ UNCHANGED <<outcome, left>>
     \/ /\ Happens("raise")
        /\ at' = [at EXCEPT ![r] = "over"] /\ outcome' = [outcome EXCEPT ![r] = "raised"]
        /\ UNCHANGED op
  /\ UNCHANGED <<queue, process, coroutine, held, known, loop, drained>>

Return(r) ==
  /\ at[r] = "body" /\ Runs(r) /\ Next1(r) > Steps
  /\ at' = [at EXCEPT ![r] = "over"] /\ outcome' = [outcome EXCEPT ![r] = "returned"]
  /\ UNCHANGED <<queue, process, coroutine, held, op, known, loop, drained, left>>

\* future.result(timeout=BRIDGE_TIMEOUT) gives up, seldom while the loop is turning;
\* the coroutine stays with the loop.
WaitGivesUpNever == FALSE   \* mutant: future.result() without a timeout
WaitGivesUp == TRUE
BridgeTimesOut(r) ==
  /\ WaitGivesUp
  /\ r[1] \notin Async /\ at[r] \in {"lookup", "record"} /\ op[r] \notin Answers
  /\ \/ loop[process[r]] = "blocked" /\ UNCHANGED left
     \/ loop[process[r]] \notin {"blocked", "gone"} /\ Happens("slow")
  /\ at' = [at EXCEPT ![r] = "over"] /\ outcome' = [outcome EXCEPT ![r] = "raised"]
  /\ UNCHANGED <<queue, process, coroutine, held, op, known, loop, drained>>

-----------------------------------------------------------------------------
(* The operation on the loop.  Once the client is closed it raises.         *)

VisibleOwn(r, s) == record[r[1]][s] = r[2]   \* mutant: the attempt's own steps only
Visible(r, s) == record[r[1]][s] # Nothing   \* get_task_checkpoint_state, any attempt's

LookUp(r) ==
  /\ op[r] = "lookup" /\ loop[process[r]] \in {"open", "finishing", "closing"}
  /\ LET s == Next1(r) IN
     IF ~Connected(process[r]) THEN op' = [op EXCEPT ![r] = "refused"] /\ UNCHANGED held
     ELSE IF Visible(r, s)
       THEN op' = [op EXCEPT ![r] = "found"]
            /\ held' = [held EXCEPT ![r] = Append(@, record[r[1]][s])]
       ELSE op' = [op EXCEPT ![r] = "missing"] /\ UNCHANGED held
  /\ UNCHANGED <<queue, process, coroutine, at, outcome, known, loop, drained, left>>

Write(r) ==
  /\ record' = [record EXCEPT ![r[1]][Next1(r)] = r[2]]
  /\ op' = [op EXCEPT ![r] = "written"]

Refused(r) == RunState(r) = "failed"
MayWriteAny(r) == TRUE   \* mutant: the owner's attempt is not looked at
MayWrite(r) == record[r[1]][Next1(r)] <= r[2]

\* set_task_checkpoint_state, for a run that has not failed.  It extends the
\* claim, which locks the run's row against a sweep.
Record(r) ==
  /\ op[r] = "record" /\ loop[process[r]] \in {"open", "finishing", "closing"}
  /\ IF ~Connected(process[r]) \/ Refused(r)
       THEN op' = [op EXCEPT ![r] = "refused"] /\ UNCHANGED <<record, expired>>
       ELSE Write(r) /\ expired' = [expired EXCEPT ![r[1]] = @ /\ ~Current(r)]
  /\ UNCHANGED <<state, attempt, answer, existing, replaced, process, coroutine, at, held,
                 outcome, known, loop, drained, left>>

\* It stalls after it has looked at the run's state, before it extends the claim.
RecordStalls(r) ==
  /\ op[r] = "record" /\ Connected(process[r]) /\ ~Refused(r)
  /\ Happens("stall")
  /\ op' = [op EXCEPT ![r] = "checked"]
  /\ UNCHANGED <<queue, process, coroutine, at, held, outcome, known, loop, drained>>

\* If the run has been swept meanwhile, the extension finds nothing and the
\* function goes on without a lock.
RecordResumes(r) ==
  /\ op[r] = "checked"
  /\ IF Current(r) THEN Write(r) /\ expired' = [expired EXCEPT ![r[1]] = FALSE]
                   ELSE op' = [op EXCEPT ![r] = "stale"] /\ UNCHANGED <<record, expired>>
  /\ UNCHANGED <<state, attempt, answer, existing, replaced, process, coroutine, at, held,
                 outcome, known, loop, drained, left>>

\* It reads the attempt that owns the step's record: a newer one's is left alone.
StaleLooks(r) ==
  /\ op[r] = "stale"
  /\ IF MayWrite(r)
       THEN /\ op' = [op EXCEPT ![r] = "cleared"]
            /\ existing' = [existing EXCEPT ![r] = record[r[1]][Next1(r)]]
       ELSE op' = [op EXCEPT ![r] = "written"] /\ UNCHANGED existing
  /\ UNCHANGED <<state, attempt, expired, record, answer, replaced, process, coroutine, at, held,
                 outcome, known, loop, drained, left>>

\* The upsert writes over whatever is there by now: a record that came after the look,
\* or an earlier attempt's.
Replaces(r) ==
  LET old == record[r[1]][Next1(r)] IN old # Nothing /\ (old # existing[r] \/ old < r[2])
StaleWrites(r) ==
  /\ op[r] = "cleared"
  /\ Write(r)
  /\ replaced' = IF Replaces(r) THEN replaced \cup {<<r[1], Next1(r)>>} ELSE replaced
  /\ existing' = [existing EXCEPT ![r] = Nothing]
  /\ UNCHANGED <<state, attempt, expired, answer, process, coroutine, at, held, outcome, known,
                 loop, drained, left>>

-----------------------------------------------------------------------------
(* The end of a run: complete_run or fail_run, if it is still running.      *)

Accepts(r) == Current(r)

Report(r) ==
  LET t == r[1]  p == process[r] IN
  /\ coroutine[r] = "waiting" /\ at[r] = "over" /\ Connected(p)
  /\ IF ~Accepts(r) THEN UNCHANGED <<state, attempt, expired, answer>>
     ELSE /\ IF outcome[r] = "returned"
               THEN /\ state' = [state EXCEPT ![t] = "completed"]
                    /\ answer' = [answer EXCEPT ![t] = held[r]] /\ UNCHANGED attempt
               ELSE /\ state' = FailStates({t}) /\ attempt' = FailAttempts({t})
                    /\ UNCHANGED answer
          /\ expired' = [expired EXCEPT ![t] = FALSE]
  /\ coroutine' = [coroutine EXCEPT ![r] = IF p \in Drains THEN "reading" ELSE "ended"]
  /\ UNCHANGED <<record, existing, replaced, process, body, known, loop, drained, left>>

\* fetch_run_outcome reads the run's own row.
OutcomeOfTask(r) == state[r[1]]   \* mutant: read by task_id
Outcome(r) == RunState(r)
FetchOutcome(r) ==
  /\ coroutine[r] = "reading" /\ loop[process[r]] = "open"
  /\ drained' = drained \cup {<<r, Outcome(r)>>}
  /\ coroutine' = [coroutine EXCEPT ![r] = "ended"]
  /\ UNCHANGED <<queue, process, body, known, loop, left>>

\* The machinery of one run fails.  A drain's gather raises at once, a worker
\* waits for the others.
Break(r) ==
  LET p == process[r] IN
  /\ loop[p] = "open"
  /\ coroutine[r] = "reading" \/ (coroutine[r] = "waiting" /\ at[r] = "over")
  /\ Happens("break")
  /\ coroutine' = [coroutine EXCEPT ![r] = "ended"]
  /\ loop' = [loop EXCEPT ![p] = IF p \in Drains THEN "closing" ELSE "finishing"]
  /\ UNCHANGED <<queue, process, body, known, drained>>

-----------------------------------------------------------------------------
(* The end of a process.                                                    *)

Stop(p) ==
  /\ loop[p] = "open" /\ p \notin Drains
  /\ Happens("stop")
  /\ loop' = [loop EXCEPT ![p] = "finishing"]
  /\ UNCHANGED <<queue, process, coroutine, body, known, drained>>

Finish(p) ==
  /\ loop[p] = "finishing" /\ Busy(p) = {}
  /\ loop' = [loop EXCEPT ![p] = "closing"]
  /\ UNCHANGED <<queue, process, coroutine, body, known, drained, left>>

\* CancelledError: the runs unwind.  A body that waits for a thread is dropped,
\* an async one ends, one that has a thread keeps it.
EndsWithItsRun(r) == at[r] = "queued" \/ (r[1] \in Async /\ at[r] # "over")
Dropped(S) == [r \in Run |-> IF r \in S /\ EndsWithItsRun(r) THEN "over" ELSE at[r]]
Ended(S) == [r \in Run |-> IF r \in S THEN "ended" ELSE coroutine[r]]
Cancel(p) ==
  /\ loop[p] = "open"
  /\ Happens("cancel")
  /\ loop' = [loop EXCEPT ![p] = "closing"]
  /\ at' = Dropped(Busy(p)) /\ coroutine' = Ended(Busy(p))
  /\ UNCHANGED <<queue, process, held, outcome, op, known, drained>>

\* The connection is closed; ThreadPoolExecutor.__exit__ holds the loop's thread.
Close(p) ==
  /\ loop[p] = "closing"
  /\ loop' = [loop EXCEPT ![p] = "blocked"]
  /\ UNCHANGED <<queue, process, coroutine, body, known, drained, left>>

\* shutdown(wait=True): the threads, and the bodies that wait for one.  asyncio.run
\* then cancels what is left on the loop.
PoolIsOver(p) ==
  /\ Threads(p) = {}
  /\ \A r \in Of(p) : at[r] = "queued" => r[1] \in Async
LeavePool(p) ==
  /\ loop[p] = "blocked" /\ PoolIsOver(p)
  /\ loop' = [loop EXCEPT ![p] = "gone"]
  /\ at' = Dropped(Of(p)) /\ coroutine' = Ended(Of(p))
  /\ UNCHANGED <<queue, process, held, outcome, op, known, drained, left>>

\* The process dies; the server finishes what it is executing.
Crash(p) ==
  /\ loop[p] # "gone"
  /\ Happens("crash")
  /\ loop' = [loop EXCEPT ![p] = "gone"]
  /\ at' = [r \in Run |-> IF r \in Of(p) THEN "over" ELSE at[r]] /\ coroutine' = Ended(Of(p))
  /\ UNCHANGED <<queue, process, held, outcome, op, known, drained>>

\* A worker's supervisor starts it again.
Restart(p) ==
  /\ loop[p] = "gone" /\ p \notin Drains
  /\ loop' = [loop EXCEPT ![p] = "open"]
  /\ UNCHANGED <<queue, process, coroutine, body, known, drained, left>>

-----------------------------------------------------------------------------
Init ==
  /\ state = [t \in Task |-> "pending"] /\ attempt = [t \in Task |-> 1]
  /\ expired = [t \in Task |-> FALSE]
  /\ record = [t \in Task |-> [s \in Step |-> Nothing]] /\ answer = [t \in Task |-> << >>]
  /\ existing = [r \in Run |-> Nothing] /\ replaced = {}
  /\ process = [r \in Run |-> NoOne] /\ coroutine = [r \in Run |-> "none"]
  /\ at = [r \in Run |-> "none"] /\ held = [r \in Run |-> << >>]
  /\ outcome = [r \in Run |-> "none"] /\ op = [r \in Run |-> "none"]
  /\ known = [r \in Run |-> {}]
  /\ loop = [p \in Process |-> "open"]
  /\ drained = {} /\ left \in Scenarios

BodyStep(r) == Begin(r) \/ BeginStep(r) \/ Answered(r) \/ Compute(r) \/ Return(r)
LoopStep(r) == LookUp(r) \/ Record(r) \/ Report(r) \/ FetchOutcome(r)
ServerStep(r) == RecordResumes(r) \/ StaleLooks(r) \/ StaleWrites(r)
RunNext(r) == BodyStep(r) \/ LoopStep(r) \/ ServerStep(r)
                \/ BridgeTimesOut(r) \/ RecordStalls(r) \/ Break(r)
Shutdown(p) == Finish(p) \/ Close(p) \/ LeavePool(p)
ProcessNext(p) == Claim(p) \/ Stop(p) \/ Cancel(p) \/ Crash(p) \/ Shutdown(p) \/ Restart(p)

Next ==
  \/ \E t \in Task : Expire(t)
  \/ \E r \in Run : process[r] # NoOne /\ RunNext(r)
  \/ \E p \in Process : ProcessNext(p)

Spec == Init /\ [][Next]_vars

\* A step function returns or raises, the loop runs what it is handed while it is
\* not held up, the server answers, and a wait gives up.
Fairness ==
  /\ \A r \in Run : /\ WF_vars(process[r] # NoOne /\ (BodyStep(r) \/ LoopStep(r) \/ ServerStep(r)))
                    /\ WF_vars(process[r] # NoOne /\ BridgeTimesOut(r))
  /\ \A p \in Process : WF_vars(Shutdown(p)) /\ WF_vars(p \in Drains /\ Claim(p))

FairSpec == Spec /\ Fairness

-----------------------------------------------------------------------------
\* What a task completed with are the values its steps are recorded with, though
\* attempts overlap, waits give up and set_task_checkpoint_state stalls; but for a step
\* whose record a call that lost its claim wrote over, because it came after the call's
\* look at the owner or was an earlier attempt's (migrations/0001_initial_0_5_0.sql:1532).
CompletedAsRecorded ==
  \A t \in Task : state[t] = "completed" =>
    /\ Len(answer[t]) = Steps
    /\ \A s \in Step : answer[t][s] = record[t][s] \/ <<t, s>> \in replaced

\* "a retry or resume never redoes completed work" (docs/web/workflows.md): an
\* attempt runs no function of a step that was recorded when it was claimed.
RecordedWorkIsNotRedone ==
  \A r \in Run : at[r] \in {"fn", "record"} => Next1(r) \notin known[r]

\* fetch_run_outcome "keys a read by run_id": what a drain reports of a run is how
\* that run ended, whatever has become of its task in the meantime.
DrainReportsTheRun ==
  \A d \in drained : d[2] \in {"completed", "failed"} /\ d[2] = RunState(d[1])

\* A drain ends, and so does the runtime of a worker that was stopped or
\* cancelled, though threads wait for the loop and the loop's thread for them.
RuntimeEnds ==
  \A p \in Process :
    (p \in Drains \/ loop[p] \in {"finishing", "closing", "blocked"}) ~> loop[p] = "gone"
=============================================================================
