-------------------------- MODULE DeferredEnqueue --------------------------
(***************************************************************************)
(* enqueue with run_after: what stands in the queue until it is due is a   *)
(* wrapper, which sleeps, enqueues the caller's task in a checkpointed     *)
(* step and completes with that task's id; get_result follows the id.      *)
(*                                                                         *)
(* The queue is what a wrapper meets of it: rows, the key index, attempts  *)
(* and leases (AbsurdQueue has the whole).  A task other than a wrapper is *)
(* claimed and ends.  Rows that cleanup deleted stay here as "gone".       *)
(*                                                                         *)
(* Bounds: a scenario says how often each call is made, and one of them is *)
(* watched with get_result; MaxTasks rows, MaxNow, and MaxFaults leases    *)
(* lost, workers killed, handlers failed, cancellations and cleanups.      *)
(***************************************************************************)
EXTENDS Integers, FiniteSets

CONSTANTS
  Calls,            \* the enqueue calls clients make
  RunAfter,         \* when each is due; 0: no run_after
  PerCall,          \* the options bound to each: [max_attempts, max_duration, idempotency_key]
  Defaults,         \* the decorator's options of the task
  DefaultAttempts,  \* DEFAULT_MAX_ATTEMPTS
  Scenarios,        \* how often each call is made
  MaxTasks, MaxNow, MaxFaults,
  Unset, None

Fields == {"max_attempts", "max_duration", "idempotency_key"}
Id == 1..MaxTasks

ASSUME DeferredAssumption ==
  /\ RunAfter \in [Calls -> 0..MaxNow]
  /\ \A c \in Calls : DOMAIN PerCall[c] = Fields
  /\ DOMAIN Defaults = Fields /\ Defaults["idempotency_key"] = Unset
  /\ DefaultAttempts \in Nat \ {0} /\ MaxTasks \in Nat /\ MaxNow \in Nat /\ MaxFaults \in Nat
  /\ Scenarios \subseteq [Calls -> Nat]
  /\ None \notin Id

VARIABLES
  rows,    \* t_<queue>, by task id
  runs,    \* the executions of wrappers, those of lost leases included
  unmade,  \* how often each call is still to be made
  watched, \* a call whose result is asked for
  answer,  \* the id it was given
  reading, \* the id a get_result under way reads next
  seen,    \* what get_result last said
  now, faults

vars == <<rows, runs, unmade, watched, answer, reading, seen, now, faults>>
clients == <<unmade, watched, answer, reading, seen>>

Live == {"pending", "running", "sleeping"}
Ended == {"completed", "failed", "cancelled", "expired"}
Statuses == {"READY", "RUNNING", "SUCCESSFUL", "FAILED", "DoesNotExist"}

Exists(i) == rows[i] # None /\ rows[i].state # "gone"
Wraps(row) == row.name = "wrapper"

-----------------------------------------------------------------------------
(* Options: two layers, the later winning per field (tasks.py, params.py).  *)

Merge(defaults, percall) ==
  [f \in Fields |-> IF percall[f] # Unset THEN percall[f] ELSE defaults[f]]

WithDefaultAttempts(options) ==
  [options EXCEPT !["max_attempts"] = IF @ = Unset THEN DefaultAttempts ELSE @]

Merged(call) == WithDefaultAttempts(Merge(Defaults, PerCall[call]))

NoOptions == [f \in Fields |-> Unset]

\* The wrapper takes its own max_attempts and a key derived from the caller's.
VerbatimKey(key) == key   \* mutant: the wrapper takes the caller's key
DerivedKey(key) == IF key = Unset THEN Unset ELSE <<key, "run_after">>
\* mutant: the caller's options but the key
CallersRules(call) ==
  [Merged(call) EXCEPT !["idempotency_key"] = DerivedKey(Merged(call)["idempotency_key"])]
WrapperOptions(call) ==
  [NoOptions EXCEPT !["max_attempts"] = DefaultAttempts,
                    !["idempotency_key"] = DerivedKey(Merged(call)["idempotency_key"])]

\* The wrapper's params carry the caller's merged options, replayed by bind.
ReplayedUnkeyed(call) == [Merged(call) EXCEPT !["idempotency_key"] = Unset]   \* mutant: the key is not replayed
Replayed(call) == WithDefaultAttempts(Merge(Defaults, Merged(call)))

TaskRow ==
  [call : Calls, name : {"wrapper", "task"},
   options : UNION {{Merged(c), Replayed(c), WrapperOptions(c)} : c \in Calls},
   by : Id \cup {None}, state : Live \cup Ended \cup {"gone"}, attempt : Nat,
   started : Nat \cup {None}, step : Id \cup {None}, payload : Id \cup {None}]

ASSUME NoneAssumption == None \notin TaskRow /\ None \notin Statuses

TypeOK ==
  /\ rows \in [Id -> TaskRow \cup {None}]
  /\ runs \subseteq [id : Id, n : Nat, at : {"waiting", "due", "launched", "stepped"},
                     target : Id \cup {None}]
  /\ \A r \in runs : /\ rows[r.id] # None /\ Wraps(rows[r.id])
                     /\ r.at \in {"launched", "stepped"} => r.target # None
  /\ unmade \in [Calls -> Nat] /\ watched \in Calls
  /\ {answer, reading} \subseteq Id \cup {None} /\ seen \in Statuses \cup {None}
  /\ now \in 0..MaxNow /\ faults \in 0..MaxFaults

-----------------------------------------------------------------------------
(* The queue.                                                               *)

Row(call, name, options, by) ==
  [call |-> call, name |-> name, options |-> options, by |-> by, state |-> "pending",
   attempt |-> 1, started |-> None, step |-> None, payload |-> None]

Owners(key) == {i \in Id : Exists(i) /\ key # Unset /\ rows[i].options["idempotency_key"] = key}

\* spawn_task: the owner of the key, or a new row.
Spawns(row, i) ==
  LET owners == Owners(row.options["idempotency_key"])
      free == {j \in Id : rows[j] = None} IN
  IF owners # {} THEN i \in owners /\ UNCHANGED rows
  ELSE /\ i \in free /\ \A j \in free : i <= j
       /\ rows' = [rows EXCEPT ![i] = row]

\* AbsurdBackend.enqueue, committed; the answer may be lost and the call repeated.
Enqueue(c) ==
  /\ unmade[c] > 0 /\ unmade' = [unmade EXCEPT ![c] = @ - 1]
  /\ \E i \in Id :
       /\ IF RunAfter[c] # 0 THEN Spawns(Row(c, "wrapper", WrapperOptions(c), None), i)
                             ELSE Spawns(Row(c, "task", Merged(c), None), i)
       /\ IF c = watched /\ i # answer
            THEN answer' = i /\ reading' = None /\ seen' = None
            ELSE UNCHANGED <<answer, reading, seen>>
  /\ UNCHANGED <<runs, watched, now, faults>>

Fault == faults < MaxFaults /\ faults' = faults + 1
Now == UNCHANGED <<clients, now>>

AttemptsLeft(row) == row.attempt < row.options["max_attempts"]
AfterFailure(row) ==
  IF AttemptsLeft(row) THEN [row EXCEPT !.state = "sleeping", !.attempt = @ + 1]
                       ELSE [row EXCEPT !.state = "failed"]

Due(row) == RunAfter[row.call]
FirstStart(row) == IF row.started = None THEN now ELSE row.started

\* A wrapper asleep until its due time wakes then; one in retry backoff any time.
Claimable(row) ==
  /\ row.state \in {"pending", "sleeping"}
  /\ row.state = "sleeping" /\ row.attempt = 1 => now >= Due(row)

Claim(i) ==
  /\ Exists(i) /\ Wraps(rows[i]) /\ Claimable(rows[i])
  /\ rows' = [rows EXCEPT ![i].state = "running", ![i].started = FirstStart(rows[i])]
  /\ runs' = runs \cup {[id |-> i, n |-> rows[i].attempt, at |-> "waiting", target |-> None]}
  /\ UNCHANGED faults /\ Now

\* claim_task cancels what has outlived its max_duration.
PolicyCancels(i) ==
  /\ Exists(i) /\ rows[i].state \in Live /\ rows[i].started # None
  /\ rows[i].options["max_duration"] # Unset
  /\ now - rows[i].started >= rows[i].options["max_duration"]
  /\ rows' = [rows EXCEPT ![i].state = "expired"]
  /\ UNCHANGED <<runs, faults>> /\ Now

CancelTask(i) ==
  /\ Exists(i) /\ rows[i].state \in Live
  /\ rows' = [rows EXCEPT ![i].state = "cancelled"]
  /\ Fault /\ UNCHANGED runs /\ Now

\* The worker is late or dead: claim_task gives the task another attempt.
LeaseExpires(i) ==
  /\ Exists(i) /\ Wraps(rows[i]) /\ rows[i].state = "running"
  /\ rows' = [rows EXCEPT ![i] = AfterFailure(@)]
  /\ IF \E r \in runs : r.id = i /\ r.n = rows[i].attempt THEN Fault ELSE UNCHANGED faults
  /\ UNCHANGED runs /\ Now

CleanupTasks(i) ==
  /\ Exists(i) /\ rows[i].state \in Ended
  /\ rows' = [rows EXCEPT ![i].state = "gone"]
  /\ Fault /\ UNCHANGED runs /\ Now

Tick == now < MaxNow /\ now' = now + 1 /\ UNCHANGED <<rows, runs, clients, faults>>

\* Any other task: claimed, and it ends.
TargetStarts(i) ==
  /\ Exists(i) /\ ~Wraps(rows[i]) /\ rows[i].state = "pending"
  /\ rows' = [rows EXCEPT ![i].state = "running", ![i].started = now]
  /\ UNCHANGED <<runs, faults>> /\ Now

TargetEnds(i) ==
  /\ Exists(i) /\ ~Wraps(rows[i]) /\ rows[i].state = "running"
  /\ \E s \in {"completed", "failed"} : rows' = [rows EXCEPT ![i].state = s]
  /\ UNCHANGED <<runs, faults>> /\ Now

-----------------------------------------------------------------------------
(* The wrapper's handler (deferred.py).  What a run of a lost lease writes  *)
(* is refused, and it ends; what it enqueued is enqueued.                   *)

AcceptsAnyRun(r) == TRUE   \* mutant: the run's state is not looked at
Accepts(r) == rows[r.id].state = "running" /\ rows[r.id].attempt = r.n
Goes(r, at, target) == runs' = (runs \ {r}) \cup {[r EXCEPT !.at = at, !.target = target]}
Ends(r) == runs' = runs \ {r}

MustSleep(r) == now < Due(rows[r.id])

SleepUntil(r) ==
  /\ r.at = "waiting"
  /\ IF MustSleep(r) /\ Accepts(r)
       THEN rows' = [rows EXCEPT ![r.id].state = "sleeping"] /\ Ends(r)
       ELSE UNCHANGED rows /\ IF MustSleep(r) THEN Ends(r) ELSE Goes(r, "due", None)
  /\ UNCHANGED faults /\ Now

\* The step is replayed from its checkpoint if there is one.
StepDone(r) == rows[r.id].step # None

ReplayStep(r) ==
  /\ r.at = "due" /\ StepDone(r)
  /\ Goes(r, "stepped", rows[r.id].step)
  /\ UNCHANGED <<rows, faults>> /\ Now

EnqueueTarget(r) ==
  /\ r.at = "due" /\ ~StepDone(r)
  /\ \E i \in Id : /\ Spawns(Row(rows[r.id].call, "task", Replayed(rows[r.id].call), r.id), i)
                   /\ Goes(r, "launched", i)
  /\ UNCHANGED faults /\ Now

CompleteStep(r) ==
  /\ r.at = "launched"
  /\ IF Accepts(r) THEN rows' = [rows EXCEPT ![r.id].step = r.target] /\ Goes(r, "stepped", r.target)
                   ELSE UNCHANGED rows /\ Ends(r)
  /\ UNCHANGED faults /\ Now

Complete(r) ==
  /\ r.at = "stepped" /\ Ends(r)
  /\ rows' = IF Accepts(r)
               THEN [rows EXCEPT ![r.id].state = "completed", ![r.id].payload = r.target]
               ELSE rows
  /\ UNCHANGED faults /\ Now

\* import_string, bind or enqueue raises, before or after the enqueue committed.
HandlerRaises(r) ==
  /\ r.at \in {"due", "launched"} /\ Fault /\ Ends(r)
  /\ rows' = IF Accepts(r) THEN [rows EXCEPT ![r.id] = AfterFailure(@)] ELSE rows
  /\ Now

WorkerDies(r) == Fault /\ Ends(r) /\ UNCHANGED rows /\ Now

-----------------------------------------------------------------------------
(* get_result: the row of the caller's id, then the one that it names.      *)

StateToStatus(state) ==
  CASE state = "pending" -> "READY"
    [] state \in {"running", "sleeping"} -> "RUNNING"
    [] state = "completed" -> "SUCCESSFUL"
    [] OTHER -> "FAILED"

\* A wrapper that sleeps has started nothing of the caller's.
Status(row) == IF Wraps(row) /\ row.state = "sleeping" THEN "READY" ELSE StateToStatus(row.state)

Follows(row) == Wraps(row) /\ row.state = "completed"

GetResult ==
  /\ answer # None /\ reading = None /\ reading' = answer
  /\ UNCHANGED <<rows, runs, unmade, watched, answer, seen, now, faults>>

FetchTask ==
  /\ reading # None
  /\ IF Exists(reading) /\ Follows(rows[reading])
       THEN reading' = rows[reading].payload /\ UNCHANGED seen
       ELSE /\ reading' = None
            /\ seen' = IF Exists(reading) THEN Status(rows[reading]) ELSE "DoesNotExist"
  /\ UNCHANGED <<rows, runs, unmade, watched, answer, now, faults>>

-----------------------------------------------------------------------------
Init ==
  /\ rows = [i \in Id |-> None] /\ runs = {}
  /\ unmade \in Scenarios /\ watched \in {c \in Calls : unmade[c] > 0}
  /\ answer = None /\ reading = None /\ seen = None
  /\ now = 0 /\ faults = 0

Handler(r) == SleepUntil(r) \/ ReplayStep(r) \/ EnqueueTarget(r) \/ CompleteStep(r) \/ Complete(r)

Next ==
  \/ \E c \in Calls : Enqueue(c)
  \/ GetResult \/ FetchTask
  \/ \E i \in Id : \/ Claim(i) \/ PolicyCancels(i) \/ CancelTask(i) \/ LeaseExpires(i)
                   \/ CleanupTasks(i) \/ TargetStarts(i) \/ TargetEnds(i)
  \/ \E r \in runs : Handler(r) \/ HandlerRaises(r) \/ WorkerDies(r)
  \/ Tick

Spec == Init /\ [][Next]_vars

\* What moves a row on, faults aside.
Progress(i) ==
  \/ Claim(i) \/ TargetStarts(i) \/ TargetEnds(i)
  \/ LeaseExpires(i) /\ UNCHANGED faults
  \/ \E r \in runs : r.id = i /\ Handler(r)

\* A worker polls, its handlers run on, the sweep finds expired leases, time passes.
FairSpec == Spec /\ WF_vars(Tick) /\ \A i \in Id : WF_vars(Progress(i))

-----------------------------------------------------------------------------
(* Properties.                                                              *)

Launched(w) == {i \in Id : rows[i] # None /\ rows[i].by = w}

(* deferred.py:44: a retry "replays the stored id rather than enqueueing a   *)
(* second time": a second task takes a lost lease, a dead worker or a failed *)
(* handler between the enqueue and the checkpoint, and with a key there is   *)
(* none in any case, until cleanup has deleted the first.                    *)
LaunchedOnce ==
  \A w \in Id :
    /\ Cardinality(Launched(w)) > 1 => faults > 0
    /\ Cardinality(Launched(w)) <= faults + 1
    /\ rows[w] # None /\ rows[w].options["idempotency_key"] # Unset =>
         Cardinality({i \in Launched(w) : Exists(i)}) <= 1

(* backends.py:166: with the key verbatim "the enqueue it wakes to make      *)
(* would dedupe against itself": what a wrapper completed with is a task of  *)
(* the caller's, one of the same call or of the same key, never a wrapper.   *)
WrapperNamesATask ==
  \A w \in Id : rows[w] # None /\ rows[w].payload # None =>
    LET task == rows[rows[w].payload] IN
    /\ ~Wraps(task)
    /\ \/ task.call = rows[w].call
       \/ task.options["idempotency_key"] = Merged(rows[w].call)["idempotency_key"]

(* What a client has been told is final: a success stays one until cleanup   *)
(* deletes the row, and a row that is gone does not come back.               *)
AnswersAreFinal ==
  [][ answer' = answer =>
        /\ seen = "SUCCESSFUL" => seen' \in {"SUCCESSFUL", "DoesNotExist"}
        /\ seen = "DoesNotExist" => seen' = "DoesNotExist" ]_vars

(* A deferral is not left behind: its wrapper ends, and the task it names    *)
(* ends too.  max_duration may be the end of a task, but never of a wrapper,  *)
(* whose sleep is longer than the task was allowed to take.                  *)
Landed(row) == row.state \in (Ended \cup {"gone"}) \ (IF Wraps(row) THEN {"expired"} ELSE {})
DeferralsLand ==
  \A i \in Id : (rows[i] # None) ~> (rows[i] # None /\ Landed(rows[i]))
=============================================================================
