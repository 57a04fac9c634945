------------------------- MODULE AbsurdWorkerProofs -------------------------
(***************************************************************************)
(* One delivery of a run at a time, and the life of the tasks that workers *)
(* see, for any workers (however large their batches and windows, however  *)
(* often they crash, stop or are cancelled), tasks and attempts; and, each *)
(* under an assumption on what may happen to a process, that runs end      *)
(* before their loop, that a loop which returned leaves nothing claimed,   *)
(* and that a failure which was announced stands.                          *)
(***************************************************************************)
EXTENDS AbsurdWorker, FiniteSetTheorems, TLAPS

Parked == {"pending", "sleeping"}
Typed ==
  /\ state \in [Task -> Live \cup Ended] /\ attempt \in [Task -> Nat]
  /\ DOMAIN lease = Task /\ DOMAIN holder = Task
  /\ window \in [Worker -> SUBSET [task : Task, n : Nat, at : InFlight \cup {"broken", "ended"}]]

\* A run that is executed is an attempt its task has left behind, or the task's
\* last one; then the task is not one that a claim could start as it stands.
Overtaken(e) == e.n < attempt[e.task]
HeldOrOvertaken == \A w \in Worker : \A e \in window[w] : e.at \in Executing =>
  Overtaken(e) \/ (e.n = attempt[e.task] /\ state[e.task] \notin Parked)

DeliveryInv == Typed /\ HeldOrOvertaken /\ RunDeliveredOnce

-----------------------------------------------------------------------------
\* What most steps do to the queue: attempts are counted up, and no task of the
\* same attempt is parked that was not before.
Onward ==
  /\ state' \in [Task -> Live \cup Ended] /\ attempt' \in [Task -> Nat]
  /\ DOMAIN lease' = Task /\ DOMAIN holder' = Task
  /\ \A t \in Task : \/ attempt'[t] > attempt[t]
                     \/ attempt'[t] = attempt[t] /\ (state'[t] \in Parked => state[t] \in Parked)

LEMMA OnwardIfUnchanged ==
  ASSUME Typed, UNCHANGED <<state, attempt>>, DOMAIN lease' = Task, DOMAIN holder' = Task
  PROVE  Onward
BY DEF Typed, Onward

\* Windows from which executions only disappear.
LEMMA ShrinkKept ==
  ASSUME DeliveryInv, Onward, Typed',
         \A w \in Worker : \A e \in window'[w] : e.at \in Executing => e \in window[w]
  PROVE  DeliveryInv'
<1>1. HeldOrOvertaken'
  BY DEF DeliveryInv, HeldOrOvertaken, Overtaken, Onward, Typed
<1>2. RunDeliveredOnce'
  BY DEF DeliveryInv, RunDeliveredOnce
<1> QED BY <1>1, <1>2 DEF DeliveryInv

\* One execution goes on: it stays what it was an execution of.
LEMMA MoveKept ==
  ASSUME DeliveryInv, Onward, NEW w \in Worker, NEW e \in window[w],
         NEW at \in InFlight \cup {"broken", "ended"},
         at \in Executing => e.at \in Executing, window' = Moved(w, e, at)
  PROVE  DeliveryInv'
<1> DEFINE f == [e EXCEPT !.at = at]
<1>1. /\ e \in [task : Task, n : Nat, at : InFlight \cup {"broken", "ended"}]
      /\ f \in [task : Task, n : Nat, at : InFlight \cup {"broken", "ended"}]
      /\ f.task = e.task /\ f.n = e.n /\ f.at = at
  BY DEF DeliveryInv, Typed
<1> HIDE DEF f
<1>2. \A v \in Worker : window'[v] = IF v = w THEN (window[w] \ {e}) \cup {f} ELSE window[v]
  BY DEF Moved, DeliveryInv, Typed, f
<1>3. Typed'
  <2>1. window' = [v \in Worker |-> window'[v]]
    BY DEF Moved, DeliveryInv, Typed
  <2>2. ASSUME NEW v \in Worker
        PROVE  window'[v] \subseteq [task : Task, n : Nat, at : InFlight \cup {"broken", "ended"}]
    BY <1>1, <1>2 DEF DeliveryInv, Typed
  <2> QED BY <2>1, <2>2 DEF Onward, Typed
<1>4. \A v \in Worker : \A d \in window'[v] :
        (d \in window[v] /\ ~(v = w /\ d = e)) \/ (v = w /\ d = f)
  BY <1>2
<1>5. HeldOrOvertaken'
  <2> SUFFICES ASSUME NEW v \in Worker, NEW d \in window'[v], d.at \in Executing
               PROVE  (Overtaken(d) \/ (d.n = attempt[d.task] /\ state[d.task] \notin Parked))'
    BY DEF HeldOrOvertaken
  <2>1. PICK c \in window[v] : c.at \in Executing /\ c.task = d.task /\ c.n = d.n
    BY <1>1, <1>4
  <2>2. c.task \in Task /\ c.n \in Nat
    BY DEF DeliveryInv, Typed
  <2>3. Overtaken(c) \/ (c.n = attempt[c.task] /\ state[c.task] \notin Parked)
    BY <2>1 DEF DeliveryInv, HeldOrOvertaken
  <2> QED BY <2>1, <2>2, <2>3 DEF Overtaken, Onward, DeliveryInv, Typed
<1>6. RunDeliveredOnce'
  <2> SUFFICES ASSUME NEW v \in Worker, NEW u \in Worker, NEW c \in window'[v], NEW d \in window'[u],
                      c.at \in Executing, d.at \in Executing, c.task = d.task, c.n = d.n
               PROVE  v = u /\ c = d
    BY DEF RunDeliveredOnce
  <2>1. CASE c \in window[v] /\ ~(v = w /\ c = e) /\ d \in window[u] /\ ~(u = w /\ d = e)
    BY <2>1 DEF DeliveryInv, RunDeliveredOnce
  <2>2. CASE v = w /\ c = f /\ u = w /\ d = f
    BY <2>2
  <2>3. CASE v = w /\ c = f /\ d \in window[u] /\ ~(u = w /\ d = e)
    <3>1. e.at \in Executing /\ e.task = d.task /\ e.n = d.n
      BY <2>3, <1>1
    <3> QED BY <2>3, <3>1 DEF DeliveryInv, RunDeliveredOnce
  <2>4. CASE c \in window[v] /\ ~(v = w /\ c = e) /\ u = w /\ d = f
    <3>1. e.at \in Executing /\ e.task = c.task /\ e.n = c.n
      BY <2>4, <1>1
    <3> QED BY <2>4, <3>1 DEF DeliveryInv, RunDeliveredOnce
  <2> QED BY <1>4, <2>1, <2>2, <2>3, <2>4
<1> QED BY <1>3, <1>5, <1>6 DEF DeliveryInv

-----------------------------------------------------------------------------
(* Claims.                                                                  *)

LEMMA FailedStateIs ==
  ASSUME Typed, NEW t \in Task
  PROVE  FailedState(t) \in {"pending", "failed"}
BY DEF FailedState

LEMMA SweepsOnward ==
  ASSUME Typed, NEW w \in Worker, NEW E \in SUBSET Task, NEW B \in SUBSET Task, Sweeps(w, E, B)
  PROVE  /\ Onward
         /\ \A t \in B : /\ state'[t] = "running"
                         /\ attempt'[t] > attempt[t] \/ (attempt'[t] = attempt[t] /\ state[t] = "pending")
<1>1. \A t \in Task : FailStates(E)[t] = IF t \in E THEN FailedState(t) ELSE state[t]
  BY DEF FailStates
<1>2. /\ attempt' \in [Task -> Nat]
      /\ \A t \in Task : attempt'[t] = IF t \in E /\ FailedState(t) = "pending"
                                        THEN attempt[t] + 1 ELSE attempt[t]
  BY DEF Sweeps, FailAttempts, Typed
<1>3. /\ state' \in [Task -> Live \cup Ended]
      /\ \A t \in Task : state'[t] = IF t \in B THEN "running"
                                      ELSE IF t \in E THEN FailedState(t) ELSE state[t]
  BY <1>1, FailedStateIs DEF Sweeps, Typed, Live, Ended
<1>4. \A t \in B : IF t \in E THEN FailedState(t) = "pending" ELSE state[t] = "pending"
  BY <1>1 DEF Sweeps
<1>5. DOMAIN lease' = Task /\ DOMAIN holder' = Task
  BY DEF Sweeps
<1>6. \A t \in Task : attempt[t] \in Nat
  BY DEF Typed
<1>7. \A t \in Task : \/ attempt'[t] > attempt[t]
                      \/ attempt'[t] = attempt[t] /\ (state'[t] \in Parked => state[t] \in Parked)
  BY <1>2, <1>3, <1>6, FailedStateIs DEF Parked
<1> QED BY <1>2, <1>3, <1>4, <1>5, <1>6, <1>7 DEF Onward

\* A claimed run is new: its task was parked, or its attempt has just been counted.
LEMMA ClaimKept ==
  ASSUME DeliveryInv, NEW w \in Worker, NEW E \in SUBSET Task, NEW B \in SUBSET Task, Claims(w, E, B)
  PROVE  DeliveryInv'
<1>1. Sweeps(w, E, B) /\ window' = [window EXCEPT ![w] = @ \cup Created(B)]
  BY DEF Claims
<1>2. Onward /\ \A t \in B : /\ state'[t] = "running"
                             /\ attempt'[t] > attempt[t] \/ (attempt'[t] = attempt[t] /\ state[t] = "pending")
  BY <1>1, SweepsOnward DEF DeliveryInv
<1>3. \A c \in Created(B) : /\ c \in [task : Task, n : Nat, at : InFlight \cup {"broken", "ended"}]
                            /\ c.task \in B /\ c.n = attempt'[c.task] /\ c.at = "created"
  BY <1>2 DEF Created, Onward, InFlight, Executing
<1>4. \A v \in Worker : window'[v] = IF v = w THEN window[w] \cup Created(B) ELSE window[v]
  BY <1>1 DEF DeliveryInv, Typed
<1>5. Typed'
  <2>1. window' = [v \in Worker |-> window'[v]]
    BY <1>1 DEF DeliveryInv, Typed
  <2>2. ASSUME NEW v \in Worker
        PROVE  window'[v] \subseteq [task : Task, n : Nat, at : InFlight \cup {"broken", "ended"}]
    BY <1>3, <1>4 DEF DeliveryInv, Typed
  <2> QED BY <1>2, <2>1, <2>2 DEF Onward, Typed
<1>6. ASSUME NEW v \in Worker, NEW d \in window[v], d.at \in Executing
      PROVE  /\ (Overtaken(d) \/ (d.n = attempt[d.task] /\ state[d.task] \notin Parked))'
             /\ d.task \in B => d.n < attempt'[d.task]
  <2>1. d.task \in Task /\ d.n \in Nat /\ attempt[d.task] \in Nat /\ attempt'[d.task] \in Nat
    BY <1>2 DEF DeliveryInv, Typed, Onward
  <2>2. Overtaken(d) \/ (d.n = attempt[d.task] /\ state[d.task] \notin Parked)
    BY <1>6 DEF DeliveryInv, HeldOrOvertaken
  <2> QED BY <1>2, <2>1, <2>2 DEF Overtaken, Onward, Parked
<1>7. HeldOrOvertaken'
  BY <1>2, <1>3, <1>4, <1>6 DEF HeldOrOvertaken, Parked
<1>8. RunDeliveredOnce'
  <2> SUFFICES ASSUME NEW u \in Worker, NEW v \in Worker, NEW c \in window'[u], NEW d \in window'[v],
                      c.at \in Executing, d.at \in Executing, c.task = d.task, c.n = d.n
               PROVE  u = v /\ c = d
    BY DEF RunDeliveredOnce
  <2>1. CASE c \in window[u] /\ d \in window[v]
    BY <2>1 DEF DeliveryInv, RunDeliveredOnce
  <2>2. CASE u = w /\ v = w /\ c \in Created(B) /\ d \in Created(B)
    BY <2>2, <1>3
  <2>3. \A x \in Worker : \A a \in window[x], b \in Created(B) :
          a.at \in Executing => ~(a.task = b.task /\ a.n = b.n)
    BY <1>2, <1>3, <1>6 DEF DeliveryInv, Typed, Onward
  <2> QED BY <1>4, <2>1, <2>2, <2>3
<1> QED BY <1>5, <1>7, <1>8 DEF DeliveryInv

-----------------------------------------------------------------------------
(* The executions and the loops.                                            *)

LEMMA InitDelivery == Init => DeliveryInv
BY DEF Init, DeliveryInv, Typed, HeldOrOvertaken, RunDeliveredOnce, Live

\* The run that goes to sleep was its task's last; nothing else executes it.
LEMMA SuspendKept ==
  ASSUME DeliveryInv, NEW w \in Worker, NEW e \in window[w], Suspends(w, e)
  PROVE  DeliveryInv'
<1> DEFINE f == [e EXCEPT !.at = "suspending"]
<1>1. /\ e \in [task : Task, n : Nat, at : InFlight \cup {"broken", "ended"}] /\ e.at \in Executing
      /\ f \in [task : Task, n : Nat, at : InFlight \cup {"broken", "ended"}] /\ f.at \notin Executing
  BY DEF DeliveryInv, Typed, Suspends, Executing, InFlight
<1> HIDE DEF f
<1>2. \A v \in Worker : window'[v] = IF v = w THEN (window[w] \ {e}) \cup {f} ELSE window[v]
  BY DEF Suspends, Moved, DeliveryInv, Typed, f
<1>3. /\ e.n = attempt[e.task] /\ attempt' = attempt
      /\ state' = [state EXCEPT ![e.task] = "sleeping"] /\ DOMAIN lease' = Task /\ DOMAIN holder' = Task
  BY DEF Suspends, Current, Leaves, DeliveryInv, Typed
<1>4. Typed'
  <2>1. window' = [v \in Worker |-> window'[v]]
    BY DEF Suspends, Moved, DeliveryInv, Typed
  <2>2. ASSUME NEW v \in Worker
        PROVE  window'[v] \subseteq [task : Task, n : Nat, at : InFlight \cup {"broken", "ended"}]
    BY <1>1, <1>2 DEF DeliveryInv, Typed
  <2>3. state' \in [Task -> Live \cup Ended] /\ attempt' \in [Task -> Nat]
    BY <1>3 DEF DeliveryInv, Typed, Live
  <2> QED BY <1>3, <2>1, <2>2, <2>3 DEF Typed
<1>5. \A v \in Worker : \A d \in window'[v] : d.at \in Executing => d \in window[v] /\ ~(v = w /\ d = e)
  BY <1>1, <1>2
<1>6. HeldOrOvertaken'
  <2> SUFFICES ASSUME NEW v \in Worker, NEW d \in window'[v], d.at \in Executing
               PROVE  (Overtaken(d) \/ (d.n = attempt[d.task] /\ state[d.task] \notin Parked))'
    BY DEF HeldOrOvertaken
  <2>1. d \in window[v] /\ ~(v = w /\ d = e) /\ d.task \in Task
    BY <1>5 DEF DeliveryInv, Typed
  <2>2. Overtaken(d) \/ (d.n = attempt[d.task] /\ state[d.task] \notin Parked)
    BY <2>1 DEF DeliveryInv, HeldOrOvertaken
  <2>3. d.task = e.task => d.n # e.n
    BY <1>1, <2>1 DEF DeliveryInv, RunDeliveredOnce
  <2> QED BY <1>1, <1>3, <2>1, <2>2, <2>3 DEF Overtaken, DeliveryInv, Typed
<1>7. RunDeliveredOnce'
  BY <1>5 DEF DeliveryInv, RunDeliveredOnce
<1> QED BY <1>4, <1>6, <1>7 DEF DeliveryInv

LEMMA ReportOnward ==
  ASSUME Typed, NEW w \in Worker, NEW e \in window[w], Reports(w, e)
  PROVE  Onward
<1>1. e.task \in Task
  BY DEF Typed
<1>2. CASE ~Current(e)
  BY <1>2, OnwardIfUnchanged DEF Reports, queue, Typed
<1>3. CASE Current(e) /\ e.at = "returned"
  BY <1>1, <1>3 DEF Reports, Leaves, Typed, Onward, Parked, Ended
<1>4. CASE Current(e) /\ e.at # "returned"
  <2>1. /\ state' = [state EXCEPT ![e.task] = FailedState(e.task)]
        /\ DOMAIN lease' = Task /\ DOMAIN holder' = Task
        /\ attempt' = [t \in Task |-> IF t = e.task /\ FailedState(t) = "pending"
                                      THEN attempt[t] + 1 ELSE attempt[t]]
    BY <1>4 DEF Reports, Leaves, FailAttempts, Typed
  <2> QED BY <1>1, <2>1, FailedStateIs DEF Typed, Onward, Parked, Live, Ended
<1> QED BY <1>2, <1>3, <1>4

LEMMA ExecutionKept ==
  ASSUME DeliveryInv, NEW w \in Worker, NEW e \in window[w],
         ExecutionStep(w, e) \/ Heartbeat(w, e) \/ Breaks(w, e)
  PROVE  DeliveryInv'
<1>1. CASE BodyStarts(w, e) \/ BodyReturns(w, e) \/ BodyRaises(w, e) \/ Unwinds(w, e) \/ Breaks(w, e)
  <2>1. Onward
    BY <1>1, OnwardIfUnchanged
       DEF BodyStarts, BodyReturns, BodyRaises, Unwinds, Breaks, queue, DeliveryInv, Typed
  <2>2. PICK at \in {"body", "returned", "raised", "ended", "broken"} :
          window' = Moved(w, e, at) /\ (at \in Executing => e.at \in Executing)
    BY <1>1 DEF BodyStarts, BodyReturns, BodyRaises, Unwinds, Breaks, Executing
  <2>3. at \in InFlight \cup {"broken", "ended"}
    BY DEF InFlight, Executing
  <2> QED BY <2>1, <2>2, <2>3, MoveKept
<1>2. CASE Suspends(w, e)
  BY <1>2, SuspendKept
<1>3. CASE Reports(w, e)
  <2>1. Onward /\ window' = Moved(w, e, "ended") /\ "ended" \notin Executing
    BY <1>3, ReportOnward DEF DeliveryInv, Reports, Executing
  <2> QED BY <2>1, MoveKept
<1>4. CASE Heartbeat(w, e)
  <2>1. UNCHANGED <<state, attempt, window>> /\ DOMAIN lease' = Task /\ DOMAIN holder' = Task
    BY <1>4 DEF Heartbeat, proc, DeliveryInv, Typed
  <2> QED BY <2>1, OnwardIfUnchanged, ShrinkKept DEF DeliveryInv, Typed
<1> QED BY <1>1, <1>2, <1>3, <1>4 DEF ExecutionStep, BodyStep

LEMMA TaskKept ==
  ASSUME DeliveryInv, NEW t \in Task, LeaseExpires(t) \/ Wake(t) \/ CancelTask(t) \/ RetryTask(t)
  PROVE  DeliveryInv'
<1>1. Onward
  BY DEF LeaseExpires, Wake, CancelTask, RetryTask, Leaves, DeliveryInv, Typed, Onward, Parked, Live, Ended
<1>2. window' = window
  BY DEF LeaseExpires, Wake, CancelTask, RetryTask, proc
<1> QED BY <1>1, <1>2, ShrinkKept DEF DeliveryInv, Typed, Onward

\* A loop's own steps, and a stop, cancellation or crash, end executions or begin none.
LEMMA LoopShrinks ==
  ASSUME DeliveryInv, NEW w \in Worker,
         LoopStep(w) \/ Stop(w) \/ Cancel(w) \/ CancelAnswer(w) \/ Crash(w)
  PROVE  /\ window' \in [Worker ->
                         SUBSET [task : Task, n : Nat, at : InFlight \cup {"broken", "ended"}]]
         /\ \A v \in Worker : \A d \in window'[v] : d.at \in Executing => d \in window[v]
<1> DEFINE Unwound(S) == {[e EXCEPT !.at = "unwinding"] : e \in S}
<1>1. ASSUME NEW S \in SUBSET window[w]
      PROVE  Unwound(S) \in SUBSET [task : Task, n : Nat, at : InFlight \cup {"broken", "ended"}]
             /\ \A d \in Unwound(S) : d.at \notin Executing
  BY DEF DeliveryInv, Typed, InFlight, Executing
<1>2. Busy(w) \subseteq window[w]
  BY DEF Busy
<1>3. window' = window \/ window' = [window EXCEPT ![w] = Busy(w)] \/ window' = [window EXCEPT ![w] = {}]
      \/ \E S \in SUBSET window[w] : window' = [window EXCEPT ![w] = Unwound(S)]
  <2>1. CASE Cancel(w)
    <3>1. {f \in Busy(w) : Sequential(w) => f.at # "created"} \in SUBSET window[w]
      BY <1>2
    <3> QED BY <2>1, <3>1 DEF Cancel
  <2>2. CASE CancelAnswer(w)
    BY <1>2, <2>2 DEF CancelAnswer
  <2>3. CASE LoopStep(w) \/ Stop(w) \/ Crash(w)
    BY <2>3 DEF LoopStep, LoopHead, IdleEnds, BatchEnds, Close, Restart, Stop, Crash
  <2> QED BY <2>1, <2>2, <2>3
<1> HIDE DEF Unwound
<1> QED BY <1>1, <1>2, <1>3 DEF DeliveryInv, Typed

\* So they begin no second execution.
LEMMA LoopKept ==
  ASSUME DeliveryInv, NEW w \in Worker,
         LoopStep(w) \/ Stop(w) \/ Cancel(w) \/ CancelAnswer(w) \/ Crash(w)
  PROVE  DeliveryInv'
<1>1. Onward
  <2>1. CASE CancelAnswer(w)
    BY <2>1, SweepsOnward DEF CancelAnswer, DeliveryInv
  <2>2. CASE LoopStep(w) \/ Stop(w) \/ Cancel(w) \/ Crash(w)
    <3>1. UNCHANGED queue
      BY <2>2 DEF LoopStep, LoopHead, IdleEnds, BatchEnds, Close, Restart, Stop, Cancel, Crash
    <3> QED BY <3>1, OnwardIfUnchanged DEF queue, DeliveryInv, Typed
  <2> QED BY <2>1, <2>2
<1> QED BY <1>1, LoopShrinks, ShrinkKept DEF Typed, Onward

LEMMA NextDelivery == DeliveryInv /\ [Next]_vars => DeliveryInv'
<1> SUFFICES ASSUME DeliveryInv, [Next]_vars PROVE DeliveryInv'
  OBVIOUS
<1>1. CASE UNCHANGED vars
  BY <1>1, OnwardIfUnchanged, ShrinkKept DEF vars, DeliveryInv, Typed
<1>2. ASSUME NEW w \in Worker, ClaimTasks(w) PROVE DeliveryInv'
  BY <1>2, ClaimKept DEF ClaimTasks
<1> QED BY <1>1, <1>2, TaskKept, LoopKept, ExecutionKept DEF Next

-----------------------------------------------------------------------------
\* worker.py:606: whatever leases expire while runs wait or execute, and whatever is
\* swept, claimed again, crashed, suspended or retried, no run is executed twice at once.
THEOREM WorkersDeliverOnce == Spec => []RunDeliveredOnce
<1>1. DeliveryInv => RunDeliveredOnce
  BY DEF DeliveryInv
<1> QED BY <1>1, InitDelivery, NextDelivery, PTL DEF Spec

-----------------------------------------------------------------------------
(* The life of a task, as workers see it.                                   *)

\* Counting an attempt up to the limit does not move the limit.
LEMMA LimitKept ==
  ASSUME Typed, NEW t \in Task
  PROVE  /\ Limit(attempt[t]) # Null /\ Limit(attempt[t] + 1) # Null
         /\ Limit(attempt[t] + 1) >= attempt[t] + 1
         /\ FailedState(t) = "pending" =>
              /\ Limit(attempt[t] + 1) = Limit(attempt[t]) /\ attempt[t] + 1 <= Limit(attempt[t])
         /\ FailedState(t) = "failed" => attempt[t] >= Limit(attempt[t])
<1>1. attempt[t] \in Nat /\ MaxAttempts \in Nat \ {0} /\ Null \notin Nat
  BY WorkerAssumption DEF Typed
<1> QED BY <1>1 DEF Limit, FailedState

\* What a step may do to a task: nothing, a move that counts no attempt, or one more attempt.
Same(t) == state'[t] = state[t] /\ attempt'[t] = attempt[t]
Moves(t) ==
  /\ attempt'[t] = attempt[t]
  /\ \/ state[t] = "pending" /\ state'[t] = "running"
     \/ state[t] = "running" /\ state'[t] \in {"sleeping", "completed"}
     \/ state[t] = "sleeping" /\ state'[t] = "pending"
     \/ state[t] \in Live /\ state'[t] = "cancelled"
     \/ state[t] = "running" /\ state'[t] = "failed" /\ FailedState(t) = "failed"
Repeats(t) ==
  /\ attempt'[t] = attempt[t] + 1
  /\ \/ state[t] = "running" /\ FailedState(t) = "pending" /\ state'[t] \in {"pending", "running"}
     \/ state[t] = "failed" /\ state'[t] = "pending"

LEMMA StepsOfLife ==
  ASSUME Typed, attempt' \in [Task -> Nat], \A t \in Task : Same(t) \/ Moves(t) \/ Repeats(t)
  PROVE  Lifecycle!Next
<1> SUFFICES ASSUME NEW t \in Task
             PROVE  Lifecycle!Move(t) \/ (state'[t] = state[t] /\ Lifecycle!SameAttempt(t))
  BY DEF Lifecycle!Next
<1>1. CASE Same(t)
  BY <1>1 DEF Same, Lifecycle!SameAttempt
<1>2. CASE Moves(t)
  <2>1. Lifecycle!SameAttempt(t)
    BY <1>2 DEF Moves, Lifecycle!SameAttempt
  <2> QED BY <1>2, <2>1, LimitKept
      DEF Moves, Live, Lifecycle!Move, Lifecycle!Start, Lifecycle!Suspend, Lifecycle!WakeUp,
          Lifecycle!Complete, Lifecycle!GiveUp, Lifecycle!Cancel, Lifecycle!Goes, Lifecycle!Live
<1>3. CASE Repeats(t)
  BY <1>3, LimitKept
  DEF Repeats, Live, Lifecycle!Move, Lifecycle!NextAttempt, Lifecycle!Reopen, Lifecycle!Goes, Lifecycle!Live
<1> QED BY <1>1, <1>2, <1>3

LEMMA SweepsLife ==
  ASSUME Typed, NEW w \in Worker, NEW E \in SUBSET Task, NEW B \in SUBSET Task, Sweeps(w, E, B)
  PROVE  Lifecycle!Next
<1>1. \A t \in Task : FailStates(E)[t] = IF t \in E THEN FailedState(t) ELSE state[t]
  BY DEF FailStates
<1>2. attempt' \in [Task -> Nat]
  BY SweepsOnward DEF Onward
<1>3. ASSUME NEW t \in Task
      PROVE  Same(t) \/ Moves(t) \/ Repeats(t)
  <2>1. attempt'[t] = IF t \in E /\ FailedState(t) = "pending" THEN attempt[t] + 1 ELSE attempt[t]
    BY DEF Sweeps, FailAttempts
  <2>2. state'[t] = IF t \in B THEN "running" ELSE IF t \in E THEN FailedState(t) ELSE state[t]
    BY <1>1 DEF Sweeps
  <2>3. t \in B => IF t \in E THEN FailedState(t) = "pending" ELSE state[t] = "pending"
    BY <1>1 DEF Sweeps
  <2>4. t \in E => state[t] = "running"
    BY DEF Sweeps, Expired
  <2> QED BY <2>1, <2>2, <2>3, <2>4, FailedStateIs DEF Same, Moves, Repeats
<1> QED BY <1>2, <1>3, StepsOfLife

LEMMA NextLife == Typed /\ [Next]_vars => [Lifecycle!Next]_queue
<1> SUFFICES ASSUME Typed, [Next]_vars PROVE Lifecycle!Next \/ UNCHANGED queue
  OBVIOUS
<1>1. CASE UNCHANGED vars
  BY <1>1 DEF vars, queue
<1>2. ASSUME NEW t \in Task, LeaseExpires(t) \/ Wake(t) \/ CancelTask(t) \/ RetryTask(t)
      PROVE  Lifecycle!Next
  <2>1. \A s \in Task : Same(s) \/ Moves(s) \/ Repeats(s)
    BY <1>2 DEF LeaseExpires, Wake, CancelTask, RetryTask, Leaves, Typed, Same, Moves, Repeats, Live
  <2>2. attempt' \in [Task -> Nat]
    BY <1>2 DEF LeaseExpires, Wake, CancelTask, RetryTask, Typed
  <2> QED BY <2>1, <2>2, StepsOfLife
<1>3. ASSUME NEW w \in Worker, LoopStep(w) \/ Stop(w) \/ Cancel(w) \/ Crash(w)
      PROVE  UNCHANGED queue
  BY <1>3 DEF LoopStep, LoopHead, IdleEnds, BatchEnds, Close, Restart, Stop, Cancel, Crash
<1>4. ASSUME NEW w \in Worker, ClaimTasks(w) \/ CancelAnswer(w)
      PROVE  Lifecycle!Next
  BY <1>4, SweepsLife DEF ClaimTasks, Claims, CancelAnswer
<1>5. ASSUME NEW w \in Worker, NEW e \in window[w], ExecutionStep(w, e) \/ Heartbeat(w, e) \/ Breaks(w, e)
      PROVE  Lifecycle!Next \/ UNCHANGED queue
  <2>1. e.task \in Task
    BY DEF Typed
  <2>2. CASE BodyStarts(w, e) \/ BodyReturns(w, e) \/ BodyRaises(w, e) \/ Unwinds(w, e) \/ Breaks(w, e)
    BY <2>2 DEF BodyStarts, BodyReturns, BodyRaises, Unwinds, Breaks
  <2>3. CASE Suspends(w, e) \/ Heartbeat(w, e)
    <3>1. \A s \in Task : Same(s) \/ Moves(s)
      BY <2>1, <2>3 DEF Suspends, Heartbeat, Current, Leaves, Typed, Same, Moves
    <3> QED BY <2>3, <3>1, StepsOfLife DEF Suspends, Heartbeat, Typed
  <2>4. CASE Reports(w, e)
    <3>1. CASE ~Current(e)
      BY <2>4, <3>1 DEF Reports
    <3>2. CASE Current(e) /\ e.at = "returned"
      <4>1. \A s \in Task : Same(s) \/ Moves(s)
        BY <2>1, <2>4, <3>2 DEF Reports, Current, Leaves, Typed, Same, Moves
      <4> QED BY <2>4, <3>2, <4>1, StepsOfLife DEF Reports, Typed
    <3>3. CASE Current(e) /\ e.at # "returned"
      <4>1. /\ state[e.task] = "running" /\ state' = [state EXCEPT ![e.task] = FailedState(e.task)]
            /\ attempt' = [t \in Task |-> IF t = e.task /\ FailedState(t) = "pending"
                                          THEN attempt[t] + 1 ELSE attempt[t]]
        BY <2>4, <3>3 DEF Reports, Current, Leaves, FailAttempts
      <4>2. \A s \in Task : Same(s) \/ Moves(s) \/ Repeats(s)
        BY <2>1, <4>1, FailedStateIs DEF Typed, Same, Moves, Repeats
      <4>3. attempt' \in [Task -> Nat]
        BY <4>1 DEF Typed
      <4> QED BY <4>2, <4>3, StepsOfLife
    <3> QED BY <3>1, <3>2, <3>3
  <2> QED BY <1>5, <2>2, <2>3, <2>4 DEF ExecutionStep, BodyStep
<1> QED BY <1>1, <1>2, <1>3, <1>4, <1>5 DEF Next

\* What many workers do to a task, sweeps and late reports included, is one life that
\* clients may rely on: TaskLifecycle, with the attempts within their limit and final ends.
THEOREM WorkersKeepLifecycle == Spec => QueueKeepsLifecycle
<1>1. DeliveryInv => Typed
  BY DEF DeliveryInv
<1> QED BY <1>1, InitDelivery, NextDelivery, NextLife, PTL DEF Spec, QueueKeepsLifecycle

-----------------------------------------------------------------------------
(* The window.                                                              *)

Begun(w) == {e \in Busy(w) : e.at # "created"}

\* A refilling worker counts what it has asked for as if it were in flight; one that
\* takes batches asks only when nothing is, and begins a run when no other is begun.
Bounded(w) ==
  /\ IsFiniteSet(Busy(w)) /\ quota[w] \in Nat
  /\ ~Sequential(w) => Cardinality(Busy(w)) + quota[w] <= Concurrency[w]
  /\ Sequential(w) => /\ loop[w] \in {"head", "claiming", "idle"} => Busy(w) = {}
                      /\ \A d, e \in Begun(w) : d = e

WindowInv ==
  /\ Typed /\ DOMAIN loop = Worker /\ DOMAIN quota = Worker
  /\ \A w \in Worker : Bounded(w)

LEMMA BoundedIfUnchanged ==
  ASSUME NEW w \in Worker, Bounded(w), window'[w] = window[w], quota'[w] = quota[w], loop'[w] = loop[w]
  PROVE  Bounded(w)'
BY DEF Bounded, Busy, Begun, Sequential

\* Runs leave the window, and nothing is asked for.
LEMMA BoundedIfFewer ==
  ASSUME NEW w \in Worker, Bounded(w), Concurrency[w] \in Nat, window'[w] \subseteq window[w],
         quota'[w] \in {0, quota[w]},
         Sequential(w) /\ loop'[w] \in {"head", "claiming", "idle"} => Busy(w)' = {}
  PROVE  Bounded(w)'
<1>1. Busy(w)' \in SUBSET Busy(w)
  BY DEF Busy
<1>2. /\ IsFiniteSet(Busy(w)') /\ Cardinality(Busy(w)') <= Cardinality(Busy(w))
      /\ Cardinality(Busy(w)') \in Nat /\ Cardinality(Busy(w)) \in Nat
  BY <1>1, FS_Subset, FS_CardinalityType DEF Bounded
<1>3. Sequential(w)' = Sequential(w) /\ quota[w] \in Nat
  BY DEF Sequential, Bounded
<1>4. ~Sequential(w) => Cardinality(Busy(w)') + quota'[w] <= Concurrency[w]
  BY <1>2, <1>3 DEF Bounded
<1>5. Sequential(w) => \A d, e \in Begun(w)' : d = e
  BY <1>1 DEF Bounded, Begun
<1> QED BY <1>2, <1>3, <1>4, <1>5 DEF Bounded

\* Runs of the window are cancelled: they go on where they unwind.
LEMMA BoundedIfUnwinding ==
  ASSUME NEW w \in Worker, Bounded(w), Typed, Concurrency[w] \in Nat,
         NEW S \in SUBSET Busy(w), Sequential(w) => S \subseteq Begun(w),
         window'[w] = {[e EXCEPT !.at = "unwinding"] : e \in S},
         quota'[w] = quota[w], loop'[w] \notin {"head", "claiming", "idle"}
  PROVE  Bounded(w)'
<1> DEFINE f == [e \in S |-> [e EXCEPT !.at = "unwinding"]]
<1>1. IsFiniteSet(S) /\ Cardinality(S) <= Cardinality(Busy(w)) /\ Cardinality(S) \in Nat
      /\ Cardinality(Busy(w)) \in Nat
  BY FS_Subset, FS_CardinalityType DEF Bounded
<1>2. Busy(w)' \subseteq window'[w] /\ Begun(w)' \subseteq window'[w]
  BY DEF Busy, Begun
<1>3. f \in Surjection(S, window'[w])
  BY DEF Surjection
<1>4. IsFiniteSet(window'[w]) /\ Cardinality(window'[w]) <= Cardinality(S)
  BY <1>1, <1>3, FS_Surjection
<1>5. /\ IsFiniteSet(Busy(w)') /\ Cardinality(Busy(w)') <= Cardinality(window'[w])
      /\ Cardinality(Busy(w)') \in Nat /\ Cardinality(window'[w]) \in Nat
  BY <1>2, <1>4, FS_Subset, FS_CardinalityType
<1>6. Sequential(w)' = Sequential(w) /\ quota[w] \in Nat
  BY DEF Sequential, Bounded
<1>7. ~Sequential(w) => Cardinality(Busy(w)') + quota'[w] <= Concurrency[w]
  BY <1>1, <1>4, <1>5, <1>6 DEF Bounded
<1>8. Sequential(w) => \A d, e \in Begun(w)' : d = e
  BY <1>2 DEF Bounded
<1> QED BY <1>5, <1>6, <1>7, <1>8 DEF Bounded

\* One run goes on.
LEMMA BoundedIfMoved ==
  ASSUME NEW w \in Worker, Bounded(w), Typed, Concurrency[w] \in Nat, NEW e \in Busy(w),
         NEW at \in InFlight \cup {"broken", "ended"}, at # "created",
         Sequential(w) /\ e.at = "created" => Alone(w),
         window' = Moved(w, e, at), quota'[w] = quota[w], loop'[w] = loop[w]
  PROVE  Bounded(w)'
<1> DEFINE f == [e EXCEPT !.at = at]
<1>1. Busy(w)' \in SUBSET ((Busy(w) \ {e}) \cup {f})
  BY DEF Busy, Moved, Typed
<1>2. /\ IsFiniteSet(Busy(w) \ {e}) /\ Cardinality(Busy(w) \ {e}) = Cardinality(Busy(w)) - 1
      /\ Cardinality(Busy(w)) \in Nat
  BY FS_RemoveElement, FS_CardinalityType DEF Bounded
<1>3. /\ IsFiniteSet((Busy(w) \ {e}) \cup {f})
      /\ Cardinality((Busy(w) \ {e}) \cup {f}) <= Cardinality(Busy(w))
      /\ Cardinality((Busy(w) \ {e}) \cup {f}) \in Nat
  <2> DEFINE R == Busy(w) \ {e}
  <2>1. IsFiniteSet(R) /\ Cardinality(R) = Cardinality(Busy(w)) - 1
    BY <1>2
  <2> HIDE DEF f, R
  <2>2. /\ IsFiniteSet(R \cup {f}) /\ Cardinality(R) \in Nat
        /\ Cardinality(R \cup {f}) = IF f \in R THEN Cardinality(R) ELSE Cardinality(R) + 1
    BY <2>1, FS_AddElement, FS_CardinalityType
  <2>3. Cardinality(R \cup {f}) <= Cardinality(Busy(w)) /\ Cardinality(R \cup {f}) \in Nat
    BY <1>2, <2>1, <2>2
  <2> QED BY <2>2, <2>3 DEF R
<1>4. /\ IsFiniteSet(Busy(w)') /\ Cardinality(Busy(w)') <= Cardinality((Busy(w) \ {e}) \cup {f})
      /\ Cardinality(Busy(w)') \in Nat
  BY <1>1, <1>3, FS_Subset, FS_CardinalityType
<1>5. Sequential(w)' = Sequential(w) /\ quota[w] \in Nat
  BY DEF Sequential, Bounded
<1>6. ~Sequential(w) => Cardinality(Busy(w)') + quota'[w] <= Concurrency[w]
  BY <1>2, <1>3, <1>4, <1>5 DEF Bounded
<1>7. Sequential(w) => loop[w] \notin {"head", "claiming", "idle"}
  BY DEF Bounded
<1>8. Sequential(w) => Begun(w) \ {e} = {}
  BY DEF Bounded, Begun, Alone
<1>9. Sequential(w) => \A c, d \in Begun(w)' : c = d
  BY <1>1, <1>8 DEF Begun
<1> QED BY <1>4, <1>5, <1>6, <1>7, <1>9 DEF Bounded

\* A claim brings no more runs than it asked for.
LEMMA BoundedIfClaimed ==
  ASSUME NEW w \in Worker, Bounded(w), Typed, Concurrency[w] \in Nat,
         NEW E \in SUBSET Task, NEW B \in SUBSET Task, Claims(w, E, B),
         DOMAIN loop = Worker, DOMAIN quota = Worker
  PROVE  Bounded(w)'
<1> DEFINE C == Created(B)
           f == [t \in B |-> [task |-> t, n |-> attempt'[t], at |-> "created"]]
<1>1. /\ loop[w] = "claiming" /\ window'[w] = window[w] \cup C /\ quota'[w] = 0
      /\ Cardinality(B) <= quota[w]
      /\ (B # {} /\ Sequential(w)) => loop'[w] = "batch"
  BY DEF Claims, Sweeps, Typed
<1>2. IsFiniteSet(B) /\ Cardinality(B) \in Nat
  BY FS_Subset, FS_CardinalityType, WorkerAssumption
<1>3. f \in Surjection(B, C)
  BY DEF Surjection, Created
<1>4. IsFiniteSet(C) /\ Cardinality(C) <= Cardinality(B) /\ Cardinality(C) \in Nat
  BY <1>2, <1>3, FS_Surjection, FS_CardinalityType
<1>5. \A c \in C : c.at = "created"
  BY DEF Created
<1>6. B = {} => C = {}
  BY DEF Created
<1> HIDE DEF C, f
<1>7. Busy(w)' \in SUBSET (Busy(w) \cup C)
  BY <1>1 DEF Busy
<1>8. /\ IsFiniteSet(Busy(w) \cup C) /\ Cardinality(Busy(w)) \in Nat
      /\ Cardinality(Busy(w) \cup C) = Cardinality(Busy(w)) + Cardinality(C) - Cardinality(Busy(w) \cap C)
  BY <1>4, FS_Union, FS_CardinalityType DEF Bounded
<1>9. /\ IsFiniteSet(Busy(w)') /\ Cardinality(Busy(w)') <= Cardinality(Busy(w) \cup C)
      /\ Cardinality(Busy(w)') \in Nat /\ Cardinality(Busy(w) \cup C) \in Nat
  BY <1>7, <1>8, FS_Subset, FS_CardinalityType
<1>10. Cardinality(Busy(w) \cap C) \in Nat
  BY <1>4, FS_Subset, FS_CardinalityType
<1>11. Sequential(w)' = Sequential(w) /\ quota[w] \in Nat
  BY DEF Sequential, Bounded
<1>12. ~Sequential(w) => Cardinality(Busy(w)') + quota'[w] <= Concurrency[w]
  <2>1. Cardinality(Busy(w)') <= Cardinality(Busy(w)) + quota[w]
    BY <1>1, <1>2, <1>4, <1>8, <1>9, <1>10, <1>11
  <2> QED BY <1>1, <1>8, <1>9, <1>11, <2>1 DEF Bounded
<1>13. Sequential(w) => Busy(w) = {}
  BY <1>1 DEF Bounded
<1>14. Sequential(w) => Begun(w)' = {}
  BY <1>5, <1>7, <1>13 DEF Begun
<1>15. Sequential(w) /\ loop'[w] \in {"head", "claiming", "idle"} => Busy(w)' = {}
  BY <1>1, <1>6, <1>7, <1>13
<1> QED BY <1>1, <1>9, <1>11, <1>12, <1>14, <1>15 DEF Bounded

\* The loop's head asks for what is left of the concurrency.
LEMMA BoundedIfAsked ==
  ASSUME NEW w \in Worker, Bounded(w), Typed, DOMAIN loop = Worker, DOMAIN quota = Worker, LoopHead(w)
  PROVE  Bounded(w)'
<1>1. Concurrency[w] \in Nat /\ BatchSize[w] \in Nat
  BY WorkerAssumption
<1>2. window'[w] \subseteq window[w] /\ Busy(w)' \in SUBSET Busy(w)
  BY DEF LoopHead, Busy, Typed
<1>3. Sequential(w) => Busy(w) = {}
  BY DEF LoopHead, Bounded
<1>4. CASE quota' = quota
  BY <1>1, <1>2, <1>3, <1>4, BoundedIfFewer
<1>5. CASE quota' = [quota EXCEPT ![w] = Quota(w)] /\ Capacity(w) > 0
  <2>1. /\ IsFiniteSet(Busy(w)') /\ Cardinality(Busy(w)') <= Cardinality(Busy(w))
        /\ Cardinality(Busy(w)') \in Nat /\ Cardinality(Busy(w)) \in Nat
    BY <1>2, FS_Subset, FS_CardinalityType DEF Bounded
  <2>2. quota'[w] \in Nat /\ (~Sequential(w) => quota'[w] <= Concurrency[w] - Cardinality(Busy(w)))
    BY <1>1, <1>5, <2>1 DEF Quota, Capacity
  <2>3. Sequential(w)' = Sequential(w)
    BY DEF Sequential
  <2>4. ~Sequential(w) => Cardinality(Busy(w)') + quota'[w] <= Concurrency[w]
    BY <1>1, <2>1, <2>2
  <2>5. Sequential(w) => Busy(w)' = {}
    BY <1>2, <1>3
  <2> QED BY <2>1, <2>2, <2>3, <2>4, <2>5 DEF Bounded, Begun
<1>6. Capacity(w) \in Int
  BY <1>1, FS_CardinalityType DEF Bounded, Capacity
<1> QED BY <1>4, <1>5, <1>6 DEF LoopHead

LEMMA InitWindow == Init => WindowInv
<1> SUFFICES ASSUME Init PROVE WindowInv
  OBVIOUS
<1>1. Typed /\ DOMAIN loop = Worker /\ DOMAIN quota = Worker
  BY InitDelivery DEF Init, DeliveryInv
<1>2. ASSUME NEW w \in Worker PROVE Bounded(w)
  <2>1. Busy(w) = {} /\ quota[w] = 0 /\ Concurrency[w] \in Nat
    BY WorkerAssumption DEF Init, Busy
  <2> QED BY <2>1, FS_EmptySet DEF Bounded, Begun
<1> QED BY <1>1, <1>2 DEF WindowInv

\* A worker's step leaves the other workers' loops, requests and windows alone.
Aside(w) == \A v \in Worker \ {w} :
  window'[v] = window[v] /\ quota'[v] = quota[v] /\ loop'[v] = loop[v]

LEMMA OneWorkerMoves ==
  ASSUME WindowInv, Typed', NEW w \in Worker, Aside(w), Bounded(w)',
         DOMAIN loop' = Worker, DOMAIN quota' = Worker
  PROVE  WindowInv'
<1>1. ASSUME NEW v \in Worker \ {w} PROVE Bounded(v)'
  BY <1>1, BoundedIfUnchanged DEF WindowInv, Aside
<1> QED BY <1>1 DEF WindowInv

LEMMA LoopWindow ==
  ASSUME WindowInv, Typed', NEW w \in Worker,
         LoopStep(w) \/ ClaimTasks(w) \/ Stop(w) \/ Cancel(w) \/ CancelAnswer(w) \/ Crash(w)
  PROVE  WindowInv'
<1>1. /\ Typed /\ Bounded(w) /\ Concurrency[w] \in Nat
      /\ DOMAIN loop = Worker /\ DOMAIN quota = Worker /\ DOMAIN window = Worker
  BY WorkerAssumption DEF WindowInv, Typed
<1>2. Aside(w) /\ DOMAIN loop' = Worker /\ DOMAIN quota' = Worker
  BY <1>1 DEF LoopStep, LoopHead, IdleEnds, BatchEnds, Close, Restart, ClaimTasks, Claims, Stop,
              Cancel, CancelAnswer, Crash, Aside
<1>3. Bounded(w)'
  <2>1. CASE LoopHead(w)
    BY <1>1, <2>1, BoundedIfAsked
  <2>2. CASE ClaimTasks(w)
    BY <1>1, <2>2, BoundedIfClaimed DEF ClaimTasks
  <2>3. CASE IdleEnds(w) \/ Close(w) \/ Stop(w)
    <3>1. /\ window' = window /\ quota' = quota
          /\ loop[w] \notin {"head", "claiming", "idle"} => loop'[w] \notin {"head", "claiming", "idle"}
      BY <1>1, <2>3 DEF IdleEnds, Close, Stop
    <3>2. Sequential(w) /\ loop'[w] \in {"head", "claiming", "idle"} => Busy(w)' = {}
      BY <1>1, <3>1 DEF Bounded, Busy
    <3> QED BY <1>1, <3>1, <3>2, BoundedIfFewer
  <2>4. CASE BatchEnds(w) \/ Restart(w) \/ Crash(w)
    <3>1. window'[w] = {} /\ quota'[w] \in {0, quota[w]}
      BY <1>1, <2>4 DEF BatchEnds, Restart, Crash
    <3> QED BY <1>1, <3>1, BoundedIfFewer DEF Busy
  <2>5. CASE Cancel(w)
    <3>1. /\ quota' = quota /\ loop'[w] \in {"dead", "finishing", "unwinding"}
          /\ window' = IF loop[w] = "finishing" THEN window
                       ELSE [window EXCEPT ![w] =
                              {[e EXCEPT !.at = "unwinding"] :
                                 e \in {f \in Busy(w) : Sequential(w) => f.at # "created"}}]
      BY <1>1, <2>5 DEF Cancel
    <3>2. CASE loop[w] = "finishing"
      BY <1>1, <3>1, <3>2, BoundedIfFewer
    <3>3. CASE loop[w] # "finishing"
      <4> DEFINE S == {f \in Busy(w) : Sequential(w) => f.at # "created"}
      <4>1. S \in SUBSET Busy(w) /\ (Sequential(w) => S \subseteq Begun(w))
        BY DEF Begun
      <4>2. window'[w] = {[e EXCEPT !.at = "unwinding"] : e \in S}
        BY <1>1, <3>1, <3>3
      <4> HIDE DEF S
      <4> QED BY <1>1, <3>1, <4>1, <4>2, BoundedIfUnwinding
    <3> QED BY <3>2, <3>3
  <2>6. CASE CancelAnswer(w)
    <3>1. /\ quota' = quota /\ loop[w] = "claiming" /\ loop'[w] = "unwinding"
          /\ window'[w] = {[e EXCEPT !.at = "unwinding"] : e \in Busy(w)}
      BY <1>1, <2>6 DEF CancelAnswer
    <3>2. Sequential(w) => Busy(w) \subseteq Begun(w)
      BY <1>1, <3>1 DEF Bounded
    <3> QED BY <1>1, <3>1, <3>2, BoundedIfUnwinding
  <2> QED BY <2>1, <2>2, <2>3, <2>4, <2>5, <2>6 DEF LoopStep
<1> QED BY <1>2, <1>3, OneWorkerMoves

LEMMA ExecutionWindow ==
  ASSUME WindowInv, Typed', NEW w \in Worker, NEW e \in window[w],
         ExecutionStep(w, e) \/ Breaks(w, e)
  PROVE  WindowInv'
<1>1. /\ Typed /\ Bounded(w) /\ Concurrency[w] \in Nat
      /\ DOMAIN loop = Worker /\ DOMAIN quota = Worker /\ DOMAIN window = Worker
  BY WorkerAssumption DEF WindowInv, Typed
<1>2. loop' = loop /\ quota' = quota /\ e \in Busy(w) /\ (Sequential(w) /\ e.at = "created" => Alone(w))
  BY DEF ExecutionStep, BodyStep, BodyStarts, BodyReturns, BodyRaises, Suspends, Reports, Unwinds,
         Breaks, Busy, InFlight, Executing
<1>3. PICK at \in {"body", "returned", "raised", "suspending", "ended", "broken"} : window' = Moved(w, e, at)
  BY DEF ExecutionStep, BodyStep, BodyStarts, BodyReturns, BodyRaises, Suspends, Reports, Unwinds, Breaks
<1>4. at \in InFlight \cup {"broken", "ended"} /\ at # "created"
  BY DEF InFlight, Executing
<1>5. Bounded(w)'
  BY <1>1, <1>2, <1>3, <1>4, BoundedIfMoved
<1>6. Aside(w)
  BY <1>1, <1>2, <1>3 DEF Aside, Moved
<1> QED BY <1>1, <1>2, <1>5, <1>6, OneWorkerMoves

LEMMA NextWindow == WindowInv /\ Typed' /\ [Next]_vars => WindowInv'
<1> SUFFICES ASSUME WindowInv, Typed', [Next]_vars PROVE WindowInv'
  OBVIOUS
<1>1. CASE UNCHANGED <<loop, quota, window>>
  BY <1>1, BoundedIfUnchanged DEF WindowInv
<1>2. CASE UNCHANGED vars
  BY <1>1, <1>2 DEF vars
<1>3. ASSUME NEW t \in Task, LeaseExpires(t) \/ Wake(t) \/ CancelTask(t) \/ RetryTask(t)
      PROVE  UNCHANGED <<loop, quota, window>>
  BY <1>3 DEF LeaseExpires, Wake, CancelTask, RetryTask, proc
<1>4. ASSUME NEW w \in Worker, NEW e \in window[w], Heartbeat(w, e)
      PROVE  UNCHANGED <<loop, quota, window>>
  BY <1>4 DEF Heartbeat, proc
<1> QED BY <1>1, <1>2, <1>3, <1>4, LoopWindow, ExecutionWindow DEF Next

\* worker.py:627: a worker never has more runs in flight than its concurrency, whatever its
\* batch size, how long runs take and when it is stopped; one of concurrency 1 has begun one.
THEOREM WorkerWindowsBounded == Spec => []WindowBounded
<1>1. WindowInv => WindowBounded
  <2> SUFFICES ASSUME WindowInv, NEW w \in Worker
               PROVE  Cardinality({e \in Busy(w) : Sequential(w) => e.at # "created"}) <= Concurrency[w]
    BY DEF WindowBounded
  <2>1. Bounded(w) /\ Concurrency[w] \in Nat \ {0}
    BY WorkerAssumption DEF WindowInv
  <2>2. CASE Sequential(w)
    <3>1. {e \in Busy(w) : Sequential(w) => e.at # "created"} = Begun(w)
      BY <2>2 DEF Begun
    <3>2. Begun(w) = {} \/ \E e \in Begun(w) : Begun(w) = {e}
      BY <2>1, <2>2 DEF Bounded
    <3>3. Cardinality(Begun(w)) \in {0, 1}
      BY <3>2, FS_EmptySet, FS_Singleton
    <3> QED BY <2>1, <3>1, <3>3
  <2>3. CASE ~Sequential(w)
    <3>1. {e \in Busy(w) : Sequential(w) => e.at # "created"} = Busy(w)
      BY <2>3
    <3>2. Cardinality(Busy(w)) \in Nat /\ quota[w] \in Nat
      BY <2>1, FS_CardinalityType DEF Bounded
    <3>3. Cardinality(Busy(w)) <= Concurrency[w]
      BY <2>1, <2>3, <3>2 DEF Bounded
    <3> QED BY <3>1, <3>3
  <2> QED BY <2>2, <2>3
<1>2. DeliveryInv => Typed
  BY DEF DeliveryInv
<1> QED BY <1>1, <1>2, InitDelivery, InitWindow, NextDelivery, NextWindow, PTL DEF Spec

-----------------------------------------------------------------------------
(* The loop ends after its runs.                                            *)

\* Where a process is cancelled, it is once, and it is not asked to stop nor broken too:
\* finish_remaining_runs waits without cancelling, so a cancellation that finds the loop
\* there closes the connection under the runs.
CancelsAlone == \A s \in Scenarios :
  s["cancel"] = 0 \/ (s["cancel"] = 1 /\ s["stop"] = 0 /\ s["break"] = 0)

\* While the cancellation may come, no loop is on its way out.
Staying(w) == ~stop[w] /\ Broken(w) = {} /\ loop[w] # "finishing"
LoopInv ==
  /\ DOMAIN stop = Worker /\ left \in [Rare -> Nat]
  /\ left["cancel"] > 0 => /\ left["cancel"] = 1 /\ left["stop"] = 0 /\ left["break"] = 0
                           /\ \A w \in Worker : Staying(w)
  /\ RunsEndBeforeLoop

\* What a worker does, it does to its own loop.
LEMMA LoopAside ==
  ASSUME WindowInv, NEW w \in Worker,
         LoopStep(w) \/ ClaimTasks(w) \/ Stop(w) \/ Cancel(w) \/ CancelAnswer(w) \/ Crash(w)
  PROVE  Aside(w)
<1>1. DOMAIN loop = Worker /\ DOMAIN quota = Worker /\ DOMAIN window = Worker
  BY DEF WindowInv, Typed
<1> QED BY <1>1 DEF LoopStep, LoopHead, IdleEnds, BatchEnds, Close, Restart, ClaimTasks, Claims,
                    Stop, Cancel, CancelAnswer, Crash, Aside

\* An execution that goes on is one in flight, and leaves the loops alone.
LEMMA ExecutionAside ==
  ASSUME WindowInv, NEW w \in Worker, NEW e \in window[w], ExecutionStep(w, e) \/ Breaks(w, e)
  PROVE  /\ Aside(w) /\ e \in Busy(w) /\ loop' = loop /\ stop' = stop
         /\ \E at \in {"body", "returned", "raised", "suspending", "ended", "broken"} :
              /\ window' = Moved(w, e, at)
              /\ at = "broken" => left["break"] > 0 /\ Breaks(w, e)
<1>1. /\ e \in Busy(w) /\ loop' = loop /\ stop' = stop /\ quota' = quota
  BY DEF ExecutionStep, BodyStep, BodyStarts, BodyReturns, BodyRaises, Suspends, Reports, Unwinds,
         Breaks, Busy, InFlight, Executing
<1>2. PICK at \in {"body", "returned", "raised", "suspending", "ended", "broken"} :
        /\ window' = Moved(w, e, at)
        /\ at = "broken" => left["break"] > 0 /\ Breaks(w, e)
  BY DEF ExecutionStep, BodyStep, BodyStarts, BodyReturns, BodyRaises, Suspends, Reports, Unwinds,
         Breaks, Happens
<1>3. Aside(w)
  BY <1>1, <1>2 DEF Aside, Moved, WindowInv, Typed
<1> QED BY <1>1, <1>2, <1>3

\* The rare events that are left only get fewer.
LEMMA LeftShrinks ==
  ASSUME left \in [Rare -> Nat], [Next]_vars
  PROVE  left' \in [Rare -> Nat] /\ \A r \in Rare : left'[r] <= left[r]
<1>1. ASSUME NEW r \in Rare, Happens(r)
      PROVE  left' \in [Rare -> Nat] /\ \A q \in Rare : left'[q] <= left[q]
  BY <1>1 DEF Happens
<1>2. ASSUME UNCHANGED left
      PROVE  left' \in [Rare -> Nat] /\ \A q \in Rare : left'[q] <= left[q]
  BY <1>2
<1>3. ASSUME NEW t \in Task, LeaseExpires(t) \/ Wake(t) \/ CancelTask(t) \/ RetryTask(t)
      PROVE  UNCHANGED left \/ \E r \in Rare : Happens(r)
  BY <1>3 DEF LeaseExpires, Wake, CancelTask, RetryTask, Rare
<1>4. ASSUME NEW w \in Worker, LoopStep(w) \/ ClaimTasks(w) \/ Stop(w) \/ Cancel(w)
                               \/ CancelAnswer(w) \/ Crash(w)
      PROVE  UNCHANGED left \/ \E r \in Rare : Happens(r)
  BY <1>4 DEF LoopStep, LoopHead, IdleEnds, BatchEnds, Close, Restart, ClaimTasks, Claims, Stop,
              Cancel, CancelAnswer, Crash, Rare
<1>5. ASSUME NEW w \in Worker, NEW e \in window[w],
             ExecutionStep(w, e) \/ Heartbeat(w, e) \/ Breaks(w, e)
      PROVE  UNCHANGED left \/ \E r \in Rare : Happens(r)
  BY <1>5 DEF ExecutionStep, BodyStep, BodyStarts, BodyReturns, BodyRaises, Suspends, Reports,
              Unwinds, Breaks, Heartbeat, Rare
<1>6. CASE UNCHANGED vars
  BY <1>2, <1>6 DEF vars
<1> QED BY <1>1, <1>2, <1>3, <1>4, <1>5, <1>6 DEF Next

LEMMA NextLoop == WindowInv /\ LoopInv /\ [Next]_vars => LoopInv'
<1> SUFFICES ASSUME WindowInv, LoopInv, [Next]_vars PROVE LoopInv'
  OBVIOUS
<1>1. left' \in [Rare -> Nat] /\ \A r \in Rare : left'[r] <= left[r]
  BY LeftShrinks DEF LoopInv
<1>2. DOMAIN loop = Worker /\ DOMAIN stop = Worker /\ Typed /\ left \in [Rare -> Nat]
  BY DEF WindowInv, LoopInv
<1>3. {"cancel", "stop", "break"} \subseteq Rare
  BY DEF Rare
<1> DEFINE Out(w) == loop'[w] \in Gone => Busy(w)' = {}
           Stays(w) == left'["cancel"] > 0 => Staying(w)'
<1>4. ASSUME DOMAIN stop' = Worker, \A w \in Worker : Out(w) /\ Stays(w) PROVE LoopInv'
  BY <1>1, <1>3, <1>4 DEF LoopInv, RunsEndBeforeLoop
<1>5. ASSUME NEW v \in Worker, window'[v] = window[v], loop'[v] = loop[v], stop'[v] = stop[v]
      PROVE  Out(v) /\ Stays(v)
  BY <1>1, <1>3, <1>5 DEF LoopInv, RunsEndBeforeLoop, Busy, Broken, Staying
<1>6. CASE UNCHANGED <<window, loop, stop>>
  BY <1>2, <1>4, <1>5, <1>6
<1>7. ASSUME NEW w \in Worker,
             LoopStep(w) \/ ClaimTasks(w) \/ Stop(w) \/ Cancel(w) \/ CancelAnswer(w) \/ Crash(w)
      PROVE  LoopInv'
  <2>1. Aside(w) /\ DOMAIN stop' = Worker /\ \A v \in Worker \ {w} : stop'[v] = stop[v]
    BY <1>2, <1>7, LoopAside DEF LoopStep, LoopHead, IdleEnds, BatchEnds, Close, Restart,
         ClaimTasks, Claims, Stop, Cancel, CancelAnswer, Crash
  <2>2. Out(w)
    <3>1. CASE LoopHead(w) \/ IdleEnds(w) \/ Restart(w) \/ ClaimTasks(w) \/ CancelAnswer(w)
      BY <1>2, <3>1 DEF LoopHead, IdleEnds, Restart, ClaimTasks, Claims, CancelAnswer, Gone
    <3>2. CASE BatchEnds(w) \/ Crash(w)
      BY <1>2, <3>2 DEF BatchEnds, Crash, Busy, Typed
    <3>3. CASE Close(w)
      BY <3>3 DEF Close, Settled, Busy
    <3>4. CASE Stop(w)
      BY <3>4 DEF Stop, Gone
    <3>5. CASE Cancel(w)
      <4>1. left["cancel"] > 0
        BY <3>5 DEF Cancel, Happens
      <4>2. loop[w] # "finishing"
        BY <4>1 DEF LoopInv, Staying
      <4> QED BY <1>2, <3>5, <4>2 DEF Cancel, Gone
    <3> QED BY <1>7, <3>1, <3>2, <3>3, <3>4, <3>5 DEF LoopStep
  <2>3. ASSUME left'["cancel"] > 0 PROVE Staying(w)'
    <3>1. /\ left["cancel"] = 1 /\ left["stop"] = 0 /\ ~stop[w] /\ Broken(w) = {}
          /\ loop[w] # "finishing"
      BY <1>1, <1>2, <1>3, <2>3 DEF LoopInv, Staying
    <3>2. ~(Stop(w) \/ Cancel(w) \/ CancelAnswer(w))
      BY <1>2, <1>3, <2>3, <3>1 DEF Stop, Cancel, CancelAnswer, Happens
    <3>3. CASE LoopHead(w)
      <4>1. loop'[w] # "finishing" /\ stop' = stop /\ window'[w] \subseteq window[w]
        BY <1>2, <3>1, <3>3 DEF LoopHead, MayStop, Busy, Typed
      <4> QED BY <3>1, <4>1 DEF Staying, Broken
    <3>4. CASE IdleEnds(w) \/ Close(w)
      BY <1>2, <3>1, <3>4 DEF IdleEnds, Close, Staying, Broken
    <3>5. CASE BatchEnds(w) \/ Restart(w) \/ Crash(w)
      <4>1. window'[w] = {} /\ ~stop'[w] /\ loop'[w] \in {"dead", "head"}
        BY <1>2, <3>1, <3>5 DEF BatchEnds, Restart, Crash, Typed
      <4> QED BY <4>1 DEF Staying, Broken
    <3>6. CASE ClaimTasks(w)
      <4>1. PICK B \in SUBSET Task : \E E \in SUBSET Task : Claims(w, E, B)
        BY <3>6 DEF ClaimTasks
      <4>2. /\ window'[w] = window[w] \cup Created(B) /\ stop' = stop
            /\ loop'[w] \in {"idle", "batch", "head"}
        BY <1>2, <4>1 DEF Claims, Typed
      <4>3. \A e \in Created(B) : e.at # "broken"
        BY DEF Created
      <4> QED BY <3>1, <4>2, <4>3 DEF Staying, Broken
    <3> QED BY <1>7, <3>2, <3>3, <3>4, <3>5, <3>6 DEF LoopStep
  <2> QED BY <1>4, <1>5, <2>1, <2>2, <2>3 DEF Aside
<1>8. ASSUME NEW w \in Worker, NEW e \in window[w], ExecutionStep(w, e) \/ Breaks(w, e)
      PROVE  LoopInv'
  <2>1. /\ Aside(w) /\ e \in Busy(w) /\ loop' = loop /\ stop' = stop
        /\ \E at \in {"body", "returned", "raised", "suspending", "ended", "broken"} :
             /\ window' = Moved(w, e, at)
             /\ at = "broken" => left["break"] > 0 /\ Breaks(w, e)
    BY <1>8, ExecutionAside
  <2>2. Out(w)
    BY <2>1 DEF LoopInv, RunsEndBeforeLoop
  <2>3. ASSUME left'["cancel"] > 0 PROVE Staying(w)'
    <3>1. /\ left["cancel"] = 1 /\ left["break"] = 0 /\ ~stop[w] /\ Broken(w) = {}
          /\ loop[w] # "finishing"
      BY <1>1, <1>2, <1>3, <2>3 DEF LoopInv, Staying
    <3>2. PICK at \in {"body", "returned", "raised", "suspending", "ended"} : window' = Moved(w, e, at)
      BY <2>1, <3>1
    <3>3. [e EXCEPT !.at = at].at = at
      BY <1>2 DEF Typed
    <3>4. Broken(w)' = {}
      BY <1>2, <3>1, <3>2, <3>3 DEF Broken, Moved, Typed
    <3> QED BY <2>1, <3>1, <3>4 DEF Staying
  <2> QED BY <1>2, <1>4, <1>5, <2>1, <2>2, <2>3 DEF Aside
<1>9. CASE UNCHANGED vars
  BY <1>6, <1>9 DEF vars
<1>10. ASSUME NEW t \in Task, LeaseExpires(t) \/ Wake(t) \/ CancelTask(t) \/ RetryTask(t)
       PROVE  LoopInv'
  BY <1>6, <1>10 DEF LeaseExpires, Wake, CancelTask, RetryTask, proc
<1>11. ASSUME NEW w \in Worker, NEW e \in window[w], Heartbeat(w, e)
       PROVE  LoopInv'
  BY <1>6, <1>11 DEF Heartbeat, proc
<1> QED BY <1>7, <1>8, <1>9, <1>10, <1>11 DEF Next

\* worker.py:645: "none of them may outlive the loop": the connection is closed when no run
\* is in flight, whatever stops, crashes, breaks and lone cancellations there are.
THEOREM RunsEndBeforeTheirLoop ==
  ASSUME CancelsAlone
  PROVE  Spec => []RunsEndBeforeLoop
<1>1. Init => LoopInv
  <2> SUFFICES ASSUME Init PROVE LoopInv
    OBVIOUS
  <2>1. /\ DOMAIN stop = Worker /\ left \in [Rare -> Nat] /\ left \in Scenarios
        /\ \A w \in Worker : Staying(w) /\ Busy(w) = {}
    BY WorkerAssumption DEF Init, Staying, Busy, Broken
  <2> QED BY <2>1, CancelsAlone DEF LoopInv, CancelsAlone, RunsEndBeforeLoop
<1>2. LoopInv => RunsEndBeforeLoop
  BY DEF LoopInv
<1>3. DeliveryInv => Typed
  BY DEF DeliveryInv
<1> QED BY <1>1, <1>2, <1>3, InitDelivery, InitWindow, NextDelivery, NextWindow, NextLoop, PTL DEF Spec

-----------------------------------------------------------------------------
(* A loop that returned leaves nothing claimed.                             *)

\* Where a worker is asked to stop, it does not crash, break or get cancelled too: a run
\* that such an end leaves claimed is not the next process's to finish.
StopsAlone == \A s \in Scenarios :
  \/ s["crash"] = 0 /\ s["cancel"] = 0 /\ s["break"] = 0
  \/ s["stop"] = 0 /\ s["cancel"] <= 1

\* Where nothing but stops disturbs the workers, a running task is executed by its holder.
Executed(w, t) == \E e \in window[w] : e.task = t /\ e.n = attempt[t] /\ e.at \in Executing
HoldersExecute == \A w \in Worker, t \in Task :
  holder[t] = w /\ state[t] = "running" => Executed(w, t)
Quiet(w) ==
  /\ loop[w] # "unwinding" /\ (loop[w] \in Gone => Busy(w) = {})
  /\ \A e \in window[w] : e.at \notin {"broken", "unwinding"}
Undisturbed ==
  /\ left \in [Rare -> Nat] /\ left["crash"] = 0 /\ left["cancel"] = 0 /\ left["break"] = 0
  /\ (\A w \in Worker : Quiet(w)) /\ HoldersExecute

\* Where nobody stops, a loop that ends raises.
Unasked(w) ==
  /\ ~stop[w] /\ loop[w] # "closed"
  /\ loop[w] = "finishing" => Broken(w) # {}
  /\ loop[w] = "unwinding" => left["cancel"] = 0
Unstopped ==
  /\ left \in [Rare -> Nat] /\ left["stop"] = 0 /\ left["cancel"] <= 1
  /\ DOMAIN stop = Worker /\ \A w \in Worker : Unasked(w)

\* No task begins to run, and the executions of those that run go on.
LEMMA HoldersStay ==
  ASSUME HoldersExecute,
         \A t \in Task : state'[t] = "running" =>
           state[t] = "running" /\ attempt'[t] = attempt[t] /\ holder'[t] = holder[t],
         \A w \in Worker : \A e \in window[w] :
           e.at \in Executing /\ state'[e.task] = "running" /\ e.n = attempt[e.task] =>
             \E f \in window'[w] : f.task = e.task /\ f.n = e.n /\ f.at \in Executing
  PROVE  HoldersExecute'
BY DEF HoldersExecute, Executed

LEMMA ClaimHolders ==
  ASSUME WindowInv, HoldersExecute, NEW w \in Worker, ClaimTasks(w)
  PROVE  HoldersExecute'
<1>1. PICK E \in SUBSET Task, B \in SUBSET Task : Claims(w, E, B)
  BY DEF ClaimTasks
<1>2. Typed
  BY DEF WindowInv
<1>3. /\ window'[w] = window[w] \cup Created(B) /\ Sweeps(w, E, B)
      /\ \A v \in Worker \ {w} : window'[v] = window[v]
  BY <1>1, <1>2 DEF Claims, Typed
<1>4. \A t \in Task : t \notin B /\ state'[t] = "running" =>
        state[t] = "running" /\ attempt'[t] = attempt[t] /\ holder'[t] = holder[t]
  <2>1. \A t \in Task : FailStates(E)[t] = IF t \in E THEN FailedState(t) ELSE state[t]
    BY DEF FailStates
  <2> QED BY <1>2, <1>3, <2>1, FailedStateIs DEF Sweeps, FailAttempts
<1>5. \A t \in B : holder'[t] = w /\ [task |-> t, n |-> attempt'[t], at |-> "created"] \in window'[w]
  BY <1>3 DEF Sweeps, Created
<1>6. ASSUME NEW v \in Worker, NEW t \in Task, holder'[t] = v, state'[t] = "running"
      PROVE  Executed(v, t)'
  <2>1. CASE t \in B
    <3>1. v = w /\ [task |-> t, n |-> attempt'[t], at |-> "created"] \in window'[v]
      BY <1>5, <1>6, <2>1
    <3>2. \E e \in window'[v] : e.task = t /\ e.n = attempt'[t] /\ e.at = "created"
      BY <3>1
    <3> QED BY <3>2 DEF Executed, Executing
  <2>2. CASE t \notin B
    <3>1. Executed(v, t) /\ attempt'[t] = attempt[t]
      BY <1>4, <1>6, <2>2 DEF HoldersExecute
    <3> QED BY <1>3, <3>1 DEF Executed
  <2> QED BY <2>1, <2>2
<1> QED BY <1>6 DEF HoldersExecute

LEMMA TaskHolders ==
  ASSUME WindowInv, HoldersExecute, NEW t \in Task,
         LeaseExpires(t) \/ Wake(t) \/ CancelTask(t) \/ RetryTask(t)
  PROVE  HoldersExecute'
<1>1. window' = window
  BY DEF LeaseExpires, Wake, CancelTask, RetryTask, proc
<1>2. \A s \in Task : state'[s] = "running" =>
        state[s] = "running" /\ attempt'[s] = attempt[s] /\ holder'[s] = holder[s]
  BY DEF LeaseExpires, Wake, CancelTask, RetryTask, Leaves, WindowInv, Typed
<1> QED BY <1>1, <1>2, HoldersStay

LEMMA ExecutionHolders ==
  ASSUME WindowInv, HoldersExecute, NEW w \in Worker, NEW e \in window[w], ExecutionStep(w, e)
  PROVE  HoldersExecute'
<1>1. Typed /\ e.task \in Task /\ e \in window[w]
  BY DEF WindowInv, Typed
<1>2. ASSUME NEW at \in InFlight \cup {"ended"}, window' = Moved(w, e, at),
             at \in Executing \/ state'[e.task] # "running" \/ e.at \notin Executing
                              \/ e.n # attempt[e.task]
      PROVE  \A v \in Worker : \A d \in window[v] :
               d.at \in Executing /\ state'[d.task] = "running" /\ d.n = attempt[d.task] =>
                 \E f \in window'[v] : f.task = d.task /\ f.n = d.n /\ f.at \in Executing
  <2> DEFINE f == [e EXCEPT !.at = at]
  <2>1. f.task = e.task /\ f.n = e.n /\ f.at = at
    BY <1>1 DEF Typed
  <2> HIDE DEF f
  <2>2. \A v \in Worker : window'[v] = IF v = w THEN (window[w] \ {e}) \cup {f} ELSE window[v]
    BY <1>1, <1>2 DEF Moved, Typed, f
  <2> QED BY <1>2, <2>1, <2>2
<1>3. CASE BodyStarts(w, e) \/ BodyReturns(w, e) \/ BodyRaises(w, e) \/ Unwinds(w, e)
  <2>1. UNCHANGED <<state, attempt, holder>>
    BY <1>3 DEF BodyStarts, BodyReturns, BodyRaises, Unwinds, queue
  <2>2. \E at \in {"body", "returned", "raised", "ended"} :
          window' = Moved(w, e, at) /\ (at \in Executing \/ e.at \notin Executing)
    BY <1>3 DEF BodyStarts, BodyReturns, BodyRaises, Unwinds, Executing
  <2>3. {"body", "returned", "raised", "ended"} \subseteq InFlight \cup {"ended"}
    BY DEF InFlight, Executing
  <2> QED BY <1>2, <2>1, <2>2, <2>3, HoldersStay
<1>4. CASE Suspends(w, e)
  <2>1. /\ window' = Moved(w, e, "suspending") /\ "suspending" \in InFlight
        /\ state'[e.task] # "running"
        /\ \A s \in Task : state'[s] = "running" =>
             state[s] = "running" /\ attempt'[s] = attempt[s] /\ holder'[s] = holder[s]
    BY <1>1, <1>4 DEF Suspends, Leaves, Typed, InFlight
  <2> QED BY <1>2, <2>1, HoldersStay
<1>5. CASE Reports(w, e)
  <2>1. window' = Moved(w, e, "ended")
    BY <1>5 DEF Reports
  <2>2. CASE ~Current(e)
    <3>1. UNCHANGED <<state, attempt, holder>>
      BY <1>5, <2>2 DEF Reports, queue
    <3>2. state'[e.task] # "running" \/ e.n # attempt[e.task]
      BY <2>2, <3>1 DEF Current
    <3> QED BY <1>2, <2>1, <3>1, <3>2, HoldersStay
  <2>3. CASE Current(e)
    <3>1. PICK to \in {"completed", FailedState(e.task)} : Leaves(e.task, to)
      BY <1>5, <2>3 DEF Reports
    <3>2. \A s \in Task \ {e.task} : attempt'[s] = attempt[s]
      BY <1>5, <2>3 DEF Reports, FailAttempts
    <3>3. /\ state'[e.task] # "running"
          /\ \A s \in Task : state'[s] = "running" =>
               state[s] = "running" /\ attempt'[s] = attempt[s] /\ holder'[s] = holder[s]
      BY <1>1, <3>1, <3>2, FailedStateIs DEF Leaves, Typed
    <3> QED BY <1>2, <2>1, <3>3, HoldersStay
  <2> QED BY <2>2, <2>3
<1> QED BY <1>3, <1>4, <1>5 DEF ExecutionStep, BodyStep

\* What the holders execute changes only by a claim, a report, a sleep or a loop that
\* throws its window away; an undisturbed loop does that where nothing is in flight.
LEMMA LoopHolders ==
  ASSUME WindowInv, HoldersExecute, NEW w \in Worker, Quiet(w), LoopStep(w) \/ Stop(w)
  PROVE  HoldersExecute'
<1>1. /\ UNCHANGED <<state, attempt, holder>> /\ Typed
  BY DEF LoopStep, LoopHead, IdleEnds, BatchEnds, Close, Restart, Stop, queue, WindowInv
<1>2. ASSUME NEW e \in window[w], e.at \in Executing PROVE e \in window'[w]
  <2>1. e \in Busy(w) /\ Broken(w) = {}
    BY <1>2 DEF Busy, InFlight, Quiet, Broken
  <2> QED BY <1>1, <2>1 DEF LoopStep, LoopHead, IdleEnds, BatchEnds, BatchOver, Close, Restart,
                            Stop, Quiet, Typed
<1>3. \A v \in Worker \ {w} : window'[v] = window[v]
  BY <1>1 DEF LoopStep, LoopHead, IdleEnds, BatchEnds, Close, Restart, Stop, Typed
<1> QED BY <1>1, <1>2, <1>3, HoldersStay

LEMMA LoopQuiet ==
  ASSUME WindowInv, NEW w \in Worker, Quiet(w), LoopStep(w) \/ ClaimTasks(w) \/ Stop(w)
  PROVE  Quiet(w)'
<1>1. Typed /\ DOMAIN loop = Worker
  BY DEF WindowInv
<1>2. \A B : \A e \in Created(B) : e.at = "created"
  BY DEF Created
<1>3. CASE LoopHead(w) \/ IdleEnds(w)
  BY <1>1, <1>3 DEF LoopHead, IdleEnds, Quiet, Busy, Gone, Typed
<1>4. CASE ClaimTasks(w)
  <2>1. PICK B \in SUBSET Task : window'[w] = window[w] \cup Created(B)
    BY <1>1, <1>4 DEF ClaimTasks, Claims, Typed
  <2>2. loop'[w] \in {"idle", "batch", "head"}
    BY <1>1, <1>4 DEF ClaimTasks, Claims
  <2> QED BY <1>2, <2>1, <2>2 DEF Quiet, Gone
<1>5. CASE BatchEnds(w) \/ Restart(w)
  <2>1. window'[w] = {} /\ loop'[w] \in {"dead", "head"}
    BY <1>1, <1>5 DEF BatchEnds, Restart, Typed
  <2> QED BY <2>1 DEF Quiet, Busy
<1>6. CASE Close(w)
  <2>1. /\ window' = window /\ loop'[w] \in Gone /\ Busy(w) = {} /\ Busy(w)' = Busy(w)
    BY <1>1, <1>6 DEF Close, Settled, Gone, Busy
  <2> QED BY <2>1 DEF Quiet, Gone
<1>7. CASE Stop(w)
  BY <1>7 DEF Stop, Quiet, Busy
<1> QED BY <1>3, <1>4, <1>5, <1>6, <1>7 DEF LoopStep

LEMMA NextUndisturbed == WindowInv /\ Undisturbed /\ [Next]_vars => Undisturbed'
<1> SUFFICES ASSUME WindowInv, Undisturbed, [Next]_vars PROVE Undisturbed'
  OBVIOUS
<1>1. /\ left' \in [Rare -> Nat] /\ left'["crash"] = 0 /\ left'["cancel"] = 0 /\ left'["break"] = 0
  <2>1. {"crash", "cancel", "break"} \subseteq Rare
    BY DEF Rare
  <2>2. left' \in [Rare -> Nat] /\ \A r \in Rare : left'[r] <= left[r]
    BY LeftShrinks DEF Undisturbed
  <2>3. \A r \in Rare : left[r] \in Nat /\ left'[r] \in Nat
    BY <2>2 DEF Undisturbed
  <2> QED BY <2>1, <2>2, <2>3 DEF Undisturbed
<1>2. Typed /\ HoldersExecute /\ \A w \in Worker : Quiet(w)
  BY DEF WindowInv, Undisturbed
<1>3. ASSUME NEW v \in Worker, window'[v] = window[v], loop'[v] = loop[v] PROVE Quiet(v)'
  <2>1. Busy(v)' = Busy(v) /\ Quiet(v)
    BY <1>2, <1>3 DEF Busy
  <2> QED BY <1>3, <2>1 DEF Quiet
<1>4. ASSUME NEW w \in Worker, Aside(w), Quiet(w)', HoldersExecute' PROVE Undisturbed'
  BY <1>1, <1>3, <1>4 DEF Aside, Undisturbed
<1>5. CASE UNCHANGED <<window, loop>> /\ HoldersExecute'
  BY <1>1, <1>3, <1>5 DEF Undisturbed
<1>6. ASSUME NEW w \in Worker,
             LoopStep(w) \/ ClaimTasks(w) \/ Stop(w) \/ Cancel(w) \/ CancelAnswer(w) \/ Crash(w)
      PROVE  Undisturbed'
  <2>1. LoopStep(w) \/ ClaimTasks(w) \/ Stop(w)
    BY <1>6 DEF Cancel, CancelAnswer, Crash, Happens, Undisturbed
  <2> QED BY <1>2, <1>4, <1>6, <2>1, LoopAside, LoopQuiet, LoopHolders, ClaimHolders
<1>7. ASSUME NEW w \in Worker, NEW e \in window[w], ExecutionStep(w, e) \/ Breaks(w, e)
      PROVE  Undisturbed'
  <2>1. /\ Aside(w) /\ e \in Busy(w) /\ loop' = loop
        /\ \E at \in {"body", "returned", "raised", "suspending", "ended", "broken"} :
             /\ window' = Moved(w, e, at)
             /\ at = "broken" => left["break"] > 0 /\ Breaks(w, e)
    BY <1>7, ExecutionAside
  <2>2. left["break"] = 0
    BY DEF Undisturbed
  <2>3. ExecutionStep(w, e)
    BY <1>7, <2>2 DEF Breaks, Happens
  <2>4. PICK at \in {"body", "returned", "raised", "suspending", "ended"} : window' = Moved(w, e, at)
    BY <2>1, <2>2
  <2>5. [e EXCEPT !.at = at].at = at /\ window'[w] = (window[w] \ {e}) \cup {[e EXCEPT !.at = at]}
    BY <1>2, <2>4 DEF Moved, Typed
  <2>6. loop[w] \notin Gone /\ loop'[w] = loop[w]
    BY <1>2, <2>1 DEF Quiet
  <2>7. Quiet(w)'
    BY <1>2, <2>4, <2>5, <2>6 DEF Quiet
  <2> QED BY <1>2, <1>4, <2>1, <2>3, <2>7, ExecutionHolders
<1>8. CASE UNCHANGED vars
  <2>1. UNCHANGED <<state, attempt, holder, window, loop>>
    BY <1>8 DEF vars
  <2> QED BY <1>2, <1>5, <2>1, HoldersStay
<1>9. ASSUME NEW t \in Task, LeaseExpires(t) \/ Wake(t) \/ CancelTask(t) \/ RetryTask(t)
      PROVE  Undisturbed'
  <2>1. UNCHANGED <<window, loop>>
    BY <1>9 DEF LeaseExpires, Wake, CancelTask, RetryTask, proc
  <2> QED BY <1>2, <1>5, <1>9, <2>1, TaskHolders
<1>10. ASSUME NEW w \in Worker, NEW e \in window[w], Heartbeat(w, e)
       PROVE  Undisturbed'
  <2>1. UNCHANGED <<state, attempt, holder, window, loop>>
    BY <1>10 DEF Heartbeat, proc
  <2> QED BY <1>2, <1>5, <2>1, HoldersStay
<1> QED BY <1>6, <1>7, <1>8, <1>9, <1>10 DEF Next

LEMMA NextUnstopped == WindowInv /\ Unstopped /\ [Next]_vars => Unstopped'
<1> SUFFICES ASSUME WindowInv, Unstopped, [Next]_vars PROVE Unstopped'
  OBVIOUS
<1>1. /\ left' \in [Rare -> Nat] /\ left'["stop"] = 0 /\ left'["cancel"] <= left["cancel"]
      /\ left["cancel"] \in Nat /\ left'["cancel"] \in Nat
  <2>1. {"stop", "cancel"} \subseteq Rare
    BY DEF Rare
  <2>2. left' \in [Rare -> Nat] /\ \A r \in Rare : left'[r] <= left[r]
    BY LeftShrinks DEF Unstopped
  <2>3. \A r \in Rare : left[r] \in Nat /\ left'[r] \in Nat
    BY <2>2 DEF Unstopped
  <2> QED BY <2>1, <2>2, <2>3 DEF Unstopped
<1>2. /\ Typed /\ DOMAIN loop = Worker /\ DOMAIN stop = Worker /\ left["stop"] = 0
      /\ left["cancel"] <= 1 /\ \A w \in Worker : Unasked(w)
  BY DEF WindowInv, Unstopped
<1>3. ASSUME NEW v \in Worker, window'[v] = window[v], loop'[v] = loop[v], stop'[v] = stop[v]
      PROVE  Unasked(v)'
  <2>1. Broken(v)' = Broken(v) /\ Unasked(v)
    BY <1>2, <1>3 DEF Broken
  <2> QED BY <1>1, <1>3, <2>1 DEF Unasked
<1>4. ASSUME NEW w \in Worker, Aside(w), Unasked(w)', DOMAIN stop' = Worker,
             \A v \in Worker \ {w} : stop'[v] = stop[v]
      PROVE  Unstopped'
  BY <1>1, <1>2, <1>3, <1>4 DEF Aside, Unstopped
<1>5. CASE UNCHANGED <<window, loop, stop>>
  BY <1>1, <1>2, <1>3, <1>5 DEF Unstopped
<1>6. ASSUME NEW w \in Worker,
             LoopStep(w) \/ ClaimTasks(w) \/ Stop(w) \/ Cancel(w) \/ CancelAnswer(w) \/ Crash(w)
      PROVE  Unstopped'
  <2>1. ~Stop(w)
    BY <1>2 DEF Stop, Happens
  <2>2. Aside(w) /\ DOMAIN stop' = Worker /\ \A v \in Worker \ {w} : stop'[v] = stop[v]
    BY <1>2, <1>6, LoopAside DEF LoopStep, LoopHead, IdleEnds, BatchEnds, Close, Restart,
         ClaimTasks, Claims, Stop, Cancel, CancelAnswer, Crash
  <2>3. Unasked(w) /\ ~stop[w]
    BY <1>2 DEF Unasked
  <2>4. ASSUME LoopHead(w) PROVE Unasked(w)'
    <3>1. /\ loop'[w] \in {"idle", "claiming"} \/ (loop'[w] = "finishing" /\ Broken(w) # {}
                                                   /\ window' = window)
          /\ stop' = stop
      BY <1>2, <2>3, <2>4 DEF LoopHead, MayStop
    <3> QED BY <2>3, <3>1 DEF Unasked, Broken
  <2>5. ASSUME IdleEnds(w) \/ BatchEnds(w) \/ Restart(w) \/ Crash(w) \/ ClaimTasks(w) PROVE Unasked(w)'
    <3>1. loop'[w] \in {"head", "dead", "idle", "batch"} /\ ~stop'[w]
      BY <1>2, <2>3, <2>5 DEF IdleEnds, BatchEnds, Restart, Crash, ClaimTasks, Claims
    <3> QED BY <3>1 DEF Unasked
  <2>6. ASSUME Close(w) PROVE Unasked(w)'
    <3>1. loop'[w] = "dead" /\ stop' = stop
      BY <1>2, <2>3, <2>6 DEF Close, Unasked
    <3> QED BY <2>3, <3>1 DEF Unasked
  <2>7. ASSUME Cancel(w) \/ CancelAnswer(w) PROVE Unasked(w)'
    <3>1. left["cancel"] > 0 /\ left'["cancel"] = left["cancel"] - 1 /\ stop' = stop
      <4>1. "cancel" \in Rare /\ DOMAIN left = Rare
        BY DEF Rare, Unstopped
      <4> QED BY <2>7, <4>1 DEF Cancel, CancelAnswer, Happens
    <3>2. left'["cancel"] = 0 /\ loop[w] # "unwinding"
      BY <1>1, <1>2, <2>3, <3>1 DEF Unasked
    <3>3. loop'[w] \in {"dead", "unwinding"}
      BY <1>2, <2>7, <3>2 DEF Cancel, CancelAnswer
    <3> QED BY <2>3, <3>1, <3>2, <3>3 DEF Unasked
  <2> QED BY <1>4, <1>6, <2>1, <2>2, <2>4, <2>5, <2>6, <2>7 DEF LoopStep
<1>7. ASSUME NEW w \in Worker, NEW e \in window[w], ExecutionStep(w, e) \/ Breaks(w, e)
      PROVE  Unstopped'
  <2>1. Aside(w) /\ e \in Busy(w) /\ loop' = loop /\ stop' = stop /\ \E at : window' = Moved(w, e, at)
    BY <1>7, ExecutionAside
  <2>2. e \notin Broken(w)
    BY <2>1 DEF Busy, Broken, InFlight, Executing
  <2>3. Broken(w) \subseteq Broken(w)'
    BY <1>2, <2>1, <2>2 DEF Broken, Moved, Typed
  <2>4. Unasked(w)'
    BY <1>1, <1>2, <2>1, <2>3 DEF Unasked
  <2> QED BY <1>2, <1>4, <2>1, <2>4
<1>8. CASE UNCHANGED vars
  BY <1>5, <1>8 DEF vars
<1>9. ASSUME NEW t \in Task, LeaseExpires(t) \/ Wake(t) \/ CancelTask(t) \/ RetryTask(t)
      PROVE  Unstopped'
  BY <1>5, <1>9 DEF LeaseExpires, Wake, CancelTask, RetryTask, proc
<1>10. ASSUME NEW w \in Worker, NEW e \in window[w], Heartbeat(w, e)
       PROVE  Unstopped'
  BY <1>5, <1>10 DEF Heartbeat, proc
<1> QED BY <1>6, <1>7, <1>8, <1>9, <1>10 DEF Next

\* worker.py:650: "a stop means stop CLAIMING": the loop that returns has finished what it
\* owned, whatever leases expired, sweeps and sleeps there were; no task waits for the end of
\* a lease of a worker that is no more.
THEOREM StopsStrandNothing ==
  ASSUME StopsAlone
  PROVE  Spec => []StopStrandsNothing
<1>1. Init => Undisturbed \/ Unstopped
  <2> SUFFICES ASSUME Init PROVE Undisturbed \/ Unstopped
    OBVIOUS
  <2>1. /\ DOMAIN stop = Worker /\ left \in [Rare -> Nat] /\ left \in Scenarios
        /\ \A w \in Worker : Unasked(w) /\ Quiet(w)
    BY WorkerAssumption DEF Init, Unasked, Quiet, Busy, Broken, Gone
  <2>2. HoldersExecute
    BY DEF Init, HoldersExecute
  <2> QED BY <2>1, <2>2, StopsAlone DEF Undisturbed, Unstopped, StopsAlone
<1>2. Undisturbed \/ Unstopped => StopStrandsNothing
  <2> SUFFICES ASSUME Undisturbed \/ Unstopped, NEW w \in Worker, NEW t \in Task,
                      loop[w] = "closed", state[t] = "running", holder[t] = w
               PROVE  FALSE
    BY DEF StopStrandsNothing
  <2>1. Undisturbed
    BY DEF Unstopped, Unasked
  <2>2. Busy(w) = {} /\ Executed(w, t)
    BY <2>1 DEF Undisturbed, Quiet, Gone, HoldersExecute
  <2> QED BY <2>2 DEF Executed, Busy, InFlight
<1>3. DeliveryInv => Typed
  BY DEF DeliveryInv
<1> QED BY <1>1, <1>2, <1>3, InitDelivery, InitWindow, NextDelivery, NextWindow, NextUndisturbed,
           NextUnstopped, PTL DEF Spec

-----------------------------------------------------------------------------
(* A failure that was announced.                                            *)

\* retry_task adds an attempt to a task whatever was said of it.
NoRetries == \A s \in Scenarios : s["retry"] = 0

\* Of an attempt that was announced as the last one, none is to come, and the execution
\* that announced it has nothing left to report but its failure.
Over(t) == attempt[t] = MaxAttempts /\ state[t] \notin {"completed"} \cup Parked
Announced(t, n) ==
  /\ t \in Task /\ n = attempt[t] /\ Over(t)
  /\ \A w \in Worker : \A e \in window[w] :
       e.task = t /\ e.n = n /\ e.at \in Executing => e.at = "raised"

FinalInv ==
  /\ left \in [Rare -> Nat] /\ left["retry"] = 0
  /\ \A t \in Task : attempt[t] <= MaxAttempts
  /\ \A w \in Worker : \A e \in window[w] :
       e.at \in Executing /\ e.n = attempt[e.task] => state[e.task] # "completed"
  /\ \A f \in finished : Announced(f[1], f[2])

\* What most steps do to a task: attempts stay within their number, a task that is over
\* stays so, and none completes.
EndsStay ==
  /\ \A t \in Task : attempt'[t] >= attempt[t] /\ attempt'[t] <= MaxAttempts
  /\ \A t \in Task : Over(t) => Over(t)'
  /\ \A t \in Task : state'[t] = "completed" => state[t] = "completed"

\* An execution is of an attempt that its task has reached.
LEMMA NoneAhead ==
  ASSUME DeliveryInv, NEW w \in Worker, NEW e \in window[w], e.at \in Executing
  PROVE  /\ e.task \in Task /\ e.n \in Nat /\ attempt[e.task] \in Nat /\ e.n <= attempt[e.task]
         /\ e.n = attempt[e.task] => state[e.task] \notin Parked
BY DEF DeliveryInv, Typed, HeldOrOvertaken, Overtaken

LEMMA LimitReached ==
  ASSUME Typed, NEW t \in Task, attempt[t] <= MaxAttempts
  PROVE  /\ attempt[t] = MaxAttempts => FailedState(t) = "failed"
         /\ FailedState(t) = "pending" => attempt[t] + 1 <= MaxAttempts
<1>1. attempt[t] \in Nat /\ MaxAttempts \in Nat \ {0}
  BY WorkerAssumption DEF Typed
<1> QED BY <1>1 DEF FailedState, Limit

LEMMA FinalStays ==
  ASSUME DeliveryInv, FinalInv, EndsStay, left' \in [Rare -> Nat], left'["retry"] = 0,
         Typed', finished' = finished,
         \A w \in Worker : \A e \in window'[w] : e.at \in Executing => e \in window[w]
  PROVE  FinalInv'
<1>1. ASSUME NEW w \in Worker, NEW e \in window'[w], e.at \in Executing, e.n = attempt'[e.task]
      PROVE  state'[e.task] # "completed"
  <2>1. e \in window[w] /\ e.task \in Task /\ e.n <= attempt[e.task]
    BY <1>1, NoneAhead
  <2>2. attempt[e.task] \in Nat /\ attempt'[e.task] \in Nat /\ attempt'[e.task] >= attempt[e.task]
    BY <2>1 DEF DeliveryInv, Typed, EndsStay
  <2>3. e.n = attempt[e.task]
    BY <1>1, <2>1, <2>2
  <2> QED BY <1>1, <2>1, <2>3 DEF FinalInv, EndsStay
<1>2. ASSUME NEW f \in finished PROVE Announced(f[1], f[2])'
  <2>1. Announced(f[1], f[2])
    BY DEF FinalInv
  <2>2. Over(f[1])' /\ attempt'[f[1]] = attempt[f[1]]
    BY <2>1 DEF Announced, EndsStay, Over
  <2> QED BY <2>1, <2>2 DEF Announced
<1> QED BY <1>1, <1>2 DEF FinalInv, EndsStay

\* Nothing happens to the tasks.
LEMMA EndsStayIfUnchanged ==
  ASSUME DeliveryInv, FinalInv, UNCHANGED <<state, attempt>>
  PROVE  EndsStay
BY DEF DeliveryInv, Typed, FinalInv, EndsStay, Over

LEMMA SweepsEnds ==
  ASSUME DeliveryInv, FinalInv, NEW w \in Worker, NEW E \in SUBSET Task, NEW B \in SUBSET Task,
         Sweeps(w, E, B)
  PROVE  EndsStay /\ \A t \in B : state'[t] = "running" /\ ~Over(t)
<1>1. \A t \in Task : FailStates(E)[t] = IF t \in E THEN FailedState(t) ELSE state[t]
  BY DEF FailStates
<1>2. ASSUME NEW t \in Task
      PROVE  /\ attempt'[t] = IF t \in E /\ FailedState(t) = "pending" THEN attempt[t] + 1 ELSE attempt[t]
             /\ state'[t] = IF t \in B THEN "running" ELSE IF t \in E THEN FailedState(t) ELSE state[t]
             /\ t \in B => IF t \in E THEN FailedState(t) = "pending" ELSE state[t] = "pending"
             /\ t \in E => state[t] = "running"
  BY <1>1 DEF Sweeps, FailAttempts, Expired
<1>3. ASSUME NEW t \in Task
      PROVE  /\ attempt[t] \in Nat /\ FailedState(t) \in {"pending", "failed"}
             /\ attempt[t] <= MaxAttempts /\ MaxAttempts \in Nat
             /\ attempt[t] = MaxAttempts => FailedState(t) = "failed"
             /\ FailedState(t) = "pending" => attempt[t] + 1 <= MaxAttempts
  BY FailedStateIs, LimitReached, WorkerAssumption DEF DeliveryInv, Typed, FinalInv
<1>4. \A t \in Task : attempt'[t] >= attempt[t] /\ attempt'[t] <= MaxAttempts
  BY <1>2, <1>3
<1>5. \A t \in Task : Over(t) => Over(t)' /\ t \notin B
  BY <1>2, <1>3 DEF Over, Parked
<1>6. \A t \in Task : state'[t] = "completed" => state[t] = "completed"
  BY <1>2, <1>3
<1> QED BY <1>2, <1>4, <1>5, <1>6 DEF EndsStay

LEMMA ClaimFinal ==
  ASSUME DeliveryInv, DeliveryInv', FinalInv, NEW w \in Worker, ClaimTasks(w)
  PROVE  FinalInv'
<1>1. PICK E \in SUBSET Task, B \in SUBSET Task : Claims(w, E, B)
  BY DEF ClaimTasks
<1>2. /\ Sweeps(w, E, B) /\ left' = left /\ finished' = finished
      /\ window'[w] = window[w] \cup Created(B)
      /\ \A v \in Worker \ {w} : window'[v] = window[v]
  BY <1>1 DEF Claims, DeliveryInv, Typed
<1>3. EndsStay /\ \A t \in B : state'[t] = "running" /\ ~Over(t)
  BY <1>2, SweepsEnds
<1>4. \A c \in Created(B) : c.task \in B
  BY DEF Created
<1>5. ASSUME NEW v \in Worker, NEW e \in window'[v], e.at \in Executing, e.n = attempt'[e.task]
      PROVE  state'[e.task] # "completed"
  <2>1. CASE e \in Created(B)
    BY <1>3, <1>4, <2>1
  <2>2. CASE e \in window[v]
    <3>1. e.task \in Task /\ e.n <= attempt[e.task]
      BY <1>5, <2>2, NoneAhead
    <3>2. attempt[e.task] \in Nat /\ attempt'[e.task] \in Nat /\ attempt'[e.task] >= attempt[e.task]
      BY <1>3, <3>1 DEF DeliveryInv, Typed, EndsStay
    <3>3. e.n = attempt[e.task]
      BY <1>5, <3>1, <3>2
    <3> QED BY <1>3, <1>5, <2>2, <3>1, <3>3 DEF FinalInv, EndsStay
  <2> QED BY <1>2, <2>1, <2>2
<1>6. ASSUME NEW f \in finished PROVE Announced(f[1], f[2])'
  <2>1. Announced(f[1], f[2])
    BY DEF FinalInv
  <2>2. Over(f[1])' /\ attempt'[f[1]] = attempt[f[1]] /\ f[1] \notin B
    BY <1>3, <2>1 DEF Announced, EndsStay, Over
  <2> QED BY <1>2, <1>4, <2>1, <2>2 DEF Announced
<1> QED BY <1>2, <1>3, <1>5, <1>6 DEF FinalInv, EndsStay

\* An execution that goes to sleep or reports is one that nobody else carries out, so what
\* becomes of its task is no other run's end.
LEMMA AloneFinal ==
  ASSUME DeliveryInv, DeliveryInv', FinalInv, left' \in [Rare -> Nat], left'["retry"] = 0,
         finished' = finished, NEW w \in Worker, NEW e \in window[w], e.at \in Executing,
         e.at # "raised", e.n = attempt[e.task], attempt' = attempt,
         \A t \in Task \ {e.task} : state'[t] = state[t],
         NEW at \in InFlight \cup {"ended"}, at \notin Executing, window' = Moved(w, e, at)
  PROVE  FinalInv'
<1>1. e.task \in Task
  BY NoneAhead
<1>2. \A v \in Worker : \A d \in window'[v] : d.at \in Executing =>
        d \in window[v] /\ ~(v = w /\ d = e) /\ d.task \in Task
  <2>1. [e EXCEPT !.at = at].at = at
    BY DEF DeliveryInv, Typed
  <2> QED BY <2>1 DEF Moved, DeliveryInv, Typed
<1>3. ASSUME NEW v \in Worker, NEW d \in window'[v], d.at \in Executing, d.n = attempt'[d.task]
      PROVE  state'[d.task] # "completed"
  <2>1. d.task # e.task
    BY <1>2, <1>3 DEF DeliveryInv, RunDeliveredOnce
  <2> QED BY <1>2, <1>3, <2>1 DEF FinalInv
<1>4. ASSUME NEW f \in finished PROVE Announced(f[1], f[2])'
  <2>1. Announced(f[1], f[2])
    BY DEF FinalInv
  <2>2. f[1] # e.task
    BY <2>1 DEF Announced
  <2> QED BY <1>2, <2>1, <2>2 DEF Announced, Over
<1> QED BY <1>3, <1>4 DEF FinalInv

\* The handler announces the end of an attempt that its task can make no more of.
LEMMA RaisesFinal ==
  ASSUME DeliveryInv, DeliveryInv', FinalInv, NEW w \in Worker, NEW e \in window[w], BodyRaises(w, e)
  PROVE  FinalInv'
<1> DEFINE f == [e EXCEPT !.at = "raised"]
<1>1. /\ e.at = "body" /\ e.at \in Executing /\ UNCHANGED <<state, attempt, left>>
      /\ finished' = IF Terminal(e.n) THEN finished \cup {<<e.task, e.n>>} ELSE finished
      /\ window' = Moved(w, e, "raised")
  BY DEF BodyRaises, queue, Executing
<1>2. /\ e.task \in Task /\ e.n \in Nat /\ attempt[e.task] \in Nat /\ e.n <= attempt[e.task]
      /\ e.n = attempt[e.task] => state[e.task] \notin Parked
  BY <1>1, NoneAhead
<1>3. f.task = e.task /\ f.n = e.n /\ f.at = "raised"
  BY DEF DeliveryInv, Typed
<1> HIDE DEF f
<1>4. \A v \in Worker : window'[v] = IF v = w THEN (window[w] \ {e}) \cup {f} ELSE window[v]
  BY <1>1 DEF Moved, DeliveryInv, Typed, f
<1>5. ASSUME NEW v \in Worker, NEW d \in window'[v], d.at \in Executing, d.n = attempt'[d.task]
      PROVE  state'[d.task] # "completed"
  <2>1. \E c \in window[v] : c.at \in Executing /\ c.task = d.task /\ c.n = d.n
    BY <1>1, <1>3, <1>4, <1>5
  <2> QED BY <1>1, <1>5, <2>1 DEF FinalInv
<1>6. ASSUME NEW g \in finished PROVE Announced(g[1], g[2])'
  <2>1. Announced(g[1], g[2])
    BY DEF FinalInv
  <2> QED BY <1>1, <1>3, <1>4, <2>1 DEF Announced, Over
<1>7. ASSUME Terminal(e.n) PROVE Announced(e.task, e.n)'
  <2>1. e.n = MaxAttempts /\ attempt[e.task] = MaxAttempts
    <3>1. attempt[e.task] <= MaxAttempts /\ MaxAttempts \in Nat
      BY <1>2, WorkerAssumption DEF FinalInv
    <3>2. e.n >= MaxAttempts
      BY <1>2, <1>7, <3>1 DEF Terminal, Limit
    <3> QED BY <1>2, <3>1, <3>2
  <2>2. state[e.task] \notin {"completed"} \cup Parked
    BY <1>1, <1>2, <2>1 DEF FinalInv
  <2>3. ASSUME NEW v \in Worker, NEW d \in window'[v], d.task = e.task, d.n = e.n, d.at \in Executing
        PROVE  d.at = "raised"
    <3>1. CASE d \in window[v] /\ ~(v = w /\ d = e)
      BY <1>1, <2>3, <3>1 DEF DeliveryInv, RunDeliveredOnce
    <3>2. CASE v = w /\ d = f
      BY <1>3, <3>2
    <3> QED BY <1>4, <3>1, <3>2
  <2> QED BY <1>1, <1>2, <2>1, <2>2, <2>3 DEF Announced, Over
<1> QED BY <1>1, <1>5, <1>6, <1>7 DEF FinalInv

LEMMA ExecutionFinal ==
  ASSUME DeliveryInv, DeliveryInv', FinalInv, left' \in [Rare -> Nat], left'["retry"] = 0,
         NEW w \in Worker, NEW e \in window[w], ExecutionStep(w, e) \/ Breaks(w, e)
  PROVE  FinalInv'
<1>1. Typed /\ Typed' /\ e.task \in Task
  BY DEF DeliveryInv, Typed
<1>2. CASE BodyStarts(w, e) \/ BodyReturns(w, e)
  <2> DEFINE at == IF e.at = "created" THEN "body" ELSE "returned"
             f == [e EXCEPT !.at = at]
  <2>1. /\ e.at \in {"created", "body"} /\ UNCHANGED <<state, attempt, finished>>
        /\ window' = Moved(w, e, at) /\ e.at \in Executing
    BY <1>2 DEF BodyStarts, BodyReturns, queue, Executing
  <2>2. f.task = e.task /\ f.n = e.n
    BY <1>1 DEF Typed
  <2> HIDE DEF f
  <2>3. \A v \in Worker : window'[v] = IF v = w THEN (window[w] \ {e}) \cup {f} ELSE window[v]
    BY <1>1, <2>1 DEF Moved, Typed, f
  <2>4. \A v \in Worker : \A d \in window'[v] : d.at \in Executing =>
          \E c \in window[v] : /\ c.at \in Executing /\ c.task = d.task /\ c.n = d.n
                               /\ c = d \/ c.at # "raised"
    BY <2>1, <2>2, <2>3
  <2>5. \A g \in finished : Announced(g[1], g[2])'
    BY <2>1, <2>4 DEF FinalInv, Announced, Over
  <2>6. \A v \in Worker : \A d \in window'[v] : d.at \in Executing /\ d.n = attempt'[d.task] =>
          state'[d.task] # "completed"
    BY <2>1, <2>4 DEF FinalInv
  <2> QED BY <2>1, <2>5, <2>6 DEF FinalInv
<1>3. CASE BodyRaises(w, e)
  BY <1>3, RaisesFinal
<1>4. ASSUME window' \in {Moved(w, e, "ended"), Moved(w, e, "broken")}
      PROVE  \A v \in Worker : \A d \in window'[v] : d.at \in Executing => d \in window[v]
  <2>1. \A at : [e EXCEPT !.at = at].at = at
    BY <1>1 DEF Typed
  <2> QED BY <1>1, <1>4, <2>1 DEF Moved, Typed, Executing
<1>5. CASE Unwinds(w, e) \/ Breaks(w, e) \/ (Reports(w, e) /\ ~Current(e))
  <2>1. /\ UNCHANGED <<state, attempt, finished>>
        /\ window' \in {Moved(w, e, "ended"), Moved(w, e, "broken")}
    BY <1>5 DEF Unwinds, Breaks, Reports, queue
  <2> QED BY <1>1, <1>4, <2>1, EndsStayIfUnchanged, FinalStays
<1>6. CASE Suspends(w, e) \/ (Reports(w, e) /\ Current(e) /\ e.at = "returned")
  <2>1. /\ e.n = attempt[e.task] /\ attempt' = attempt /\ finished' = finished
        /\ e.at \in Executing /\ e.at # "raised"
        /\ \A t \in Task \ {e.task} : state'[t] = state[t]
    BY <1>1, <1>6 DEF Suspends, Reports, Leaves, Current, Executing, Typed
  <2>2. \E at \in {"suspending", "ended"} : window' = Moved(w, e, at)
    BY <1>6 DEF Suspends, Reports
  <2>3. {"suspending", "ended"} \subseteq (InFlight \cup {"ended"}) \ Executing
    BY DEF InFlight, Executing
  <2> QED BY <2>1, <2>2, <2>3, AloneFinal
<1>7. CASE Reports(w, e) /\ Current(e) /\ e.at # "returned"
  <2>1. /\ state' = [state EXCEPT ![e.task] = FailedState(e.task)] /\ finished' = finished
        /\ attempt' = [t \in Task |-> IF t = e.task /\ FailedState(t) = "pending"
                                      THEN attempt[t] + 1 ELSE attempt[t]]
        /\ window' = Moved(w, e, "ended") /\ state[e.task] = "running"
    BY <1>7 DEF Reports, Leaves, FailAttempts, Current
  <2>2. ASSUME NEW t \in Task
        PROVE  /\ attempt[t] \in Nat /\ FailedState(t) \in {"pending", "failed"}
               /\ attempt[t] <= MaxAttempts /\ MaxAttempts \in Nat
               /\ attempt[t] = MaxAttempts => FailedState(t) = "failed"
               /\ FailedState(t) = "pending" => attempt[t] + 1 <= MaxAttempts
    BY FailedStateIs, LimitReached, WorkerAssumption DEF DeliveryInv, Typed, FinalInv
  <2>3. /\ \A t \in Task \ {e.task} : state'[t] = state[t] /\ attempt'[t] = attempt[t]
        /\ state'[e.task] = FailedState(e.task)
        /\ attempt'[e.task] = IF FailedState(e.task) = "pending" THEN attempt[e.task] + 1
                              ELSE attempt[e.task]
    BY <1>1, <2>1 DEF Typed
  <2>4. EndsStay
    BY <1>1, <2>2, <2>3 DEF EndsStay, Over, Parked
  <2> QED BY <1>1, <1>4, <2>1, <2>4, FinalStays
<1> QED BY <1>2, <1>3, <1>5, <1>6, <1>7 DEF ExecutionStep, BodyStep

LEMMA NextFinal == DeliveryInv /\ DeliveryInv' /\ FinalInv /\ [Next]_vars => FinalInv'
<1> SUFFICES ASSUME DeliveryInv, DeliveryInv', FinalInv, [Next]_vars PROVE FinalInv'
  OBVIOUS
<1>1. left' \in [Rare -> Nat] /\ left'["retry"] = 0
  <2>1. "retry" \in Rare
    BY DEF Rare
  <2>2. left' \in [Rare -> Nat] /\ \A r \in Rare : left'[r] <= left[r]
    BY LeftShrinks DEF FinalInv
  <2>3. \A r \in Rare : left[r] \in Nat /\ left'[r] \in Nat
    BY <2>2 DEF FinalInv
  <2> QED BY <2>1, <2>2, <2>3 DEF FinalInv
<1>2. Typed /\ Typed'
  BY DEF DeliveryInv
<1>3. CASE UNCHANGED <<state, attempt, window, finished>>
  BY <1>1, <1>2, <1>3, EndsStayIfUnchanged, FinalStays
<1>4. ASSUME NEW t \in Task, LeaseExpires(t) \/ Wake(t) \/ CancelTask(t) \/ RetryTask(t)
      PROVE  FinalInv'
  <2>1. ~RetryTask(t) /\ UNCHANGED <<window, finished>>
    BY <1>4 DEF LeaseExpires, Wake, CancelTask, RetryTask, Happens, proc, FinalInv
  <2>2. /\ attempt' = attempt /\ \A s \in Task \ {t} : state'[s] = state[s]
        /\ state'[t] = state[t] \/ state'[t] = "cancelled" \/ state[t] \in Parked
        /\ state'[t] # "completed" \/ state'[t] = state[t]
    BY <1>2, <1>4, <2>1 DEF LeaseExpires, Wake, CancelTask, Leaves, Typed, Parked
  <2>3. \A s \in Task : attempt[s] \in Nat /\ attempt[s] <= MaxAttempts
    BY <1>2 DEF Typed, FinalInv
  <2>4. EndsStay
    BY <2>2, <2>3 DEF EndsStay, Over, Parked
  <2> QED BY <1>1, <1>2, <2>1, <2>4, FinalStays
<1>5. ASSUME NEW w \in Worker, LoopStep(w) \/ Stop(w) \/ Cancel(w) \/ CancelAnswer(w) \/ Crash(w)
      PROVE  FinalInv'
  <2>1. EndsStay
    <3>1. CASE CancelAnswer(w)
      BY <3>1, SweepsEnds DEF CancelAnswer
    <3>2. CASE LoopStep(w) \/ Stop(w) \/ Cancel(w) \/ Crash(w)
      <4>1. UNCHANGED <<state, attempt>>
        BY <3>2 DEF LoopStep, LoopHead, IdleEnds, BatchEnds, Close, Restart, Stop, Cancel, Crash, queue
      <4> QED BY <4>1, EndsStayIfUnchanged
    <3> QED BY <1>5, <3>1, <3>2
  <2>2. finished' = finished
    BY <1>5 DEF LoopStep, LoopHead, IdleEnds, BatchEnds, Close, Restart, Stop, Cancel, CancelAnswer, Crash
  <2>3. \A v \in Worker : \A d \in window'[v] : d.at \in Executing => d \in window[v]
    BY <1>5, LoopShrinks
  <2> QED BY <1>1, <1>2, <2>1, <2>2, <2>3, FinalStays
<1>6. CASE UNCHANGED vars
  BY <1>3, <1>6 DEF vars
<1>7. ASSUME NEW w \in Worker, NEW e \in window[w], Heartbeat(w, e) PROVE FinalInv'
  BY <1>3, <1>7 DEF Heartbeat, proc
<1> QED BY <1>1, <1>4, <1>5, <1>6, <1>7, ClaimFinal, ExecutionFinal DEF Next

\* worker.py:526: a task whose last attempt was announced as FAILED is not attempted again,
\* nor completed by a slow execution of that attempt, as long as nobody calls retry_task.
THEOREM AnnouncedFailuresStand ==
  ASSUME NoRetries
  PROVE  Spec => []AnnouncedFailureIsFinal
<1>1. Init => FinalInv
  BY WorkerAssumption, NoRetries DEF Init, FinalInv, NoRetries
<1>2. FinalInv => AnnouncedFailureIsFinal
  BY DEF FinalInv, Announced, Over, AnnouncedFailureIsFinal
<1> QED BY <1>1, <1>2, InitDelivery, NextDelivery, NextFinal, PTL DEF Spec
=============================================================================
