----------------------- MODULE DeferredEnqueueProofs -----------------------
(***************************************************************************)
(* Proofs about DeferredEnqueue for any calls, options, numbers of rows     *)
(* and of faults.  A row keeps what it was spawned with and goes on in one  *)
(* direction (Onward); the rest is said of rows and runs one at a time.     *)
(***************************************************************************)
EXTENDS DeferredEnqueue, FiniteSetTheorems, TLAPS

Key(row) == row.options["idempotency_key"]
CallersKey(c) == Merged(c)["idempotency_key"]

-----------------------------------------------------------------------------
(* What the options of a row say of its key.                                *)

KeysRight ==
  \A i \in Id : rows[i] # None =>
    /\ Key(rows[i]) = IF Wraps(rows[i]) THEN DerivedKey(CallersKey(rows[i].call))
                                        ELSE CallersKey(rows[i].call)
    /\ rows[i].by # None => /\ ~Wraps(rows[i])
                            /\ rows[rows[i].by] # None /\ Wraps(rows[rows[i].by])
                            /\ rows[i].call = rows[rows[i].by].call

KeyTaken ==
  \A i, j \in Id : Exists(i) /\ Exists(j) /\ Key(rows[i]) # Unset /\ Key(rows[i]) = Key(rows[j])
                     => i = j

RowsInv == TypeOK /\ KeysRight /\ KeyTaken

-----------------------------------------------------------------------------
(* Launches.  What may still launch without another fault: a run that is    *)
(* on its way to the step, or the claim of a wrapper that has no run.       *)

RunsFinite == IsFiniteSet(runs)
Unlaunched(w) == {r \in runs : r.id = w /\ r.at \in {"waiting", "due"}}
Unclaimed(w) ==
  \/ rows[w].state \in {"pending", "sleeping"}
  \/ rows[w].state = "running" /\ ~\E r \in runs : r.id = w /\ r.n = rows[w].attempt

Allowance(w) ==
  IF rows[w].step # None THEN 0
  ELSE Cardinality(Unlaunched(w)) + IF Unclaimed(w) THEN 1 ELSE 0

LaunchInv ==
  /\ RunsFinite
  /\ \A r \in runs : r.at = "stepped" => rows[r.id].step # None
  /\ \A w \in Id : rows[w] # None /\ Wraps(rows[w]) =>
       Cardinality(Launched(w)) + Allowance(w) <= faults + 1

-----------------------------------------------------------------------------
(* What a wrapper names.                                                    *)

\* What a wrapper launched, or the owner of the caller's key.
Named(w, i) ==
  /\ i \in Id /\ rows[i] # None
  /\ \/ ~Wraps(rows[i]) /\ rows[i].call = rows[w].call
     \/ Key(rows[i]) = CallersKey(rows[w].call) /\ Key(rows[i]) # Unset

NamesInv ==
  /\ \A w \in Id : rows[w] # None =>
       /\ rows[w].step # None => Named(w, rows[w].step)
       /\ rows[w].payload # None => Named(w, rows[w].payload)
       /\ rows[w].state = "completed" /\ Wraps(rows[w]) => rows[w].payload # None
  /\ \A r \in runs : r.at \in {"launched", "stepped"} => Named(r.id, r.target)

-----------------------------------------------------------------------------
(* What get_result reads: the rows from which it comes to a row of a set,   *)
(* which are the least that hold the set and what completed with their ids. *)

Past(i) == /\ rows[i] # None /\ Wraps(rows[i])
           /\ rows[i].payload # None /\ rows[i].state \in {"completed", "gone"}
Won == {i \in Id : rows[i] # None /\ ~Wraps(rows[i]) /\ rows[i].state \in {"completed", "gone"}}
Gone == {i \in Id : rows[i] # None /\ rows[i].state = "gone"}

Closed(S) == \A i \in Id : Past(i) /\ rows[i].payload \in S => i \in S
Before(B) == {i \in Id : \A S \in SUBSET Id : B \subseteq S /\ Closed(S) => i \in S}

ReadInv ==
  /\ answer # None => rows[answer] # None
  /\ reading # None => answer # None /\ rows[reading] # None /\ answer \in Before({reading})
  /\ seen \in Statuses => answer # None
  /\ seen = "SUCCESSFUL" => {answer, reading} \ {None} \subseteq Before(Won)
  /\ seen = "DoesNotExist" => {answer, reading} \ {None} \subseteq Before(Gone)

-----------------------------------------------------------------------------
(* Rows                                                                     *)

\* What a row may become: it keeps what it was spawned with, the result of its step, and
\* its end.
Onward(a, b) ==
  /\ b \in TaskRow
  /\ b.call = a.call /\ b.name = a.name /\ b.options = a.options /\ b.by = a.by
  /\ a.step # None => b.step # None
  /\ a.state = "gone" => b.state = "gone"
  /\ a.state = "completed" => b.state \in {"completed", "gone"}
  /\ a.state \in {"completed", "gone"} => b.payload = a.payload

\* One row goes on and the others stay.
Touches(i) ==
  /\ i \in Id /\ rows[i] \in TaskRow
  /\ rows' \in [Id -> TaskRow \cup {None}]
  /\ Onward(rows[i], rows'[i])
  /\ \A j \in Id : j # i => rows'[j] = rows[j]

Appears(i, row) ==
  /\ i \in Id /\ rows[i] = None /\ row \in TaskRow
  /\ rows' \in [Id -> TaskRow \cup {None}]
  /\ rows'[i] = row
  /\ \A j \in Id : j # i => rows'[j] = rows[j]

LEMMA RowThere ==
  ASSUME TypeOK, NEW i \in Id, rows[i] # None
  PROVE  rows[i] \in TaskRow
BY DEF TypeOK

\* A row with other values in the fields that its life changes is a row.
LEMMA RowWith ==
  ASSUME NEW a \in TaskRow, NEW b,
         \/ \E s \in Live \cup Ended \cup {"gone"} : b = [a EXCEPT !.state = s]
         \/ \E s \in Live \cup Ended \cup {"gone"}, n \in Nat \cup {None} :
              b = [a EXCEPT !.state = s, !.started = n]
         \/ \E s \in Live \cup Ended \cup {"gone"}, n \in Nat :
              b = [a EXCEPT !.state = s, !.attempt = n]
         \/ \E x \in Id \cup {None} : b = [a EXCEPT !.step = x]
         \/ \E s \in Live \cup Ended \cup {"gone"}, x \in Id \cup {None} :
              b = [a EXCEPT !.state = s, !.payload = x]
  PROVE  /\ b \in TaskRow
         /\ b.call = a.call /\ b.name = a.name /\ b.options = a.options /\ b.by = a.by
BY DEF TaskRow

LEMMA TouchRow ==
  ASSUME TypeOK, NEW i \in Id, rows[i] # None, NEW b, Onward(rows[i], b),
         rows' = [rows EXCEPT ![i] = b]
  PROVE  Touches(i) /\ rows'[i] = b
<1>1. b \in TaskRow /\ rows[i] \in TaskRow
  BY RowThere DEF Onward
<1> QED BY <1>1 DEF TypeOK, Touches

LEMMA FailedRow ==
  ASSUME TypeOK, NEW i \in Id, rows[i] # None, rows[i].state = "running",
         rows' = [rows EXCEPT ![i] = AfterFailure(@)]
  PROVE  /\ Touches(i)
         /\ rows'[i].state \in {"sleeping", "failed"} /\ rows'[i].step = rows[i].step
<1> DEFINE a == rows[i]
<1>1. a \in TaskRow /\ a.state = "running" /\ a.attempt \in Nat
  BY RowThere DEF TaskRow
<1>2. PICK b : b = AfterFailure(a)
  OBVIOUS
<1>3. \/ b = [a EXCEPT !.state = "sleeping", !.attempt = a.attempt + 1]
      \/ b = [a EXCEPT !.state = "failed"]
  BY <1>2 DEF AfterFailure
<1>4. b \in TaskRow /\ b.call = a.call /\ b.name = a.name /\ b.options = a.options /\ b.by = a.by
  <2>1. CASE b = [a EXCEPT !.state = "failed"]
    BY <1>1, <2>1, RowWith DEF Ended
  <2>2. CASE b = [a EXCEPT !.state = "sleeping", !.attempt = a.attempt + 1]
    <3>1. a.attempt + 1 \in Nat /\ "sleeping" \in Live
      BY <1>1 DEF Live
    <3> QED BY <1>1, <2>2, <3>1, RowWith
  <2> QED BY <1>3, <2>1, <2>2
<1>5. b.state \in {"sleeping", "failed"} /\ b.step = a.step /\ b.payload = a.payload
  BY <1>1, <1>3 DEF TaskRow
<1>6. Onward(a, b)
  BY <1>1, <1>4, <1>5 DEF Onward
<1>7. rows' = [rows EXCEPT ![i] = b]
  BY <1>2
<1> QED BY <1>5, <1>6, <1>7, TouchRow

\* The queue moves one row on.
LEMMA QueueTouches ==
  ASSUME TypeOK, NEW i \in Id,
         \/ Claim(i) \/ PolicyCancels(i) \/ CancelTask(i) \/ LeaseExpires(i)
         \/ CleanupTasks(i) \/ TargetStarts(i) \/ TargetEnds(i)
  PROVE  Touches(i)
<1> DEFINE a == rows[i]
<1>0. a # None /\ a \in TaskRow /\ now \in Nat /\ a.started \in Nat \cup {None}
  BY RowThere DEF TypeOK, Claim, PolicyCancels, CancelTask, LeaseExpires, CleanupTasks,
                  TargetStarts, TargetEnds, Exists, TaskRow
<1>1. CASE Claim(i)
  <2>1. PICK b : b = [a EXCEPT !.state = "running", !.started = FirstStart(a)]
    OBVIOUS
  <2>2. FirstStart(a) \in Nat \cup {None}
    BY <1>0 DEF FirstStart
  <2>3. b \in TaskRow /\ b.call = a.call /\ b.name = a.name /\ b.options = a.options /\ b.by = a.by
    BY <1>0, <2>1, <2>2, RowWith DEF Live
  <2>4. a.state \in {"pending", "sleeping"} /\ b.step = a.step /\ b.payload = a.payload
    BY <1>0, <1>1, <2>1 DEF TaskRow, Claim, Claimable
  <2>5. rows' = [rows EXCEPT ![i] = b]
    BY <1>1, <2>1 DEF Claim
  <2> QED BY <1>0, <2>3, <2>4, <2>5, TouchRow DEF Onward
<1>2. CASE PolicyCancels(i) \/ CancelTask(i) \/ CleanupTasks(i) \/ TargetEnds(i)
  <2>1. PICK s \in Ended \cup {"gone"} :
          /\ rows' = [rows EXCEPT ![i].state = s]
          /\ a.state \in Live \/ (a.state \in Ended /\ s = "gone")
    BY <1>2 DEF PolicyCancels, CancelTask, CleanupTasks, TargetEnds, Live, Ended
  <2>2. PICK b : b = [a EXCEPT !.state = s]
    OBVIOUS
  <2>3. b \in TaskRow /\ b.call = a.call /\ b.name = a.name /\ b.options = a.options /\ b.by = a.by
    BY <1>0, <2>2, RowWith
  <2>4. b.state = s /\ b.step = a.step /\ b.payload = a.payload
    BY <1>0, <2>2 DEF TaskRow
  <2>5. rows' = [rows EXCEPT ![i] = b]
    BY <2>1, <2>2
  <2> QED BY <1>0, <2>1, <2>3, <2>4, <2>5, TouchRow DEF Onward, Live, Ended
<1>3. CASE LeaseExpires(i)
  BY <1>0, <1>3, FailedRow DEF LeaseExpires
<1>4. CASE TargetStarts(i)
  <2>1. PICK b : b = [a EXCEPT !.state = "running", !.started = now]
    OBVIOUS
  <2>2. b \in TaskRow /\ b.call = a.call /\ b.name = a.name /\ b.options = a.options /\ b.by = a.by
    BY <1>0, <2>1, RowWith DEF Live
  <2>3. a.state = "pending" /\ b.step = a.step /\ b.payload = a.payload
    BY <1>0, <1>4, <2>1 DEF TaskRow, TargetStarts
  <2>4. rows' = [rows EXCEPT ![i] = b]
    BY <1>4, <2>1 DEF TargetStarts
  <2> QED BY <1>0, <2>2, <2>3, <2>4, TouchRow DEF Onward
<1> QED BY <1>1, <1>2, <1>3, <1>4

\* What a run refers to.
LEMMA RunThere ==
  ASSUME TypeOK, NEW r \in runs
  PROVE  /\ r.id \in Id /\ r.n \in Nat /\ r.target \in Id \cup {None}
         /\ r.at \in {"waiting", "due", "launched", "stepped"}
         /\ r.at \in {"launched", "stepped"} => r.target # None
         /\ rows[r.id] \in TaskRow /\ rows[r.id] # None /\ Wraps(rows[r.id])
BY DEF TypeOK

\* A handler moves the row of its wrapper on, or none.
LEMMA HandlerTouches ==
  ASSUME TypeOK, NEW r \in runs,
         \/ SleepUntil(r) \/ ReplayStep(r) \/ CompleteStep(r) \/ Complete(r)
         \/ HandlerRaises(r) \/ WorkerDies(r)
  PROVE  rows' = rows \/ (Touches(r.id) /\ Accepts(r))
<1> DEFINE i == r.id
           a == rows[r.id]
<1>0. a # None /\ a \in TaskRow /\ i \in Id /\ r.target \in Id \cup {None}
  BY RunThere
<1>1. CASE SleepUntil(r) /\ rows' # rows
  <2>1. PICK b : b = [a EXCEPT !.state = "sleeping"]
    OBVIOUS
  <2>2. rows' = [rows EXCEPT ![i] = b] /\ a.state = "running" /\ Accepts(r)
    BY <1>1, <2>1 DEF SleepUntil, Accepts
  <2>3. b \in TaskRow /\ b.call = a.call /\ b.name = a.name /\ b.options = a.options /\ b.by = a.by
    BY <1>0, <2>1, RowWith DEF Live
  <2>4. b.step = a.step
    BY <1>0, <2>1 DEF TaskRow
  <2> QED BY <1>0, <2>2, <2>3, <2>4, TouchRow DEF Onward
<1>2. CASE ReplayStep(r) \/ WorkerDies(r)
  BY <1>2 DEF ReplayStep, WorkerDies
<1>3. CASE CompleteStep(r) /\ rows' # rows
  <2>1. PICK b : b = [a EXCEPT !.step = r.target]
    OBVIOUS
  <2>2. rows' = [rows EXCEPT ![i] = b] /\ a.state = "running" /\ Accepts(r)
    BY <1>3, <2>1 DEF CompleteStep, Accepts
  <2>3. b \in TaskRow /\ b.call = a.call /\ b.name = a.name /\ b.options = a.options /\ b.by = a.by
    BY <1>0, <2>1, RowWith
  <2>4. b.step = r.target /\ r.target # None /\ b.state = a.state
    BY <1>0, <1>3, <2>1 DEF TaskRow, CompleteStep, TypeOK
  <2> QED BY <1>0, <2>2, <2>3, <2>4, TouchRow DEF Onward
<1>4. CASE Complete(r) /\ rows' # rows
  <2>1. PICK b : b = [a EXCEPT !.state = "completed", !.payload = r.target]
    OBVIOUS
  <2>2. rows' = [rows EXCEPT ![i] = b] /\ a.state = "running" /\ Accepts(r)
    BY <1>4, <2>1 DEF Complete, Accepts
  <2>3. b \in TaskRow /\ b.call = a.call /\ b.name = a.name /\ b.options = a.options /\ b.by = a.by
    BY <1>0, <2>1, RowWith DEF Ended
  <2>4. b.step = a.step
    BY <1>0, <2>1 DEF TaskRow
  <2> QED BY <1>0, <2>2, <2>3, <2>4, TouchRow DEF Onward
<1>5. CASE HandlerRaises(r) /\ rows' # rows
  BY <1>0, <1>5, FailedRow DEF HandlerRaises, Accepts
<1> QED BY <1>1, <1>2, <1>3, <1>4, <1>5

-----------------------------------------------------------------------------
(* Spawns                                                                   *)

\* The key goes through both layers, and through the replay, as it was.
LEMMA KeysOfOptions ==
  ASSUME NEW c \in Calls
  PROVE  /\ Key([options |-> Replayed(c)]) = CallersKey(c)
         /\ Key([options |-> WrapperOptions(c)]) = DerivedKey(CallersKey(c))
BY DeferredAssumption DEF Key, CallersKey, Replayed, WrapperOptions, Merged, Merge,
     WithDefaultAttempts, NoOptions, Fields

LEMMA NewRows ==
  ASSUME NEW c \in Calls, NEW by \in Id
  PROVE  /\ Row(c, "wrapper", WrapperOptions(c), None) \in TaskRow
         /\ Row(c, "task", Merged(c), None) \in TaskRow
         /\ Row(c, "task", Replayed(c), by) \in TaskRow
<1>1. /\ Merged(c) \in UNION {{Merged(d), Replayed(d), WrapperOptions(d)} : d \in Calls}
      /\ Replayed(c) \in UNION {{Merged(d), Replayed(d), WrapperOptions(d)} : d \in Calls}
      /\ WrapperOptions(c) \in UNION {{Merged(d), Replayed(d), WrapperOptions(d)} : d \in Calls}
  OBVIOUS
<1> QED BY <1>1 DEF Row, TaskRow, Live

LEMMA SpawnEither ==
  ASSUME TypeOK, NEW row \in TaskRow, NEW i \in Id, Spawns(row, i)
  PROVE  \/ /\ rows' = rows /\ Exists(i)
            /\ Key(rows[i]) = Key(row) /\ Key(row) # Unset
         \/ Appears(i, row) /\ Owners(Key(row)) = {}
<1>1. CASE Owners(Key(row)) # {}
  <2>1. i \in Owners(Key(row)) /\ rows' = rows
    BY <1>1 DEF Spawns, Key
  <2> QED BY <2>1 DEF Owners, Key
<1>2. CASE Owners(Key(row)) = {}
  <2>1. rows[i] = None /\ rows' = [rows EXCEPT ![i] = row]
    BY <1>2 DEF Spawns, Key
  <2> QED BY <1>2, <2>1 DEF Appears, TypeOK
<1> QED BY <1>1, <1>2

\* What a client's enqueue makes of the rows.
LEMMA EnqueueSpawns ==
  ASSUME TypeOK, NEW c \in Calls, Enqueue(c)
  PROVE  \E i \in Id, row \in TaskRow :
           /\ \/ row = Row(c, "wrapper", WrapperOptions(c), None)
              \/ row = Row(c, "task", Merged(c), None)
           /\ \/ rows' = rows /\ Exists(i) /\ Key(rows[i]) = Key(row) /\ Key(row) # Unset
              \/ Appears(i, row) /\ Owners(Key(row)) = {}
           /\ \/ c = watched /\ i # answer /\ answer' = i /\ reading' = None /\ seen' = None
              \/ UNCHANGED <<answer, reading, seen>>
<1>1. PICK i \in Id :
        /\ IF RunAfter[c] # 0 THEN Spawns(Row(c, "wrapper", WrapperOptions(c), None), i)
                              ELSE Spawns(Row(c, "task", Merged(c), None), i)
        /\ \/ c = watched /\ i # answer /\ answer' = i /\ reading' = None /\ seen' = None
           \/ UNCHANGED <<answer, reading, seen>>
  BY DEF Enqueue
<1>2. /\ Row(c, "wrapper", WrapperOptions(c), None) \in TaskRow
      /\ Row(c, "task", Merged(c), None) \in TaskRow
  BY NewRows
<1>3. CASE RunAfter[c] # 0
  BY <1>1, <1>2, <1>3, SpawnEither
<1>4. CASE RunAfter[c] = 0
  BY <1>1, <1>2, <1>4, SpawnEither
<1> QED BY <1>3, <1>4

\* What a wrapper's step makes of them.
LEMMA TargetSpawns ==
  ASSUME TypeOK, NEW r \in runs, EnqueueTarget(r)
  PROVE  \E i \in Id, row \in TaskRow :
           /\ row = Row(rows[r.id].call, "task", Replayed(rows[r.id].call), r.id)
           /\ \/ rows' = rows /\ Exists(i) /\ Key(rows[i]) = Key(row) /\ Key(row) # Unset
              \/ Appears(i, row) /\ Owners(Key(row)) = {}
           /\ Goes(r, "launched", i)
<1>1. r.id \in Id /\ rows[r.id].call \in Calls
  BY RunThere DEF TaskRow
<1>2. PICK i \in Id :
        /\ Spawns(Row(rows[r.id].call, "task", Replayed(rows[r.id].call), r.id), i)
        /\ Goes(r, "launched", i)
  BY DEF EnqueueTarget
<1>3. Row(rows[r.id].call, "task", Replayed(rows[r.id].call), r.id) \in TaskRow
  BY <1>1, NewRows
<1> QED BY <1>2, <1>3, SpawnEither

\* A new row is a client's, or a wrapper's for its own call.
Spawned(row) ==
  \/ \E c \in Calls : \/ row = Row(c, "wrapper", WrapperOptions(c), None)
                      \/ row = Row(c, "task", Merged(c), None)
  \/ \E r \in runs : /\ r.at = "due" /\ rows[r.id].step = None
                     /\ row = Row(rows[r.id].call, "task", Replayed(rows[r.id].call), r.id)

\* All that a step does to the rows.
RowsStep ==
  \/ rows' = rows
  \/ \E i \in Id : Touches(i)
  \/ \E i \in Id, row \in TaskRow :
       Appears(i, row) /\ Spawned(row) /\ Owners(Key(row)) = {}

LEMMA NextRowsStep ==
  ASSUME TypeOK, [Next]_vars
  PROVE  RowsStep
<1>1. ASSUME NEW c \in Calls, Enqueue(c) PROVE RowsStep
  BY <1>1, EnqueueSpawns DEF RowsStep, Spawned
<1>2. ASSUME NEW i \in Id, \/ Claim(i) \/ PolicyCancels(i) \/ CancelTask(i) \/ LeaseExpires(i)
                           \/ CleanupTasks(i) \/ TargetStarts(i) \/ TargetEnds(i)
      PROVE  RowsStep
  BY <1>2, QueueTouches DEF RowsStep
<1>3. ASSUME NEW r \in runs, EnqueueTarget(r) PROVE RowsStep
  <2>1. r.at = "due" /\ rows[r.id].step = None
    BY <1>3 DEF EnqueueTarget, StepDone
  <2> QED BY <1>3, <2>1, TargetSpawns DEF RowsStep, Spawned
<1>4. ASSUME NEW r \in runs, \/ SleepUntil(r) \/ ReplayStep(r) \/ CompleteStep(r) \/ Complete(r)
                             \/ HandlerRaises(r) \/ WorkerDies(r)
      PROVE  RowsStep
  BY <1>4, HandlerTouches, RunThere DEF RowsStep
<1>5. CASE GetResult \/ FetchTask \/ Tick \/ UNCHANGED vars
  BY <1>5 DEF GetResult, FetchTask, Tick, vars, RowsStep
<1> QED BY <1>1, <1>2, <1>3, <1>4, <1>5 DEF Next, Handler

\* Every row that is there goes on.
LEMMA RowsGoOn ==
  ASSUME TypeOK, RowsStep
  PROVE  /\ rows' \in [Id -> TaskRow \cup {None}]
         /\ \A i \in Id : rows[i] # None => rows'[i] # None /\ Onward(rows[i], rows'[i])
<1>1. \A i \in Id : rows[i] # None => rows[i] \in TaskRow
  BY RowThere
<1>2. CASE rows' = rows
  BY <1>1, <1>2 DEF Onward, TypeOK
<1>3. ASSUME NEW k \in Id, Touches(k)
      PROVE  /\ rows' \in [Id -> TaskRow \cup {None}]
             /\ \A i \in Id : rows[i] # None => rows'[i] # None /\ Onward(rows[i], rows'[i])
  BY <1>1, <1>3, NoneAssumption DEF Touches, Onward
<1>4. ASSUME NEW k \in Id, NEW row \in TaskRow, Appears(k, row)
      PROVE  /\ rows' \in [Id -> TaskRow \cup {None}]
             /\ \A i \in Id : rows[i] # None => rows'[i] # None /\ Onward(rows[i], rows'[i])
  BY <1>1, <1>4, NoneAssumption DEF Appears, Onward
<1> QED BY <1>2, <1>3, <1>4 DEF RowsStep

-----------------------------------------------------------------------------
(* Types                                                                    *)

RunSet == [id : Id, n : Nat, at : {"waiting", "due", "launched", "stepped"},
           target : Id \cup {None}]
Sound(q) ==
  /\ q \in RunSet /\ rows[q.id] # None /\ Wraps(rows[q.id])
  /\ q.at \in {"launched", "stepped"} => q.target # None

LEMMA SoundRuns ==
  ASSUME TypeOK, RowsStep, \A q \in runs' : q \in runs \/ Sound(q)
  PROVE  /\ runs' \subseteq RunSet
         /\ \A q \in runs' : /\ rows'[q.id] # None /\ Wraps(rows'[q.id])
                             /\ q.at \in {"launched", "stepped"} => q.target # None
<1>1. \A q \in runs : Sound(q)
  BY DEF TypeOK, Sound, RunSet
<1>2. \A q \in runs' : Sound(q)
  BY <1>1
<1>3. \A q \in runs' : q.id \in Id /\ rows'[q.id] # None /\ rows'[q.id].name = rows[q.id].name
  BY <1>2, RowsGoOn DEF Sound, RunSet, Onward
<1> QED BY <1>2, <1>3 DEF Sound, Wraps

\* What a step adds to the runs.
LEMMA NextSound ==
  ASSUME TypeOK, [Next]_vars
  PROVE  \A q \in runs' : q \in runs \/ Sound(q)
<1>1. CASE runs' \subseteq runs
  BY <1>1
<1>2. ASSUME NEW i \in Id, Claim(i) PROVE \A q \in runs' : q \in runs \/ Sound(q)
  <2>1. rows[i] # None /\ Wraps(rows[i]) /\ rows[i].attempt \in Nat
    BY <1>2, RowThere DEF Claim, Exists, TaskRow
  <2>2. PICK q : q = [id |-> i, n |-> rows[i].attempt, at |-> "waiting", target |-> None]
    OBVIOUS
  <2>3. Sound(q)
    BY <2>1, <2>2 DEF Sound, RunSet
  <2> QED BY <1>2, <2>2, <2>3 DEF Claim
<1>3. ASSUME NEW r \in runs, NEW at \in {"due", "launched", "stepped"}, NEW x \in Id \cup {None},
             at # "due" => x # None, Goes(r, at, x)
      PROVE  \A q \in runs' : q \in runs \/ Sound(q)
  <2>1. PICK q : q = [r EXCEPT !.at = at, !.target = x]
    OBVIOUS
  <2>2. r \in RunSet /\ rows[r.id] # None /\ Wraps(rows[r.id])
    BY DEF TypeOK, RunSet
  <2>3. q \in RunSet /\ q.id = r.id /\ q.at = at /\ q.target = x
    BY <2>1, <2>2 DEF RunSet
  <2>4. Sound(q)
    BY <1>3, <2>2, <2>3 DEF Sound
  <2> QED BY <1>3, <2>1, <2>4 DEF Goes
<1>4. ASSUME NEW r \in runs, Handler(r) PROVE \A q \in runs' : q \in runs \/ Sound(q)
  <2>1. CASE SleepUntil(r)
    BY <1>1, <1>3, <2>1 DEF SleepUntil, Ends
  <2>2. CASE ReplayStep(r)
    <3>1. rows[r.id].step \in Id \cup {None} /\ rows[r.id].step # None
      BY <2>2, RunThere DEF ReplayStep, StepDone, TaskRow
    <3> QED BY <1>3, <2>2, <3>1 DEF ReplayStep
  <2>3. CASE EnqueueTarget(r)
    BY <1>3, <2>3, DeferredAssumption DEF EnqueueTarget
  <2>4. CASE CompleteStep(r)
    BY <1>1, <1>3, <2>4, RunThere DEF CompleteStep, Ends
  <2>5. CASE Complete(r)
    BY <1>1, <2>5 DEF Complete, Ends
  <2> QED BY <1>4, <2>1, <2>2, <2>3, <2>4, <2>5 DEF Handler
<1>5. CASE \E r \in runs : HandlerRaises(r) \/ WorkerDies(r)
  BY <1>1, <1>5 DEF HandlerRaises, WorkerDies, Ends
<1>6. CASE \E i \in Id : \/ PolicyCancels(i) \/ CancelTask(i) \/ LeaseExpires(i)
                         \/ CleanupTasks(i) \/ TargetStarts(i) \/ TargetEnds(i)
  BY <1>1, <1>6 DEF PolicyCancels, CancelTask, LeaseExpires, CleanupTasks, TargetStarts, TargetEnds
<1>7. CASE (\E c \in Calls : Enqueue(c)) \/ GetResult \/ FetchTask \/ Tick \/ UNCHANGED vars
  BY <1>1, <1>7 DEF Enqueue, GetResult, FetchTask, Tick, vars
<1> QED BY <1>2, <1>4, <1>5, <1>6, <1>7 DEF Next

\* What clients hold.
ClientsTyped ==
  /\ unmade \in [Calls -> Nat] /\ watched \in Calls
  /\ {answer, reading} \subseteq Id \cup {None} /\ seen \in Statuses \cup {None}
  /\ now \in 0..MaxNow /\ faults \in 0..MaxFaults

LEMMA NextClients ==
  ASSUME TypeOK, [Next]_vars
  PROVE  ClientsTyped'
<1>0. ClientsTyped /\ MaxNow \in Nat /\ MaxFaults \in Nat
  BY DeferredAssumption DEF TypeOK, ClientsTyped
<1>1. ASSUME NEW c \in Calls, Enqueue(c) PROVE ClientsTyped'
  BY <1>0, <1>1 DEF Enqueue, ClientsTyped
<1>2. CASE GetResult
  BY <1>0, <1>2 DEF GetResult, ClientsTyped
<1>3. CASE FetchTask
  <2>1. reading \in Id
    BY <1>0, <1>3 DEF FetchTask, ClientsTyped
  <2>2. Exists(reading) => rows[reading].payload \in Id \cup {None}
    BY <2>1, RowThere DEF Exists, TaskRow
  <2>3. Status(rows[reading]) \in Statuses
    BY DEF Status, StateToStatus, Statuses
  <2> QED BY <1>0, <1>3, <2>2, <2>3 DEF FetchTask, ClientsTyped, Statuses
<1>4. CASE UNCHANGED <<clients, now>> /\ (UNCHANGED faults \/ Fault)
  BY <1>0, <1>4 DEF clients, ClientsTyped, Fault
<1>5. ASSUME NEW i \in Id, \/ Claim(i) \/ PolicyCancels(i) \/ CancelTask(i) \/ LeaseExpires(i)
                           \/ CleanupTasks(i) \/ TargetStarts(i) \/ TargetEnds(i)
      PROVE  ClientsTyped'
  BY <1>4, <1>5 DEF Claim, PolicyCancels, CancelTask, LeaseExpires, CleanupTasks, TargetStarts,
                    TargetEnds, Now
<1>6. ASSUME NEW r \in runs, Handler(r) \/ HandlerRaises(r) \/ WorkerDies(r)
      PROVE  ClientsTyped'
  BY <1>4, <1>6 DEF Handler, SleepUntil, ReplayStep, EnqueueTarget, CompleteStep, Complete,
                    HandlerRaises, WorkerDies, Now
<1>7. CASE Tick \/ UNCHANGED vars
  BY <1>0, <1>7 DEF Tick, vars, clients, ClientsTyped
<1> QED BY <1>1, <1>2, <1>3, <1>5, <1>6, <1>7 DEF Next

LEMMA NextTyped ==
  ASSUME TypeOK, [Next]_vars
  PROVE  TypeOK' /\ RowsStep
<1>1. RowsStep
  BY NextRowsStep
<1>2. rows' \in [Id -> TaskRow \cup {None}]
  BY <1>1, RowsGoOn
<1>3. /\ runs' \subseteq RunSet
      /\ \A q \in runs' : /\ rows'[q.id] # None /\ Wraps(rows'[q.id])
                          /\ q.at \in {"launched", "stepped"} => q.target # None
  BY <1>1, NextSound, SoundRuns
<1>4. ClientsTyped'
  BY NextClients
<1> QED BY <1>1, <1>2, <1>3, <1>4 DEF TypeOK, ClientsTyped, RunSet

-----------------------------------------------------------------------------
(* Keys                                                                     *)

\* The key of a row that was spawned, and whose it is.
LEMMA SpawnedKeys ==
  ASSUME TypeOK, NEW row, Spawned(row)
  PROVE  /\ Key(row) = IF Wraps(row) THEN DerivedKey(CallersKey(row.call))
                                     ELSE CallersKey(row.call)
         /\ row.state = "pending" /\ row.step = None /\ row.payload = None /\ row.call \in Calls
         /\ row.by # None => /\ ~Wraps(row) /\ row.by \in Id
                             /\ rows[row.by] # None /\ Wraps(rows[row.by])
                             /\ row.call = rows[row.by].call
<1>1. ASSUME NEW c \in Calls, row = Row(c, "wrapper", WrapperOptions(c), None)
                                \/ row = Row(c, "task", Merged(c), None)
      PROVE  /\ Key(row) = IF Wraps(row) THEN DerivedKey(CallersKey(row.call))
                                         ELSE CallersKey(row.call)
             /\ row.state = "pending" /\ row.step = None /\ row.payload = None
             /\ row.call \in Calls /\ row.by = None
  BY <1>1, KeysOfOptions DEF Row, Wraps, Key, CallersKey
<1>2. ASSUME NEW r \in runs,
             row = Row(rows[r.id].call, "task", Replayed(rows[r.id].call), r.id)
      PROVE  /\ Key(row) = CallersKey(row.call) /\ ~Wraps(row)
             /\ row.state = "pending" /\ row.step = None /\ row.payload = None
             /\ row.call = rows[r.id].call /\ row.call \in Calls /\ row.by = r.id
  <2>1. rows[r.id].call \in Calls
    BY RunThere DEF TaskRow
  <2> QED BY <1>2, <2>1, KeysOfOptions DEF Row, Wraps, Key
<1> QED BY <1>1, <1>2, RunThere DEF Spawned

LEMMA NextRows ==
  ASSUME RowsInv, [Next]_vars
  PROVE  RowsInv' /\ RowsStep
<1>0. TypeOK' /\ RowsStep /\ TypeOK
  BY NextTyped DEF RowsInv
<1>1. \A i \in Id : rows[i] # None => rows'[i] # None /\ Onward(rows[i], rows'[i])
  BY <1>0, RowsGoOn
<1>2. ASSUME NEW i \in Id, rows[i] # None
      PROVE  /\ Key(rows'[i]) = IF Wraps(rows'[i]) THEN DerivedKey(CallersKey(rows'[i].call))
                                                   ELSE CallersKey(rows'[i].call)
             /\ rows'[i].by # None => /\ ~Wraps(rows'[i])
                                      /\ rows'[rows'[i].by] # None /\ Wraps(rows'[rows'[i].by])
                                      /\ rows'[i].call = rows'[rows'[i].by].call
  <2>1. rows[i].by \in Id \cup {None}
    BY <1>0, <1>2, RowThere DEF TaskRow
  <2> QED BY <1>1, <1>2, <2>1 DEF RowsInv, KeysRight, Onward, Key, Wraps
<1>3. \A i \in Id : rows[i] # None /\ Exists(i)' => Exists(i) /\ Key(rows'[i]) = Key(rows[i])
  BY <1>1 DEF Exists, Onward, Key
<1>4. CASE \A i \in Id : rows[i] = None => rows'[i] = None
  <2>1. KeysRight'
    BY <1>2, <1>4 DEF KeysRight
  <2>2. KeyTaken'
    BY <1>3, <1>4 DEF RowsInv, KeyTaken, Exists
  <2> QED BY <1>0, <2>1, <2>2 DEF RowsInv
<1>5. ASSUME NEW k \in Id, NEW row \in TaskRow, Appears(k, row), Spawned(row),
             Owners(Key(row)) = {}
      PROVE  KeysRight' /\ KeyTaken'
  <2>1. rows'[k] = row /\ \A i \in Id : i # k => rows'[i] = rows[i]
    BY <1>5 DEF Appears
  <2>2. KeysRight'
    <3>1. /\ Key(row) = IF Wraps(row) THEN DerivedKey(CallersKey(row.call))
                                      ELSE CallersKey(row.call)
          /\ row.by # None => /\ ~Wraps(row) /\ row.by \in Id
                              /\ rows[row.by] # None /\ Wraps(rows[row.by])
                              /\ row.call = rows[row.by].call
      BY <1>0, <1>5, SpawnedKeys
    <3>2. row.by # None => rows'[row.by] = rows[row.by]
      BY <1>5, <2>1, <3>1 DEF Appears
    <3> QED BY <1>2, <2>1, <3>1, <3>2 DEF KeysRight
  <2>3. \A i \in Id : i # k /\ Exists(i)' /\ Key(row) # Unset => Key(rows'[i]) # Key(row)
    BY <1>5, <2>1 DEF Owners, Exists, Key
  <2>4. \A i, j \in Id : i # k /\ j # k /\ Exists(i)' /\ Exists(j)' /\ Key(rows'[i]) # Unset
                           /\ Key(rows'[i]) = Key(rows'[j]) => i = j
    BY <2>1 DEF RowsInv, KeyTaken, Exists
  <2>5. KeyTaken'
    BY <2>1, <2>3, <2>4 DEF KeyTaken
  <2> QED BY <2>2, <2>5
<1>6. CASE rows' = rows \/ \E i \in Id : Touches(i)
  BY <1>4, <1>6, NoneAssumption DEF Touches
<1> QED BY <1>0, <1>5, <1>6 DEF RowsStep, RowsInv

-----------------------------------------------------------------------------
(* Names                                                                    *)

Keeps(i) ==
  /\ rows'[i].step = rows[i].step /\ rows'[i].payload = rows[i].payload
  /\ Wraps(rows[i]) /\ rows'[i].state = "completed" => rows[i].state = "completed"

\* The queue neither records a step nor completes a wrapper.
LEMMA QueueKeeps ==
  ASSUME TypeOK, NEW i \in Id,
         \/ Claim(i) \/ PolicyCancels(i) \/ CancelTask(i) \/ LeaseExpires(i)
         \/ CleanupTasks(i) \/ TargetStarts(i) \/ TargetEnds(i)
  PROVE  Keeps(i)
<1>1. rows[i] # None /\ rows[i] \in TaskRow /\ i \in DOMAIN rows
  BY RowThere DEF TypeOK, Claim, PolicyCancels, CancelTask, LeaseExpires, CleanupTasks,
                  TargetStarts, TargetEnds, Exists
<1>2. CASE LeaseExpires(i)
  <2>1. /\ rows[i].state = "running"
        /\ rows'[i] = AfterFailure(rows[i])
    BY <1>1, <1>2 DEF LeaseExpires
  <2>2. AfterFailure(rows[i]).step = rows[i].step /\ AfterFailure(rows[i]).payload = rows[i].payload
        /\ AfterFailure(rows[i]).state # "completed"
    BY <1>1 DEF AfterFailure, TaskRow
  <2> QED BY <2>1, <2>2 DEF Keeps
<1>3. CASE Claim(i)
  BY <1>1, <1>3 DEF Claim, Keeps, TaskRow
<1>4. CASE TargetStarts(i)
  BY <1>1, <1>4 DEF TargetStarts, Keeps, TaskRow
<1>5. CASE PolicyCancels(i) \/ CancelTask(i) \/ CleanupTasks(i)
  BY <1>1, <1>5 DEF PolicyCancels, CancelTask, CleanupTasks, Keeps, TaskRow
<1>6. CASE TargetEnds(i)
  BY <1>1, <1>6 DEF TargetEnds, Keeps, TaskRow
<1> QED BY <1>2, <1>3, <1>4, <1>5, <1>6

\* A handler records what its run has launched, and completes with what its step says.
LEMMA HandlerKeeps ==
  ASSUME TypeOK, NEW r \in runs,
         \/ SleepUntil(r) \/ ReplayStep(r) \/ CompleteStep(r) \/ Complete(r)
         \/ HandlerRaises(r) \/ WorkerDies(r)
  PROVE  LET i == r.id IN
         \/ Keeps(i)
         \/ /\ r.at = "launched" /\ rows'[i].step = r.target
            /\ rows'[i].payload = rows[i].payload /\ rows'[i].state = rows[i].state
         \/ r.at = "stepped" /\ rows'[i].payload = r.target /\ rows'[i].step = rows[i].step
<1> DEFINE i == r.id
<1>1. rows[i] # None /\ rows[i] \in TaskRow /\ i \in DOMAIN rows
  BY RunThere DEF TypeOK
<1>2. CASE rows' = rows
  BY <1>2 DEF Keeps
<1>3. CASE SleepUntil(r)
  BY <1>1, <1>2, <1>3 DEF SleepUntil, Keeps, TaskRow
<1>4. CASE ReplayStep(r) \/ WorkerDies(r)
  BY <1>2, <1>4 DEF ReplayStep, WorkerDies
<1>5. CASE CompleteStep(r) /\ rows' # rows
  <2>1. rows' = [rows EXCEPT ![i].step = r.target] /\ r.at = "launched"
    BY <1>5 DEF CompleteStep
  <2> QED BY <1>1, <2>1 DEF TaskRow
<1>6. CASE Complete(r) /\ rows' # rows
  <2>1. rows' = [rows EXCEPT ![i].state = "completed", ![i].payload = r.target] /\ r.at = "stepped"
    BY <1>6 DEF Complete
  <2> QED BY <1>1, <2>1 DEF TaskRow
<1>7. CASE HandlerRaises(r) /\ rows' # rows
  <2>1. rows[i].state = "running" /\ rows'[i] = AfterFailure(rows[i])
    BY <1>1, <1>7 DEF HandlerRaises, Accepts
  <2>2. AfterFailure(rows[i]).step = rows[i].step /\ AfterFailure(rows[i]).payload = rows[i].payload
        /\ AfterFailure(rows[i]).state # "completed"
    BY <1>1 DEF AfterFailure, TaskRow
  <2> QED BY <2>1, <2>2 DEF Keeps
<1> QED BY <1>2, <1>3, <1>4, <1>5, <1>6, <1>7

\* A name stays a name of the same task.
LEMMA NamedStays ==
  ASSUME TypeOK, RowsStep, NEW w \in Id, rows[w] # None, NEW i, Named(w, i)
  PROVE  Named(w, i)'
<1>1. /\ rows'[i] # None /\ Onward(rows[i], rows'[i]) /\ Onward(rows[w], rows'[w])
  BY RowsGoOn DEF Named
<1> QED BY <1>1 DEF Named, Onward, Wraps, Key

NamesOf(w) ==
  /\ rows[w].step # None => Named(w, rows[w].step)
  /\ rows[w].payload # None => Named(w, rows[w].payload)
  /\ rows[w].state = "completed" /\ Wraps(rows[w]) => rows[w].payload # None

LEMMA NamesKept ==
  ASSUME TypeOK, RowsStep, NEW w \in Id, rows[w] # None, NamesOf(w),
         \/ Keeps(w) \/ rows'[w] = rows[w]
         \/ \E x : /\ Named(w, x)
                   /\ rows'[w].step = x /\ rows'[w].payload = rows[w].payload
                   /\ rows'[w].state = rows[w].state
         \/ \E x : /\ Named(w, x) /\ x # None
                   /\ rows'[w].payload = x /\ rows'[w].step = rows[w].step
  PROVE  NamesOf(w)'
<1>1. Onward(rows[w], rows'[w])
  BY RowsGoOn
<1>2. \A x : Named(w, x) => Named(w, x)'
  BY NamedStays
<1> QED BY <1>1, <1>2 DEF NamesOf, Keeps, Onward, Wraps

LEMMA TargetNamed ==
  ASSUME RowsInv, NEW r \in runs, EnqueueTarget(r)
  PROVE  \E i \in Id : Goes(r, "launched", i) /\ Named(r.id, i)'
<1>0. TypeOK /\ r.id \in Id /\ rows[r.id] # None /\ rows[r.id].call \in Calls
  BY RunThere DEF RowsInv, TaskRow
<1> DEFINE c == rows[r.id].call
<1>1. PICK i \in Id, row \in TaskRow :
        /\ row = Row(c, "task", Replayed(c), r.id)
        /\ \/ rows' = rows /\ Exists(i) /\ Key(rows[i]) = Key(row) /\ Key(row) # Unset
           \/ Appears(i, row) /\ Owners(Key(row)) = {}
        /\ Goes(r, "launched", i)
  BY <1>0, TargetSpawns
<1>2. Key(row) = CallersKey(c) /\ ~Wraps(row) /\ row.call = c
  BY <1>0, <1>1, KeysOfOptions DEF Row, Key, Wraps
<1>3. CASE rows' = rows /\ Exists(i) /\ Key(rows[i]) = Key(row) /\ Key(row) # Unset
  BY <1>1, <1>2, <1>3 DEF Named, Exists, Key
<1>4. CASE Appears(i, row)
  <2>1. rows'[i] = row /\ row # None /\ rows'[r.id] = rows[r.id]
    BY <1>0, <1>4, NoneAssumption DEF Appears
  <2> QED BY <1>1, <1>2, <2>1 DEF Named
<1> QED BY <1>1, <1>3, <1>4

\* What the runs of the next state name.
LEMMA NextRunsNamed ==
  ASSUME RowsInv, NamesInv, [Next]_vars
  PROVE  \A q \in runs' : q.at \in {"launched", "stepped"} => Named(q.id, q.target)'
<1>0. TypeOK /\ RowsStep
  BY NextRows DEF RowsInv
<1>1. \A q \in runs : q.at \in {"launched", "stepped"} => Named(q.id, q.target)'
  BY <1>0, NamedStays, RunThere DEF NamesInv
<1>2. CASE runs' \subseteq runs
  BY <1>1, <1>2
<1>3. ASSUME NEW i \in Id, Claim(i)
      PROVE  \A q \in runs' : q.at \in {"launched", "stepped"} => Named(q.id, q.target)'
  BY <1>1, <1>3 DEF Claim
<1>4. ASSUME NEW r \in runs, NEW at, NEW x, Goes(r, at, x),
             at \in {"launched", "stepped"} => Named(r.id, x)'
      PROVE  \A q \in runs' : q.at \in {"launched", "stepped"} => Named(q.id, q.target)'
  <2>1. PICK m : m = [r EXCEPT !.at = at, !.target = x]
    OBVIOUS
  <2>2. m.id = r.id /\ m.at = at /\ m.target = x
    BY <1>0, <2>1 DEF TypeOK
  <2> QED BY <1>1, <1>4, <2>1, <2>2 DEF Goes
<1>5. ASSUME NEW r \in runs, Handler(r)
      PROVE  \A q \in runs' : q.at \in {"launched", "stepped"} => Named(q.id, q.target)'
  <2>1. CASE SleepUntil(r)
    BY <1>2, <1>4, <2>1 DEF SleepUntil, Ends
  <2>2. CASE ReplayStep(r)
    <3>1. Named(r.id, rows[r.id].step)
      BY <1>0, <2>2, RunThere DEF NamesInv, ReplayStep, StepDone
    <3>2. Named(r.id, rows[r.id].step)'
      BY <2>2, <3>1 DEF ReplayStep, Named
    <3> QED BY <1>4, <2>2, <3>1, <1>0, NamedStays, RunThere DEF ReplayStep
  <2>3. CASE EnqueueTarget(r)
    BY <1>4, <2>3, TargetNamed
  <2>4. CASE CompleteStep(r)
    <3>1. Named(r.id, r.target)'
      BY <1>1, <2>4 DEF CompleteStep
    <3> QED BY <1>2, <1>4, <2>4, <3>1 DEF CompleteStep, Ends
  <2>5. CASE Complete(r)
    BY <1>2, <2>5 DEF Complete, Ends
  <2> QED BY <1>5, <2>1, <2>2, <2>3, <2>4, <2>5 DEF Handler
<1>6. CASE \E r \in runs : HandlerRaises(r) \/ WorkerDies(r)
  BY <1>2, <1>6 DEF HandlerRaises, WorkerDies, Ends
<1>7. CASE \E i \in Id : \/ PolicyCancels(i) \/ CancelTask(i) \/ LeaseExpires(i)
                         \/ CleanupTasks(i) \/ TargetStarts(i) \/ TargetEnds(i)
  BY <1>2, <1>7 DEF PolicyCancels, CancelTask, LeaseExpires, CleanupTasks, TargetStarts, TargetEnds
<1>8. CASE (\E c \in Calls : Enqueue(c)) \/ GetResult \/ FetchTask \/ Tick \/ UNCHANGED vars
  BY <1>2, <1>8 DEF Enqueue, GetResult, FetchTask, Tick, vars
<1> QED BY <1>3, <1>5, <1>6, <1>7, <1>8 DEF Next

LEMMA NextNames ==
  ASSUME RowsInv, NamesInv, [Next]_vars
  PROVE  NamesInv'
<1>0. TypeOK /\ RowsStep /\ \A w \in Id : rows[w] # None => NamesOf(w)
  BY NextRows DEF RowsInv, NamesInv, NamesOf
<1>1. ASSUME NEW c \in Calls, Enqueue(c), NEW w \in Id, rows'[w] # None PROVE NamesOf(w)'
  <2>1. CASE rows[w] # None
    <3>1. rows'[w] = rows[w]
      BY <1>0, <1>1, <2>1, EnqueueSpawns DEF Appears
    <3> QED BY <1>0, <2>1, <3>1, NamesKept
  <2>2. CASE rows[w] = None
    <3>1. rows'[w].step = None /\ rows'[w].payload = None /\ rows'[w].state = "pending"
      BY <1>0, <1>1, <2>2, EnqueueSpawns DEF Appears, Row
    <3> QED BY <3>1 DEF NamesOf
  <2> QED BY <2>1, <2>2
<1>2. ASSUME NEW r \in runs, EnqueueTarget(r), NEW w \in Id, rows'[w] # None PROVE NamesOf(w)'
  <2>1. CASE rows[w] # None
    <3>1. rows'[w] = rows[w]
      BY <1>0, <1>2, <2>1, TargetSpawns DEF Appears
    <3> QED BY <1>0, <2>1, <3>1, NamesKept
  <2>2. CASE rows[w] = None
    <3>1. rows'[w].step = None /\ rows'[w].payload = None /\ rows'[w].state = "pending"
      BY <1>0, <1>2, <2>2, TargetSpawns DEF Appears, Row
    <3> QED BY <3>1 DEF NamesOf
  <2> QED BY <2>1, <2>2
<1>3. ASSUME NEW i \in Id, \/ Claim(i) \/ PolicyCancels(i) \/ CancelTask(i) \/ LeaseExpires(i)
                           \/ CleanupTasks(i) \/ TargetStarts(i) \/ TargetEnds(i),
             NEW w \in Id, rows'[w] # None
      PROVE  NamesOf(w)'
  <2>1. Touches(i) /\ Keeps(i)
    BY <1>0, <1>3, QueueTouches, QueueKeeps
  <2>2. rows[w] # None /\ (w # i => rows'[w] = rows[w])
    BY <1>3, <2>1, NoneAssumption DEF Touches
  <2> QED BY <1>0, <2>1, <2>2, NamesKept
<1>4. ASSUME NEW r \in runs, \/ SleepUntil(r) \/ ReplayStep(r) \/ CompleteStep(r) \/ Complete(r)
                             \/ HandlerRaises(r) \/ WorkerDies(r),
             NEW w \in Id, rows'[w] # None
      PROVE  NamesOf(w)'
  <2>1. rows' = rows \/ Touches(r.id)
    BY <1>0, <1>4, HandlerTouches
  <2>2. rows[w] # None /\ (w # r.id => rows'[w] = rows[w])
    BY <1>4, <2>1, NoneAssumption DEF Touches
  <2>3. r.at \in {"launched", "stepped"} => Named(r.id, r.target) /\ r.target # None
    BY <1>0, RunThere DEF NamesInv
  <2>4. \/ Keeps(r.id)
        \/ /\ r.at = "launched" /\ rows'[r.id].step = r.target
           /\ rows'[r.id].payload = rows[r.id].payload /\ rows'[r.id].state = rows[r.id].state
        \/ /\ r.at = "stepped" /\ rows'[r.id].payload = r.target
           /\ rows'[r.id].step = rows[r.id].step
    BY <1>0, <1>4, HandlerKeeps
  <2>5. CASE w = r.id
    BY <1>0, <2>2, <2>3, <2>4, <2>5, NamesKept
  <2>6. CASE w # r.id
    BY <1>0, <2>2, <2>6, NamesKept
  <2> QED BY <2>5, <2>6
<1>5. ASSUME GetResult \/ FetchTask \/ Tick \/ UNCHANGED vars, NEW w \in Id, rows'[w] # None
      PROVE  NamesOf(w)'
  <2>1. rows' = rows
    BY <1>5 DEF GetResult, FetchTask, Tick, vars
  <2> QED BY <1>0, <1>5, <2>1, NamesKept
<1>6. \A w \in Id : rows'[w] # None => NamesOf(w)'
  BY <1>1, <1>2, <1>3, <1>4, <1>5 DEF Next, Handler
<1> QED BY <1>6, NextRunsNamed DEF NamesInv, NamesOf

LEMMA InitRows == Init => RowsInv
BY DeferredAssumption DEF Init, RowsInv, TypeOK, KeysRight, KeyTaken, Exists

LEMMA InitNames == Init => NamesInv
BY DEF Init, NamesInv

\* No caller's key is another's with the suffix that the wrapper's has.
KeysApart == \A c, d \in Calls :
  CallersKey(c) # Unset => CallersKey(c) # DerivedKey(CallersKey(d))

LEMMA NamesAreTasks ==
  ASSUME KeysApart, RowsInv, NamesInv
  PROVE  WrapperNamesATask
<1> SUFFICES ASSUME NEW w \in Id, rows[w] # None, rows[w].payload # None
             PROVE  LET task == rows[rows[w].payload] IN
                    /\ ~Wraps(task)
                    /\ \/ task.call = rows[w].call
                       \/ Key(task) = CallersKey(rows[w].call)
  BY DEF WrapperNamesATask, Key, CallersKey
<1>1. PICK i \in Id : i = rows[w].payload /\ Named(w, i)
  BY DEF NamesInv, Named
<1>2. rows[i] # None /\ rows[i].call \in Calls /\ rows[w].call \in Calls
  BY <1>1, RowThere DEF Named, RowsInv, TaskRow
<1>3. CASE Key(rows[i]) = CallersKey(rows[w].call) /\ Key(rows[i]) # Unset
  <2>1. ~Wraps(rows[i])
    BY <1>2, <1>3 DEF RowsInv, KeysRight, KeysApart
  <2> QED BY <1>1, <1>3, <2>1
<1> QED BY <1>1, <1>3 DEF Named

\* backends.py:166: with keys that the derived ones cannot meet, what a wrapper
\* completed with is a task of the caller's call or key, never a wrapper.
THEOREM WrappersNameTasks ==
  ASSUME KeysApart PROVE Spec => []WrapperNamesATask
<1>1. RowsInv /\ [Next]_vars => RowsInv'
  BY NextRows
<1>2. RowsInv /\ NamesInv /\ [Next]_vars => NamesInv'
  BY NextNames
<1>3. RowsInv /\ NamesInv => WrapperNamesATask
  BY NamesAreTasks
<1> QED BY <1>1, <1>2, <1>3, InitRows, InitNames, PTL DEF Spec

-----------------------------------------------------------------------------
(* Answers                                                                  *)

LEMMA InitRead == Init => ReadInv
BY NoneAssumption DEF Init, ReadInv, Statuses

\* Before(B) holds B and whatever completed with the id of a row in it, and no more.
LEMMA BeforeHolds ==
  ASSUME NEW B \in SUBSET Id
  PROVE  /\ Before(B) \in SUBSET Id /\ B \subseteq Before(B)
         /\ \A i \in Id : Past(i) /\ rows[i].payload \in Before(B) => i \in Before(B)
         /\ \A i \in Before(B) : i \notin B => Past(i) /\ rows[i].payload \in Before(B)
<1>1. Before(B) \in SUBSET Id /\ B \subseteq Before(B)
  BY DEF Before
<1>2. ASSUME NEW i \in Id, Past(i), rows[i].payload \in Before(B) PROVE i \in Before(B)
  <2> SUFFICES ASSUME NEW S \in SUBSET Id, B \subseteq S, Closed(S) PROVE i \in S
    BY DEF Before
  <2>1. rows[i].payload \in S
    BY <1>2 DEF Before
  <2> QED BY <1>2, <2>1 DEF Closed
<1>3. ASSUME NEW i \in Before(B), i \notin B, ~(Past(i) /\ rows[i].payload \in Before(B))
      PROVE  FALSE
  <2> DEFINE S == Before(B) \ {i}
  <2>1. S \in SUBSET Id /\ B \subseteq S
    BY <1>1, <1>3
  <2>2. Closed(S)
    BY <1>2, <1>3 DEF Closed
  <2>3. i \in S
    BY <1>3, <2>1, <2>2 DEF Before
  <2> QED BY <2>3
<1> QED BY <1>1, <1>2, <1>3

\* What comes before a row comes before all that it comes before.
LEMMA BeforeJoins ==
  ASSUME NEW B \in SUBSET Id, NEW j \in Before(B), NEW i \in Before({j})
  PROVE  i \in Before(B)
<1>1. j \in Id /\ {j} \in SUBSET Id
  BY BeforeHolds
<1> SUFFICES ASSUME NEW S \in SUBSET Id, B \subseteq S, Closed(S) PROVE i \in S
  BY <1>1 DEF Before
<1>2. j \in S
  BY DEF Before
<1> QED BY <1>2 DEF Before

\* What has come to an end stays there, so what is before it does.
LEMMA EndsStay ==
  ASSUME TypeOK, RowsStep
  PROVE  /\ \A S : Closed(S)' => Closed(S)
         /\ Won \subseteq Won' /\ Gone \subseteq Gone'
<1>1. \A i \in Id : rows[i] # None => rows'[i] # None /\ Onward(rows[i], rows'[i])
  BY RowsGoOn
<1>2. \A i \in Id : Past(i) => Past(i)' /\ rows'[i].payload = rows[i].payload
  BY <1>1 DEF Onward, Past, Wraps
<1> QED BY <1>1, <1>2 DEF Closed, Onward, Won, Gone, Wraps

LEMMA BeforeStays ==
  ASSUME TypeOK, RowsStep
  PROVE  /\ Before(Won) \subseteq Before(Won)' /\ Before(Gone) \subseteq Before(Gone)'
         /\ \A j : Before({j}) \subseteq Before({j})'
BY EndsStay DEF Before

\* A get_result that stands still keeps its place, whatever the rows do.
LEMMA ReadStays ==
  ASSUME RowsInv, ReadInv, RowsStep, UNCHANGED <<answer, reading, seen>>
  PROVE  ReadInv'
<1>0. TypeOK /\ answer \in Id \cup {None} /\ reading \in Id \cup {None}
  BY DEF RowsInv, TypeOK
<1>1. \A i \in Id : rows[i] # None => rows'[i] # None
  BY <1>0, RowsGoOn
<1>2. /\ Before(Won) \subseteq Before(Won)' /\ Before(Gone) \subseteq Before(Gone)'
      /\ Before({reading}) \subseteq Before({reading})'
  BY <1>0, BeforeStays
<1> QED BY <1>0, <1>1, <1>2 DEF ReadInv

AnswerKept ==
  answer' = answer =>
    /\ seen = "SUCCESSFUL" => seen' \in {"SUCCESSFUL", "DoesNotExist"}
    /\ seen = "DoesNotExist" => seen' = "DoesNotExist"

\* get_result starts again at the caller's id.
LEMMA GetResultReads ==
  ASSUME RowsInv, ReadInv, GetResult
  PROVE  ReadInv' /\ AnswerKept
<1>0. /\ TypeOK /\ rows' = rows /\ answer' = answer /\ reading' = answer /\ seen' = seen
      /\ reading = None /\ answer \in Id
  BY DEF RowsInv, TypeOK, GetResult
<1>1. /\ Before(Won)' = Before(Won) /\ Before(Gone)' = Before(Gone)
      /\ Before({reading})' = Before({answer})
  BY <1>0 DEF Before, Closed, Past, Won, Gone
<1>2. answer \in Before({answer})
  BY <1>0, BeforeHolds
<1> QED BY <1>0, <1>1, <1>2 DEF ReadInv, AnswerKept

\* It follows a wrapper that completed, and reports what it finds at the end.
LEMMA FetchReads ==
  ASSUME RowsInv, NamesInv, ReadInv, FetchTask
  PROVE  ReadInv' /\ AnswerKept
<1>0. /\ TypeOK /\ rows' = rows /\ answer' = answer /\ reading # None /\ reading \in Id
      /\ answer \in Id /\ rows[answer] # None /\ rows[reading] # None
      /\ answer \in Before({reading})
  BY DEF RowsInv, FetchTask, TypeOK, ReadInv
<1>1. /\ Before(Won)' = Before(Won) /\ Before(Gone)' = Before(Gone)
      /\ \A j : Before({j})' = Before({j})
  BY <1>0 DEF Before, Closed, Past, Won, Gone
<1>2. Won \in SUBSET Id /\ Gone \in SUBSET Id
  BY DEF Won, Gone
<1>3. seen = "SUCCESSFUL" =>
        reading \in Won \/ (Past(reading) /\ rows[reading].payload \in Before(Won))
  BY <1>0, <1>2, BeforeHolds DEF ReadInv
<1>4. seen = "DoesNotExist" =>
        reading \in Gone \/ (Past(reading) /\ rows[reading].payload \in Before(Gone))
  BY <1>0, <1>2, BeforeHolds DEF ReadInv
<1>5. CASE Exists(reading) /\ Follows(rows[reading])
  <2>1. PICK j : j = rows[reading].payload
    OBVIOUS
  <2>2. reading' = j /\ seen' = seen
    BY <1>5, <2>1 DEF FetchTask
  <2>3. j \in Id /\ j # None /\ rows[j] # None /\ Past(reading) /\ reading \notin Won \cup Gone
    BY <1>0, <1>5, <2>1 DEF NamesInv, Named, Past, Follows, Won, Gone
  <2>4. {j} \in SUBSET Id /\ j \in Before({j})
    BY <2>3, BeforeHolds
  <2>5. reading \in Before({j})
    BY <1>0, <2>1, <2>3, <2>4, BeforeHolds
  <2>6. answer \in Before({j})
    BY <1>0, <2>4, <2>5, BeforeJoins
  <2> QED BY <1>0, <1>1, <1>3, <1>4, <2>1, <2>2, <2>3, <2>6 DEF ReadInv, AnswerKept
<1>6. CASE Exists(reading) /\ ~Follows(rows[reading])
  <2>1. reading' = None /\ seen' = Status(rows[reading]) /\ rows[reading].state # "gone"
    BY <1>6 DEF FetchTask, Exists
  <2>2. seen' # "DoesNotExist" /\ (seen' = "SUCCESSFUL" <=> rows[reading].state = "completed")
    BY <2>1 DEF Status, StateToStatus
  <2>3. ~Past(reading) /\ reading \notin Gone
    BY <1>6, <2>1 DEF Past, Follows, Gone
  <2>4. seen # "DoesNotExist" /\ (seen = "SUCCESSFUL" => seen' = "SUCCESSFUL")
    BY <1>3, <1>4, <2>1, <2>2, <2>3 DEF Won
  <2>5. seen' = "SUCCESSFUL" => reading \in Won
    BY <1>0, <1>6, <2>2 DEF Follows, Won
  <2>6. seen' = "SUCCESSFUL" => answer \in Before(Won)
    BY <1>0, <1>2, <2>5, BeforeHolds, BeforeJoins
  <2> QED BY <1>0, <1>1, <2>1, <2>2, <2>4, <2>6 DEF ReadInv, AnswerKept
<1>7. CASE ~Exists(reading)
  <2>1. reading' = None /\ seen' = "DoesNotExist" /\ reading \in Gone
    BY <1>0, <1>7 DEF FetchTask, Exists, Gone
  <2>2. answer \in Before(Gone)
    BY <1>0, <1>2, <2>1, BeforeHolds, BeforeJoins
  <2> QED BY <1>0, <1>1, <2>1, <2>2 DEF ReadInv, AnswerKept
<1> QED BY <1>5, <1>6, <1>7

\* An answer that is another task starts the watch again.
LEMMA EnqueueReads ==
  ASSUME RowsInv, ReadInv, RowsStep, NEW c \in Calls, Enqueue(c)
  PROVE  ReadInv' /\ AnswerKept
<1>1. PICK i \in Id, row \in TaskRow :
        /\ \/ rows' = rows /\ Exists(i) /\ Key(rows[i]) = Key(row) /\ Key(row) # Unset
           \/ Appears(i, row) /\ Owners(Key(row)) = {}
        /\ \/ c = watched /\ i # answer /\ answer' = i /\ reading' = None /\ seen' = None
           \/ UNCHANGED <<answer, reading, seen>>
  BY EnqueueSpawns DEF RowsInv
<1>2. rows'[i] # None
  BY <1>1, NoneAssumption DEF Appears, Exists
<1>3. CASE UNCHANGED <<answer, reading, seen>>
  BY <1>3, ReadStays DEF AnswerKept
<1>4. CASE i # answer /\ answer' = i /\ reading' = None /\ seen' = None
  BY <1>2, <1>4, NoneAssumption DEF ReadInv, AnswerKept, Statuses
<1> QED BY <1>1, <1>3, <1>4

LEMMA NextRead ==
  ASSUME RowsInv, NamesInv, ReadInv, [Next]_vars
  PROVE  ReadInv' /\ AnswerKept
<1>0. RowsStep
  BY NextRows
<1>1. CASE UNCHANGED <<answer, reading, seen>>
  BY <1>0, <1>1, ReadStays DEF AnswerKept
<1>2. ASSUME NEW i \in Id, \/ Claim(i) \/ PolicyCancels(i) \/ CancelTask(i) \/ LeaseExpires(i)
                           \/ CleanupTasks(i) \/ TargetStarts(i) \/ TargetEnds(i)
      PROVE  UNCHANGED <<answer, reading, seen>>
  BY <1>2 DEF Claim, PolicyCancels, CancelTask, LeaseExpires, CleanupTasks, TargetStarts,
              TargetEnds, Now, clients
<1>3. ASSUME NEW r \in runs, Handler(r) \/ HandlerRaises(r) \/ WorkerDies(r)
      PROVE  UNCHANGED <<answer, reading, seen>>
  BY <1>3 DEF Handler, SleepUntil, ReplayStep, EnqueueTarget, CompleteStep, Complete,
              HandlerRaises, WorkerDies, Now, clients
<1>4. CASE Tick \/ UNCHANGED vars
  BY <1>1, <1>4 DEF Tick, vars, clients
<1>5. ASSUME NEW c \in Calls, Enqueue(c) PROVE ReadInv' /\ AnswerKept
  BY <1>0, <1>5, EnqueueReads
<1> QED BY <1>1, <1>2, <1>3, <1>4, <1>5, GetResultReads, FetchReads DEF Next

\* backends.py:227, the caller's id keeps naming one task: what get_result has said of it
\* is final, a success until cleanup deletes a row and a row's absence for good, also when
\* a wrapper completes or is deleted between its reads, and whatever it has to follow.
THEOREM AnswersStayFinal ==
  Spec => AnswersAreFinal
<1>1. RowsInv /\ [Next]_vars => RowsInv'
  BY NextRows
<1>2. RowsInv /\ NamesInv /\ [Next]_vars => NamesInv'
  BY NextNames
<1>3. RowsInv /\ NamesInv /\ ReadInv /\ [Next]_vars => ReadInv'
  BY NextRead
<1>4. RowsInv /\ NamesInv /\ ReadInv /\ [Next]_vars =>
        [answer' = answer =>
           /\ seen = "SUCCESSFUL" => seen' \in {"SUCCESSFUL", "DoesNotExist"}
           /\ seen = "DoesNotExist" => seen' = "DoesNotExist"]_vars
  BY NextRead DEF AnswerKept
<1> QED BY <1>1, <1>2, <1>3, <1>4, InitRows, InitNames, InitRead, PTL
        DEF Spec, AnswersAreFinal

-----------------------------------------------------------------------------
(* Launches                                                                 *)

\* How a finite set shrinks, and grows or changes by one element.
LEMMA Smaller ==
  ASSUME NEW S, IsFiniteSet(S), NEW T, T \subseteq S
  PROVE  /\ IsFiniteSet(T) /\ Cardinality(S) \in Nat /\ Cardinality(T) \in Nat
         /\ Cardinality(T) <= Cardinality(S)
<1>1. IsFiniteSet(T) /\ Cardinality(T) <= Cardinality(S)
  BY FS_Subset
<1> QED BY <1>1, FS_CardinalityType

LEMMA GrowsByOne ==
  ASSUME NEW S, IsFiniteSet(S), NEW x, NEW T, T \subseteq S \cup {x}
  PROVE  Cardinality(T) \in Nat /\ Cardinality(T) <= Cardinality(S) + 1
<1>1. Cardinality(S) \in Nat
  BY FS_CardinalityType
<1>2. IsFiniteSet(S \cup {x}) /\ Cardinality(S \cup {x}) <= Cardinality(S) + 1
  BY <1>1, FS_AddElement
<1>3. /\ Cardinality(T) \in Nat /\ Cardinality(S \cup {x}) \in Nat
      /\ Cardinality(T) <= Cardinality(S \cup {x})
  BY <1>2, Smaller
<1> QED BY <1>1, <1>2, <1>3

LEMMA ShrinksByOne ==
  ASSUME NEW S, IsFiniteSet(S), NEW x \in S, NEW T, T \subseteq S \ {x}
  PROVE  Cardinality(T) \in Nat /\ Cardinality(T) + 1 <= Cardinality(S)
<1>1. Cardinality(S) \in Nat
  BY FS_CardinalityType
<1>2. IsFiniteSet(S \ {x}) /\ Cardinality(S \ {x}) = Cardinality(S) - 1
  BY <1>1, FS_RemoveElement
<1>3. Cardinality(T) \in Nat /\ Cardinality(T) <= Cardinality(S \ {x})
  BY <1>2, Smaller
<1> QED BY <1>1, <1>2, <1>3

LEMMA SwapsOne ==
  ASSUME NEW S, IsFiniteSet(S), NEW x \in S, NEW y, NEW T, T \subseteq (S \ {x}) \cup {y}
  PROVE  Cardinality(T) \in Nat /\ Cardinality(T) <= Cardinality(S)
<1>1. IsFiniteSet(S \ {x}) /\ Cardinality(S \ {x}) + 1 = Cardinality(S)
  <2>1. Cardinality(S) \in Nat
    BY FS_CardinalityType
  <2> QED BY <2>1, FS_RemoveElement
<1>2. Cardinality(T) \in Nat /\ Cardinality(T) <= Cardinality(S \ {x}) + 1
  BY <1>1, GrowsByOne
<1> QED BY <1>1, <1>2

Chance(w) == IF Unclaimed(w) THEN 1 ELSE 0
WithinFaults(w) == Cardinality(Launched(w)) + Allowance(w) <= faults + 1

\* The numbers that the budget adds up.
Counted ==
  /\ faults \in Nat
  /\ \A w \in Id :
       /\ IsFiniteSet(Launched(w)) /\ Cardinality(Launched(w)) \in Nat
       /\ IsFiniteSet(Unlaunched(w)) /\ Cardinality(Unlaunched(w)) \in Nat
       /\ Chance(w) \in {0, 1}
       /\ Allowance(w) = IF rows[w].step # None THEN 0
                         ELSE Cardinality(Unlaunched(w)) + Chance(w)
       /\ Allowance(w) \in Nat

LEMMA Counts == TypeOK /\ RunsFinite => Counted
<1> SUFFICES ASSUME TypeOK, IsFiniteSet(runs) PROVE Counted
  BY DEF RunsFinite
<1>1. IsFiniteSet(Id)
  BY DeferredAssumption, FS_Interval DEF Id
<1>2. ASSUME NEW w \in Id
      PROVE  /\ IsFiniteSet(Launched(w)) /\ Cardinality(Launched(w)) \in Nat
             /\ IsFiniteSet(Unlaunched(w)) /\ Cardinality(Unlaunched(w)) \in Nat
             /\ Chance(w) \in {0, 1}
             /\ Allowance(w) = IF rows[w].step # None THEN 0
                               ELSE Cardinality(Unlaunched(w)) + Chance(w)
  <2>1. Launched(w) \subseteq Id /\ Unlaunched(w) \subseteq runs
    BY DEF Launched, Unlaunched
  <2> QED BY <1>1, <2>1, Smaller DEF Chance, Allowance
<1>3. faults \in Nat
  BY DeferredAssumption DEF TypeOK
<1> QED BY <1>2, <1>3 DEF Counted

\* A step that launches nothing keeps within the budget where nothing is to be launched, and
\* where it spends, or makes room for, what it adds.
LEMMA BudgetKept ==
  ASSUME TypeOK, TypeOK', RunsFinite, RunsFinite', NEW w \in Id,
         WithinFaults(w), Launched(w)' \subseteq Launched(w),
         faults' \in Nat, faults' >= faults,
         \/ rows'[w].step # None
         \/ /\ rows[w].step = None
            /\ Cardinality(Unlaunched(w)') + Chance(w)' + faults
                 <= Cardinality(Unlaunched(w)) + Chance(w) + faults'
  PROVE  WithinFaults(w)'
<1>0. Counted /\ Counted'
  BY Counts, PTL
<1>1. /\ faults \in Nat /\ Cardinality(Launched(w)) \in Nat /\ Cardinality(Unlaunched(w)) \in Nat
      /\ Chance(w) \in {0, 1} /\ IsFiniteSet(Launched(w))
      /\ Allowance(w) = IF rows[w].step # None THEN 0 ELSE Cardinality(Unlaunched(w)) + Chance(w)
      /\ Allowance(w) \in Nat
  BY <1>0 DEF Counted
<1>2. /\ Cardinality(Unlaunched(w)') \in Nat /\ Chance(w)' \in {0, 1}
      /\ Allowance(w)' = IF rows'[w].step # None THEN 0
                         ELSE Cardinality(Unlaunched(w)') + Chance(w)'
  BY <1>0 DEF Counted
<1>3. Cardinality(Launched(w)') \in Nat /\ Cardinality(Launched(w)') <= Cardinality(Launched(w))
  BY <1>1, Smaller
<1> QED BY <1>1, <1>2, <1>3 DEF WithinFaults

Budgeted == \A w \in Id : rows[w] # None /\ Wraps(rows[w]) => WithinFaults(w)

\* Whoever adds no row launches nothing.
LEMMA NothingLaunched ==
  ASSUME TypeOK, rows' = rows \/ \E i \in Id : Touches(i)
  PROVE  /\ \A w : Launched(w)' \subseteq Launched(w)
         /\ \A i \in Id : rows'[i] # None =>
              rows[i] # None /\ Wraps(rows[i]) = Wraps(rows'[i])
<1>1. \A i \in Id : rows'[i] # None =>
        rows[i] # None /\ rows[i].by = rows'[i].by /\ rows[i].name = rows'[i].name
  BY NoneAssumption DEF Touches, Onward
<1>2. ASSUME NEW w, NEW i \in Launched(w)' PROVE i \in Launched(w)
  BY <1>1, <1>2 DEF Launched
<1> QED BY <1>1, <1>2 DEF Wraps

\* A wrapper whose row and runs a step leaves alone.
LEMMA AsideWithin ==
  ASSUME TypeOK, TypeOK', RunsFinite, RunsFinite', NEW w \in Id, WithinFaults(w),
         Launched(w)' \subseteq Launched(w), faults' \in Nat, faults' >= faults,
         rows'[w] = rows[w],
         \A q : q.id = w => (q \in runs <=> q \in runs')
  PROVE  WithinFaults(w)'
<1>1. Unlaunched(w)' = Unlaunched(w)
  BY DEF Unlaunched
<1>2. Unclaimed(w)' <=> Unclaimed(w)
  BY DEF Unclaimed
<1>3. Counted
  BY Counts
<1>4. faults \in Nat /\ Cardinality(Unlaunched(w)) \in Nat /\ Chance(w) \in {0, 1}
  BY <1>3 DEF Counted
<1>5. Chance(w)' = Chance(w)
  BY <1>2 DEF Chance
<1> QED BY <1>1, <1>4, <1>5, BudgetKept

\* A claim turns the chance into a run; whatever else the queue does to a wrapper
\* leaves its runs, and gives it a new chance only where its run is a fault's.
LEMMA QueueBudget ==
  ASSUME TypeOK, TypeOK', RunsFinite, Budgeted, NEW i \in Id,
         \/ Claim(i) \/ PolicyCancels(i) \/ CancelTask(i) \/ LeaseExpires(i)
         \/ CleanupTasks(i) \/ TargetStarts(i) \/ TargetEnds(i)
  PROVE  Budgeted' /\ RunsFinite'
<1> DEFINE new == [id |-> i, n |-> rows[i].attempt, at |-> "waiting", target |-> None]
<1>0. /\ Touches(i) /\ Keeps(i) /\ i \in DOMAIN rows /\ rows[i] # None /\ rows[i] \in TaskRow
      /\ Counted
  BY QueueTouches, QueueKeeps, Counts, NoneAssumption DEF TypeOK, Touches
<1>1. faults \in Nat /\ faults' \in Nat /\ faults' >= faults
  <2>1. faults \in Nat
    BY <1>0 DEF Counted
  <2> QED BY <2>1 DEF Claim, PolicyCancels, CancelTask, LeaseExpires, CleanupTasks,
                      TargetStarts, TargetEnds, Fault
<1>2. runs' = runs \/ (Claim(i) /\ runs' = runs \cup {new})
  BY DEF Claim, PolicyCancels, CancelTask, LeaseExpires, CleanupTasks, TargetStarts, TargetEnds
<1>3. RunsFinite'
  BY <1>2, FS_AddElement DEF RunsFinite
<1>4. \A w : Launched(w)' \subseteq Launched(w)
  BY <1>0, NothingLaunched
<1>5. ASSUME NEW w \in Id, w # i, rows'[w] # None, Wraps(rows'[w]) PROVE WithinFaults(w)'
  <2>1. rows'[w] = rows[w] /\ WithinFaults(w)
    BY <1>0, <1>5 DEF Touches, Budgeted
  <2>2. \A q : q.id = w => (q \in runs <=> q \in runs')
    BY <1>2, <1>5
  <2> QED BY <1>1, <1>3, <1>4, <2>1, <2>2, AsideWithin
<1>6. ASSUME Wraps(rows'[i]) PROVE WithinFaults(i)'
  <2>1. Wraps(rows[i]) /\ WithinFaults(i)
    BY <1>0, <1>6 DEF Touches, Onward, Wraps, Budgeted
  <2>2. rows'[i].step = rows[i].step
    BY <1>0 DEF Keeps
  <2>3. /\ Cardinality(Unlaunched(i)) \in Nat /\ Chance(i) \in {0, 1}
        /\ IsFiniteSet(Unlaunched(i))
    BY <1>0 DEF Counted
  <2>4. CASE Claim(i)
    <3>1. rows[i].state \in {"pending", "sleeping"} /\ runs' = runs \cup {new}
      BY <2>4 DEF Claim, Claimable
    <3>2. rows'[i].state = "running" /\ rows'[i].attempt = rows[i].attempt
      BY <1>0, <2>4 DEF Claim, TaskRow
    <3>3. Chance(i) = 1
      BY <3>1 DEF Chance, Unclaimed
    <3>4. new \in runs' /\ new.id = i /\ new.n = rows[i].attempt
      BY <3>1
    <3>5. Chance(i)' = 0
      BY <3>2, <3>4 DEF Chance, Unclaimed
    <3>6. Unlaunched(i)' \subseteq Unlaunched(i) \cup {new}
      BY <3>1 DEF Unlaunched
    <3>7. Cardinality(Unlaunched(i)') \in Nat
          /\ Cardinality(Unlaunched(i)') <= Cardinality(Unlaunched(i)) + 1
      BY <2>3, <3>6, GrowsByOne
    <3> QED BY <1>1, <1>3, <1>4, <2>1, <2>2, <2>3, <3>3, <3>5, <3>7, BudgetKept
  <2>5. CASE \/ PolicyCancels(i) \/ CancelTask(i) \/ CleanupTasks(i)
             \/ TargetStarts(i) \/ TargetEnds(i)
    <3>1. runs' = runs
      BY <2>5 DEF PolicyCancels, CancelTask, CleanupTasks, TargetStarts, TargetEnds
    <3>2. rows'[i].state \notin {"pending", "sleeping", "running"}
      BY <1>0, <2>1, <2>5 DEF PolicyCancels, CancelTask, CleanupTasks, TargetStarts, TargetEnds,
                              TaskRow
    <3>3. Unlaunched(i)' = Unlaunched(i) /\ Chance(i)' = 0
      BY <3>1, <3>2 DEF Unlaunched, Chance, Unclaimed
    <3> QED BY <1>1, <1>3, <1>4, <2>1, <2>2, <2>3, <3>3, BudgetKept
  <2>6. CASE LeaseExpires(i)
    <3>1. Unlaunched(i)' = Unlaunched(i)
      BY <2>6 DEF LeaseExpires, Unlaunched
    <3>2. Chance(i)' \in {0, 1}
      BY DEF Chance
    <3>3. Chance(i) = 1 \/ faults' = faults + 1
      BY <2>6 DEF LeaseExpires, Chance, Unclaimed, Fault
    <3> QED BY <1>1, <1>3, <1>4, <2>1, <2>2, <2>3, <3>1, <3>2, <3>3, BudgetKept
  <2> QED BY <2>4, <2>5, <2>6
<1> QED BY <1>3, <1>5, <1>6 DEF Budgeted

\* A run that ends or goes on is replaced by nothing or by itself.
RunOnly(r) == \/ Ends(r)
              \/ \E at \in {"due", "launched", "stepped"}, x \in Id \cup {None} : Goes(r, at, x)

LEMMA RunMoves ==
  ASSUME TypeOK, RunsFinite, NEW r \in runs, RunOnly(r)
  PROVE  /\ RunsFinite'
         /\ \A q : q.id # r.id => (q \in runs <=> q \in runs')
         /\ \A w \in Id : w # r.id => \A q : q.id = w => (q \in runs <=> q \in runs')
         /\ \A q \in runs : q # r => q \in runs'
<1>1. CASE Ends(r)
  <2>1. IsFiniteSet(runs \ {r})
    BY FS_RemoveElement DEF RunsFinite
  <2> QED BY <1>1, <2>1 DEF Ends, RunsFinite
<1>2. ASSUME NEW at \in {"due", "launched", "stepped"}, NEW x \in Id \cup {None}, Goes(r, at, x)
      PROVE  /\ RunsFinite'
             /\ \A q : q.id # r.id => (q \in runs <=> q \in runs')
             /\ \A q \in runs : q # r => q \in runs'
  <2>1. PICK m : m = [r EXCEPT !.at = at, !.target = x]
    OBVIOUS
  <2>2. m.id = r.id
    BY <2>1 DEF TypeOK
  <2>3. runs' = (runs \ {r}) \cup {m}
    BY <1>2, <2>1 DEF Goes
  <2>4. IsFiniteSet((runs \ {r}) \cup {m})
    <3>1. IsFiniteSet(runs \ {r})
      BY FS_RemoveElement DEF RunsFinite
    <3> QED BY <3>1, FS_AddElement
  <2> QED BY <2>2, <2>3, <2>4 DEF RunsFinite
<1> QED BY <1>1, <1>2 DEF RunOnly

\* A run that goes on is still there for its attempt.
LEMMA GoesChance ==
  ASSUME TypeOK, NEW r \in runs, NEW at, NEW x, Goes(r, at, x),
         rows'[r.id] = rows[r.id]
  PROVE  Unclaimed(r.id)' => Unclaimed(r.id)
<1>1. PICK m : m = [r EXCEPT !.at = at, !.target = x]
  OBVIOUS
<1>2. m.id = r.id /\ m.n = r.n /\ m \in runs' /\ runs' = (runs \ {r}) \cup {m}
  BY <1>1 DEF TypeOK, Goes
<1> QED BY <1>2 DEF Unclaimed

\* What a handler does to the budget of its wrapper, whichever way its run leaves.
LEMMA HandlerOwnBudget ==
  ASSUME TypeOK, TypeOK', RunsFinite, RunsFinite', NEW r \in runs, WithinFaults(r.id),
         Launched(r.id)' \subseteq Launched(r.id), faults' \in Nat, faults' >= faults,
         rows[r.id].step # None => rows'[r.id].step # None,
         \/ SleepUntil(r) \/ ReplayStep(r) \/ CompleteStep(r) \/ Complete(r)
         \/ HandlerRaises(r) \/ WorkerDies(r),
         r.at = "stepped" => rows[r.id].step # None
  PROVE  WithinFaults(r.id)'
<1> DEFINE i == r.id
           U == Unlaunched(i)
<1>0. i \in Id /\ Counted /\ rows[i] \in TaskRow /\ rows[i] # None /\ i \in DOMAIN rows
      /\ (r.at \in {"launched", "stepped"} => r.target # None)
  BY Counts, RunThere DEF TypeOK
<1>1. /\ Cardinality(U) \in Nat /\ Chance(i) \in {0, 1} /\ IsFiniteSet(U) /\ faults \in Nat
  BY <1>0 DEF Counted
<1>2. Chance(i)' \in {0, 1}
  BY DEF Chance
<1>3. CASE rows'[i].step # None
  BY <1>0, <1>3, BudgetKept
<1>4. CASE rows[i].step = None /\ Ends(r) /\ r.at \in {"waiting", "due"}
  <2>1. r \in U /\ Unlaunched(i)' \subseteq U \ {r}
    BY <1>4 DEF Unlaunched, Ends
  <2>2. Cardinality(Unlaunched(i)') \in Nat /\ Cardinality(Unlaunched(i)') + 1 <= Cardinality(U)
    BY <1>1, <2>1, ShrinksByOne
  <2> QED BY <1>0, <1>1, <1>2, <1>4, <2>2, BudgetKept
<1>5. CASE rows[i].step = None /\ Ends(r) /\ faults' = faults + 1
  <2>1. Unlaunched(i)' \subseteq U
    BY <1>5 DEF Unlaunched, Ends
  <2>2. Cardinality(Unlaunched(i)') \in Nat /\ Cardinality(Unlaunched(i)') <= Cardinality(U)
    BY <1>1, <2>1, Smaller
  <2> QED BY <1>0, <1>1, <1>2, <1>5, <2>2, BudgetKept
<1>6. CASE rows[i].step = None /\ Ends(r) /\ rows' = rows /\ ~Accepts(r)
  <2>1. Unlaunched(i)' \subseteq U
    BY <1>6 DEF Unlaunched, Ends
  <2>2. Cardinality(Unlaunched(i)') \in Nat /\ Cardinality(Unlaunched(i)') <= Cardinality(U)
    BY <1>1, <2>1, Smaller
  <2>3. Unclaimed(i)' => Unclaimed(i)
    BY <1>6 DEF Unclaimed, Accepts, Ends
  <2>4. Chance(i)' <= Chance(i)
    BY <2>3 DEF Chance
  <2> QED BY <1>0, <1>1, <1>2, <1>6, <2>2, <2>4, BudgetKept
<1>7. CASE rows[i].step = None /\ r.at = "waiting" /\ Goes(r, "due", None) /\ rows' = rows
  <2>1. PICK m : m = [r EXCEPT !.at = "due", !.target = None]
    OBVIOUS
  <2>2. r \in U /\ Unlaunched(i)' \subseteq (U \ {r}) \cup {m}
    BY <1>7, <2>1 DEF Unlaunched, Goes
  <2>3. Cardinality(Unlaunched(i)') \in Nat /\ Cardinality(Unlaunched(i)') <= Cardinality(U)
    BY <1>1, <2>2, SwapsOne
  <2>4. Unclaimed(i)' => Unclaimed(i)
    BY <1>7, GoesChance
  <2>5. Chance(i)' <= Chance(i)
    BY <2>4 DEF Chance
  <2> QED BY <1>0, <1>1, <1>2, <1>7, <2>3, <2>5, BudgetKept
<1>8. CASE SleepUntil(r)
  <2>1. \/ Ends(r)
        \/ Goes(r, "due", None) /\ rows' = rows
    BY <1>8 DEF SleepUntil
  <2>2. r.at = "waiting"
    BY <1>8 DEF SleepUntil
  <2> QED BY <1>3, <1>4, <1>7, <2>1, <2>2
<1>9. CASE ReplayStep(r)
  BY <1>3, <1>9 DEF ReplayStep, StepDone
<1>10. CASE CompleteStep(r)
  <2>1. CASE Accepts(r)
    <3>1. rows' = [rows EXCEPT ![i].step = r.target] /\ r.at = "launched"
      BY <1>10, <2>1 DEF CompleteStep
    <3>2. rows'[i].step = r.target
      BY <1>0, <3>1 DEF TaskRow
    <3> QED BY <1>0, <1>3, <3>1, <3>2
  <2>2. CASE ~Accepts(r)
    BY <1>3, <1>6, <1>10, <2>2 DEF CompleteStep
  <2> QED BY <2>1, <2>2
<1>11. CASE Complete(r)
  BY <1>3, <1>11 DEF Complete
<1>12. CASE HandlerRaises(r) \/ WorkerDies(r)
  BY <1>3, <1>5, <1>12 DEF HandlerRaises, WorkerDies, Fault
<1> QED BY <1>8, <1>9, <1>10, <1>11, <1>12

LEMMA HandlerBudget ==
  ASSUME TypeOK, TypeOK', RunsFinite, Budgeted, NEW r \in runs,
         \/ SleepUntil(r) \/ ReplayStep(r) \/ CompleteStep(r) \/ Complete(r)
         \/ HandlerRaises(r) \/ WorkerDies(r),
         r.at = "stepped" => rows[r.id].step # None
  PROVE  Budgeted' /\ RunsFinite'
<1>0. /\ rows' = rows \/ Touches(r.id)
      /\ r.id \in Id /\ rows[r.id] # None /\ Wraps(rows[r.id]) /\ rows[r.id] \in TaskRow
      /\ Counted
  BY HandlerTouches, RunThere, Counts
<1>1. RunOnly(r)
  <2>1. None \in Id \cup {None} /\ r.target \in Id \cup {None}
        /\ rows[r.id].step \in Id \cup {None}
    BY <1>0, RunThere DEF TaskRow
  <2> QED BY <2>1 DEF RunOnly, SleepUntil, ReplayStep, CompleteStep, Complete, HandlerRaises,
                      WorkerDies
<1>2. RunsFinite' /\ \A w \in Id : w # r.id => \A q : q.id = w => (q \in runs <=> q \in runs')
  BY <1>1, RunMoves
<1>3. faults \in Nat /\ faults' \in Nat /\ faults' >= faults
  <2>1. faults \in Nat
    BY <1>0 DEF Counted
  <2> QED BY <2>1 DEF SleepUntil, ReplayStep, CompleteStep, Complete, HandlerRaises, WorkerDies,
                      Fault
<1>4. /\ \A w : Launched(w)' \subseteq Launched(w)
      /\ \A i \in Id : rows'[i] # None =>
              rows[i] # None /\ Wraps(rows[i]) = Wraps(rows'[i])
  BY <1>0, NothingLaunched
<1>5. ASSUME NEW w \in Id, w # r.id, rows'[w] # None, Wraps(rows'[w]) PROVE WithinFaults(w)'
  <2>1. rows'[w] = rows[w] /\ WithinFaults(w)
    BY <1>0, <1>4, <1>5 DEF Touches, Budgeted
  <2> QED BY <1>2, <1>3, <1>4, <1>5, <2>1, AsideWithin
<1>6. WithinFaults(r.id)'
  <2>1. rows[r.id].step # None => rows'[r.id].step # None
    BY <1>0 DEF Touches, Onward
  <2>2. WithinFaults(r.id)
    BY <1>0 DEF Budgeted
  <2> QED BY <1>2, <1>3, <1>4, <2>1, <2>2, HandlerOwnBudget
<1> QED BY <1>2, <1>5, <1>6 DEF Budgeted

\* A client's row is nobody's launch, and a new wrapper has launched nothing.
LEMMA EnqueueBudget ==
  ASSUME RowsInv, TypeOK', RunsFinite, Budgeted, NEW c \in Calls, Enqueue(c)
  PROVE  Budgeted' /\ RunsFinite'
<1>0. TypeOK /\ Counted /\ runs' = runs /\ faults' = faults /\ faults \in Nat
  <2>1. TypeOK /\ Counted
    BY Counts DEF RowsInv
  <2> QED BY <2>1 DEF Counted, Enqueue
<1>1. RunsFinite'
  BY <1>0 DEF RunsFinite
<1>2. PICK k \in Id, row \in TaskRow :
        /\ row.by = None /\ row.state = "pending" /\ row.step = None
        /\ rows' = rows \/ Appears(k, row)
  <2>1. PICK k \in Id, row \in TaskRow :
          /\ \/ row = Row(c, "wrapper", WrapperOptions(c), None)
             \/ row = Row(c, "task", Merged(c), None)
          /\ rows' = rows \/ Appears(k, row)
    BY <1>0, EnqueueSpawns
  <2>2. row.by = None /\ row.state = "pending" /\ row.step = None
    BY <2>1 DEF Row
  <2> QED BY <2>1, <2>2
<1>3. None \notin Id
  BY DeferredAssumption
<1>4. \A w \in Id : Launched(w)' \subseteq Launched(w)
  <2> SUFFICES ASSUME NEW w \in Id, NEW i \in Launched(w)' PROVE i \in Launched(w)
    OBVIOUS
  <2>1. i \in Id /\ rows'[i] # None /\ rows'[i].by = w
    BY DEF Launched
  <2>2. rows'[i] = rows[i]
    BY <1>2, <1>3, <2>1 DEF Appears
  <2> QED BY <2>1, <2>2 DEF Launched
<1>5. ASSUME NEW w \in Id, rows[w] # None, Wraps(rows'[w]) PROVE WithinFaults(w)'
  <2>1. rows'[w] = rows[w]
    BY <1>2, <1>5 DEF Appears
  <2>2. WithinFaults(w)
    BY <1>5, <2>1 DEF Budgeted
  <2>3. \A q : q.id = w => (q \in runs <=> q \in runs')
    BY <1>0
  <2>4. faults' \in Nat /\ faults' >= faults
    BY <1>0
  <2> QED BY <1>0, <1>1, <1>4, <2>1, <2>2, <2>3, <2>4, AsideWithin
<1>6. ASSUME NEW w \in Id, rows[w] = None PROVE WithinFaults(w)'
  <2>1. Launched(w) = {}
    BY <1>3, <1>6 DEF RowsInv, KeysRight, Launched
  <2>2. Launched(w)' = {}
    BY <1>4, <2>1
  <2>3. Unlaunched(w)' = {}
    BY <1>0, <1>6, RunThere DEF Unlaunched
  <2>4. Counted'
    BY <1>1, Counts, PTL
  <2>5. /\ Chance(w)' \in {0, 1}
        /\ Allowance(w)' = IF rows'[w].step # None THEN 0
                           ELSE Cardinality(Unlaunched(w)') + Chance(w)'
    BY <2>4 DEF Counted
  <2>6. Cardinality({}) = 0
    BY FS_EmptySet
  <2> QED BY <1>0, <2>2, <2>3, <2>5, <2>6 DEF WithinFaults
<1> QED BY <1>1, <1>5, <1>6 DEF Budgeted

\* The step's enqueue spends its run.
LEMMA TargetBudget ==
  ASSUME RowsInv, TypeOK', RunsFinite, Budgeted, NEW r \in runs, EnqueueTarget(r)
  PROVE  Budgeted' /\ RunsFinite'
<1> DEFINE i == r.id
<1>0. /\ TypeOK /\ Counted /\ faults' = faults /\ faults \in Nat
      /\ i \in Id /\ rows[i] # None /\ Wraps(rows[i]) /\ r.at = "due" /\ rows[i].step = None
  <2>1. TypeOK /\ Counted
    BY Counts DEF RowsInv
  <2> QED BY <2>1, RunThere DEF Counted, EnqueueTarget, StepDone
<1>1. PICK k \in Id, row \in TaskRow :
        /\ row.by = i /\ ~Wraps(row)
        /\ rows' = rows \/ Appears(k, row)
        /\ Goes(r, "launched", k)
  <2>1. PICK k \in Id, row \in TaskRow :
          /\ row = Row(rows[r.id].call, "task", Replayed(rows[r.id].call), r.id)
          /\ rows' = rows \/ Appears(k, row)
          /\ Goes(r, "launched", k)
    BY <1>0, TargetSpawns
  <2>2. row.by = i /\ ~Wraps(row)
    BY <2>1 DEF Row, Wraps
  <2> QED BY <2>1, <2>2
<1>2. RunOnly(r)
  BY <1>1 DEF RunOnly
<1>3. RunsFinite' /\ \A w \in Id : w # i => \A q : q.id = w => (q \in runs <=> q \in runs')
  BY <1>0, <1>2, RunMoves
<1>4. \A j \in Id : j # k => rows'[j] = rows[j]
  BY <1>1 DEF Appears
<1>5. rows[k] # None => rows'[k] = rows[k]
  BY <1>1 DEF Appears
<1>6. rows[k] = None /\ rows'[k] # None => rows'[k] = row
  BY <1>1 DEF Appears
<1>7. ASSUME NEW w \in Id, w # i, rows'[w] # None, Wraps(rows'[w]) PROVE WithinFaults(w)'
  <2>1. rows[w] # None /\ rows'[w] = rows[w]
    BY <1>1, <1>4, <1>5, <1>6, <1>7
  <2>2. WithinFaults(w)
    BY <1>7, <2>1 DEF Budgeted
  <2>3. Launched(w)' \subseteq Launched(w)
    BY <1>1, <1>4, <1>5, <1>6, <1>7 DEF Launched
  <2> QED BY <1>0, <1>3, <1>7, <2>1, <2>2, <2>3, AsideWithin
<1>8. WithinFaults(i)'
  <2>1. rows'[i] = rows[i]
    BY <1>0, <1>4, <1>5
  <2>2. /\ Cardinality(Launched(i)') \in Nat
        /\ Cardinality(Launched(i)') <= Cardinality(Launched(i)) + 1
    <3>1. Launched(i)' \subseteq Launched(i) \cup {k}
      BY <1>4 DEF Launched
    <3> QED BY <1>0, <3>1, GrowsByOne DEF Counted
  <2>3. /\ Cardinality(Unlaunched(i)') \in Nat
        /\ Cardinality(Unlaunched(i)') + 1 <= Cardinality(Unlaunched(i))
    <3>1. PICK m : m = [r EXCEPT !.at = "launched", !.target = k]
      OBVIOUS
    <3>2. m.at = "launched" /\ runs' = (runs \ {r}) \cup {m}
      BY <1>0, <1>1, <3>1 DEF TypeOK, Goes
    <3>3. r \in Unlaunched(i) /\ Unlaunched(i)' \subseteq Unlaunched(i) \ {r}
      BY <1>0, <3>2 DEF Unlaunched
    <3> QED BY <1>0, <3>3, ShrinksByOne DEF Counted
  <2>4. Chance(i)' <= Chance(i)
    <3>1. Unclaimed(i)' => Unclaimed(i)
      BY <1>0, <1>1, <2>1, GoesChance
    <3> QED BY <3>1 DEF Chance
  <2>5. Counted'
    BY <1>3, Counts, PTL
  <2>6. /\ Chance(i)' \in {0, 1}
        /\ Allowance(i)' = IF rows'[i].step # None THEN 0
                           ELSE Cardinality(Unlaunched(i)') + Chance(i)'
    BY <1>0, <2>5 DEF Counted
  <2>7. /\ Cardinality(Launched(i)) \in Nat /\ Cardinality(Unlaunched(i)) \in Nat
        /\ Chance(i) \in {0, 1}
        /\ Allowance(i) = Cardinality(Unlaunched(i)) + Chance(i)
    BY <1>0 DEF Counted
  <2>8. Cardinality(Launched(i)) + Allowance(i) <= faults + 1
    BY <1>0 DEF Budgeted, WithinFaults
  <2> QED BY <1>0, <2>1, <2>2, <2>3, <2>4, <2>6, <2>7, <2>8 DEF WithinFaults
<1> QED BY <1>3, <1>7, <1>8 DEF Budgeted

\* A run is past the step only with the step's checkpoint.
Checkpointed == \A r \in runs : r.at = "stepped" => rows[r.id].step # None

LEMMA NextCheckpointed ==
  ASSUME RowsInv, Checkpointed, [Next]_vars
  PROVE  Checkpointed'
<1>0. TypeOK /\ RowsStep
  BY NextRows DEF RowsInv
<1>1. \A i \in Id : rows[i] # None /\ rows[i].step # None => rows'[i].step # None
  BY <1>0, RowsGoOn DEF Onward
<1>2. \A q \in runs : q.at = "stepped" => rows'[q.id].step # None
  BY <1>0, <1>1, RunThere DEF Checkpointed
<1>3. CASE \A q \in runs' : q \in runs \/ q.at # "stepped"
  BY <1>2, <1>3 DEF Checkpointed
<1>4. ASSUME NEW r \in runs, NEW x, Goes(r, "stepped", x), rows'[r.id].step # None
      PROVE  Checkpointed'
  <2>1. PICK m : m = [r EXCEPT !.at = "stepped", !.target = x]
    OBVIOUS
  <2>2. m.id = r.id /\ runs' = (runs \ {r}) \cup {m}
    BY <1>0, <1>4, <2>1 DEF TypeOK, Goes
  <2> QED BY <1>2, <1>4, <2>2 DEF Checkpointed
<1>5. ASSUME NEW r \in runs, NEW at, NEW x, Goes(r, at, x), at # "stepped"
      PROVE  Checkpointed'
  <2>1. PICK m : m = [r EXCEPT !.at = at, !.target = x]
    OBVIOUS
  <2>2. m.at # "stepped" /\ runs' = (runs \ {r}) \cup {m}
    BY <1>0, <1>5, <2>1 DEF TypeOK, Goes
  <2> QED BY <1>3, <2>2
<1>6. ASSUME NEW r \in runs, Handler(r) PROVE Checkpointed'
  <2>0. r.id \in Id /\ rows[r.id] \in TaskRow /\ r.id \in DOMAIN rows
        /\ (r.at \in {"launched", "stepped"} => r.target # None)
    BY <1>0, RunThere DEF TypeOK
  <2>1. CASE SleepUntil(r)
    BY <1>3, <1>5, <2>1 DEF SleepUntil, Ends
  <2>2. CASE ReplayStep(r)
    BY <1>4, <2>2 DEF ReplayStep, StepDone
  <2>3. CASE EnqueueTarget(r)
    BY <1>5, <2>3 DEF EnqueueTarget
  <2>4. CASE CompleteStep(r)
    <3>1. CASE Accepts(r)
      <4>1. rows' = [rows EXCEPT ![r.id].step = r.target] /\ r.at = "launched"
            /\ Goes(r, "stepped", r.target)
        BY <2>4, <3>1 DEF CompleteStep
      <4>2. rows'[r.id].step = r.target
        BY <2>0, <4>1 DEF TaskRow
      <4> QED BY <1>4, <2>0, <4>1, <4>2
    <3>2. CASE ~Accepts(r)
      BY <1>3, <2>4, <3>2 DEF CompleteStep, Ends
    <3> QED BY <3>1, <3>2
  <2>5. CASE Complete(r)
    BY <1>3, <2>5 DEF Complete, Ends
  <2> QED BY <1>6, <2>1, <2>2, <2>3, <2>4, <2>5 DEF Handler
<1>7. CASE \E r \in runs : HandlerRaises(r) \/ WorkerDies(r)
  BY <1>3, <1>7 DEF HandlerRaises, WorkerDies, Ends
<1>8. CASE \E i \in Id : \/ Claim(i) \/ PolicyCancels(i) \/ CancelTask(i) \/ LeaseExpires(i)
                         \/ CleanupTasks(i) \/ TargetStarts(i) \/ TargetEnds(i)
  BY <1>3, <1>8 DEF Claim, PolicyCancels, CancelTask, LeaseExpires, CleanupTasks, TargetStarts,
                    TargetEnds
<1>9. CASE (\E c \in Calls : Enqueue(c)) \/ GetResult \/ FetchTask \/ Tick \/ UNCHANGED vars
  BY <1>3, <1>9 DEF Enqueue, GetResult, FetchTask, Tick, vars
<1> QED BY <1>6, <1>7, <1>8, <1>9 DEF Next

LEMMA LaunchParts == LaunchInv <=> RunsFinite /\ Checkpointed /\ Budgeted
BY DEF LaunchInv, Checkpointed, Budgeted, WithinFaults

LEMMA InitLaunch == Init => LaunchInv
<1> SUFFICES ASSUME Init PROVE LaunchInv
  OBVIOUS
<1>1. RunsFinite
  BY FS_EmptySet DEF Init, RunsFinite
<1> QED BY <1>1 DEF Init, LaunchInv

LEMMA NextLaunch ==
  ASSUME RowsInv, LaunchInv, [Next]_vars
  PROVE  LaunchInv'
<1>0. RunsFinite /\ Checkpointed /\ Budgeted /\ TypeOK /\ TypeOK'
  BY LaunchParts, NextRows DEF RowsInv
<1>1. Checkpointed'
  BY <1>0, NextCheckpointed
<1>2. ASSUME NEW c \in Calls, Enqueue(c) PROVE Budgeted' /\ RunsFinite'
  BY <1>0, <1>2, EnqueueBudget
<1>3. ASSUME NEW i \in Id, \/ Claim(i) \/ PolicyCancels(i) \/ CancelTask(i) \/ LeaseExpires(i)
                           \/ CleanupTasks(i) \/ TargetStarts(i) \/ TargetEnds(i)
      PROVE  Budgeted' /\ RunsFinite'
  BY <1>0, <1>3, QueueBudget
<1>4. ASSUME NEW r \in runs, EnqueueTarget(r) PROVE Budgeted' /\ RunsFinite'
  BY <1>0, <1>4, TargetBudget
<1>5. ASSUME NEW r \in runs,
             \/ SleepUntil(r) \/ ReplayStep(r) \/ CompleteStep(r) \/ Complete(r)
             \/ HandlerRaises(r) \/ WorkerDies(r)
      PROVE  Budgeted' /\ RunsFinite'
  <2>1. r.at = "stepped" => rows[r.id].step # None
    BY <1>0 DEF Checkpointed
  <2> QED BY <1>0, <1>5, <2>1, HandlerBudget
<1>6. ASSUME GetResult \/ FetchTask \/ Tick \/ UNCHANGED vars PROVE Budgeted' /\ RunsFinite'
  <2>1. rows' = rows /\ runs' = runs /\ faults' = faults
    BY <1>6 DEF GetResult, FetchTask, Tick, vars
  <2>2. \A w \in Id : Launched(w)' = Launched(w) /\ Unlaunched(w)' = Unlaunched(w)
                     /\ (Unclaimed(w)' <=> Unclaimed(w))
    BY <2>1 DEF Launched, Unlaunched, Unclaimed
  <2>3. \A w \in Id : Allowance(w)' = Allowance(w)
    BY <2>1, <2>2 DEF Allowance
  <2> QED BY <1>0, <2>1, <2>2, <2>3 DEF Budgeted, WithinFaults, RunsFinite
<1>7. Budgeted' /\ RunsFinite'
  BY <1>2, <1>3, <1>4, <1>5, <1>6 DEF Next, Handler
<1>8. LaunchInv' <=> RunsFinite' /\ Checkpointed' /\ Budgeted'
  BY LaunchParts, PTL
<1> QED BY <1>1, <1>7, <1>8

\* What the budget and the key say of the launches.
LEMMA LaunchedWithin ==
  RowsInv /\ LaunchInv => LaunchedOnce
<1> SUFFICES ASSUME RowsInv, LaunchInv PROVE LaunchedOnce
  OBVIOUS
<1>0. TypeOK /\ Counted /\ Budgeted /\ None \notin Id
  BY LaunchParts, Counts, DeferredAssumption DEF RowsInv
<1> SUFFICES ASSUME NEW w \in Id
             PROVE  /\ Cardinality(Launched(w)) > 1 => faults > 0
                    /\ Cardinality(Launched(w)) <= faults + 1
                    /\ rows[w] # None /\ Key(rows[w]) # Unset =>
                         Cardinality({i \in Launched(w) : Exists(i)}) <= 1
  BY DEF LaunchedOnce, Key
<1>1. faults \in Nat /\ Cardinality(Launched(w)) \in Nat /\ Allowance(w) \in Nat
  BY <1>0 DEF Counted
<1>2. \A i \in Launched(w) : /\ i \in Id /\ rows[i] # None /\ ~Wraps(rows[i])
                             /\ rows[w] # None /\ Wraps(rows[w]) /\ rows[i].call = rows[w].call
                             /\ Key(rows[i]) = CallersKey(rows[w].call)
  BY <1>0 DEF Launched, RowsInv, KeysRight
<1>3. Cardinality(Launched(w)) <= faults + 1
  <2>1. CASE Launched(w) = {}
    BY <1>1, <2>1, FS_EmptySet
  <2>2. CASE Launched(w) # {}
    <3>1. Cardinality(Launched(w)) + Allowance(w) <= faults + 1
      BY <1>0, <1>2, <2>2 DEF Budgeted, WithinFaults
    <3> QED BY <1>1, <3>1
  <2> QED BY <2>1, <2>2
<1>4. ASSUME rows[w] # None, Key(rows[w]) # Unset
      PROVE  Cardinality({i \in Launched(w) : Exists(i)}) <= 1
  <2> DEFINE S == {i \in Launched(w) : Exists(i)}
  <2>1. \A i \in S : Key(rows[i]) = CallersKey(rows[w].call) /\ Key(rows[i]) # Unset
    <3>1. S # {} => Key(rows[w]) = DerivedKey(CallersKey(rows[w].call))
      BY <1>2 DEF RowsInv, KeysRight
    <3> QED BY <1>2, <1>4, <3>1 DEF DerivedKey
  <2>2. \A i, j \in S : i = j
    BY <1>2, <2>1 DEF RowsInv, KeyTaken
  <2>3. CASE S = {}
    BY <2>3, FS_EmptySet
  <2>4. CASE S # {}
    <3>1. PICK x \in S : TRUE
      BY <2>4
    <3>2. S = {x}
      BY <2>2, <3>1
    <3>3. Cardinality({x}) = 1
      BY FS_Singleton
    <3> QED BY <3>2, <3>3
  <2> QED BY <2>3, <2>4
<1> QED BY <1>1, <1>3, <1>4

\* deferred.py:44, a retry replays the stored id rather than enqueueing a second time: a
\* wrapper launches one task, and another only for each lease lost, worker killed or
\* handler failed between the enqueue and the checkpoint; with a key there is one at a
\* time in any case, whatever the scenario, the options, the rows and the faults.
THEOREM DeferralsLaunchOnce ==
  Spec => []LaunchedOnce
<1>1. RowsInv /\ [Next]_vars => RowsInv'
  BY NextRows
<1>2. RowsInv /\ LaunchInv /\ [Next]_vars => LaunchInv'
  BY NextLaunch
<1> QED BY <1>1, <1>2, InitRows, InitLaunch, LaunchedWithin, PTL DEF Spec
=============================================================================
