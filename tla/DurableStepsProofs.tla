------------------------- MODULE DurableStepsProofs -------------------------
(***************************************************************************)
(* For any processes, tasks, numbers of steps and attempts and any budget  *)
(* of faults: what a drain reports of a run is how that run ended, and no  *)
(* body runs a step that was recorded when its run was claimed; a task     *)
(* completes with the values its steps have, but for those that a call     *)
(* which lost its claim wrote over.                                        *)
(*                                                                         *)
(* Reports.  A run that ended keeps its state, whatever the later attempts *)
(* of its task do, and a report is read only after the run it is about has *)
(* ended.                                                                  *)
(***************************************************************************)
EXTENDS DurableSteps, SequenceTheorems, TLAPS

Over == {"completed", "failed"}

\* A run that was claimed: an earlier attempt, or the last one and not pending.
Claimed(r) ==
  \/ r[2] < attempt[r[1]]
  \/ r[2] = attempt[r[1]] /\ state[r[1]] \in {"running"} \cup Over

Typed ==
  /\ state \in [Task -> {"pending", "running"} \cup Over]
  /\ attempt \in [Task -> Attempt]
  /\ DOMAIN coroutine = Run

DrainInv ==
  /\ Typed
  /\ \A r \in Run : coroutine[r] \in {"waiting", "reading"} => Claimed(r)
  /\ \A r \in Run : coroutine[r] = "reading" => RunState(r) \in Over
  /\ \A d \in drained : d[1] \in Run /\ d[2] \in Over /\ d[2] = RunState(d[1])

-----------------------------------------------------------------------------
\* What the queue never takes back: attempts are counted up, a task that ended is
\* left alone, and a claimed run stays claimed.
Onward ==
  /\ Typed'
  /\ \A t \in Task : attempt'[t] >= attempt[t]
  /\ \A t \in Task : state[t] \in Over => state'[t] = state[t] /\ attempt'[t] = attempt[t]
  /\ \A r \in Run : Claimed(r) => Claimed(r)'

LEMMA EndedRunsStay ==
  ASSUME DrainInv, Onward, NEW r \in Run, RunState(r) \in Over
  PROVE  RunState(r)' = RunState(r)
<1>1. r[1] \in Task /\ r[2] \in Attempt
  BY DEF Run
<1>2. attempt[r[1]] \in Nat /\ attempt'[r[1]] \in Nat /\ r[2] \in Nat
  BY <1>1, DurableAssumption DEF DrainInv, Typed, Onward, Attempt
<1>3. CASE r[2] < attempt[r[1]]
  <2>1. r[2] < attempt'[r[1]]
    BY <1>1, <1>2, <1>3 DEF Onward
  <2> QED BY <1>3, <2>1 DEF RunState
<1>4. CASE ~(r[2] < attempt[r[1]])
  BY <1>1, <1>4 DEF RunState, Onward
<1> QED BY <1>3, <1>4

\* Failing a task that runs moves it onward.
LEMMA FailedOnward ==
  ASSUME Typed, NEW S, NEW t \in Task, t \in S => state[t] = "running"
  PROVE  /\ FailAttempts(S)[t] \in Attempt
         /\ FailAttempts(S)[t] >= attempt[t]
         /\ t \notin S => FailStates(S)[t] = state[t] /\ FailAttempts(S)[t] = attempt[t]
         /\ t \in S => \/ FailStates(S)[t] = "pending" /\ FailAttempts(S)[t] = attempt[t] + 1
                       \/ FailStates(S)[t] = "failed" /\ FailAttempts(S)[t] = attempt[t]
<1>1. attempt[t] \in Attempt /\ MaxAttempts \in Nat
  BY DurableAssumption DEF Typed
<1> QED BY <1>1 DEF FailAttempts, FailStates, FailedState, Attempt

LEMMA OnwardIfUnchanged ==
  ASSUME Typed, UNCHANGED <<state, attempt>>, DOMAIN coroutine' = Run
  PROVE  Onward
<1>1. \A t \in Task : attempt[t] \in Nat
  BY DurableAssumption DEF Typed, Attempt
<1> QED BY <1>1 DEF Onward, Typed, Claimed

LEMMA ClaimOnward ==
  ASSUME DrainInv, NEW p \in Process, Claim(p)
  PROVE  /\ Onward /\ UNCHANGED drained
         /\ \A r \in Run :
              coroutine'[r] = coroutine[r] \/ (coroutine'[r] = "waiting" /\ Claimed(r)')
<1> DEFINE states == FailStates(Expired)
<1>1. PICK B \in SUBSET {t \in Task : states[t] = "pending"} :
        /\ attempt' = FailAttempts(Expired)
        /\ state' = [t \in Task |-> IF t \in B THEN "running" ELSE states[t]]
        /\ coroutine' = [r \in Run |->
             IF r \in {<<t, FailAttempts(Expired)[t]>> : t \in B} THEN "waiting" ELSE coroutine[r]]
        /\ UNCHANGED drained
  BY DEF Claim
<1>2. \A t \in Expired : t \in Task /\ state[t] = "running"
  BY DEF Expired
<1>3. ASSUME NEW t \in Task
      PROVE  /\ attempt'[t] \in Attempt /\ attempt'[t] >= attempt[t]
             /\ state'[t] \in {"pending", "running"} \cup Over
             /\ state[t] \in Over => state'[t] = state[t] /\ attempt'[t] = attempt[t]
             /\ state[t] = "running" =>
                  attempt'[t] > attempt[t] \/ state'[t] \in {"running"} \cup Over
             /\ t \in B => state'[t] = "running"
  <2>1. Typed /\ attempt[t] \in Nat
    BY DurableAssumption DEF DrainInv, Typed, Attempt
  <2>2. CASE t \in Expired
    BY <1>1, <1>2, <2>1, <2>2, FailedOnward DEF Over
  <2>3. CASE t \notin Expired
    <3>1. FailAttempts(Expired)[t] = attempt[t] /\ FailStates(Expired)[t] = state[t]
      BY <1>2, <2>1, <2>3, FailedOnward
    <3> QED BY <1>1, <2>1, <3>1 DEF Over, Typed
  <2> QED BY <2>2, <2>3
<1>4. Typed'
  <2>1. DOMAIN attempt' = Task /\ attempt' = [t \in Task |-> attempt'[t]]
    BY <1>1 DEF FailAttempts
  <2> QED BY <1>1, <1>3, <2>1 DEF Typed
<1>5. ASSUME NEW r \in Run, Claimed(r) PROVE Claimed(r)'
  <2>1. r[1] \in Task /\ r[2] \in Nat /\ attempt[r[1]] \in Nat /\ attempt'[r[1]] \in Nat
    BY <1>3, DurableAssumption DEF Run, Attempt, DrainInv, Typed
  <2> QED BY <1>3, <1>5, <2>1 DEF Claimed
<1>6. ASSUME NEW r \in Run
      PROVE  coroutine'[r] = coroutine[r] \/ (coroutine'[r] = "waiting" /\ Claimed(r)')
  <2>1. CASE r \in {<<t, FailAttempts(Expired)[t]>> : t \in B}
    <3>1. PICK t \in B : r = <<t, FailAttempts(Expired)[t]>>
      BY <2>1
    <3>2. t \in Task /\ state'[t] = "running" /\ r[1] = t /\ r[2] = attempt'[t]
      BY <1>1, <1>3, <3>1
    <3> QED BY <1>1, <2>1, <3>2 DEF Claimed
  <2>2. CASE r \notin {<<t, FailAttempts(Expired)[t]>> : t \in B}
    BY <1>1, <2>2
  <2> QED BY <2>1, <2>2
<1> QED BY <1>1, <1>3, <1>4, <1>5, <1>6 DEF Onward

LEMMA ReportOnward ==
  ASSUME DrainInv, NEW r \in Run, Report(r)
  PROVE  /\ Onward /\ UNCHANGED drained
         /\ RunState(r)' \in Over
         /\ \A q \in Run \ {r} : coroutine'[q] = coroutine[q]
<1> DEFINE t == r[1]
<1>1. /\ t \in Task /\ r[2] \in Nat /\ attempt \in [Task -> Nat]
      /\ \A u \in Task : attempt[u] \in Attempt
  BY DurableAssumption DEF Run, Attempt, DrainInv, Typed
<1>2. Claimed(r) /\ Typed
  BY DEF Report, DrainInv
<1>3. /\ UNCHANGED drained /\ DOMAIN coroutine' = Run
      /\ \A q \in Run \ {r} : coroutine'[q] = coroutine[q]
  BY DEF Report, DrainInv, Typed
<1>4. CASE ~Accepts(r)
  <2>1. UNCHANGED <<state, attempt>>
    BY <1>4 DEF Report
  <2>2. RunState(r) \in Over
    BY <1>1, <1>2, <1>4 DEF Accepts, Current, RunState, Claimed, Over
  <2> QED BY <1>2, <1>3, <2>1, <2>2, OnwardIfUnchanged DEF RunState
<1>5. CASE Accepts(r) /\ outcome[r] = "returned"
  <2>1. state[t] = "running" /\ r[2] = attempt[t]
    BY <1>1, <1>2, <1>5 DEF Accepts, Current, RunState, Claimed
  <2>2. state' = [state EXCEPT ![t] = "completed"] /\ attempt' = attempt
    BY <1>5 DEF Report
  <2>3. Onward
    BY <1>1, <1>2, <1>3, <2>1, <2>2 DEF Onward, Typed, Claimed, Over
  <2> QED BY <1>1, <1>2, <1>3, <2>1, <2>2, <2>3 DEF RunState, Over, Typed
<1>6. CASE Accepts(r) /\ outcome[r] # "returned"
  <2>1. state[t] = "running" /\ r[2] = attempt[t]
    BY <1>1, <1>2, <1>6 DEF Accepts, Current, RunState, Claimed
  <2>2. state' = FailStates({t}) /\ attempt' = FailAttempts({t})
    BY <1>6 DEF Report
  <2>3. ASSUME NEW u \in Task
        PROVE  /\ attempt'[u] \in Attempt /\ attempt'[u] >= attempt[u]
               /\ u # t => state'[u] = state[u] /\ attempt'[u] = attempt[u]
               /\ u = t => \/ state'[u] = "pending" /\ attempt'[u] = attempt[u] + 1
                           \/ state'[u] = "failed" /\ attempt'[u] = attempt[u]
    BY <1>2, <2>1, <2>2, FailedOnward
  <2>4. Typed'
    <3>1. state' = [u \in Task |-> state'[u]] /\ attempt' = [u \in Task |-> attempt'[u]]
      BY <2>2 DEF FailStates, FailAttempts
    <3>2. \A u \in Task : state'[u] \in {"pending", "running"} \cup Over
      BY <1>2, <2>3 DEF Typed, Over
    <3> QED BY <1>3, <2>3, <3>1, <3>2 DEF Typed
  <2>5. \A u \in Task : state[u] \in Over => state'[u] = state[u] /\ attempt'[u] = attempt[u]
    BY <2>1, <2>3 DEF Over
  <2>6. ASSUME NEW q \in Run, Claimed(q) PROVE Claimed(q)'
    <3>1. q[1] \in Task /\ q[2] \in Nat /\ attempt[q[1]] \in Nat /\ attempt'[q[1]] \in Nat
      BY <1>1, <2>3, DurableAssumption DEF Run, Attempt
    <3> QED BY <2>3, <2>6, <3>1 DEF Claimed, Over
  <2>7. RunState(r)' \in Over
    BY <1>1, <2>1, <2>3 DEF RunState, Over
  <2> QED BY <1>3, <2>3, <2>4, <2>5, <2>6, <2>7 DEF Onward
<1> QED BY <1>4, <1>5, <1>6

-----------------------------------------------------------------------------
LEMMA InitDrain == Init => DrainInv
<1> SUFFICES ASSUME Init PROVE DrainInv
  OBVIOUS
<1>1. 1 \in Attempt
  BY DurableAssumption DEF Attempt
<1> QED BY <1>1 DEF Init, DrainInv, Typed, Over

\* Coroutines may end and others be claimed; only a report makes one read.
LEMMA DrainKept ==
  ASSUME DrainInv, Onward, UNCHANGED drained,
         \A r \in Run : \/ coroutine'[r] \in {coroutine[r], "ended"}
                        \/ coroutine'[r] = "waiting" /\ Claimed(r)'
                        \/ coroutine'[r] = "reading" /\ Claimed(r)' /\ RunState(r)' \in Over
  PROVE  DrainInv'
<1>1. \A r \in Run : coroutine'[r] \in {"waiting", "reading"} => Claimed(r)'
  BY DEF DrainInv, Onward
<1>2. \A r \in Run : coroutine'[r] = "reading" => RunState(r)' \in Over
  BY EndedRunsStay DEF DrainInv
<1>3. \A d \in drained' : d[1] \in Run /\ d[2] \in Over /\ d[2] = RunState(d[1])'
  BY EndedRunsStay DEF DrainInv
<1> QED BY <1>1, <1>2, <1>3 DEF DrainInv, Onward

LEMMA FetchDrain ==
  ASSUME DrainInv, NEW r \in Run, FetchOutcome(r)
  PROVE  DrainInv'
<1>1. /\ coroutine[r] = "reading" /\ drained' = drained \cup {<<r, RunState(r)>>}
      /\ coroutine' = [coroutine EXCEPT ![r] = "ended"] /\ UNCHANGED <<state, attempt>>
  BY DEF FetchOutcome, Outcome, queue
<1>2. RunState(r) \in Over
  BY <1>1 DEF DrainInv
<1>3. Typed' /\ \A q \in Run : coroutine'[q] = coroutine[q] \/ coroutine'[q] = "ended"
  BY <1>1 DEF DrainInv, Typed
<1>4. ASSUME NEW d \in drained'
      PROVE  d[1] \in Run /\ d[2] \in Over /\ d[2] = RunState(d[1])'
  BY <1>1, <1>2 DEF DrainInv, RunState
<1> QED BY <1>1, <1>3, <1>4 DEF DrainInv, Claimed, RunState

LEMMA RunDrain ==
  ASSUME DrainInv, NEW r \in Run, RunNext(r)
  PROVE  DrainInv'
<1>1. CASE Report(r)
  <2>1. coroutine'[r] \in {"reading", "ended"} /\ Claimed(r)
    BY <1>1 DEF Report, DrainInv, Typed
  <2> QED BY <1>1, <2>1, ReportOnward, DrainKept DEF Onward
<1>2. CASE FetchOutcome(r)
  BY <1>2, FetchDrain
<1>3. CASE \/ BodyStep(r) \/ LookUp(r) \/ Record(r) \/ ServerStep(r)
           \/ BridgeTimesOut(r) \/ RecordStalls(r)
  <2>1. UNCHANGED <<state, attempt, coroutine, drained>>
    BY <1>3 DEF BodyStep, ServerStep, Begin, BeginStep, Answered, Compute, Return, LookUp, Record,
                RecordResumes, StaleLooks, StaleWrites, BridgeTimesOut, RecordStalls, queue, body
  <2> QED BY <2>1, OnwardIfUnchanged, DrainKept DEF DrainInv, Typed
<1>4. CASE Break(r)
  <2>1. /\ UNCHANGED <<state, attempt, drained>>
        /\ coroutine' = [coroutine EXCEPT ![r] = "ended"]
    BY <1>4 DEF Break, queue
  <2> QED BY <2>1, OnwardIfUnchanged, DrainKept DEF DrainInv, Typed
<1> QED BY <1>1, <1>2, <1>3, <1>4 DEF RunNext, LoopStep

LEMMA ProcessDrain ==
  ASSUME DrainInv, NEW p \in Process, ProcessNext(p)
  PROVE  DrainInv'
<1>1. CASE Claim(p)
  BY <1>1, ClaimOnward, DrainKept
<1>2. CASE Stop(p) \/ Finish(p) \/ Close(p) \/ Restart(p)
  <2>1. UNCHANGED <<state, attempt, coroutine, drained>>
    BY <1>2 DEF Stop, Finish, Close, Restart, queue
  <2> QED BY <2>1, OnwardIfUnchanged, DrainKept DEF DrainInv, Typed
<1>3. CASE Cancel(p) \/ LeavePool(p) \/ Crash(p)
  <2>1. UNCHANGED <<state, attempt, drained>> /\ \E S : coroutine' = Ended(S)
    BY <1>3 DEF Cancel, LeavePool, Crash, queue
  <2>2. DOMAIN coroutine' = Run /\ \A r \in Run : coroutine'[r] \in {coroutine[r], "ended"}
    BY <2>1 DEF Ended
  <2> QED BY <2>1, <2>2, OnwardIfUnchanged, DrainKept DEF DrainInv
<1> QED BY <1>1, <1>2, <1>3 DEF ProcessNext, Shutdown

LEMMA NextDrain == DrainInv /\ [Next]_vars => DrainInv'
<1> SUFFICES ASSUME DrainInv, [Next]_vars PROVE DrainInv'
  OBVIOUS
<1>1. ASSUME NEW t \in Task, Expire(t) PROVE UNCHANGED <<state, attempt, coroutine, drained>>
  BY <1>1 DEF Expire
<1>2. CASE UNCHANGED vars
  BY <1>2, OnwardIfUnchanged, DrainKept DEF vars, queue, DrainInv, Typed
<1> QED BY <1>1, <1>2, RunDrain, ProcessDrain, OnwardIfUnchanged, DrainKept
        DEF Next, DrainInv, Typed

-----------------------------------------------------------------------------
\* worker.py:392: a drain's report is of the run it executed, by its run_id, though
\* the lease was swept and other attempts of the task run, fail or complete.
THEOREM DrainReportsItsRuns == Spec => []DrainReportsTheRun
<1>1. DrainInv => DrainReportsTheRun
  BY DEF DrainInv, DrainReportsTheRun, Over
<1> QED BY <1>1, InitDrain, NextDrain, PTL DEF Spec

-----------------------------------------------------------------------------
(* Bodies.  Where a body is agrees with what it last handed to the loop; a  *)
(* run that was not claimed has no body; records are never taken back.      *)

Untouched(r) ==
  /\ process[r] = NoOne /\ at[r] = "none" /\ op[r] = "none" /\ outcome[r] = "none"
  /\ held[r] = << >>

Shape(r) ==
  /\ at[r] \in {"none", "queued", "body", "fn"} => op[r] = "none"
  /\ at[r] = "lookup" => op[r] \in {"lookup", "found", "missing", "refused"}
  /\ at[r] = "record" => op[r] \in {"record", "written", "refused"} \cup Sent
  /\ outcome[r] = "returned" => at[r] = "over" /\ op[r] = "none" /\ Len(held[r]) = Steps
  /\ at[r] = "fn" \/ op[r] \in {"lookup", "missing", "record", "written"} \cup Sent
       => Next1(r) <= Steps
  /\ at[r] \in {"fn", "record"} \/ op[r] = "missing" => Next1(r) \notin known[r]

BodyTyped ==
  /\ record \in [Task -> [Step -> Attempt \cup {Nothing}]]
  /\ held \in [Run -> Seq(Attempt)] /\ \A r \in Run : Len(held[r]) <= Steps
  /\ DOMAIN at = Run /\ DOMAIN op = Run /\ DOMAIN outcome = Run /\ DOMAIN known = Run
  /\ DOMAIN process = Run

BodyInv ==
  /\ BodyTyped
  /\ \A r \in Run : Shape(r) /\ (~Claimed(r) => Untouched(r)) /\ known[r] \subseteq Recorded(r[1])

\* A write fills one step of one task with the number of the attempt.
LEMMA WriteFills ==
  ASSUME BodyInv, NEW r \in Run, Next1(r) <= Steps, Write(r)
  PROVE  /\ record' \in [Task -> [Step -> Attempt \cup {Nothing}]]
         /\ Next1(r) \in Step /\ record'[r[1]][Next1(r)] = r[2]
         /\ \A t \in Task, s \in Step :
              t # r[1] \/ s # Next1(r) => record'[t][s] = record[t][s]
         /\ op' = [op EXCEPT ![r] = "written"]
<1>1. r[1] \in Task /\ r[2] \in Attempt /\ Next1(r) \in Step
  BY DurableAssumption DEF Run, BodyInv, BodyTyped, Next1, Step
<1>2. record' = [record EXCEPT ![r[1]] = [@ EXCEPT ![Next1(r)] = r[2]]]
  BY DEF Write
<1> QED BY <1>1, <1>2 DEF BodyInv, BodyTyped, Write

\* What a step may do to one run's body, and to the records, without harm.
BodyMoves(r) ==
  /\ DOMAIN at' = Run /\ DOMAIN op' = Run /\ DOMAIN outcome' = Run /\ DOMAIN known' = Run
  /\ process' = process
  /\ held' \in [Run -> Seq(Attempt)] /\ Len(held'[r]) <= Steps
  /\ \A q \in Run \ {r} : /\ at'[q] = at[q] /\ op'[q] = op[q] /\ outcome'[q] = outcome[q]
                          /\ held'[q] = held[q] /\ known'[q] = known[q]

Kept == record' \in [Task -> [Step -> Attempt \cup {Nothing}]]
        /\ \A t \in Task : Recorded(t) \subseteq Recorded(t)'

LEMMA BodyKept ==
  ASSUME BodyInv, Onward, Kept, NEW r \in Run, BodyMoves(r),
         Claimed(r), Shape(r)', known'[r] \subseteq Recorded(r[1])'
  PROVE  BodyInv'
<1>1. BodyTyped'
  BY DEF BodyTyped, BodyMoves, Kept, BodyInv
<1>2. ASSUME NEW q \in Run \ {r}
      PROVE  Shape(q)' /\ (~Claimed(q)' => Untouched(q)') /\ known'[q] \subseteq Recorded(q[1])'
  <2>1. /\ at'[q] = at[q] /\ op'[q] = op[q] /\ outcome'[q] = outcome[q]
        /\ held'[q] = held[q] /\ known'[q] = known[q] /\ process'[q] = process[q]
        /\ q[1] \in Task
    BY DEF BodyMoves, Run
  <2>2. Shape(q) /\ (~Claimed(q) => Untouched(q)) /\ known[q] \subseteq Recorded(q[1])
    BY DEF BodyInv
  <2>3. Claimed(q) => Claimed(q)'
    BY DEF Onward
  <2>4. Shape(q)'
    BY <2>1, <2>2 DEF Shape, Next1
  <2>5. known'[q] \subseteq Recorded(q[1])'
    BY <2>1, <2>2 DEF Kept
  <2> QED BY <2>1, <2>2, <2>3, <2>4, <2>5 DEF Untouched
<1>3. Claimed(r)'
  BY DEF Onward
<1> QED BY <1>1, <1>2, <1>3 DEF BodyInv


\* The steps of a body and of its operations, on the loop and on the server, leave
\* the claims alone, and write nothing or one step.
LEMMA OneBodyStep ==
  ASSUME DrainInv, BodyInv, NEW r \in Run,
         \/ BodyStep(r) \/ LookUp(r) \/ Record(r) \/ ServerStep(r)
         \/ BridgeTimesOut(r) \/ RecordStalls(r)
  PROVE  BodyInv' /\ UNCHANGED <<state, attempt, answer>>
<1>1. UNCHANGED <<state, attempt, answer, process, coroutine, known>>
  BY DEF BodyStep, ServerStep, Begin, BeginStep, Answered, Compute, Return, LookUp, Record,
         RecordResumes, StaleLooks, StaleWrites, BridgeTimesOut, RecordStalls, queue, body
<1>2. Onward
  BY <1>1, OnwardIfUnchanged DEF DrainInv, Typed
<1>3. /\ Shape(r) /\ known[r] \subseteq Recorded(r[1])
      /\ r[1] \in Task /\ r[2] \in Attempt /\ r[2] # Nothing
  BY DurableAssumption DEF BodyInv, Run, Attempt, Nothing
<1>4. /\ record \in [Task -> [Step -> Attempt \cup {Nothing}]]
      /\ held \in [Run -> Seq(Attempt)] /\ Len(held[r]) <= Steps /\ Len(held[r]) \in Nat
      /\ DOMAIN at = Run /\ DOMAIN op = Run /\ DOMAIN outcome = Run /\ DOMAIN known = Run
      /\ Steps \in Nat /\ \A q \in Run : Len(held[q]) <= Steps
  BY DurableAssumption DEF BodyInv, BodyTyped
<1>5. at[r] # "none" \/ op[r] # "none" => Claimed(r)
  BY DEF BodyInv, Untouched
<1>6. ASSUME record' = record PROVE Kept
  BY <1>4, <1>6 DEF Kept, Recorded
<1>7. ASSUME Next1(r) <= Steps, Write(r) PROVE Kept
  BY <1>3, <1>7, WriteFills DEF Kept, Recorded
<1>8. ASSUME Kept, BodyMoves(r), Claimed(r), Shape(r)' PROVE BodyInv'
  <2>1. known'[r] \subseteq Recorded(r[1])'
    BY <1>1, <1>3, <1>8 DEF Kept
  <2> QED BY <1>2, <1>8, <2>1, BodyKept
<1>11. CASE Begin(r)
  <2>1. /\ at' = [at EXCEPT ![r] = "body"] /\ UNCHANGED <<record, op, held, outcome>>
        /\ Claimed(r) /\ outcome[r] # "returned" /\ op[r] = "none"
    BY <1>3, <1>5, <1>11 DEF Begin, queue, Shape
  <2>2. BodyMoves(r)
    BY <1>1, <1>4, <2>1 DEF BodyMoves
  <2>3. Shape(r)'
    BY <1>1, <1>3, <1>4, <2>1 DEF Shape, Next1, Sent
  <2> QED BY <1>1, <1>6, <1>8, <2>1, <2>2, <2>3
<1>12. CASE BeginStep(r)
  <2>1. /\ at' = [at EXCEPT ![r] = "lookup"] /\ op' = [op EXCEPT ![r] = "lookup"]
        /\ UNCHANGED <<record, held, outcome>>
        /\ Claimed(r) /\ outcome[r] # "returned" /\ Next1(r) <= Steps
    BY <1>3, <1>5, <1>12 DEF BeginStep, queue, Shape
  <2>2. BodyMoves(r)
    BY <1>1, <1>4, <2>1 DEF BodyMoves
  <2>3. Shape(r)'
    BY <1>1, <1>3, <1>4, <2>1 DEF Shape, Next1, Sent
  <2> QED BY <1>1, <1>6, <1>8, <2>1, <2>2, <2>3
<1>13. CASE Answered(r)
  <2>1. /\ at' = [at EXCEPT ![r] = CASE op[r] = "missing" -> "fn"
                                     [] op[r] = "refused" -> "over"
                                     [] OTHER -> "body"]
        /\ outcome' = [outcome EXCEPT ![r] = IF op[r] = "refused" THEN "raised" ELSE @]
        /\ held' = [held EXCEPT ![r] = IF op[r] = "written" THEN Append(@, r[2]) ELSE @]
        /\ op' = [op EXCEPT ![r] = "none"] /\ UNCHANGED record
        /\ Claimed(r) /\ outcome[r] # "returned" /\ op[r] \in Answers
    BY <1>3, <1>5, <1>13 DEF Answered, queue, Shape
  <2>2. /\ held'[r] \in Seq(Attempt) /\ Len(held'[r]) <= Steps
        /\ op[r] # "written" => held'[r] = held[r]
    BY <1>3, <1>4, <2>1 DEF Shape, Next1
  <2>3. BodyMoves(r)
    BY <1>1, <1>4, <2>1, <2>2 DEF BodyMoves
  <2>4. Shape(r)'
    <3>1. outcome'[r] # "returned" /\ op'[r] = "none" /\ at'[r] \in {"fn", "over", "body"}
      BY <1>4, <2>1
    <3>2. at'[r] = "fn" => op[r] = "missing"
      BY <1>4, <2>1
    <3>3. at'[r] = "fn" => (Next1(r) <= Steps)' /\ (Next1(r) \notin known[r])'
      BY <1>1, <1>3, <2>2, <3>2 DEF Shape, Next1
    <3> QED BY <3>1, <3>3 DEF Shape, Sent
  <2> QED BY <1>1, <1>6, <1>8, <2>1, <2>3, <2>4
<1>14. CASE Compute(r)
  <2>1. /\ UNCHANGED <<record, held>> /\ Claimed(r) /\ at[r] = "fn" /\ outcome[r] # "returned"
        /\ op[r] = "none"
        /\ \/ /\ at' = [at EXCEPT ![r] = "record"] /\ op' = [op EXCEPT ![r] = "record"]
              /\ UNCHANGED outcome
           \/ /\ at' = [at EXCEPT ![r] = "over"] /\ outcome' = [outcome EXCEPT ![r] = "raised"]
              /\ UNCHANGED op
    BY <1>3, <1>5, <1>14 DEF Compute, queue, Shape
  <2>2. BodyMoves(r)
    BY <1>1, <1>4, <2>1 DEF BodyMoves
  <2>3. Shape(r)'
    BY <1>1, <1>3, <1>4, <2>1 DEF Shape, Next1, Sent
  <2> QED BY <1>1, <1>6, <1>8, <2>1, <2>2, <2>3
<1>15. CASE Return(r)
  <2>1. /\ at' = [at EXCEPT ![r] = "over"] /\ outcome' = [outcome EXCEPT ![r] = "returned"]
        /\ UNCHANGED <<record, held, op>> /\ Claimed(r) /\ op[r] = "none" /\ Next1(r) > Steps
    BY <1>3, <1>5, <1>15 DEF Return, queue, Shape
  <2>2. BodyMoves(r)
    BY <1>1, <1>4, <2>1 DEF BodyMoves
  <2>3. Len(held[r]) = Steps
    BY <1>4, <2>1 DEF Next1
  <2>4. Shape(r)'
    BY <1>1, <1>3, <1>4, <2>1, <2>3 DEF Shape, Next1, Sent
  <2> QED BY <1>1, <1>6, <1>8, <2>1, <2>2, <2>4
<1>16. CASE BridgeTimesOut(r)
  <2>1. /\ at' = [at EXCEPT ![r] = "over"] /\ outcome' = [outcome EXCEPT ![r] = "raised"]
        /\ UNCHANGED <<record, held, op>> /\ Claimed(r)
    BY <1>3, <1>5, <1>16 DEF BridgeTimesOut, queue, Shape
  <2>2. BodyMoves(r)
    BY <1>1, <1>4, <2>1 DEF BodyMoves
  <2>3. Shape(r)'
    BY <1>1, <1>3, <1>4, <2>1 DEF Shape, Next1, Sent
  <2> QED BY <1>1, <1>6, <1>8, <2>1, <2>2, <2>3
<1>17. CASE LookUp(r)
  <2>1. /\ UNCHANGED <<record, at, outcome>> /\ Claimed(r) /\ op[r] = "lookup"
        /\ outcome[r] # "returned" /\ Next1(r) \in Step /\ at[r] \notin {"fn", "record"}
    BY <1>3, <1>4, <1>5, <1>17 DEF LookUp, queue, Shape, Sent, Next1, Step
  <2>2. \/ op' = [op EXCEPT ![r] = "refused"] /\ held' = held
        \/ op' = [op EXCEPT ![r] = "missing"] /\ held' = held
             /\ record[r[1]][Next1(r)] = Nothing
        \/ /\ op' = [op EXCEPT ![r] = "found"] /\ record[r[1]][Next1(r)] # Nothing
           /\ held' = [held EXCEPT ![r] = Append(@, record[r[1]][Next1(r)])]
    BY <1>17 DEF LookUp, Visible
  <2>3. record[r[1]][Next1(r)] \in Attempt \cup {Nothing}
    BY <1>3, <1>4, <2>1
  <2>4. held'[r] \in Seq(Attempt) /\ Len(held'[r]) <= Steps /\ held' \in [Run -> Seq(Attempt)]
    <3>1. CASE held' = held
      BY <1>4, <3>1
    <3>2. CASE held' = [held EXCEPT ![r] = Append(@, record[r[1]][Next1(r)])]
               /\ record[r[1]][Next1(r)] \in Attempt
      BY <1>4, <2>1, <3>2 DEF Step, Next1
    <3> QED BY <2>2, <2>3, <3>1, <3>2
  <2>5. BodyMoves(r)
    BY <1>1, <1>4, <2>1, <2>2, <2>4 DEF BodyMoves
  <2>6. op'[r] = "missing" => Next1(r) \notin known[r]
    BY <1>3, <1>4, <2>2 DEF Recorded
  <2>7. Shape(r)'
    <3>1. op'[r] \in {"refused", "missing", "found"} /\ at'[r] = at[r] /\ outcome'[r] = outcome[r]
      BY <1>4, <2>1, <2>2
    <3>2. op'[r] # "found" => Next1(r)' = Next1(r)
      BY <1>4, <2>2 DEF Next1
    <3> QED BY <1>1, <1>3, <2>1, <2>6, <3>1, <3>2 DEF Shape, Step, Sent
  <2> QED BY <1>1, <1>6, <1>8, <2>1, <2>5, <2>7
<1>18. CASE Record(r) \/ RecordStalls(r) \/ RecordResumes(r)
           \/ StaleLooks(r) \/ StaleWrites(r)
  <2>1. /\ UNCHANGED <<at, outcome, held>> /\ op[r] \in {"record"} \cup Sent
        /\ \/ Write(r)
           \/ \E to \in {"refused", "written"} \cup Sent :
                op' = [op EXCEPT ![r] = to] /\ UNCHANGED record
    BY <1>18 DEF Record, RecordStalls, RecordResumes, StaleLooks, StaleWrites, queue, Sent
  <2>2. Claimed(r) /\ Next1(r) <= Steps /\ outcome[r] # "returned"
    BY <1>3, <1>5, <2>1 DEF Shape, Sent
  <2>3. Kept
    BY <1>6, <1>7, <2>1, <2>2
  <2>4. \E to \in {"refused", "written"} \cup Sent : op' = [op EXCEPT ![r] = to]
    BY <2>1 DEF Write
  <2>5. BodyMoves(r)
    BY <1>1, <1>4, <2>1, <2>4 DEF BodyMoves
  <2>6. Shape(r)'
    <3>1. /\ op'[r] \in {"refused", "written"} \cup Sent
          /\ at[r] \notin {"none", "queued", "body", "fn", "lookup"}
      BY <1>3, <1>4, <2>1, <2>4 DEF Shape, Sent
    <3> QED BY <1>1, <1>3, <2>1, <2>2, <3>1 DEF Shape, Next1, Sent
  <2> QED BY <1>1, <1>8, <2>2, <2>3, <2>5, <2>6
<1> QED BY <1>11, <1>12, <1>13, <1>14, <1>15, <1>16, <1>17, <1>18 DEF BodyStep, ServerStep

\* Bodies end and everything else stays, or the claims move on and no body does.
LEMMA BodiesEnd ==
  ASSUME BodyInv, Onward, UNCHANGED <<record, held, outcome, op, known, process>>, DOMAIN at' = Run,
         \A r \in Run : at'[r] = at[r] \/ (at'[r] = "over" /\ Claimed(r))
  PROVE  BodyInv'
<1>1. BodyTyped'
  BY DEF BodyTyped, BodyInv
<1>2. ASSUME NEW r \in Run
      PROVE  Shape(r)' /\ (~Claimed(r)' => Untouched(r)') /\ known'[r] \subseteq Recorded(r[1])'
  <2>1. Shape(r) /\ (~Claimed(r) => Untouched(r)) /\ known[r] \subseteq Recorded(r[1])
    BY DEF BodyInv
  <2>2. at'[r] = at[r] \/ (at'[r] = "over" /\ Claimed(r))
    OBVIOUS
  <2>3. Claimed(r) => Claimed(r)'
    BY DEF Onward
  <2>4. Shape(r)'
    BY <2>1, <2>2 DEF Shape, Next1
  <2>5. Recorded(r[1])' = Recorded(r[1])
    BY DEF Recorded
  <2> QED BY <2>1, <2>2, <2>3, <2>4, <2>5 DEF Untouched
<1> QED BY <1>1, <1>2 DEF BodyInv

LEMMA ClaimBodies ==
  ASSUME DrainInv, BodyInv, NEW p \in Process, Claim(p)
  PROVE  BodyInv' /\ UNCHANGED <<record, held, outcome, op, answer, left>>
         /\ \A r \in Run : Claimed(r)' /\ ~Claimed(r) => at'[r] = "queued"
<1>1. PICK B \in SUBSET {t \in Task : FailStates(Expired)[t] = "pending"} :
        LET new == {<<t, FailAttempts(Expired)[t]>> : t \in B} IN
        /\ attempt' = FailAttempts(Expired)
        /\ state' = [t \in Task |-> IF t \in B THEN "running" ELSE FailStates(Expired)[t]]
        /\ process' = [r \in Run |-> IF r \in new THEN p ELSE process[r]]
        /\ at' = [r \in Run |-> IF r \in new THEN "queued" ELSE at[r]]
        /\ known' = [r \in Run |-> IF r \in new THEN Recorded(r[1]) ELSE known[r]]
  BY DEF Claim
<1>2. UNCHANGED <<record, held, outcome, op, answer, left>>
  BY DEF Claim
<1>3. Onward
  BY ClaimOnward
<1> DEFINE new == {<<t, FailAttempts(Expired)[t]>> : t \in B}
<1>4. /\ process' = [r \in Run |-> IF r \in new THEN p ELSE process[r]]
      /\ at' = [r \in Run |-> IF r \in new THEN "queued" ELSE at[r]]
      /\ known' = [r \in Run |-> IF r \in new THEN Recorded(r[1]) ELSE known[r]]
  BY <1>1
<1>5. ASSUME NEW r \in Run, r \in new PROVE ~Claimed(r) /\ Claimed(r)'
  <2>1. PICK t \in B : r = <<t, FailAttempts(Expired)[t]>>
    BY <1>5
  <2>2. /\ t \in Task /\ r[1] = t /\ r[2] = FailAttempts(Expired)[t]
        /\ FailStates(Expired)[t] = "pending"
    BY <2>1
  <2>3. Typed /\ attempt[t] \in Nat /\ MaxAttempts \in Nat
    BY <2>2, DurableAssumption DEF DrainInv, Typed, Attempt
  <2>4. ~Claimed(r)
    <3>1. CASE t \in Expired
      <4>1. state[t] = "running"
        BY <3>1 DEF Expired
      <4>2. r[2] = attempt[t] + 1
        BY <2>2, <2>3, <3>1, <4>1, FailedOnward
      <4> QED BY <2>2, <2>3, <4>2 DEF Claimed
    <3>2. CASE t \notin Expired
      <4>1. FailStates(Expired)[t] = state[t] /\ FailAttempts(Expired)[t] = attempt[t]
        BY <2>2, <2>3, <3>2, FailedOnward
      <4> QED BY <2>2, <2>3, <4>1 DEF Claimed, Over
    <3> QED BY <3>1, <3>2
  <2>5. Claimed(r)'
    BY <1>1, <2>1, <2>2 DEF Claimed
  <2> QED BY <2>4, <2>5
<1>6. ASSUME NEW r \in Run, Claimed(r)', r \notin new PROVE Claimed(r)
  <2>1. r[1] \in Task /\ r[2] \in Nat /\ Typed /\ attempt[r[1]] \in Nat
    BY DurableAssumption DEF Run, Attempt, DrainInv, Typed
  <2>2. attempt'[r[1]] = FailAttempts(Expired)[r[1]]
        /\ state'[r[1]] = IF r[1] \in B THEN "running" ELSE FailStates(Expired)[r[1]]
    BY <1>1, <2>1
  <2>3. CASE r[1] \in Expired
    <3>1. state[r[1]] = "running"
      BY <2>3 DEF Expired
    <3>2. \/ /\ FailStates(Expired)[r[1]] = "pending"
             /\ FailAttempts(Expired)[r[1]] = attempt[r[1]] + 1
          \/ FailStates(Expired)[r[1]] = "failed" /\ FailAttempts(Expired)[r[1]] = attempt[r[1]]
      BY <2>1, <2>3, <3>1, FailedOnward
    <3>3. r = <<r[1], r[2]>>
      BY DEF Run
    <3>4. r[1] \in B => r[2] # attempt'[r[1]]
      BY <1>6, <2>2, <3>3
    <3> QED BY <1>1, <1>6, <2>1, <2>2, <3>1, <3>2, <3>4 DEF Claimed, Over
  <2>4. CASE r[1] \notin Expired
    <3>1. FailStates(Expired)[r[1]] = state[r[1]] /\ FailAttempts(Expired)[r[1]] = attempt[r[1]]
      BY <2>1, <2>4, FailedOnward
    <3>2. r = <<r[1], r[2]>>
      BY DEF Run
    <3>3. r[1] \in B => r[2] # attempt'[r[1]]
      BY <1>6, <2>2, <3>2
    <3> QED BY <1>6, <2>1, <2>2, <3>1, <3>3 DEF Claimed, Over
  <2> QED BY <2>3, <2>4
<1>7. BodyTyped'
  BY <1>2, <1>4 DEF BodyTyped, BodyInv
<1>8. \A t : Recorded(t)' = Recorded(t)
  BY <1>2 DEF Recorded
<1> HIDE DEF new
<1>9. ASSUME NEW r \in Run
      PROVE  Shape(r)' /\ (~Claimed(r)' => Untouched(r)') /\ known'[r] \subseteq Recorded(r[1])'
  <2>1. Shape(r) /\ (~Claimed(r) => Untouched(r)) /\ known[r] \subseteq Recorded(r[1])
    BY DEF BodyInv
  <2>2. CASE r \in new
    <3>1. /\ Untouched(r) /\ Claimed(r)' /\ at'[r] = "queued" /\ known'[r] = Recorded(r[1])
      BY <1>4, <1>5, <2>1, <2>2
    <3> QED BY <1>2, <1>8, <2>1, <3>1 DEF Untouched, Shape, Next1, Sent
  <2>3. CASE r \notin new
    <3>1. at'[r] = at[r] /\ known'[r] = known[r] /\ process'[r] = process[r]
      BY <1>4, <2>3
    <3>2. Claimed(r) => Claimed(r)'
      BY <1>3 DEF Onward
    <3>3. Shape(r)'
      BY <1>2, <2>1, <3>1 DEF Shape, Next1
    <3> QED BY <1>2, <1>8, <2>1, <3>1, <3>2, <3>3 DEF Untouched
  <2> QED BY <2>2, <2>3
<1>10. ASSUME NEW r \in Run, Claimed(r)', ~Claimed(r) PROVE at'[r] = "queued"
  BY <1>4, <1>6, <1>10
<1> QED BY <1>2, <1>7, <1>9, <1>10 DEF BodyInv

LEMMA ProcessBodies ==
  ASSUME DrainInv, BodyInv, NEW p \in Process,
         Stop(p) \/ Cancel(p) \/ Crash(p) \/ Shutdown(p) \/ Restart(p)
  PROVE  /\ BodyInv'
         /\ UNCHANGED <<state, attempt, answer, record, held, outcome, op, known, process>>
         /\ \A r \in Run : at'[r] = at[r] \/ at'[r] = "over"
<1>1. /\ UNCHANGED <<state, attempt, answer, record, held, outcome, op, known, process>>
      /\ coroutine' = coroutine \/ \E S : coroutine' = Ended(S)
  BY DEF Stop, Cancel, Crash, Shutdown, Finish, Close, LeavePool, Restart, queue, body
<1>2. Onward
  BY <1>1, OnwardIfUnchanged DEF DrainInv, Typed, Ended
<1>3. DOMAIN at = Run /\ \A r \in Run : process[r] # NoOne => Claimed(r)
  BY DEF BodyInv, BodyTyped, Untouched
<1>4. DOMAIN at' = Run /\ \A r \in Run : at'[r] = at[r] \/ (at'[r] = "over" /\ Claimed(r))
  <2>1. p # NoOne
    BY DurableAssumption DEF NoOne
  <2>2. CASE Stop(p) \/ Finish(p) \/ Close(p) \/ Restart(p)
    BY <1>3, <2>2 DEF Stop, Finish, Close, Restart, body
  <2>3. CASE Cancel(p)
    BY <1>3, <2>1, <2>3 DEF Cancel, Dropped, Busy, Of
  <2>4. CASE LeavePool(p)
    BY <1>3, <2>1, <2>4 DEF LeavePool, Dropped, Of
  <2>5. CASE Crash(p)
    BY <1>3, <2>1, <2>5 DEF Crash, Of
  <2> QED BY <2>2, <2>3, <2>4, <2>5 DEF Shutdown
<1> QED BY <1>1, <1>2, <1>4, BodiesEnd

LEMMA EndOfRunBodies ==
  ASSUME DrainInv, BodyInv, NEW r \in Run, Report(r) \/ FetchOutcome(r) \/ Break(r)
  PROVE  BodyInv' /\ UNCHANGED <<at, record, held, outcome, op, known, process>>
<1>1. UNCHANGED <<at, record, held, outcome, op, known, process>>
  BY DEF Report, FetchOutcome, Break, queue, body
<1>2. Onward
  <2>1. CASE Report(r)
    BY <2>1, ReportOnward
  <2>2. CASE FetchOutcome(r) \/ Break(r)
    <3>1. UNCHANGED <<state, attempt>> /\ coroutine' = [coroutine EXCEPT ![r] = "ended"]
      BY <2>2 DEF FetchOutcome, Break, queue
    <3> QED BY <3>1, OnwardIfUnchanged DEF DrainInv, Typed
  <2> QED BY <2>1, <2>2
<1>3. DOMAIN at' = Run /\ \A q \in Run : at'[q] = at[q]
  BY <1>1 DEF BodyInv, BodyTyped
<1> QED BY <1>1, <1>2, <1>3, BodiesEnd

LEMMA InitBodies == Init => BodyInv
<1> SUFFICES ASSUME Init PROVE BodyInv
  OBVIOUS
<1>1. Steps \in Nat /\ 1 \in Attempt
  BY DurableAssumption DEF Attempt
<1>2. BodyTyped
  <2>1. held = [r \in Run |-> << >>] /\ << >> \in Seq(Attempt) /\ Len(<< >>) = 0
    BY DEF Init
  <2>2. held \in [Run -> Seq(Attempt)] /\ \A r \in Run : Len(held[r]) <= Steps
    BY <1>1, <2>1
  <2> QED BY <2>2 DEF Init, BodyTyped
<1>3. \A r \in Run : Untouched(r) /\ known[r] = {}
  BY DEF Init, Untouched
<1>4. \A r \in Run : Shape(r)
  BY <1>1, <1>3 DEF Untouched, Shape, Sent
<1> QED BY <1>2, <1>3, <1>4 DEF BodyInv

LEMMA NextBodies == DrainInv /\ BodyInv /\ [Next]_vars => BodyInv'
<1> SUFFICES ASSUME DrainInv, BodyInv, [Next]_vars PROVE BodyInv'
  OBVIOUS
<1>1. ASSUME NEW r \in Run, RunNext(r) PROVE BodyInv'
  BY <1>1, OneBodyStep, EndOfRunBodies DEF RunNext, LoopStep
<1>2. ASSUME NEW p \in Process, ProcessNext(p) PROVE BodyInv'
  BY <1>2, ClaimBodies, ProcessBodies DEF ProcessNext
<1>3. ASSUME UNCHANGED <<state, attempt, coroutine, at, record, held, outcome, op, known, process>>
      PROVE  BodyInv'
  <2>1. Onward
    BY <1>3, OnwardIfUnchanged DEF DrainInv, Typed
  <2>2. DOMAIN at' = Run /\ \A q \in Run : at'[q] = at[q]
    BY <1>3 DEF BodyInv, BodyTyped
  <2> QED BY <1>3, <2>1, <2>2, BodiesEnd
<1>4. ASSUME NEW t \in Task, Expire(t) PROVE BodyInv'
  BY <1>3, <1>4 DEF Expire, body
<1>5. CASE UNCHANGED vars
  BY <1>3, <1>5 DEF vars, queue, body
<1> QED BY <1>1, <1>2, <1>4, <1>5 DEF Next

\* docs/web/workflows.md, "a retry or resume never redoes completed work": whatever
\* the faults, a body runs no function of a step recorded when its run was claimed.
THEOREM CompletedWorkIsKept == Spec => []RecordedWorkIsNotRedone
<1>1. BodyInv => RecordedWorkIsNotRedone
  BY DEF BodyInv, Shape, RecordedWorkIsNotRedone
<1> QED BY <1>1, InitDrain, NextDrain, InitBodies, NextBodies, PTL DEF Spec

-----------------------------------------------------------------------------
(* Records.  A write of a current attempt is the last word on its step.  A   *)
(* write without a lock fills a step that nobody has a value of, writes the  *)
(* same attempt's value again, or replaces one, and the step is in replaced. *)

At(r) == record[r[1]][Next1(r)]
Lost(r) == <<r[1], Next1(r)>> \in replaced

\* The values a run that has not failed holds are the recorded ones.
Agrees(r) ==
  /\ \A s \in 1..Len(held[r]) : held[r][s] = record[r[1]][s] \/ <<r[1], s>> \in replaced
  /\ op[r] = "written" => At(r) = r[2] \/ Lost(r)

RunOk(r) ==
  /\ op[r] \in {"stale", "cleared"} => RunState(r) = "failed"
  /\ op[r] = "cleared" => existing[r] \in Nat /\ existing[r] <= r[2]
  /\ RunState(r) # "failed" => Agrees(r)

Whole(t) ==
  state[t] = "completed" =>
    /\ outcome[<<t, attempt[t]>>] = "returned"
    /\ Len(answer[t]) = Steps
    /\ \A s \in Step : /\ answer[t][s] \in Attempt
                       /\ answer[t][s] = record[t][s] \/ <<t, s>> \in replaced

RecordsInv ==
  /\ DOMAIN answer = Task /\ DOMAIN existing = Run
  /\ \A r \in Run : RunOk(r)
  /\ \A t \in Task : Whole(t)

LEMMA RunsAreTyped ==
  ASSUME DrainInv, BodyInv, NEW r \in Run
  PROVE  /\ r = <<r[1], r[2]>> /\ r[1] \in Task /\ r[2] \in Attempt /\ r[2] \in Nat \ {0}
         /\ attempt[r[1]] \in Nat /\ Len(held[r]) \in Nat
         /\ record[r[1]] \in [Step -> Attempt \cup {Nothing}]
         /\ held[r] \in Seq(Attempt)
  BY DurableAssumption DEF Run, Attempt, DrainInv, Typed, BodyInv, BodyTyped

\* Of a task's claimed runs only the last one may not have failed.
LEMMA OnlyTheLast ==
  ASSUME DrainInv, BodyInv, NEW r \in Run, Claimed(r)
  PROVE  /\ r[2] <= attempt[r[1]]
         /\ RunState(r) # "failed" => r[2] = attempt[r[1]] /\ RunState(r) = state[r[1]]
  BY RunsAreTyped DEF Claimed, RunState

\* A run nobody claimed holds nothing.
LEMMA UntouchedAgrees ==
  ASSUME DrainInv, BodyInv, NEW r \in Run, held[r] = << >>, op[r] = "none"
  PROVE  RunOk(r)
  BY DEF RunOk, Agrees

\* A completed task's last run is over, and has nothing on the loop.
LEMMA CompletedIsOver ==
  ASSUME DrainInv, BodyInv, RecordsInv, NEW r \in Run, Claimed(r), op[r] # "none"
  PROVE  RunState(r) # "completed"
<1>1. SUFFICES ASSUME RunState(r) = "completed" PROVE FALSE
  OBVIOUS
<1>2. r[2] = attempt[r[1]] /\ state[r[1]] = "completed" /\ r = <<r[1], r[2]>> /\ r[1] \in Task
  BY <1>1, OnlyTheLast, RunsAreTyped
<1>3. outcome[r] = "returned"
  BY <1>2 DEF RecordsInv, Whole
<1> QED BY <1>3 DEF BodyInv, Shape

\* The queue moves on, bodies stay or end, are claimed or dropped.
LEMMA QueueMovesOn ==
  ASSUME DrainInv, BodyInv, RecordsInv, Onward,
         UNCHANGED <<record, held, outcome, op, existing, replaced>>
  PROVE  \A r \in Run : RunOk(r)'
<1> SUFFICES ASSUME NEW r \in Run PROVE RunOk(r)'
  OBVIOUS
<1>1. CASE ~Claimed(r)
  <2>1. held[r] = << >> /\ op[r] = "none"
    BY <1>1 DEF BodyInv, Untouched
  <2> QED BY <2>1 DEF RunOk, Agrees
<1>2. CASE Claimed(r)
  <2>1. RunState(r) = "failed" => RunState(r)' = "failed"
    BY EndedRunsStay DEF Over
  <2>2. RunOk(r) /\ (Agrees(r) => Agrees(r)')
    BY DEF RecordsInv, Agrees, At, Lost, Next1
  <2> QED BY <2>1, <2>2 DEF RunOk
<1> QED BY <1>1, <1>2

\* A step of one body that writes nothing.
LEMMA OneRunMoves ==
  ASSUME DrainInv, BodyInv, RecordsInv, NEW r \in Run, RunOk(r)',
         UNCHANGED <<state, attempt, answer, record, replaced>>, DOMAIN existing' = Run,
         outcome[r] = "returned" => outcome'[r] = "returned",
         \A q \in Run \ {r} : /\ op'[q] = op[q] /\ held'[q] = held[q]
                              /\ outcome'[q] = outcome[q] /\ existing'[q] = existing[q]
  PROVE  RecordsInv'
<1>1. ASSUME NEW q \in Run \ {r} PROVE RunOk(q)'
  <2>1. /\ op'[q] = op[q] /\ held'[q] = held[q] /\ existing'[q] = existing[q]
        /\ RunState(q)' = RunState(q) /\ RunOk(q)
    BY DEF RunState, RecordsInv
  <2>2. Agrees(q) => Agrees(q)'
    BY <2>1 DEF Agrees, At, Lost, Next1
  <2> QED BY <2>1, <2>2 DEF RunOk
<1>2. ASSUME NEW t \in Task PROVE Whole(t)'
  <2>1. Whole(t)
    BY DEF RecordsInv
  <2>2. outcome[<<t, attempt[t]>>] = "returned" => outcome'[<<t, attempt[t]>>] = "returned"
    <3>1. <<t, attempt[t]>> \in Run
      BY DEF Run, DrainInv, Typed
    <3> QED BY <3>1
  <2> QED BY <2>1, <2>2 DEF Whole
<1> QED BY <1>1, <1>2 DEF RecordsInv

\* What a write leaves behind for its own run.
LEMMA WriterAgrees ==
  ASSUME DrainInv, BodyInv, RecordsInv, NEW r \in Run, Write(r), op[r] \in {"record"} \cup Sent,
         UNCHANGED <<state, attempt, held>>, replaced \subseteq replaced'
  PROVE  RunOk(r)'
<1> DEFINE t == r[1]  s == Next1(r)
<1>1. Next1(r) <= Steps /\ RunOk(r)
  BY DEF BodyInv, Shape, RecordsInv
<1>2. /\ t \in Task /\ s \in Step /\ record'[t][s] = r[2] /\ op' = [op EXCEPT ![r] = "written"]
      /\ \A u \in Task, k \in Step : u # t \/ k # s => record'[u][k] = record[u][k]
  BY <1>1, WriteFills, RunsAreTyped
<1>3. op'[r] = "written" /\ At(r)' = r[2] /\ RunState(r)' = RunState(r)
  BY <1>2 DEF BodyInv, BodyTyped, At, Next1, RunState
<1>4. ASSUME RunState(r) # "failed", NEW k \in 1..Len(held[r])
      PROVE  held[r][k] = record'[t][k] \/ <<t, k>> \in replaced'
  <2>1. k \in Step /\ k # s
    BY <1>1, RunsAreTyped, DurableAssumption DEF Next1, Step
  <2>2. held[r][k] = record[t][k] \/ <<t, k>> \in replaced
    BY <1>1, <1>4 DEF RunOk, Agrees
  <2> QED BY <1>2, <2>1, <2>2
<1> QED BY <1>3, <1>4 DEF RunOk, Agrees

\* The last attempt's write: the other runs of its task have failed, and it has not completed.
LEMMA WriteAgrees ==
  ASSUME DrainInv, BodyInv, RecordsInv, NEW r \in Run, Write(r),
         op[r] \in {"record"} \cup Sent, RunState(r) # "failed",
         UNCHANGED <<state, attempt, answer, held, outcome, existing, replaced>>
  PROVE  RecordsInv'
<1> DEFINE t == r[1]  s == Next1(r)
<1>1. Claimed(r) /\ Next1(r) <= Steps /\ outcome[r] # "returned"
  BY DEF BodyInv, Untouched, Shape, Sent
<1>2. /\ t \in Task /\ op' = [op EXCEPT ![r] = "written"]
      /\ \A u \in Task, k \in Step : u # t \/ k # s => record'[u][k] = record[u][k]
      /\ record' \in [Task -> [Step -> Attempt \cup {Nothing}]]
  BY <1>1, WriteFills, RunsAreTyped
<1>3. \A q \in Run \ {r} : op'[q] = op[q] /\ RunState(q)' = RunState(q)
  BY <1>2 DEF BodyInv, BodyTyped, RunState
<1>4. r[2] = attempt[t] /\ r = <<t, attempt[t]>>
  BY <1>1, OnlyTheLast, RunsAreTyped
<1>5. ASSUME NEW q \in Run \ {r} PROVE RunOk(q)'
  <2>1. CASE ~Claimed(q)
    <3>1. held'[q] = << >> /\ op'[q] = "none"
      BY <1>3, <2>1 DEF BodyInv, Untouched
    <3> QED BY <3>1 DEF RunOk, Agrees
  <2>2. CASE Claimed(q) /\ q[1] = t
    <3>1. RunState(q) = "failed"
      <4>1. q[2] <= r[2] /\ q[2] # r[2]
        BY <1>4, <2>2, OnlyTheLast, RunsAreTyped
      <4> QED BY <1>4, <2>2, <4>1, OnlyTheLast
    <3> QED BY <1>3, <3>1 DEF RunOk, RecordsInv
  <2>3. CASE q[1] # t
    <3>1. record'[q[1]] = record[q[1]]
      <4>1. q[1] \in Task
        BY RunsAreTyped
      <4>2. DOMAIN record'[q[1]] = Step /\ DOMAIN record[q[1]] = Step
        BY <1>2, <4>1 DEF BodyInv, BodyTyped
      <4> QED BY <1>2, <2>3, <4>1, <4>2 DEF BodyInv, BodyTyped
    <3>2. RunOk(q) /\ (Agrees(q) => Agrees(q)')
      BY <1>3, <3>1 DEF RecordsInv, Agrees, At, Lost, Next1
    <3> QED BY <1>3, <3>2 DEF RunOk
  <2> QED BY <2>1, <2>2, <2>3
<1>6. ASSUME NEW u \in Task PROVE Whole(u)'
  <2>1. Whole(u)
    BY DEF RecordsInv
  <2>2. state[u] = "completed" => u # t
    BY <1>1, <1>4, <2>1 DEF Whole
  <2>3. u # t => \A k \in Step : record'[u][k] = record[u][k]
    BY <1>2
  <2> QED BY <2>1, <2>2, <2>3 DEF Whole
<1> QED BY <1>5, <1>6, WriterAgrees DEF RecordsInv

\* A late call's write takes no recorded value away that is not accounted for.
LEMMA StaleWriteAgrees ==
  ASSUME DrainInv, BodyInv, RecordsInv, NEW r \in Run, StaleWrites(r)
  PROVE  RecordsInv'
<1> DEFINE t == r[1]  s == Next1(r)
<1>1. /\ op[r] = "cleared" /\ Write(r) /\ UNCHANGED <<state, attempt, answer, held, outcome>>
      /\ existing' = [existing EXCEPT ![r] = Nothing]
      /\ replaced' = IF Replaces(r) THEN replaced \cup {<<t, s>>} ELSE replaced
  BY DEF StaleWrites
<1>2. Next1(r) <= Steps /\ RunOk(r) /\ DOMAIN existing = Run
  BY <1>1 DEF BodyInv, Shape, RecordsInv, Sent
<1>3. /\ t \in Task /\ s \in Step /\ record'[t][s] = r[2] /\ op' = [op EXCEPT ![r] = "written"]
      /\ \A u \in Task, k \in Step : u # t \/ k # s => record'[u][k] = record[u][k]
      /\ r[2] \in Nat /\ record[t][s] \in Nat
  BY <1>1, <1>2, WriteFills, RunsAreTyped, DurableAssumption
     DEF BodyInv, BodyTyped, Attempt, Nothing
<1>4. replaced \subseteq replaced'
  BY <1>1
<1>5. ASSUME NEW u \in Task, NEW k \in Step, record[u][k] # Nothing
      PROVE  record'[u][k] = record[u][k] \/ <<u, k>> \in replaced'
  <2>1. CASE u = t /\ k = s
    <3>1. ~Replaces(r) => record[t][s] = r[2]
      BY <1>1, <1>2, <1>3, <1>5, <2>1 DEF Replaces, RunOk
    <3> QED BY <1>1, <1>3, <2>1, <3>1
  <2> QED BY <1>3, <2>1
<1>6. ASSUME NEW u \in Task, NEW k \in Step, NEW v \in Attempt,
             v = record[u][k] \/ <<u, k>> \in replaced
      PROVE  v = record'[u][k] \/ <<u, k>> \in replaced'
  BY <1>4, <1>5, <1>6, DurableAssumption DEF Attempt, Nothing
<1>7. ASSUME NEW q \in Run \ {r} PROVE RunOk(q)'
  <2>1. /\ op'[q] = op[q] /\ existing'[q] = existing[q] /\ RunState(q)' = RunState(q)
        /\ RunOk(q) /\ Shape(q)
    BY <1>1, <1>2, <1>3 DEF BodyInv, BodyTyped, RunState, RecordsInv
  <2>2. ASSUME Agrees(q) PROVE Agrees(q)'
    <3>1. ASSUME NEW k \in 1..Len(held[q])
          PROVE  held[q][k] = record'[q[1]][k] \/ <<q[1], k>> \in replaced'
      <4>1. k \in Step /\ held[q][k] \in Attempt /\ q[1] \in Task
        BY RunsAreTyped, DurableAssumption DEF Step, BodyInv, BodyTyped
      <4> QED BY <1>6, <2>2, <4>1 DEF Agrees
    <3>2. op[q] = "written" => At(q)' = q[2] \/ Lost(q)'
      <4>1. op[q] = "written" => Next1(q) \in Step /\ q[1] \in Task /\ q[2] \in Attempt
        BY <2>1, RunsAreTyped, DurableAssumption DEF Shape, Next1, Step
      <4> QED BY <1>1, <1>6, <2>2, <4>1 DEF Agrees, At, Lost, Next1
    <3> QED BY <1>1, <2>1, <3>1, <3>2 DEF Agrees
  <2> QED BY <2>1, <2>2 DEF RunOk
<1>8. ASSUME NEW u \in Task PROVE Whole(u)'
  <2>1. Whole(u)
    BY DEF RecordsInv
  <2> QED BY <1>1, <1>6, <2>1 DEF Whole
<1>9. RunOk(r)'
  BY <1>1, <1>4, WriterAgrees DEF Sent
<1> QED BY <1>1, <1>2, <1>7, <1>8, <1>9 DEF RecordsInv

\* What a body and its operations do, one step at a time.
LEMMA OneRunAgrees ==
  ASSUME DrainInv, BodyInv, RecordsInv, NEW r \in Run,
         \/ BodyStep(r) \/ LookUp(r) \/ Record(r) \/ ServerStep(r)
         \/ BridgeTimesOut(r) \/ RecordStalls(r)
  PROVE  RecordsInv'
<1>1. UNCHANGED <<state, attempt, answer>>
  BY OneBodyStep
<1>2. /\ Shape(r) /\ RunOk(r) /\ (~Claimed(r) => Untouched(r))
      /\ DOMAIN op = Run /\ DOMAIN outcome = Run /\ DOMAIN held = Run /\ DOMAIN existing = Run
  BY DEF BodyInv, BodyTyped, RecordsInv
<1>3. RunState(r)' = RunState(r)
  BY <1>1 DEF RunState
\* What is held stays so, and nothing is written.
<1>4. ASSUME UNCHANGED <<record, held, existing, replaced>>,
             op' = op \/ \E to \in {"none", "lookup", "missing", "record", "refused", "checked"} :
                           op' = [op EXCEPT ![r] = to],
             \/ outcome' = outcome
             \/ /\ outcome[r] # "returned"
                /\ \E how \in {"returned", "raised"} : outcome' = [outcome EXCEPT ![r] = how]
      PROVE  RecordsInv'
  <2>1. op'[r] = op[r] \/ op'[r] \notin {"stale", "cleared", "written"}
    BY <1>2, <1>4
  <2>2. Agrees(r) => Agrees(r)'
    BY <1>4, <2>1 DEF Agrees, At, Lost, Next1
  <2>3. RunOk(r)'
    BY <1>2, <1>3, <1>4, <2>1, <2>2 DEF RunOk
  <2>4. /\ outcome[r] = "returned" => outcome'[r] = "returned"
        /\ \A q \in Run \ {r} : /\ op'[q] = op[q] /\ held'[q] = held[q]
                                /\ outcome'[q] = outcome[q] /\ existing'[q] = existing[q]
    BY <1>2, <1>4
  <2> QED BY <1>1, <1>2, <1>4, <2>3, <2>4, OneRunMoves
<1>5. CASE Begin(r) \/ BeginStep(r) \/ Compute(r) \/ Return(r) \/ BridgeTimesOut(r)
           \/ RecordStalls(r)
  <2>1. UNCHANGED <<record, held, existing, replaced>>
    BY <1>5 DEF Begin, BeginStep, Compute, Return, BridgeTimesOut, RecordStalls, queue
  <2>2. \/ op' = op
        \/ \E to \in {"lookup", "record", "checked"} : op' = [op EXCEPT ![r] = to]
    BY <1>5 DEF Begin, BeginStep, Compute, Return, BridgeTimesOut, RecordStalls
  <2>3. \/ outcome' = outcome
        \/ /\ outcome[r] # "returned"
           /\ \E how \in {"returned", "raised"} : outcome' = [outcome EXCEPT ![r] = how]
    BY <1>2, <1>5
       DEF Begin, BeginStep, Compute, Return, BridgeTimesOut, RecordStalls, Shape
  <2> QED BY <1>4, <2>1, <2>2, <2>3
<1>6. CASE Answered(r)
  <2>1. /\ outcome' = [outcome EXCEPT ![r] = IF op[r] = "refused" THEN "raised" ELSE @]
        /\ held' = [held EXCEPT ![r] = IF op[r] = "written" THEN Append(@, r[2]) ELSE @]
        /\ op' = [op EXCEPT ![r] = "none"] /\ UNCHANGED <<record, existing, replaced>>
        /\ outcome[r] # "returned"
    BY <1>2, <1>6 DEF Answered, queue, Shape
  <2>2. ASSUME Agrees(r) PROVE Agrees(r)'
    <3>1. CASE op[r] = "written"
      <4>1. /\ held'[r] = Append(held[r], r[2]) /\ op'[r] = "none"
            /\ record[r[1]][Len(held[r]) + 1] = r[2] \/ <<r[1], Len(held[r]) + 1>> \in replaced
        BY <1>2, <2>1, <2>2, <3>1 DEF Agrees, At, Lost, Next1
      <4>2. ASSUME NEW k \in 1..Len(held'[r])
            PROVE  held'[r][k] = record[r[1]][k] \/ <<r[1], k>> \in replaced
        <5>1. Len(held'[r]) = Len(held[r]) + 1 /\ Len(held[r]) \in Nat /\ held[r] \in Seq(Attempt)
              /\ r[2] \in Attempt
          BY <4>1, RunsAreTyped
        <5>2. CASE k = Len(held[r]) + 1
          BY <4>1, <5>1, <5>2
        <5>3. CASE k \in 1..Len(held[r])
          BY <2>2, <4>1, <5>1, <5>3 DEF Agrees
        <5> QED BY <5>1, <5>2, <5>3
      <4> QED BY <2>1, <4>1, <4>2 DEF Agrees
    <3>2. CASE op[r] # "written"
      BY <1>2, <2>1, <2>2, <3>2 DEF Agrees
    <3> QED BY <3>1, <3>2
  <2>3. RunOk(r)'
    BY <1>2, <1>3, <2>1, <2>2 DEF RunOk
  <2>4. \A q \in Run \ {r} : /\ op'[q] = op[q] /\ held'[q] = held[q]
                             /\ outcome'[q] = outcome[q] /\ existing'[q] = existing[q]
    BY <1>2, <2>1
  <2> QED BY <1>1, <1>2, <2>1, <2>3, <2>4, OneRunMoves
<1>7. CASE LookUp(r)
  <2>1. /\ UNCHANGED <<record, outcome, existing, replaced>> /\ op[r] = "lookup"
        /\ \/ /\ \E to \in {"refused", "missing"} : op' = [op EXCEPT ![r] = to]
              /\ held' = held
           \/ /\ op' = [op EXCEPT ![r] = "found"]
              /\ held' = [held EXCEPT ![r] = Append(@, At(r))]
    BY <1>7 DEF LookUp, queue, At
  <2>2. CASE op' = [op EXCEPT ![r] = "found"] /\ held' = [held EXCEPT ![r] = Append(@, At(r))]
    <3>1. op'[r] = "found" /\ held'[r] = Append(held[r], record[r[1]][Len(held[r]) + 1])
      BY <1>2, <2>2 DEF At, Next1
    <3>2. held[r] \in Seq(Attempt) /\ Len(held[r]) \in Nat
      BY RunsAreTyped
    <3>3. record[r[1]][Len(held[r]) + 1] \in Attempt \cup {Nothing}
      <4>1. Next1(r) \in Step
        BY <1>2, <2>1, <3>2, DurableAssumption DEF Shape, Next1, Step
      <4> QED BY <4>1, RunsAreTyped DEF Next1
    <3>4. ASSUME Agrees(r), NEW k \in 1..Len(held'[r])
          PROVE  held'[r][k] = record[r[1]][k] \/ <<r[1], k>> \in replaced
      <4>1. held[r] \in Seq(Attempt \cup {Nothing}) /\ Len(held'[r]) = Len(held[r]) + 1
        BY <3>1, <3>2, <3>3
      <4>2. CASE k = Len(held[r]) + 1
        BY <3>1, <3>2, <3>3, <4>1, <4>2
      <4>3. CASE k \in 1..Len(held[r])
        BY <3>1, <3>2, <3>3, <3>4, <4>1, <4>3 DEF Agrees
      <4> QED BY <3>2, <4>1, <4>2, <4>3
    <3>5. Agrees(r) => Agrees(r)'
      BY <2>1, <3>1, <3>4 DEF Agrees
    <3>6. RunOk(r)'
      BY <1>2, <1>3, <3>1, <3>5 DEF RunOk
    <3>7. \A q \in Run \ {r} : /\ op'[q] = op[q] /\ held'[q] = held[q]
                               /\ outcome'[q] = outcome[q] /\ existing'[q] = existing[q]
      BY <1>2, <2>1, <2>2
    <3> QED BY <1>1, <1>2, <2>1, <3>6, <3>7, OneRunMoves
  <2> QED BY <1>4, <2>1, <2>2
<1>8. CASE Record(r)
  <2>1. /\ UNCHANGED <<held, outcome, existing, replaced>> /\ op[r] = "record"
        /\ \/ op' = [op EXCEPT ![r] = "refused"] /\ UNCHANGED record
           \/ RunState(r) # "failed" /\ Write(r)
    BY <1>8 DEF Record, Refused
  <2> QED BY <1>1, <1>4, <2>1, WriteAgrees
<1>9. CASE RecordResumes(r)
  <2>1. /\ UNCHANGED <<held, outcome, existing, replaced>> /\ op[r] = "checked"
        /\ \/ RunState(r) = "running" /\ Write(r)
           \/ RunState(r) # "running" /\ op' = [op EXCEPT ![r] = "stale"] /\ UNCHANGED record
    BY <1>9 DEF RecordResumes, Current
  <2>2. CASE RunState(r) = "running" /\ Write(r)
    BY <1>1, <2>1, <2>2, WriteAgrees DEF Sent
  <2>3. CASE RunState(r) # "running" /\ op' = [op EXCEPT ![r] = "stale"] /\ UNCHANGED record
    <3>1. RunState(r) = "failed"
      <4>1. Claimed(r) /\ op[r] # "none"
        BY <1>2, <2>1 DEF Untouched
      <4> QED BY <2>3, <4>1, CompletedIsOver, OnlyTheLast DEF Claimed, Over, RunState
    <3>2. RunOk(r)'
      BY <1>2, <1>3, <2>3, <3>1 DEF RunOk
    <3>3. \A q \in Run \ {r} : op'[q] = op[q]
      BY <1>2, <2>3
    <3> QED BY <1>1, <1>2, <2>1, <2>3, <3>2, <3>3, OneRunMoves
  <2> QED BY <2>1, <2>2, <2>3
<1>10. CASE StaleLooks(r)
  <2>1. /\ UNCHANGED <<record, held, outcome, replaced>> /\ RunState(r) = "failed"
        /\ \/ /\ record[r[1]][Next1(r)] <= r[2] /\ op' = [op EXCEPT ![r] = "cleared"]
              /\ existing' = [existing EXCEPT ![r] = record[r[1]][Next1(r)]]
           \/ op' = [op EXCEPT ![r] = "written"] /\ UNCHANGED existing
    BY <1>2, <1>10 DEF StaleLooks, MayWrite, RunOk
  <2>2. record[r[1]][Next1(r)] \in Nat
    <3>1. Next1(r) \in Step
      BY <1>2, <1>10, RunsAreTyped, DurableAssumption DEF StaleLooks, Shape, Next1, Step, Sent
    <3> QED BY <3>1, RunsAreTyped, DurableAssumption DEF Attempt, Nothing
  <2>3. RunOk(r)'
    BY <1>2, <1>3, <2>1, <2>2 DEF RunOk
  <2>4. DOMAIN existing' = Run /\ \A q \in Run \ {r} : op'[q] = op[q] /\ existing'[q] = existing[q]
    BY <1>2, <2>1
  <2> QED BY <1>1, <2>1, <2>3, <2>4, OneRunMoves
<1>11. CASE StaleWrites(r)
  BY <1>11, StaleWriteAgrees
<1> QED BY <1>5, <1>6, <1>7, <1>8, <1>9, <1>10, <1>11 DEF BodyStep, ServerStep

\* No task completes and no answer changes but by a report.
LEMMA NothingCompletes ==
  ASSUME DrainInv, BodyInv, RecordsInv, Onward,
         UNCHANGED <<record, held, outcome, op, answer, existing, replaced>>,
         \A t \in Task : state'[t] = "completed" => state[t] = "completed"
  PROVE  RecordsInv'
<1>1. \A r \in Run : RunOk(r)'
  BY QueueMovesOn
<1>2. ASSUME NEW t \in Task PROVE Whole(t)'
  <2>1. Whole(t) /\ (state'[t] = "completed" => state[t] = "completed" /\ attempt'[t] = attempt[t])
    BY DEF RecordsInv, Onward, Over
  <2> QED BY <2>1 DEF Whole
<1> QED BY <1>1, <1>2 DEF RecordsInv

LEMMA ReportAgrees ==
  ASSUME DrainInv, BodyInv, RecordsInv, NEW r \in Run, Report(r)
  PROVE  RecordsInv'
<1> DEFINE t == r[1]
<1>1. UNCHANGED <<record, held, outcome, op, existing, replaced>> /\ Onward
  BY ReportOnward, EndOfRunBodies DEF Report
<1>2. Claimed(r) /\ t \in Task
  BY RunsAreTyped DEF Report, DrainInv
<1>3. CASE ~Accepts(r)
  <2>1. UNCHANGED <<state, attempt, answer>>
    BY <1>3 DEF Report
  <2> QED BY <1>1, <2>1, NothingCompletes
<1>4. CASE Accepts(r) /\ outcome[r] # "returned"
  <2>1. state' = FailStates({t}) /\ answer' = answer
    BY <1>4 DEF Report
  <2>2. \A u \in Task : state'[u] = "completed" => state[u] = "completed"
    BY <2>1 DEF FailStates, FailedState
  <2> QED BY <1>1, <2>1, <2>2, NothingCompletes
<1>5. CASE Accepts(r) /\ outcome[r] = "returned"
  <2>1. /\ state' = [state EXCEPT ![t] = "completed"] /\ attempt' = attempt
        /\ answer' = [answer EXCEPT ![t] = held[r]]
    BY <1>5 DEF Report
  <2>2. RunState(r) = "running" /\ r = <<t, attempt[t]>>
    BY <1>2, <1>5, OnlyTheLast, RunsAreTyped DEF Accepts, Current
  <2>3. Agrees(r) /\ Len(held[r]) = Steps
    BY <1>5, <2>2 DEF RecordsInv, RunOk, BodyInv, Shape
  <2>4. \A k \in Step : /\ held[r][k] \in Attempt
                        /\ held[r][k] = record[t][k] \/ <<t, k>> \in replaced
    BY <2>3, RunsAreTyped, DurableAssumption DEF Agrees, Step
  <2>5. \A q \in Run : RunOk(q)'
    BY <1>1, QueueMovesOn
  <2>6. ASSUME NEW u \in Task PROVE Whole(u)'
    <3>1. CASE u = t
      <4>1. answer'[t] = held[r]
        BY <1>2, <2>1 DEF RecordsInv
      <4> QED BY <1>1, <1>5, <2>1, <2>2, <2>3, <2>4, <3>1, <4>1 DEF Whole
    <3>2. CASE u # t
      <4>1. Whole(u) /\ state'[u] = state[u] /\ answer'[u] = answer[u]
        BY <2>1, <3>2 DEF RecordsInv, DrainInv, Typed
      <4> QED BY <1>1, <2>1, <4>1 DEF Whole
    <3> QED BY <3>1, <3>2
  <2> QED BY <1>1, <2>1, <2>5, <2>6 DEF RecordsInv
<1> QED BY <1>3, <1>4, <1>5

LEMMA InitAgrees == Init => RecordsInv
<1> SUFFICES ASSUME Init PROVE RecordsInv
  OBVIOUS
<1>1. \A r \in Run : held[r] = << >> /\ op[r] = "none"
  BY DEF Init
<1>2. \A r \in Run : RunOk(r)
  BY <1>1, InitDrain, InitBodies, UntouchedAgrees
<1> QED BY <1>2 DEF Init, Whole, RecordsInv

LEMMA NextAgrees == DrainInv /\ BodyInv /\ RecordsInv /\ [Next]_vars => RecordsInv'
<1> SUFFICES ASSUME DrainInv, BodyInv, RecordsInv, [Next]_vars PROVE RecordsInv'
  OBVIOUS
<1>1. ASSUME UNCHANGED <<state, attempt, answer, record, held, outcome, op, existing, replaced>>,
             DOMAIN coroutine' = Run
      PROVE  RecordsInv'
  BY <1>1, OnwardIfUnchanged, NothingCompletes DEF DrainInv
<1>2. ASSUME NEW r \in Run, RunNext(r) PROVE RecordsInv'
  <2>1. CASE FetchOutcome(r) \/ Break(r)
    <3>1. /\ UNCHANGED <<state, attempt, answer, record, held, outcome, op, existing, replaced>>
          /\ coroutine' = [coroutine EXCEPT ![r] = "ended"]
      BY <2>1 DEF FetchOutcome, Break, queue, body
    <3> QED BY <1>1, <3>1 DEF DrainInv, Typed
  <2> QED BY <1>2, <2>1, OneRunAgrees, ReportAgrees DEF RunNext, LoopStep
<1>3. ASSUME NEW p \in Process, ProcessNext(p) PROVE RecordsInv'
  <2>1. CASE Claim(p)
    <3>1. Onward /\ UNCHANGED <<record, held, outcome, op, answer, existing, replaced>>
      BY <2>1, ClaimOnward DEF Claim
    <3>2. PICK B \in SUBSET {t \in Task : FailStates(Expired)[t] = "pending"} :
            state' = [t \in Task |-> IF t \in B THEN "running" ELSE FailStates(Expired)[t]]
      BY <2>1 DEF Claim
    <3>3. \A t \in Task : state'[t] = "completed" => state[t] = "completed"
      BY <3>2 DEF FailStates, FailedState
    <3> QED BY <3>1, <3>3, NothingCompletes
  <2>2. CASE Stop(p) \/ Cancel(p) \/ Crash(p) \/ Shutdown(p) \/ Restart(p)
    <3>1. UNCHANGED <<state, attempt, answer, record, held, outcome, op, existing, replaced>>
      BY <2>2 DEF Stop, Cancel, Crash, Shutdown, Finish, Close, LeavePool, Restart, queue, body
    <3>2. coroutine' = coroutine \/ \E S : coroutine' = Ended(S)
      BY <2>2 DEF Stop, Cancel, Crash, Shutdown, Finish, Close, LeavePool, Restart
    <3>3. DOMAIN coroutine' = Run
      BY <3>2 DEF DrainInv, Typed, Ended
    <3> QED BY <1>1, <3>1, <3>3
  <2> QED BY <1>3, <2>1, <2>2 DEF ProcessNext
<1>4. ASSUME NEW t \in Task, Expire(t) PROVE RecordsInv'
  BY <1>1, <1>4 DEF Expire, body, DrainInv, Typed
<1>5. CASE UNCHANGED vars
  BY <1>1, <1>5 DEF vars, queue, body, DrainInv, Typed
<1> QED BY <1>2, <1>3, <1>4, <1>5 DEF Next

\* migrations/0001_initial_0_5_0.sql, set_task_checkpoint_state and complete_run: what a
\* task completed with is what its steps are recorded with, for any number of attempts
\* that overlap, crash, stall and give up, but for the steps that a call wrote over which
\* had lost its claim (between its look at the owner, line 1519, and its write, 1532).
THEOREM AnswersAreTheRecords == Spec => []CompletedAsRecorded
<1>1. RecordsInv => CompletedAsRecorded
  BY DEF RecordsInv, Whole, CompletedAsRecorded
<1> QED BY <1>1, InitAgrees, InitDrain, NextDrain, InitBodies, NextBodies, NextAgrees, PTL DEF Spec
=============================================================================
