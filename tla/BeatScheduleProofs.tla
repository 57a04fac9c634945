------------------------- MODULE BeatScheduleProofs -------------------------
(***************************************************************************)
(* A slot has at most one task that cleanup has not deleted, for any beats *)
(* (however many run at once and however they are restarted), schedules,   *)
(* clocks and cleanups.  What makes it so is that a task's key is its slot *)
(* and that spawn_task inserts only where every task of the key is gone.   *)
(* And a beat passes over no slot without having seen it served, however   *)
(* the clock and the other beats move: the least slot after the last one   *)
(* it fired is where its next pass starts.                                 *)
(***************************************************************************)
EXTENDS BeatSchedules, FiniteSetTheorems, TLAPS

\* Every element of tasks is a row with just these columns.
Whole(t) ==
  t = [name |-> t.name, slot |-> t.slot, key |-> t.key, no |-> t.no, state |-> t.state]

\* The part of the invariant that speaks of a set of tasks alone.
KeyedBySlot(ts) ==
  /\ \A t \in ts : Whole(t) /\ t.key = t.slot
  /\ \A t, u \in ts : t # u /\ t.name = u.name /\ t.slot = u.slot =>
       "deleted" \in {t.state, u.state}

-----------------------------------------------------------------------------
\* A change of state leaves the other columns of a row alone.
LEMMA StateChanged ==
  ASSUME NEW t, Whole(t), NEW s
  PROVE  LET u == [t EXCEPT !.state = s] IN
         /\ Whole(u) /\ u.name = t.name /\ u.slot = t.slot /\ u.key = t.key
         /\ u.state = s
BY DEF Whole

\* Rows that change their state for another, but never back from "deleted",
\* keep their keys apart: f is the row that each becomes.
LEMMA RewrittenKeyed ==
  ASSUME KeyedBySlot(tasks), NEW f, NEW ts, ts = {f[t] : t \in tasks},
         \A t \in tasks : f[t] = t \/ (t.state # "deleted" /\ \E s : f[t] = [t EXCEPT !.state = s])
  PROVE  KeyedBySlot(ts)
<1>1. ASSUME NEW t \in tasks
      PROVE  /\ Whole(f[t]) /\ f[t].name = t.name /\ f[t].slot = t.slot /\ f[t].key = t.key
             /\ t.state = "deleted" => f[t] = t
  <2>1. Whole(t)
    BY DEF KeyedBySlot
  <2>2. CASE f[t] = t
    BY <2>1, <2>2
  <2>3. CASE t.state # "deleted" /\ \E s : f[t] = [t EXCEPT !.state = s]
    BY <2>1, <2>3, StateChanged
  <2> QED BY <2>2, <2>3
<1>2. \A t \in tasks : Whole(f[t]) /\ f[t].key = f[t].slot
  BY <1>1 DEF KeyedBySlot
<1>3. ASSUME NEW t \in tasks, NEW u \in tasks, f[t] # f[u],
             f[t].name = f[u].name, f[t].slot = f[u].slot
      PROVE  "deleted" \in {f[t].state, f[u].state}
  <2>1. t # u /\ t.name = u.name /\ t.slot = u.slot
    BY <1>1, <1>3
  <2>2. t.state = "deleted" \/ u.state = "deleted"
    BY <2>1 DEF KeyedBySlot
  <2> QED BY <1>1, <2>2
<1> QED BY <1>2, <1>3 DEF KeyedBySlot

\* spawn_task adds a row only where every row of its key is deleted.
LEMMA EnqueuedKeyed ==
  ASSUME KeyedBySlot(tasks), NEW b, NEW e
  PROVE  KeyedBySlot(Enqueued(b, e))
<1> DEFINE same == {t \in tasks : t.name = e /\ t.key = KeyOf(b, e)}
           new == [name |-> e, slot |-> nextAt[b][e], key |-> KeyOf(b, e),
                   no |-> Cardinality(same), state |-> "live"]
<1>1. CASE \E t \in same : t.state # "deleted"
  BY <1>1 DEF Enqueued
<1>2. CASE \A t \in same : t.state = "deleted"
  <2>1. Whole(new) /\ new.key = new.slot /\ new.name = e
    BY DEF Whole, KeyOf
  <2>2. \A t \in tasks : t.name = new.name /\ t.slot = new.slot => t.state = "deleted"
    BY <1>2, <2>1 DEF KeyedBySlot
  <2>3. Enqueued(b, e) = tasks \cup {new}
    BY <1>2 DEF Enqueued
  <2> HIDE DEF new
  <2>4. KeyedBySlot(tasks \cup {new})
    BY <2>1, <2>2 DEF KeyedBySlot
  <2> QED BY <2>3, <2>4
<1> QED BY <1>1, <1>2

LEMMA CleanedKeyed ==
  ASSUME KeyedBySlot(tasks), NEW kept
  PROVE  KeyedBySlot(Cleaned(kept))
<1> DEFINE f == [t \in tasks |-> IF t.state = "ended" /\ t \notin kept
                                  THEN [t EXCEPT !.state = "deleted"] ELSE t]
<1>1. \A t \in tasks : f[t] = t \/ (t.state # "deleted" /\ \E s : f[t] = [t EXCEPT !.state = s])
  OBVIOUS
<1>2. Cleaned(kept) = {f[t] : t \in tasks}
  BY DEF Cleaned
<1> HIDE DEF f
<1> QED BY <1>1, <1>2, RewrittenKeyed

LEMMA EndedKeyed ==
  ASSUME KeyedBySlot(tasks), NEW t \in tasks, t.state = "live"
  PROVE  KeyedBySlot((tasks \ {t}) \cup {[t EXCEPT !.state = "ended"]})
<1> DEFINE f == [u \in tasks |-> IF u = t THEN [t EXCEPT !.state = "ended"] ELSE u]
<1>1. \A u \in tasks : f[u] = u \/ (u.state # "deleted" /\ \E s : f[u] = [u EXCEPT !.state = s])
  OBVIOUS
<1>2. (tasks \ {t}) \cup {[t EXCEPT !.state = "ended"]} = {f[u] : u \in tasks}
  OBVIOUS
<1> HIDE DEF f
<1> QED BY <1>1, <1>2, RewrittenKeyed

-----------------------------------------------------------------------------
LEMMA InitKeyed == Init => KeyedBySlot(tasks)
BY DEF Init, KeyedBySlot

LEMMA FireKeyed ==
  ASSUME KeyedBySlot(tasks), NEW b, Fire(b)
  PROVE  KeyedBySlot(tasks')
<1> DEFINE e == Entries[At(b)]
<1>1. Fired(b, e) \/ UNCHANGED tasks
  BY DEF Fire
<1>2. CASE Fired(b, e)
  BY <1>2, EnqueuedKeyed, CleanedKeyed DEF Fired
<1> QED BY <1>1, <1>2

LEMMA NextKeyed == KeyedBySlot(tasks) /\ [Next]_vars => KeyedBySlot(tasks)'
<1> SUFFICES ASSUME KeyedBySlot(tasks), [Next]_vars
             PROVE  KeyedBySlot(tasks')
  BY DEF KeyedBySlot, Whole
<1>1. ASSUME NEW b \in Beat, Fire(b) PROVE KeyedBySlot(tasks')
  BY <1>1, FireKeyed
<1>2. CASE TaskEnds
  BY <1>2, EndedKeyed DEF TaskEnds
<1>3. CASE UNCHANGED tasks
  BY <1>3
<1>4. ASSUME NEW b \in Beat,
             \/ Start(b) \/ Stop(b) \/ Joined(b) \/ JoinTimesOut(b) \/ Dies(b) \/ Hangs(b)
             \/ Wake(b) \/ Wait(b) \/ PassEnds(b)
      PROVE  UNCHANGED tasks
  BY <1>4 DEF Start, Stop, Joined, JoinTimesOut, Dies, Hangs, Wake, Wait, PassEnds
<1> QED BY <1>1, <1>2, <1>3, <1>4 DEF Next, Loop, Tick, vars

-----------------------------------------------------------------------------
\* docs/WHY.md:424: a slot has one task until cleanup has deleted it, whichever
\* beats fire it, whenever they are started and however late they are.
THEOREM BeatAtMostOncePerSlot == Spec => []AtMostOncePerSlot
<1>1. KeyedBySlot(tasks) => AtMostOncePerSlot
  BY DEF KeyedBySlot, AtMostOncePerSlot
<1> QED BY <1>1, InitKeyed, NextKeyed, PTL DEF Spec

-----------------------------------------------------------------------------
(* No slot is passed over unseen.  A pass moves an entry on to the first    *)
(* slot after the clock it read: what lies between is the slot it fired,    *)
(* and slots the firing counts as missed.                                   *)

LEMMA LeastNatural ==
  ASSUME NEW S \in SUBSET Nat, S # {}
  PROVE  \E m \in S : \A x \in S : m <= x
<1> DEFINE T == {1..n : n \in S}
<1>1. T \subseteq FiniteSubsetsOf(Nat) /\ T # {}
  <2>1. ASSUME NEW n \in S PROVE 1..n \in FiniteSubsetsOf(Nat)
    <3>1. IsFiniteSet(1..n)
      BY FS_Interval
    <3> QED BY <3>1 DEF FiniteSubsetsOf
  <2> QED BY <2>1
<1>2. PICK X \in T : \A Y \in T : ~ (<<Y, X>> \in StrictSubsetOrdering(Nat))
  BY <1>1, FS_StrictSubsetOrderingWellFounded, WFMin
<1>3. PICK m \in S : X = 1..m
  BY <1>2
<1>4. ASSUME NEW x \in S, x < m PROVE FALSE
  <2>1. 1..x \in T /\ 1..x \subseteq 1..m /\ m \in (1..m) \ (1..x)
    BY <1>4
  <2>2. <<1..x, 1..m>> \in StrictSubsetOrdering(Nat)
    BY <2>1 DEF StrictSubsetOrdering
  <2> QED BY <1>2, <1>3, <2>1, <2>2
<1> QED BY <1>4

\* get_next_datetime: the first slot after an instant, or none.
LEMMA FirstSlotAfter ==
  ASSUME NEW e \in Entry, NEW after \in Nat
  PROVE  /\ NextSlot(e, after) \in Nat
         /\ \A s \in Slots[e] : s < NextSlot(e, after) => s <= after
<1> DEFINE later == {s \in Slots[e] : s > after}
<1>1. Slots[e] \in SUBSET (1..Horizon) /\ Horizon \in Nat
  BY BeatAssumption
<1>0. NextSlot(e, after) =
        IF later = {} THEN Never ELSE CHOOSE s \in later : \A x \in later : s <= x
  BY DEF NextSlot
<1>2. CASE later = {}
  <2>1. NextSlot(e, after) = Horizon + 1
    BY <1>0, <1>2 DEF Never
  <2>2. \A s \in Slots[e] : s \in Nat /\ ~(s > after)
    BY <1>1, <1>2
  <2> QED BY <1>1, <2>1, <2>2
<1>3. CASE later # {}
  <2>1. \E m \in later : \A x \in later : m <= x
    <3>1. later \in SUBSET Nat
      BY <1>1
    <3> HIDE DEF later
    <3> QED BY <1>3, <3>1, LeastNatural
  <2>2. NextSlot(e, after) \in later /\ \A x \in later : NextSlot(e, after) <= x
    <3> HIDE DEF later
    <3> QED BY <1>0, <1>3, <2>1
  <2> QED BY <1>1, <2>2
<1> QED BY <1>2, <1>3

Clocks ==
  /\ now \in Nat /\ current \in [Beat -> Nat] /\ nextAt \in [Beat -> [Entry -> Nat]]
  /\ DOMAIN at = Beat /\ DOMAIN since = Beat

SeenOf(b) ==
  Up(b) => \A e \in Entry \ {Cleanup} : \A s \in Slots[e] :
    since[b] < s /\ s < nextAt[b][e] => Served(e, s) \/ <<b, e, s>> \in missed

SkipInv ==
  /\ Clocks /\ KeyedBySlot(tasks)
  /\ \A b \in Beat : SeenOf(b)

\* Rows are added and change their states; what was enqueued stays enqueued.
LEMMA ServedStays ==
  ASSUME KeyedBySlot(tasks), NEW e, NEW s, Served(e, s), [Next]_vars
  PROVE  Served(e, s)'
<1>1. PICK t \in tasks : t.name = e /\ t.slot = s
  BY DEF Served
<1>2. Whole(t)
  BY DEF KeyedBySlot
<1>3. ASSUME NEW u \in tasks', u = t \/ \E x : u = [t EXCEPT !.state = x] PROVE Served(e, s)'
  <2>1. u.name = e /\ u.slot = s
    <3>1. CASE u = t
      BY <1>1, <3>1
    <3>2. ASSUME NEW x, u = [t EXCEPT !.state = x] PROVE u.name = e /\ u.slot = s
      BY <1>1, <1>2, <3>2, StateChanged
    <3> QED BY <1>3, <3>1, <3>2
  <2> QED BY <2>1 DEF Served
<1>4. CASE UNCHANGED tasks
  BY <1>1, <1>4 DEF Served
<1>5. ASSUME NEW b \in Beat, Fire(b) PROVE Served(e, s)'
  <2>1. CASE \E d : tasks' = Enqueued(b, d)
    BY <1>3, <2>1 DEF Enqueued
  <2>2. ASSUME NEW kept, tasks' = Cleaned(kept) PROVE Served(e, s)'
    <3>1. (IF t.state = "ended" /\ t \notin kept
           THEN [t EXCEPT !.state = "deleted"] ELSE t) \in tasks'
      BY <2>2 DEF Cleaned
    <3> QED BY <1>3, <3>1
  <2> QED BY <1>4, <1>5, <2>1, <2>2 DEF Fire, Fired
<1>6. CASE TaskEnds
  <2>1. PICK u \in tasks : tasks' = (tasks \ {u}) \cup {[u EXCEPT !.state = "ended"]}
    BY <1>6 DEF TaskEnds
  <2> QED BY <1>3, <2>1
<1>7. ASSUME NEW b \in Beat,
             \/ Start(b) \/ Stop(b) \/ Joined(b) \/ JoinTimesOut(b) \/ Dies(b) \/ Hangs(b)
             \/ Wake(b) \/ Wait(b) \/ PassEnds(b)
      PROVE  UNCHANGED tasks
  BY <1>7 DEF Start, Stop, Joined, JoinTimesOut, Dies, Hangs, Wake, Wait, PassEnds
<1> QED BY <1>4, <1>5, <1>6, <1>7 DEF Next, Loop, Tick, vars

\* A beat whose entries a step leaves alone, or that it takes down, has seen its slots.
LEMMA SeenStays ==
  ASSUME SkipInv, [Next]_vars, NEW b \in Beat, Up(b)' => Up(b),
         nextAt'[b] = nextAt[b], since'[b] = since[b], missed \subseteq missed'
  PROVE  SeenOf(b)'
<1> SUFFICES ASSUME Up(b)', NEW e \in Entry \ {Cleanup}, NEW s \in Slots[e],
                    since[b] < s, s < nextAt[b][e]
             PROVE  Served(e, s)' \/ <<b, e, s>> \in missed'
  BY DEF SeenOf
<1>1. Served(e, s) \/ <<b, e, s>> \in missed
  BY DEF SkipInv, SeenOf
<1> QED BY <1>1, ServedStays DEF SkipInv

\* A firing serves the slot it fires.
LEMMA FiredIsServed ==
  ASSUME KeyedBySlot(tasks), NEW b \in Beat, NEW e, e # Cleanup, Fired(b, e),
         NEW s, s = nextAt[b][e]
  PROVE  Served(e, s)'
<1>1. tasks' = Enqueued(b, e)
  BY DEF Fired
<1> DEFINE same == {t \in tasks : t.name = e /\ t.key = KeyOf(b, e)}
           new == [name |-> e, slot |-> nextAt[b][e], key |-> KeyOf(b, e),
                   no |-> Cardinality(same), state |-> "live"]
<1>2. CASE \E t \in same : t.state # "deleted"
  <2>1. PICK t \in same : t.slot = nextAt[b][e]
    BY <1>2 DEF KeyOf, KeyedBySlot
  <2>2. tasks' = tasks
    BY <1>1, <1>2 DEF Enqueued
  <2> QED BY <2>1, <2>2 DEF Served
<1>3. CASE ~ \E t \in same : t.state # "deleted"
  <2>1. new \in tasks' /\ new.name = e /\ new.slot = s
    BY <1>1, <1>3 DEF Enqueued
  <2> HIDE DEF new
  <2> QED BY <2>1 DEF Served
<1> QED BY <1>2, <1>3

\* The beat that fires: the slot it fired is served or missed, the ones it left
\* behind are missed.
LEMMA FireSeen ==
  ASSUME SkipInv, [Next]_vars, NEW b \in Beat, Fire(b)
  PROVE  SeenOf(b)' /\ missed \subseteq missed' /\ Clocks'
<1> DEFINE e == Entries[At(b)]
<1>1. /\ nextAt' = [nextAt EXCEPT ![b][e] = Advanced(b, e)]
      /\ UNCHANGED <<now, at, current, since>>
      /\ \/ Fired(b, e) /\ missed' = missed \cup ({b} \X {e} \X PassedOver(b, e))
         \/ missed' = missed \cup ({b} \X {e} \X (PassedOver(b, e) \cup {nextAt[b][e]}))
  BY DEF Fire, FailureIsLogged
<1>2. /\ nextAt \in [Beat -> [Entry -> Nat]] /\ current[b] \in Nat /\ Clocks /\ KeyedBySlot(tasks)
      /\ SeenOf(b)
  BY DEF SkipInv, Clocks
<1> HIDE DEF e
<1>3. e \in Entry => Advanced(b, e) \in Nat
                     /\ \A s \in Slots[e] : s < Advanced(b, e) => s <= current[b]
  BY <1>2, FirstSlotAfter DEF Advanced
<1>4. /\ nextAt' \in [Beat -> [Entry -> Nat]]
      /\ \A c \in Beat, d \in Entry :
           nextAt'[c][d] = IF c = b /\ d = e THEN Advanced(b, e) ELSE nextAt[c][d]
  <2>1. nextAt' = [nextAt EXCEPT ![b] = [@ EXCEPT ![e] = Advanced(b, e)]]
    BY <1>1
  <2>2. [nextAt[b] EXCEPT ![e] = Advanced(b, e)] \in [Entry -> Nat]
    BY <1>2, <1>3
  <2> QED BY <1>2, <2>1, <2>2
<1>5. missed \subseteq missed' /\ Clocks' /\ (Up(b)' => Up(b))
  BY <1>1, <1>2, <1>4 DEF Clocks, Up
<1>6. ASSUME Up(b)', NEW d \in Entry \ {Cleanup}, NEW s \in Slots[d],
             since[b] < s, s < nextAt'[b][d]
      PROVE  Served(d, s)' \/ <<b, d, s>> \in missed'
  <2>1. s \in Nat /\ nextAt[b][d] \in Nat
    BY <1>2, BeatAssumption
  <2>2. CASE s < nextAt[b][d]
    BY <1>2, <1>5, <1>6, <2>2, ServedStays DEF SeenOf
  <2>3. CASE ~(s < nextAt[b][d])
    <3>1. d = e /\ s < Advanced(b, e)
      BY <1>4, <1>6, <2>3
    <3>2. s <= current[b]
      BY <1>3, <3>1
    <3>3. CASE s = nextAt[b][d]
      <4>1. Fired(b, e) => Served(d, s)'
        BY <1>2, <1>6, <3>1, <3>3, FiredIsServed
      <4> QED BY <1>1, <3>1, <3>3, <4>1
    <3>4. CASE s # nextAt[b][d]
      <4>1. s \in PassedOver(b, e)
        BY <2>1, <2>3, <3>1, <3>2, <3>4 DEF PassedOver
      <4> QED BY <1>1, <3>1, <4>1
    <3> QED BY <3>3, <3>4
  <2> QED BY <2>2, <2>3
<1>7. SeenOf(b)'
  BY <1>1, <1>6 DEF SeenOf
<1> QED BY <1>5, <1>7

\* A beat that starts has no slot behind it.
LEMMA StartSeen ==
  ASSUME SkipInv, NEW b \in Beat, Start(b)
  PROVE  SeenOf(b)' /\ Clocks'
<1>1. /\ nextAt' = [nextAt EXCEPT ![b] = [e \in Entry |-> EntryFrom(e)]]
      /\ since' = [since EXCEPT ![b] = now] /\ at' = [at EXCEPT ![b] = "head"]
      /\ UNCHANGED <<now, current>>
  BY DEF Start, Goes
<1>2. Clocks /\ now \in Nat
  BY DEF SkipInv, Clocks
<1>3. \A e \in Entry : EntryFrom(e) \in Nat /\ \A s \in Slots[e] : s < EntryFrom(e) => s <= now
  BY <1>2, FirstSlotAfter DEF EntryFrom
<1>4. nextAt'[b] = [e \in Entry |-> EntryFrom(e)] /\ since'[b] = now /\ Clocks'
  <2>1. [e \in Entry |-> EntryFrom(e)] \in [Entry -> Nat]
    BY <1>3
  <2> HIDE DEF EntryFrom
  <2> QED BY <1>1, <1>2, <2>1 DEF Clocks
<1>5. ASSUME NEW e \in Entry, NEW s \in Slots[e], since'[b] < s, s < nextAt'[b][e] PROVE FALSE
  BY <1>2, <1>3, <1>4, <1>5, BeatAssumption
<1> QED BY <1>4, <1>5 DEF SeenOf

LEMMA NextSeen == SkipInv /\ [Next]_vars => SkipInv'
<1> SUFFICES ASSUME SkipInv, [Next]_vars PROVE SkipInv'
  OBVIOUS
<1>1. KeyedBySlot(tasks)'
  BY NextKeyed DEF SkipInv
<1>2. ASSUME UNCHANGED <<nextAt, since, missed>>, Clocks', \A b \in Beat : Up(b)' => Up(b)
      PROVE  SkipInv'
  BY <1>1, <1>2, SeenStays DEF SkipInv
<1>3. ASSUME NEW b \in Beat, Start(b) PROVE SkipInv'
  <2>1. SeenOf(b)' /\ Clocks'
    BY <1>3, StartSeen
  <2>2. ASSUME NEW c \in Beat \ {b} PROVE SeenOf(c)'
    <3>1. /\ at'[c] = at[c] /\ nextAt'[c] = nextAt[c] /\ since'[c] = since[c] /\ missed' = missed
      BY <1>3 DEF Start, Goes, SkipInv, Clocks
    <3> QED BY <3>1, SeenStays DEF Up
  <2> QED BY <1>1, <2>1, <2>2 DEF SkipInv
<1>4. ASSUME NEW b \in Beat, Fire(b) PROVE SkipInv'
  <2>1. SeenOf(b)' /\ missed \subseteq missed' /\ Clocks'
    BY <1>4, FireSeen
  <2>2. ASSUME NEW c \in Beat \ {b} PROVE SeenOf(c)'
    <3>1. /\ at' = at /\ since' = since
          /\ \E e : nextAt' = [nextAt EXCEPT ![b][e] = Advanced(b, e)]
      BY <1>4 DEF Fire, FailureIsLogged
    <3>2. nextAt'[c] = nextAt[c]
      BY <3>1 DEF SkipInv, Clocks
    <3> QED BY <2>1, <3>1, <3>2, SeenStays DEF Up
  <2> QED BY <1>1, <2>1, <2>2 DEF SkipInv
<1>5. ASSUME NEW b \in Beat,
             \/ Stop(b) \/ Joined(b) \/ JoinTimesOut(b) \/ Dies(b)
             \/ Hangs(b) \/ Wake(b) \/ Wait(b) \/ PassEnds(b)
      PROVE  SkipInv'
  <2>1. UNCHANGED <<nextAt, since, missed, now>>
    BY <1>5 DEF Stop, Joined, JoinTimesOut, Dies, Hangs, Wake, Wait, PassEnds, loop
  <2>2. at' = at \/ (Up(b) /\ \E w : Goes(b, w))
    BY <1>5 DEF Stop, Joined, JoinTimesOut, JoinGivesUp, Dies, Hangs, Firing, Wake, Wait, PassEnds,
                BeginPass, Up, Running
  <2>3. current' = current \/ current' = [current EXCEPT ![b] = now]
    BY <1>5 DEF Stop, Joined, JoinTimesOut, Dies, Hangs, Wake, Wait, PassEnds, BeginPass, loop
  <2>4. Clocks'
    BY <2>1, <2>2, <2>3 DEF SkipInv, Clocks, Goes
  <2>5. \A c \in Beat : Up(c)' => Up(c)
    BY <2>2 DEF Goes, Up, SkipInv, Clocks
  <2> QED BY <1>2, <2>1, <2>4, <2>5
<1>6. CASE TaskEnds \/ Tick \/ UNCHANGED vars
  <2>1. UNCHANGED <<at, nextAt, since, current, missed>> /\ (now' = now \/ now' = now + 1)
    BY <1>6 DEF TaskEnds, Tick, vars, loop
  <2> QED BY <1>2, <2>1 DEF SkipInv, Clocks, Up
<1> QED BY <1>3, <1>4, <1>5, <1>6 DEF Next, Loop

LEMMA InitSeen == Init => SkipInv
BY InitKeyed DEF Init, SkipInv, Clocks, SeenOf, Up, Running

\* scheduler.py:110-114: of the slots since a beat started, those before an entry's
\* next_at were enqueued, or failed, or had passed when the pass read the clock.
THEOREM BeatSkipsNoSlotUnseen == Spec => []NoSlotSkippedUnseen
<1>1. SkipInv => NoSlotSkippedUnseen
  BY DEF SkipInv, SeenOf, NoSlotSkippedUnseen
<1> QED BY <1>1, InitSeen, NextSeen, PTL DEF Spec
=============================================================================
