--------------------------- MODULE BeatSchedules ---------------------------
(***************************************************************************)
(* The beat: a loop that sleeps until its earliest entry is due, fires the *)
(* entries that are, and moves each to its next slot.  It runs in a        *)
(* process of its own or on a thread of a worker, and nothing keeps two    *)
(* from running at once.  A slot is fired by an enqueue with a key of the  *)
(* schedule and the slot; the cleanup entry deletes ended tasks.           *)
(*                                                                         *)
(* What stands between two reads of the clock is a step: the firings of    *)
(* one pass take time, and slots may come due while they run.  Expressions *)
(* are the sets of instants they select (croniter is external).            *)
(*                                                                         *)
(* Bounds: Horizon, MaxStarts starts of a beat, MaxFaults failed firings   *)
(* and deaths.                                                             *)
(***************************************************************************)
EXTENDS Integers, Sequences, FiniteSets, SequencesExt

CONSTANTS
  Beat,
  Colocated,      \* the beats that are a worker's thread
  Schedules,      \* the names of SCHEDULE, in order
  CleanupDeclared,
  Slots,          \* the instants of each entry's expression
  Horizon, MaxStarts, MaxFaults

Cleanup == "cleanup"
Entries == IF CleanupDeclared THEN Append(Schedules, Cleanup) ELSE Schedules
Entry == ToSet(Entries)
Time == 0..Horizon
Never == Horizon + 1

ASSUME BeatAssumption ==
  /\ Horizon \in Nat /\ MaxStarts \in Nat /\ MaxFaults \in Nat
  /\ Colocated \subseteq Beat /\ CleanupDeclared \in BOOLEAN
  /\ Entry # {} /\ Slots \in [Entry -> SUBSET (1..Horizon)]

VARIABLES
  now,
  at,        \* where each beat's loop is
  nextAt,    \* next_at of each entry
  current,   \* the clock as a pass read it
  position,  \* the entry a pass is at
  stop,      \* the stop event
  worker,    \* the worker of a colocated beat
  since,     \* when each beat built its entries
  tasks,     \* what was ever enqueued
  missed,    \* slots passed over or failed, and by which beat
  left       \* starts and faults still to come

vars == <<now, at, nextAt, current, position, stop, worker, since, tasks, missed, left>>
loop == <<nextAt, current, position, since>>

Running == {"head", "waiting", "firing", "stuck"}
Up(b) == at[b] \in Running

TypeOK ==
  /\ now \in Time
  /\ at \in [Beat -> Running \cup {"down", "over", "dead"}]
  /\ nextAt \in [Beat -> [Entry -> 0..Never]]
  /\ current \in [Beat -> Time] /\ since \in [Beat -> Time]
  /\ position \in [Beat -> 1..(Len(Entries) + 1)]
  /\ stop \in [Beat -> BOOLEAN]
  /\ worker \in [Beat -> {"none", "running", "joining", "gone"}]
  /\ \A t \in tasks : t.state \in {"live", "ended", "deleted"} /\ t.no \in Nat
  /\ missed \subseteq Beat \X Entry \X Time
  /\ left \in [{"starts", "faults"} -> Nat]

Spend(what) == left[what] > 0 /\ left' = [left EXCEPT ![what] = @ - 1]
Goes(b, where) == at' = [at EXCEPT ![b] = where]

\* get_next_datetime
NextSlot(e, after) ==
  LET later == {s \in Slots[e] : s > after} IN
  IF later = {} THEN Never ELSE CHOOSE s \in later : \A x \in later : s <= x

-----------------------------------------------------------------------------
(* Starting and stopping.                                                   *)

EntryFrom(e) == NextSlot(e, now)

\* build_beat_entries; a worker starts its beat before it runs.
Start(b) ==
  /\ at[b] \in {"down", "over", "dead"} /\ worker[b] \in {"none", "gone"}
  /\ Spend("starts") /\ Goes(b, "head")
  /\ nextAt' = [nextAt EXCEPT ![b] = [e \in Entry |-> EntryFrom(e)]]
  /\ since' = [since EXCEPT ![b] = now]
  /\ stop' = [stop EXCEPT ![b] = FALSE]
  /\ worker' = [worker EXCEPT ![b] = IF b \in Colocated THEN "running" ELSE "none"]
  /\ UNCHANGED <<now, current, position, tasks, missed>>

\* A signal to absurd_beat, or the end of the worker: run_worker_with_beat's finally.
Stop(b) ==
  /\ ~stop[b] /\ stop' = [stop EXCEPT ![b] = TRUE]
  /\ IF b \in Colocated THEN worker[b] = "running" /\ worker' = [worker EXCEPT ![b] = "joining"]
                        ELSE Up(b) /\ UNCHANGED worker
  /\ UNCHANGED <<now, at, loop, tasks, missed, left>>

Joined(b) ==
  /\ worker[b] = "joining" /\ ~Up(b)
  /\ worker' = [worker EXCEPT ![b] = "gone"]
  /\ UNCHANGED <<now, at, loop, stop, tasks, missed, left>>

JoinGivesUp(b) == worker[b] = "joining" /\ Up(b)

\* After five seconds the join gives up; the daemon thread ends with the process.
JoinTimesOut(b) ==
  /\ JoinGivesUp(b)
  /\ worker' = [worker EXCEPT ![b] = "gone"] /\ Goes(b, "over")
  /\ UNCHANGED <<now, loop, stop, tasks, missed, left>>

\* The process dies, or what run_beat calls outside a firing raises: then a worker
\* goes on without its beat.
Dies(b) ==
  /\ Up(b) /\ Spend("faults") /\ Goes(b, "dead")
  /\ \/ UNCHANGED worker
     \/ b \in Colocated /\ worker' = [worker EXCEPT ![b] = "gone"]
  /\ UNCHANGED <<now, loop, stop, tasks, missed>>

-----------------------------------------------------------------------------
(* run_beat                                                                 *)

Earliest(b) == CHOOSE s \in {nextAt[b][e] : e \in Entry} : \A e \in Entry : s <= nextAt[b][e]

BeginPass(b) ==
  /\ Goes(b, "firing")
  /\ current' = [current EXCEPT ![b] = now]
  /\ position' = [position EXCEPT ![b] = 1]

Wake(b) ==
  /\ at[b] = "head"
  /\ \/ stop[b] /\ Goes(b, "over") /\ UNCHANGED <<current, position>>
     \/ ~stop[b] /\ Earliest(b) <= now /\ BeginPass(b)
     \/ ~stop[b] /\ Earliest(b) > now /\ Goes(b, "waiting") /\ UNCHANGED <<current, position>>
  /\ UNCHANGED <<now, nextAt, since, stop, worker, tasks, missed, left>>

WaitBreaks(b) == stop[b]

Wait(b) ==
  /\ at[b] = "waiting"
  /\ \/ WaitBreaks(b) /\ Goes(b, "over") /\ UNCHANGED <<current, position>>
     \/ ~WaitBreaks(b) /\ Earliest(b) <= now /\ BeginPass(b)
  /\ UNCHANGED <<now, nextAt, since, stop, worker, tasks, missed, left>>

\* derive_idempotency_key: the schedule and the slot, whoever fires it and when.
KeyOfPass(b, e) == current[b]   \* mutant: the key is of the pass's clock
KeyOf(b, e) == nextAt[b][e]

\* spawn_task answers with the owner of the key, or enqueues.
Enqueued(b, e) ==
  LET same == {t \in tasks : t.name = e /\ t.key = KeyOf(b, e)} IN
  IF \E t \in same : t.state # "deleted" THEN tasks
  ELSE tasks \cup {[name |-> e, slot |-> nextAt[b][e], key |-> KeyOf(b, e),
                    no |-> Cardinality(same), state |-> "live"]}

\* cleanup_queues: ended tasks whose ttl is over.
Cleaned(kept) == {IF t.state = "ended" /\ t \notin kept THEN [t EXCEPT !.state = "deleted"] ELSE t
                    : t \in tasks}

Fired(b, e) ==
  IF e = Cleanup THEN \E kept \in SUBSET tasks : tasks' = Cleaned(kept)
                 ELSE tasks' = Enqueued(b, e)

AdvancedFromNow(b, e) == NextSlot(e, now)   \* mutant: next_at is computed from the clock after the firing
Advanced(b, e) == NextSlot(e, current[b])

\* The entries a pass has still to fire; it takes them in order.
Due(b) == {i \in position[b]..Len(Entries) : nextAt[b][Entries[i]] <= current[b]}
At(b) == CHOOSE i \in Due(b) : \A j \in Due(b) : i <= j
Firing(b) == at[b] = "firing" /\ Due(b) # {}

\* What one firing leaves behind: the slots before the clock that the pass read.
PassedOver(b, e) == {s \in Slots[e] : nextAt[b][e] < s /\ s <= current[b]}

FailureEndsLoop(b) == Goes(b, "raised") /\ UNCHANGED nextAt   \* mutant: fire_schedule does not catch
FailureIsLogged(b) ==
  LET e == Entries[At(b)] IN
  UNCHANGED at /\ nextAt' = [nextAt EXCEPT ![b][e] = Advanced(b, e)]

Fire(b) ==
  LET e == Entries[At(b)] IN
  /\ Firing(b)
  /\ \/ /\ Fired(b, e)
        /\ nextAt' = [nextAt EXCEPT ![b][e] = Advanced(b, e)]
        /\ missed' = missed \cup ({b} \X {e} \X PassedOver(b, e))
        /\ UNCHANGED <<at, left>>
     \/ /\ Spend("faults") /\ FailureIsLogged(b)
        /\ missed' = missed \cup ({b} \X {e} \X (PassedOver(b, e) \cup {nextAt[b][e]}))
        /\ UNCHANGED tasks
  /\ position' = [position EXCEPT ![b] = At(b) + 1]
  /\ UNCHANGED <<now, current, since, stop, worker>>

\* The enqueue or the deletes wait for a database that does not answer.
Hangs(b) ==
  /\ Firing(b) /\ Spend("faults") /\ Goes(b, "stuck")
  /\ UNCHANGED <<now, loop, stop, worker, tasks, missed>>

PassEnds(b) ==
  /\ at[b] = "firing" /\ Due(b) = {} /\ Goes(b, "head")
  /\ position' = [position EXCEPT ![b] = 1]
  /\ UNCHANGED <<now, nextAt, current, since, stop, worker, tasks, missed, left>>

-----------------------------------------------------------------------------
TaskEnds ==
  /\ \E t \in tasks : t.state = "live" /\ tasks' = (tasks \ {t}) \cup {[t EXCEPT !.state = "ended"]}
  /\ UNCHANGED <<now, at, loop, stop, worker, missed, left>>

Tick ==
  /\ now < Horizon /\ now' = now + 1
  /\ UNCHANGED <<at, loop, stop, worker, tasks, missed, left>>

Init ==
  /\ now = 0 /\ at = [b \in Beat |-> "down"]
  /\ nextAt = [b \in Beat |-> [e \in Entry |-> 0]]
  /\ current = [b \in Beat |-> 0] /\ since = [b \in Beat |-> 0]
  /\ position = [b \in Beat |-> 1] /\ stop = [b \in Beat |-> FALSE]
  /\ worker = [b \in Beat |-> IF b \in Colocated THEN "gone" ELSE "none"]
  /\ tasks = {} /\ missed = {}
  /\ left = [w \in {"starts", "faults"} |-> IF w = "starts" THEN MaxStarts ELSE MaxFaults]

Loop(b) == Wake(b) \/ Wait(b) \/ Fire(b) \/ PassEnds(b)

Next ==
  \/ \E b \in Beat : Start(b) \/ Stop(b) \/ Joined(b) \/ JoinTimesOut(b) \/ Dies(b) \/ Hangs(b)
                    \/ Loop(b)
  \/ TaskEnds \/ Tick

Spec == Init /\ [][Next]_vars

\* The thread runs on and time passes.
FairSpec == Spec /\ WF_vars(Tick) /\ \A b \in Beat : WF_vars(Loop(b))

-----------------------------------------------------------------------------
(* Properties.                                                              *)

Served(e, s) == \E t \in tasks : t.name = e /\ t.slot = s

(* scheduler.py:110-114: a pass reads the clock once and moves every entry   *)
(* on from there.  A slot that comes due while the pass is firing is fired   *)
(* by the next pass: of the slots since a beat started, those before an      *)
(* entry's next_at were all enqueued, but for a failure and for slots that   *)
(* had already passed when the pass began.                                   *)
NoSlotSkippedUnseen ==
  \A b \in Beat : Up(b) =>
    \A e \in Entry \ {Cleanup} : \A s \in Slots[e] :
      since[b] < s /\ s < nextAt[b][e] => Served(e, s) \/ <<b, e, s>> \in missed

(* docs/WHY.md:424: the key "keeps at-most-once true when a beat restart     *)
(* straddles a slot or a second beat is started": a slot has one task until  *)
(* cleanup has deleted it, whichever beat fires it and how late.             *)
AtMostOncePerSlot ==
  \A t, u \in tasks : t # u /\ t.name = u.name /\ t.slot = u.slot =>
    "deleted" \in {t.state, u.state}

(* scheduler.py:180: a firing that raises is logged and the loop goes on: a  *)
(* beat that is up gets past every slot it waits for; only a stop, its death *)
(* or a call that hangs keeps it from that.                                  *)
SlotsAreFired ==
  \A b \in Beat : \A e \in Entry : \A s \in 1..Horizon :
    (Up(b) /\ nextAt[b][e] = s /\ now >= s)
      ~> (nextAt[b][e] > s \/ at[b] \in {"over", "dead", "stuck"})
=============================================================================
