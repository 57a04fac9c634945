--------------------------- MODULE EventHandshake ---------------------------
(***************************************************************************)
(* await_event, emit_event and cleanup_events on one event name, statement *)
(* by statement.  AbsurdQueue takes each procedure for one step; here a    *)
(* READ COMMITTED transaction takes one step per statement that matters,   *)
(* and the row of e_<queue> is what PostgreSQL makes of it: a committed    *)
(* version every snapshot sees, at most one transaction (writer) with an   *)
(* uncommitted version of it (draft), and the transactions that hold it FOR*)
(* SHARE.  Sleeping runs wait without a timeout, each in one step.         *)
(*                                                                         *)
(* A state with an open transaction has a next step, so TLC's deadlock check*)
(* looks for transactions that wait for each other.                        *)
(*                                                                         *)
(* Bounds: a run awaits once more after each of at most MaxAborts lost     *)
(* connections; an emitter emits once; a cleaner that is done at the start *)
(* never begins.                                                           *)
(***************************************************************************)
EXTENDS Naturals, FiniteSets

CONSTANTS Run, Emitter, EventCleaner, Payload, MaxAborts, None

ASSUME HandshakeAssumption ==
  /\ Run \cap Emitter = {} /\ Run \cap EventCleaner = {} /\ Emitter \cap EventCleaner = {}
  /\ None \notin Run \cup Emitter \cup EventCleaner \cup Payload
  /\ {"none", "sentinel"} \cap Payload = {}
  /\ MaxAborts \in Nat

VARIABLES
  row,         \* the committed version of the event's row
  aged,        \* emitted_at is older than the cleanup's ttl
  writer,      \* the transaction with an uncommitted version, or None
  draft,       \* that version
  sharers,     \* the transactions that hold the row FOR SHARE
  at,          \* where each transaction stands
  seen,        \* the payload await_event read
  state,       \* the runs, between transactions
  waits,       \* the runs with a committed row in w_<queue>
  checkpoint,  \* the payload checkpointed for each run's step
  aborts       \* connections lost so far

EHvars == <<row, aged, writer, draft, sharers, at, seen, state, waits, checkpoint, aborts>>

Row == {"none", "sentinel"} \cup Payload
Emitted == row \in Payload

EHTypeOK ==
  /\ row \in Row /\ aged \in BOOLEAN
  /\ writer \in Run \cup Emitter \cup {None} /\ draft \in Row
  /\ sharers \subseteq Run
  /\ at \in [Run \cup Emitter \cup EventCleaner ->
               {"idle", "inserted", "looked", "read", "upserted", "picked", "done"}]
  /\ seen \in [Run -> Row]
  /\ state \in [Run -> {"running", "sleeping", "pending", "completed"}]
  /\ waits \subseteq Run
  /\ checkpoint \in [Run -> Payload \cup {None}]
  /\ aborts \in 0..MaxAborts

-----------------------------------------------------------------------------
(* await_event.  The run's own row is locked from the second read on, but   *)
(* emit_event rewrites sleeping runs alone, so that lock delays nobody here.*)

\* The step has no checkpoint; insert ... on conflict do nothing waits for a
\* transaction that is writing the row, and leaves a row that is there alone,
\* without a lock on it.
InsertSentinel(r) ==
  /\ at[r] = "idle" /\ state[r] = "running" /\ checkpoint[r] = None
  /\ writer = None
  /\ IF row = "none" THEN writer' = r /\ draft' = "sentinel" ELSE UNCHANGED <<writer, draft>>
  /\ at' = [at EXCEPT ![r] = "inserted"]
  /\ UNCHANGED <<row, aged, sharers, seen, state, waits, checkpoint, aborts>>

\* select ... for share waits for the writer of a row it sees; of a row that
\* has no committed version it sees nothing, locks nothing, and goes on.
SharesNothing(r) == FALSE   \* mutant: no "for share"
Shares(r) == row # "none" /\ writer # r
LockEvent(r) ==
  /\ at[r] = "inserted"
  /\ Shares(r) => writer = None
  /\ sharers' = IF Shares(r) THEN sharers \cup {r} ELSE sharers
  /\ at' = [at EXCEPT ![r] = "looked"]
  /\ UNCHANGED <<row, aged, writer, draft, seen, state, waits, checkpoint, aborts>>

Visible(r) == IF writer = r THEN draft ELSE row

ReadPayload(r) ==
  /\ at[r] = "looked"
  /\ seen' = [seen EXCEPT ![r] = Visible(r)]
  /\ at' = [at EXCEPT ![r] = "read"]
  /\ UNCHANGED <<row, aged, writer, draft, sharers, state, waits, checkpoint, aborts>>

\* The end of r's transaction: its version becomes the row, its locks go.
Commit(r) ==
  /\ row' = Visible(r)
  /\ writer' = IF writer = r THEN None ELSE writer
  /\ sharers' = sharers \ {r}
  /\ at' = [at EXCEPT ![r] = "idle"]
  /\ UNCHANGED <<aged, draft, seen, aborts>>

AwaitResolves(r) ==
  /\ at[r] = "read" /\ seen[r] \in Payload
  /\ checkpoint' = [checkpoint EXCEPT ![r] = seen[r]]
  /\ Commit(r)
  /\ UNCHANGED <<state, waits>>

AwaitParks(r) ==
  /\ at[r] = "read" /\ seen[r] \notin Payload
  /\ waits' = waits \cup {r}
  /\ state' = [state EXCEPT ![r] = "sleeping"]
  /\ Commit(r)
  /\ UNCHANGED checkpoint

\* The worker dies or loses its connection: PostgreSQL rolls back, and the run
\* is delivered again.
Abort(r) ==
  /\ at[r] \in {"inserted", "looked", "read"}
  /\ aborts < MaxAborts
  /\ aborts' = aborts + 1
  /\ writer' = IF writer = r THEN None ELSE writer
  /\ sharers' = sharers \ {r}
  /\ at' = [at EXCEPT ![r] = "idle"]
  /\ UNCHANGED <<row, aged, draft, seen, state, waits, checkpoint>>

-----------------------------------------------------------------------------
(* claim_task and the rest of the body: the replayed step finds its         *)
(* checkpoint.                                                              *)
Claim(r) ==
  /\ state[r] = "pending"
  /\ state' = [state EXCEPT ![r] = "running"]
  /\ UNCHANGED <<row, aged, writer, draft, sharers, at, seen, waits, checkpoint, aborts>>

Complete(r) ==
  /\ at[r] = "idle" /\ state[r] = "running" /\ checkpoint[r] # None
  /\ state' = [state EXCEPT ![r] = "completed"]
  /\ UNCHANGED <<row, aged, writer, draft, sharers, at, seen, waits, checkpoint, aborts>>

-----------------------------------------------------------------------------
(* emit_event *)

\* insert ... on conflict do update waits for the row's writer and for those
\* who share it; only a row without a payload is updated.
MayUpsert == writer = None /\ sharers = {}
EmitUpsertAlways(m, p) ==   \* mutant: no "where e.payload is null"
  /\ at[m] = "idle"
  /\ MayUpsert
  /\ at' = [at EXCEPT ![m] = "upserted"]
  /\ writer' = m /\ draft' = p
  /\ UNCHANGED <<row, aged, sharers, seen, state, waits, checkpoint, aborts>>
EmitUpsert(m, p) ==
  /\ at[m] = "idle"
  /\ MayUpsert
  /\ IF Emitted THEN at' = [at EXCEPT ![m] = "done"] /\ UNCHANGED <<writer, draft>>
                ELSE /\ at' = [at EXCEPT ![m] = "upserted"]
                     /\ writer' = m /\ draft' = p
  /\ UNCHANGED <<row, aged, sharers, seen, state, waits, checkpoint, aborts>>

\* The second statement wakes the waits it sees, and the transaction commits.
WokenOne ==   \* mutant: one waiter is woken
  IF waits = {} THEN {} ELSE {CHOOSE r \in waits : TRUE}
Woken == {r \in waits : state[r] = "sleeping"}
WakePayload == draft
EmitWake(m) ==
  LET woken == Woken IN
  /\ at[m] = "upserted"
  /\ row' = draft /\ aged' = FALSE /\ writer' = None
  /\ state' = [r \in Run |-> IF r \in woken THEN "pending" ELSE state[r]]
  /\ checkpoint' = [r \in Run |-> IF r \in woken THEN WakePayload ELSE checkpoint[r]]
  /\ waits' = waits \ woken
  /\ at' = [at EXCEPT ![m] = "done"]
  /\ UNCHANGED <<draft, sharers, seen, aborts>>

-----------------------------------------------------------------------------
(* cleanup_events: one statement, but its subquery picks the row by the     *)
(* statement's snapshot, and the delete that follows locks it, waiting for  *)
(* whoever holds it.  It then checks the newest version of the row only for *)
(* the name: emitted_at is not compared again.                              *)
Pickable == row = "sentinel" \/ (Emitted /\ aged)
EventCleanupPicks(c) ==
  /\ at[c] = "idle"
  /\ Pickable
  /\ at' = [at EXCEPT ![c] = "picked"]
  /\ UNCHANGED <<row, aged, writer, draft, sharers, seen, state, waits, checkpoint, aborts>>

\* The row is gone for the other cleanups that picked it.
EventCleanupDeletes(c) ==
  /\ at[c] = "picked"
  /\ writer = None /\ sharers = {}
  /\ row' = "none"
  /\ at' = [x \in DOMAIN at |-> IF at[x] = "picked" THEN "idle" ELSE at[x]]
  /\ UNCHANGED <<aged, writer, draft, sharers, seen, state, waits, checkpoint, aborts>>

\* Time passes beyond the retention of an emitted event.
EventAges ==
  /\ Emitted /\ ~aged
  /\ aged' = TRUE
  /\ UNCHANGED <<row, writer, draft, sharers, at, seen, state, waits, checkpoint, aborts>>

-----------------------------------------------------------------------------
EHInit ==
  /\ row = "none" /\ aged = FALSE /\ writer = None /\ draft = "none" /\ sharers = {}
  /\ \E C \in SUBSET EventCleaner :
       at = [x \in Run \cup Emitter \cup EventCleaner |-> IF x \in C THEN "done" ELSE "idle"]
  /\ seen = [r \in Run |-> "none"]
  /\ state = [r \in Run |-> "running"]
  /\ waits = {}
  /\ checkpoint = [r \in Run |-> None]
  /\ aborts = 0

AwaitNext(r) == InsertSentinel(r) \/ LockEvent(r) \/ ReadPayload(r)
                  \/ AwaitResolves(r) \/ AwaitParks(r)
RunNext(r) == AwaitNext(r) \/ Claim(r) \/ Complete(r)
EmitNext(m) == (\E p \in Payload : EmitUpsert(m, p)) \/ EmitWake(m)
EventCleanupNext(c) == EventCleanupPicks(c) \/ EventCleanupDeletes(c)

\* No transaction is open, so nobody waits for anybody.
EHRest == (\A x \in DOMAIN at : at[x] \in {"idle", "done"}) /\ UNCHANGED EHvars

EHNext ==
  \/ \E r \in Run : RunNext(r) \/ Abort(r)
  \/ \E m \in Emitter : EmitNext(m)
  \/ \E c \in EventCleaner : EventCleanupNext(c)
  \/ EventAges
  \/ EHRest

\* PostgreSQL runs the statements of an open transaction, a polling worker
\* claims what is pending and goes on with what it claimed; that an event is
\* ever emitted, or a connection ever lost, nobody promises.
Fairness ==
  /\ \A r \in Run : WF_EHvars(RunNext(r))
  /\ \A m \in Emitter : WF_EHvars(EmitWake(m))

EHSpec == EHInit /\ [][EHNext]_EHvars
FairSpec == EHSpec /\ Fairness

-----------------------------------------------------------------------------
\* No cleanup of events runs: a row without a payload, which any cleanup picks,
\* lies between two transactions of a run (see EventCleanupDeletes).
NoCleanup == \A c \in EventCleaner : at[c] = "done"

\* A run that sleeps waits for an event that has not been emitted: without a
\* cleanup the handshake on the event's row loses no wake-up between await_event's
\* look at the payload and its wait.
NoLostWakeup == NoCleanup => \A r \in Run : state[r] = "sleeping" => ~Emitted

\* "First emit per name wins": every run that waited got the payload of the row,
\* whether await_event read it or emit_event brought it.
WaitersAgree ==
  NoCleanup => \A r \in Run : checkpoint[r] # None => checkpoint[r] = row

\* Once the event has been emitted every run that awaits it gets through.
EmissionReachesEveryRun ==
  (NoCleanup /\ Emitted) ~> \A r \in Run : state[r] = "completed"
=============================================================================
