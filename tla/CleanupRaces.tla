---------------------------- MODULE CleanupRaces ----------------------------
(***************************************************************************)
(* cleanup_tasks against spawn_task with an idempotency key and against    *)
(* retry_task, statement by statement at READ COMMITTED.  All tasks here   *)
(* want one key; the task a client inserts is named after the client, and a*)
(* run is a pair <<task, attempt>>.  The key belongs to the task that is   *)
(* there, by the unique column of t_<queue>.                               *)
(*                                                                         *)
(* Bounds: a client enqueues once, a task has at most MaxAttempt attempts. *)
(***************************************************************************)
EXTENDS Naturals, FiniteSets, FiniteSetsExt

CONSTANTS Client, Retrier, Cleaner, MaxAttempt, Null

ASSUME CleanupAssumption ==
  /\ MaxAttempt \in Nat \ {0}
  /\ Client \cap Retrier = {} /\ Client \cap Cleaner = {} /\ Retrier \cap Cleaner = {}
  /\ Null \notin Client \cup Retrier \cup Cleaner

VARIABLES
  task,        \* t_<queue>; "aged" has failed before the cleanup's cutoff
  runs,        \* r_<queue>
  inserting,   \* the client with an uncommitted task, or Null
  lock,        \* the retry that holds a task's row for update, or Null
  pc,
  answer,      \* the task id spawn_task returned to a client
  picked,      \* the tasks in a cleanup's to_delete
  pickedRuns   \* their runs in the snapshot of its statement

vars == <<task, runs, inserting, lock, pc, answer, picked, pickedRuns>>

Task == Client
Terminal == {"failed", "aged"}
OwnersLive == {t \in Task : task[t] = "pending"}   \* mutant: a failed task gives its key back
Owners == {t \in Task : task[t] \in {"pending"} \cup Terminal}
Attempt(t) == Max({0} \cup {n \in 1..MaxAttempt : <<t, n>> \in runs})

TypeOK ==
  /\ task \in [Task -> {"none", "pending", "deleted"} \cup Terminal]
  /\ runs \subseteq Task \X (1..MaxAttempt)
  /\ inserting \in Client \cup {Null}
  /\ lock \in [Task -> Retrier \cup {Null}]
  /\ pc \in [Client \cup Cleaner -> {"idle", "inserted", "conflicted", "done", "picked"}]
  /\ answer \in [Client -> Task \cup {Null}]
  /\ picked \in [Cleaner -> SUBSET Task]
  /\ pickedRuns \in [Cleaner -> SUBSET (Task \X (1..MaxAttempt))]

-----------------------------------------------------------------------------
(* spawn_task, inside the transaction of the client that enqueues.          *)

\* insert ... on conflict do nothing waits while another client's insert is
\* undecided, and inserts if nobody owns the key.
SpawnInserts(c) ==
  /\ pc[c] = "idle" /\ inserting = Null /\ Owners = {}
  /\ inserting' = c
  /\ pc' = [pc EXCEPT ![c] = "inserted"]
  /\ UNCHANGED <<task, runs, lock, answer, picked, pickedRuns>>

SpawnCommits(c) ==
  /\ pc[c] = "inserted"
  /\ task' = [task EXCEPT ![c] = "pending"]
  /\ runs' = runs \cup {<<c, 1>>}
  /\ answer' = [answer EXCEPT ![c] = c]
  /\ inserting' = Null
  /\ pc' = [pc EXCEPT ![c] = "done"]
  /\ UNCHANGED <<lock, picked, pickedRuns>>

SpawnRollsBack(c) ==
  /\ pc[c] = "inserted"
  /\ inserting' = Null
  /\ pc' = [pc EXCEPT ![c] = "idle"]
  /\ UNCHANGED <<task, runs, lock, answer, picked, pickedRuns>>

SpawnConflicts(c) ==
  /\ pc[c] = "idle" /\ inserting = Null /\ Owners # {}
  /\ pc' = [pc EXCEPT ![c] = "conflicted"]
  /\ UNCHANGED <<task, runs, inserting, lock, answer, picked, pickedRuns>>

\* The next statement reads the owner.  If it has been deleted meanwhile, no row
\* is found and the call returns a null id.
OwnerSeen(c) == IF Owners = {} THEN Null ELSE CHOOSE t \in Owners : TRUE
SpawnLooks(c) ==
  /\ pc[c] = "conflicted"
  /\ pc' = [pc EXCEPT ![c] = "done"]
  /\ answer' = [answer EXCEPT ![c] = OwnerSeen(c)]
  /\ UNCHANGED <<task, runs, inserting, lock, picked, pickedRuns>>

-----------------------------------------------------------------------------
(* The workers fail a task for good, and time passes.                       *)

Fails(t) ==
  /\ task[t] = "pending"
  /\ task' = [task EXCEPT ![t] = "failed"]
  /\ UNCHANGED <<runs, inserting, lock, pc, answer, picked, pickedRuns>>

Age(t) ==
  /\ task[t] = "failed"
  /\ task' = [task EXCEPT ![t] = "aged"]
  /\ UNCHANGED <<runs, inserting, lock, pc, answer, picked, pickedRuns>>

-----------------------------------------------------------------------------
(* retry_task: it locks the row and finds it failed, then inserts the run   *)
(* and reopens the task.                                                    *)

RetryLocks(x, t) ==
  /\ \A u \in Task : lock[u] # x
  /\ lock[t] = Null /\ task[t] \in Terminal /\ Attempt(t) < MaxAttempt
  /\ lock' = [lock EXCEPT ![t] = x]
  /\ UNCHANGED <<task, runs, inserting, pc, answer, picked, pickedRuns>>

RetryCommits(x, t) ==
  /\ lock[t] = x
  /\ runs' = runs \cup {<<t, Attempt(t) + 1>>}
  /\ task' = [task EXCEPT ![t] = "pending"]
  /\ lock' = [lock EXCEPT ![t] = Null]
  /\ UNCHANGED <<inserting, pc, answer, picked, pickedRuns>>

-----------------------------------------------------------------------------
(* cleanup_tasks is one statement: to_delete is chosen in its snapshot.  A  *)
(* row that some retry_task holds is waited for; of its new version only the*)
(* id is compared with to_delete.  The other deletes see the snapshot too.  *)

Eligible == {t \in Task : task[t] = "aged"}
SnapshotRuns(B) == {run \in runs : run[1] \in B}

CleanupPicks(c) ==
  /\ pc[c] = "idle"
  /\ \E B \in SUBSET Eligible \ {{}} :   \* limit
       /\ picked' = [picked EXCEPT ![c] = B]
       /\ pickedRuns' = [pickedRuns EXCEPT ![c] = SnapshotRuns(B)]
  /\ pc' = [pc EXCEPT ![c] = "picked"]
  /\ UNCHANGED <<task, runs, inserting, lock, answer>>

Unlocked(c) == \A t \in picked[c] : lock[t] = Null
Doomed(c) == picked[c] \ {t \in Task : task[t] = "deleted"}
DoomedRunsNone(c) == {}   \* mutant: del_runs is forgotten
DoomedRuns(c) == pickedRuns[c]

CleanupDeletes(c) ==
  /\ pc[c] = "picked"
  /\ Unlocked(c)
  /\ task' = [t \in Task |-> IF t \in Doomed(c) THEN "deleted" ELSE task[t]]
  /\ runs' = runs \ DoomedRuns(c)
  /\ pc' = [pc EXCEPT ![c] = "idle"]
  /\ picked' = [picked EXCEPT ![c] = {}]
  /\ pickedRuns' = [pickedRuns EXCEPT ![c] = {}]
  /\ UNCHANGED <<inserting, lock, answer>>

-----------------------------------------------------------------------------
Init ==
  /\ task = [t \in Task |-> "none"]
  /\ runs = {} /\ inserting = Null
  /\ lock = [t \in Task |-> Null]
  /\ pc = [x \in Client \cup Cleaner |-> "idle"]
  /\ answer = [c \in Client |-> Null]
  /\ picked = [c \in Cleaner |-> {}]
  /\ pickedRuns = [c \in Cleaner |-> {}]

\* No call is open and there is nothing left to do.
Rest ==
  /\ \A c \in Client : pc[c] = "done"
  /\ \A c \in Cleaner : pc[c] = "idle"
  /\ \A t \in Task : lock[t] = Null
  /\ UNCHANGED vars

Next ==
  \/ \E c \in Client : SpawnInserts(c) \/ SpawnCommits(c) \/ SpawnRollsBack(c)
                         \/ SpawnConflicts(c) \/ SpawnLooks(c)
  \/ \E t \in Task : Fails(t) \/ Age(t)
  \/ \E x \in Retrier, t \in Task : RetryLocks(x, t) \/ RetryCommits(x, t)
  \/ \E c \in Cleaner : CleanupPicks(c) \/ CleanupDeletes(c)
  \/ Rest

Spec == Init /\ [][Next]_vars

-----------------------------------------------------------------------------
\* "Whichever enqueue reaches a key first owns it; later ones are swallowed and
\* handed the first task's id" (docs/web/tasks.md:134): two calls with one key are
\* answered with two tasks, or one of them with none, only after a cleanup has deleted
\* a task that had the key.
KeyHasOneTask ==
  \A c \in Client : pc[c] = "done" =>
    IF answer[c] = Null
      THEN \E t \in Task : task[t] = "deleted"
      ELSE \A d \in Client : answer[d] \in {Null, answer[c]}
                                \/ "deleted" \in {task[answer[c]], task[answer[d]]}

\* "Running and pending tasks are never touched": what cleanup_tasks deletes has
\* ended, and long ago, whoever took over the key in the meantime.
PendingTasksKept ==
  [][\A t \in Task : task'[t] = "deleted" => task[t] \in {"aged", "deleted"}]_vars

\* del_runs leaves no run without its task in r_<queue>, but for the one a retry
\* adds while the cleanup waits for it (PendingTasksKept is what breaks there).
NoOrphanRuns == \A run \in runs : run[2] = 1 => task[run[1]] # "deleted"
=============================================================================
