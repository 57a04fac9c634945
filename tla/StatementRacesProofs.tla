------------------------ MODULE StatementRacesProofs ------------------------
(***************************************************************************)
(* Proofs about the two models that take the engine's procedures statement *)
(* by statement: CleanupRaces, for any clients, retries and cleanups, and  *)
(* EventHandshake, for any runs, emitters, payloads and any number of lost *)
(* connections.                                                            *)
(***************************************************************************)
EXTENDS CleanupRaces, EventHandshake, TLAPS

-----------------------------------------------------------------------------
(* Tasks and their runs *)

Stored(t) == task[t] \in {"pending"} \cup Terminal

RowsTyped ==
  /\ DOMAIN task = Task /\ DOMAIN lock = Task
  /\ \A t \in Task : task[t] \in {"none", "deleted"} \/ Stored(t)
  /\ DOMAIN pc = Client \cup Cleaner
  /\ DOMAIN picked = Cleaner /\ DOMAIN pickedRuns = Cleaner
  /\ \A run \in runs : run[1] \in Task /\ run = <<run[1], run[2]>>

\* An identifier that has not been inserted yet is nowhere.
Unborn ==
  /\ \A c \in Client : pc[c] \in {"idle", "inserted", "conflicted"} => task[c] = "none"
  /\ \A t \in Task : task[t] = "none" =>
       lock[t] = Null /\ \A c \in Cleaner : t \notin picked[c]

\* The first run of a task is there as long as the task.
FirstRuns == \A t \in Task : Stored(t) => <<t, 1>> \in runs

\* What a retry holds has failed; the cleanup that picked it waits.
HeldHasFailed == \A t \in Task : lock[t] # Null => task[t] \in Terminal

\* The first run of a picked task is in the snapshot, and no run of another task.
Snapshots ==
  \A c \in Cleaner :
    /\ \A t \in picked[c] : t \in Task /\ (<<t, 1>> \in runs => <<t, 1>> \in pickedRuns[c])
    /\ \A run \in pickedRuns[c] : run[1] \in picked[c] /\ run = <<run[1], run[2]>>

RowsInv ==
  RowsTyped /\ Unborn /\ FirstRuns /\ HeldHasFailed /\ Snapshots /\ NoOrphanRuns

-----------------------------------------------------------------------------
(* Steps *)

\* What RowsInv speaks of.
LEMMA RowsUnchanged ==
  ASSUME RowsInv, UNCHANGED <<task, runs, lock, picked, pickedRuns>>,
         DOMAIN pc' = DOMAIN pc,
         \A c \in Client : pc'[c] \in {"idle", "inserted", "conflicted"} => task[c] = "none"
  PROVE  RowsInv'
<1>1. RowsTyped'
  BY DEF RowsInv, RowsTyped, Stored
<1>2. Unborn' /\ FirstRuns' /\ HeldHasFailed'
  BY DEF RowsInv, Unborn, FirstRuns, HeldHasFailed, Stored
<1>3. Snapshots' /\ NoOrphanRuns'
  BY DEF RowsInv, Snapshots, NoOrphanRuns
<1> QED BY <1>1, <1>2, <1>3 DEF RowsInv

\* An insert that is not committed, its rollback and a conflict change no row.
LEMMA OpenSpawnRows ==
  ASSUME RowsInv, NEW c \in Client,
         SpawnInserts(c) \/ SpawnRollsBack(c) \/ SpawnConflicts(c) \/ SpawnLooks(c)
  PROVE  RowsInv'
<1>1. c \in DOMAIN pc /\ pc[c] \in {"idle", "inserted", "conflicted"}
  BY DEF RowsInv, RowsTyped, SpawnInserts, SpawnRollsBack, SpawnConflicts, SpawnLooks
<1>2. \A k \in Client : k # c => pc'[k] = pc[k]
  BY DEF RowsInv, RowsTyped, SpawnInserts, SpawnRollsBack, SpawnConflicts, SpawnLooks
<1>3. \A k \in Client : pc'[k] \in {"idle", "inserted", "conflicted"} => task[k] = "none"
  BY <1>1, <1>2 DEF RowsInv, Unborn
<1>4. DOMAIN pc' = DOMAIN pc /\ UNCHANGED <<task, runs, lock, picked, pickedRuns>>
  BY DEF SpawnInserts, SpawnRollsBack, SpawnConflicts, SpawnLooks
<1> QED BY <1>3, <1>4, RowsUnchanged

\* A committed task comes with its first run.
LEMMA CommittedSpawnRows ==
  ASSUME RowsInv, NEW c \in Client, SpawnCommits(c)
  PROVE  RowsInv'
<1>1. /\ task[c] = "none" /\ c \in Task
      /\ task' = [task EXCEPT ![c] = "pending"] /\ runs' = runs \cup {<<c, 1>>}
      /\ UNCHANGED <<lock, picked, pickedRuns>>
      /\ pc' = [pc EXCEPT ![c] = "done"]
  BY DEF SpawnCommits, RowsInv, Unborn, Task
<1>2. /\ task'[c] = "pending" /\ \A t \in Task : t # c => task'[t] = task[t]
      /\ \A k \in Client : k # c => pc'[k] = pc[k]
      /\ pc'[c] = "done"
      /\ DOMAIN task' = Task /\ DOMAIN pc' = DOMAIN pc
  BY <1>1 DEF RowsInv, RowsTyped
<1>3. RowsTyped'
  BY <1>1, <1>2 DEF RowsInv, RowsTyped, Stored
<1>4. Unborn'
  BY <1>1, <1>2 DEF RowsInv, Unborn
<1>5. FirstRuns' /\ HeldHasFailed' /\ NoOrphanRuns'
  BY <1>1, <1>2 DEF RowsInv, Unborn, FirstRuns, HeldHasFailed, NoOrphanRuns, Stored
<1>6. \A k \in Cleaner : c \notin picked[k]
  BY <1>1 DEF RowsInv, Unborn
<1>7. Snapshots'
  BY <1>1, <1>6 DEF RowsInv, Snapshots
<1> QED BY <1>3, <1>4, <1>5, <1>7 DEF RowsInv

\* A failure and the passing of time take a stored task to a stored task.
LEMMA AgeingRows ==
  ASSUME RowsInv, NEW t \in Task, Fails(t) \/ Age(t)
  PROVE  RowsInv'
<1>1. /\ Stored(t) /\ task'[t] \in Terminal
      /\ \A u \in Task : u # t => task'[u] = task[u]
      /\ DOMAIN task' = Task
      /\ UNCHANGED <<runs, lock, pc, picked, pickedRuns>>
  BY DEF RowsInv, RowsTyped, Stored, Fails, Age, Terminal
<1>2. task[t] # "none" /\ task'[t] \notin {"none", "deleted"}
  BY <1>1 DEF Stored, Terminal
<1>3. RowsTyped'
  BY <1>1 DEF RowsInv, RowsTyped, Stored
<1>4. Unborn'
  BY <1>1, <1>2 DEF RowsInv, Unborn, Task
<1>5. FirstRuns' /\ HeldHasFailed'
  BY <1>1 DEF RowsInv, FirstRuns, HeldHasFailed, Stored
<1>6. Snapshots'
  BY <1>1 DEF RowsInv, Snapshots
<1>7. NoOrphanRuns'
  BY <1>1, <1>2 DEF RowsInv, RowsTyped, NoOrphanRuns
<1> QED BY <1>3, <1>4, <1>5, <1>6, <1>7 DEF RowsInv

\* A retry locks what has failed, and adds a run to a task that has its first.
LEMMA RetryRows ==
  ASSUME RowsInv, NEW x \in Retrier, NEW t \in Task, RetryLocks(x, t) \/ RetryCommits(x, t)
  PROVE  RowsInv'
<1>1. CASE RetryLocks(x, t)
  <2>1. /\ task[t] \in Terminal /\ DOMAIN lock' = Task
        /\ \A u \in Task : u # t => lock'[u] = lock[u]
        /\ UNCHANGED <<task, runs, pc, picked, pickedRuns>>
    BY <1>1 DEF RetryLocks, RowsInv, RowsTyped
  <2>2. RowsTyped' /\ FirstRuns' /\ Snapshots' /\ NoOrphanRuns'
    BY <2>1 DEF RowsInv, RowsTyped, FirstRuns, Snapshots, NoOrphanRuns, Stored
  <2>3. Unborn' /\ HeldHasFailed'
    BY <2>1 DEF RowsInv, Unborn, HeldHasFailed, Terminal
  <2> QED BY <2>2, <2>3 DEF RowsInv
<1>2. CASE RetryCommits(x, t)
  <2>1. lock[t] # Null
    BY <1>2, CleanupAssumption DEF RetryCommits
  <2>2. task[t] \in Terminal /\ <<t, 1>> \in runs
    BY <2>1 DEF RowsInv, HeldHasFailed, FirstRuns, Stored
  <2>3. /\ task'[t] = "pending" /\ lock'[t] = Null
        /\ \A u \in Task : u # t => task'[u] = task[u] /\ lock'[u] = lock[u]
        /\ DOMAIN task' = Task /\ DOMAIN lock' = Task
        /\ UNCHANGED <<pc, picked, pickedRuns>>
    BY <1>2 DEF RetryCommits, RowsInv, RowsTyped
  <2>4. PICK n : runs' = runs \cup {<<t, n>>}
    BY <1>2 DEF RetryCommits
  <2>5. \A u : <<u, 1>> \in runs' => <<u, 1>> \in runs
    BY <2>2, <2>4
  <2>6. RowsTyped'
    BY <2>3, <2>4 DEF RowsInv, RowsTyped, Stored
  <2>7. Unborn' /\ FirstRuns' /\ HeldHasFailed'
    BY <2>2, <2>3, <2>4 DEF RowsInv, Unborn, FirstRuns, HeldHasFailed, Stored, Terminal, Task
  <2>8. Snapshots'
    BY <2>3, <2>5 DEF RowsInv, Snapshots
  <2>9. NoOrphanRuns'
    BY <2>2, <2>3, <2>4 DEF RowsInv, RowsTyped, NoOrphanRuns
  <2> QED BY <2>6, <2>7, <2>8, <2>9 DEF RowsInv
<1> QED BY <1>1, <1>2

\* A cleanup picks stored tasks, with all the runs they have.
LEMMA PickRows ==
  ASSUME RowsInv, NEW c \in Cleaner, CleanupPicks(c)
  PROVE  RowsInv'
<1>1. PICK B \in SUBSET Eligible \ {{}} :
        /\ picked' = [picked EXCEPT ![c] = B]
        /\ pickedRuns' = [pickedRuns EXCEPT ![c] = SnapshotRuns(B)]
  BY DEF CleanupPicks
<1>2. /\ picked'[c] = B /\ pickedRuns'[c] = SnapshotRuns(B)
      /\ \A k \in Cleaner : k # c => picked'[k] = picked[k] /\ pickedRuns'[k] = pickedRuns[k]
      /\ DOMAIN picked' = Cleaner /\ DOMAIN pickedRuns' = Cleaner
      /\ UNCHANGED <<task, runs, lock>>
  BY <1>1 DEF CleanupPicks, RowsInv, RowsTyped
<1>3. DOMAIN pc' = DOMAIN pc /\ \A k \in Client : pc'[k] = pc[k]
  BY CleanupAssumption DEF CleanupPicks, RowsInv, RowsTyped
<1>4. \A t \in B : t \in Task /\ task[t] = "aged"
  BY DEF Eligible
<1>5. RowsTyped'
  BY <1>2, <1>3 DEF RowsInv, RowsTyped, Stored
<1>6. Unborn'
  BY <1>2, <1>3, <1>4 DEF RowsInv, Unborn
<1>7. Snapshots'
  <2>1. \A t \in B : <<t, 1>> \in runs => <<t, 1>> \in SnapshotRuns(B)
    BY DEF SnapshotRuns
  <2>2. \A run \in SnapshotRuns(B) : run[1] \in B /\ run = <<run[1], run[2]>>
    BY DEF SnapshotRuns, RowsInv, RowsTyped
  <2> QED BY <1>2, <1>4, <2>1, <2>2 DEF RowsInv, Snapshots
<1>8. FirstRuns' /\ HeldHasFailed' /\ NoOrphanRuns'
  BY <1>2 DEF RowsInv, FirstRuns, HeldHasFailed, NoOrphanRuns, Stored
<1> QED BY <1>5, <1>6, <1>7, <1>8 DEF RowsInv

\* A cleanup takes the first run of every task it deletes, and of no other.
LEMMA DeleteRows ==
  ASSUME RowsInv, NEW c \in Cleaner, CleanupDeletes(c)
  PROVE  RowsInv'
<1>1. /\ \A t \in Task : t \in picked[c] => task'[t] = "deleted" /\ lock[t] = Null
      /\ \A t \in Task : t \notin picked[c] => task'[t] = task[t]
      /\ DOMAIN task' = Task
      /\ runs' = runs \ pickedRuns[c]
      /\ lock' = lock
  BY DEF CleanupDeletes, Doomed, DoomedRuns, Unlocked
<1>2. DOMAIN pc' = DOMAIN pc /\ \A k \in Client : pc'[k] = pc[k]
  BY CleanupAssumption DEF CleanupDeletes, RowsInv, RowsTyped
<1>3. /\ picked'[c] = {} /\ pickedRuns'[c] = {}
      /\ \A k \in Cleaner : k # c => picked'[k] = picked[k] /\ pickedRuns'[k] = pickedRuns[k]
      /\ DOMAIN picked' = Cleaner /\ DOMAIN pickedRuns' = Cleaner
  BY DEF CleanupDeletes, RowsInv, RowsTyped
<1>4. \A t \in Task : t \in picked[c] => task[t] # "none"
  BY DEF RowsInv, Unborn
<1>5. \A t \in Task : <<t, 1>> \in pickedRuns[c] => t \in picked[c]
  BY DEF RowsInv, Snapshots
<1>6. RowsTyped'
  BY <1>1, <1>2, <1>3 DEF RowsInv, RowsTyped, Stored
<1>7. Unborn'
  <2>1. \A k \in Client : pc'[k] \in {"idle", "inserted", "conflicted"} => task'[k] = "none"
    BY <1>1, <1>2, <1>4 DEF RowsInv, Unborn, Task
  <2>2. \A t \in Task : task'[t] = "none" => task[t] = "none"
    BY <1>1
  <2> QED BY <1>1, <1>3, <2>1, <2>2 DEF RowsInv, Unborn
<1>8. FirstRuns' /\ HeldHasFailed'
  BY <1>1, <1>5 DEF RowsInv, FirstRuns, HeldHasFailed, Stored, Terminal
<1>9. Snapshots'
  BY <1>1, <1>3 DEF RowsInv, Snapshots
<1>10. NoOrphanRuns'
  <2> SUFFICES ASSUME NEW run \in runs', run[2] = 1 PROVE task'[run[1]] # "deleted"
    BY DEF NoOrphanRuns
  <2>1. run \in runs /\ run \notin pickedRuns[c] /\ run[1] \in Task /\ run = <<run[1], 1>>
    BY <1>1 DEF RowsInv, RowsTyped
  <2>2. run[1] \notin picked[c]
    BY <2>1 DEF RowsInv, Snapshots
  <2> QED BY <1>1, <2>1, <2>2 DEF RowsInv, NoOrphanRuns
<1> QED BY <1>6, <1>7, <1>8, <1>9, <1>10 DEF RowsInv

LEMMA InitRows == Init => RowsInv
BY DEF Init, RowsInv, RowsTyped, Unborn, FirstRuns, HeldHasFailed, Snapshots,
       NoOrphanRuns, Stored, Terminal, Task

LEMMA NextRows == RowsInv /\ [Next]_vars => RowsInv'
<1> SUFFICES ASSUME RowsInv, [Next]_vars PROVE RowsInv'
  OBVIOUS
<1>1. CASE Rest \/ UNCHANGED vars
  BY <1>1, RowsUnchanged DEF Rest, vars, RowsInv, Unborn
<1>2. ASSUME NEW c \in Client, SpawnInserts(c) \/ SpawnCommits(c) \/ SpawnRollsBack(c)
                                 \/ SpawnConflicts(c) \/ SpawnLooks(c)
      PROVE  RowsInv'
  BY <1>2, OpenSpawnRows, CommittedSpawnRows
<1>3. ASSUME NEW t \in Task, Fails(t) \/ Age(t) PROVE RowsInv'
  BY <1>3, AgeingRows
<1>4. ASSUME NEW x \in Retrier, NEW t \in Task, RetryLocks(x, t) \/ RetryCommits(x, t)
      PROVE  RowsInv'
  BY <1>4, RetryRows
<1>5. ASSUME NEW c \in Cleaner, CleanupPicks(c) \/ CleanupDeletes(c) PROVE RowsInv'
  BY <1>5, PickRows, DeleteRows
<1> QED BY <1>1, <1>2, <1>3, <1>4, <1>5 DEF Next

\* cleanup_tasks leaves the first run of no task behind, however its snapshot, other
\* cleanups and retries interleave.
THEOREM CleanupLeavesNoFirstRun == Spec => []NoOrphanRuns
<1>1. RowsInv => NoOrphanRuns
  BY DEF RowsInv
<1> QED BY <1>1, InitRows, NextRows, PTL DEF Spec

-----------------------------------------------------------------------------
(* The key *)

\* The unique column: two stored tasks are one, and none is stored while a client has
\* inserted the task that will have the key.
OneOwner ==
  /\ \A t \in Task, u \in Task : Stored(t) /\ Stored(u) => t = u
  /\ inserting # Null => \A t \in Task : ~Stored(t)
  /\ \A c \in Client : pc[c] = "inserted" => inserting = c

\* An answer is a task that has been stored; who met a conflict met a stored task.
Answered ==
  /\ DOMAIN answer = Client
  /\ \A c \in Client :
       /\ answer[c] # Null => answer[c] \in Task /\ task[answer[c]] # "none"
       /\ pc[c] = "conflicted" => \E t \in Task : task[t] # "none"
       /\ pc[c] = "done" /\ answer[c] = Null => \E t \in Task : task[t] = "deleted"

KeyInv == OneOwner /\ Answered

LEMMA StoredOwns == \A t \in Task : Stored(t) <=> t \in Owners
BY DEF Stored, Owners

\* Of two answers that are both stored, there is one; what was stored and is not, is deleted.
LEMMA KeyInvSuffices == RowsInv /\ KeyInv => KeyHasOneTask
<1> SUFFICES ASSUME RowsInv, KeyInv, NEW c \in Client, pc[c] = "done", answer[c] # Null,
                    NEW d \in Client, answer[d] # Null,
                    task[answer[c]] # "deleted", task[answer[d]] # "deleted"
             PROVE  answer[d] = answer[c]
  BY DEF KeyHasOneTask, KeyInv, Answered
<1>1. answer[c] \in Task /\ answer[d] \in Task /\ Stored(answer[c]) /\ Stored(answer[d])
  BY DEF RowsInv, RowsTyped, KeyInv, Answered
<1> QED BY <1>1 DEF KeyInv, OneOwner

\* Retries, failures and cleanups store no task and bring none back.
LEMMA OthersKeepTheKey ==
  ASSUME KeyInv, UNCHANGED <<inserting, answer>>,
         \A c \in Client : pc'[c] = pc[c],
         \A t \in Task : /\ Stored(t)' => Stored(t)
                         /\ task'[t] = "none" => task[t] = "none"
                         /\ task[t] = "deleted" => task'[t] = "deleted"
  PROVE  KeyInv'
<1>1. OneOwner'
  BY DEF KeyInv, OneOwner
<1>2. Answered'
  BY DEF KeyInv, Answered
<1> QED BY <1>1, <1>2 DEF KeyInv

LEMMA EngineKeepsTheKey ==
  ASSUME RowsInv, KeyInv,
         \/ \E t \in Task : Fails(t) \/ Age(t)
         \/ \E x \in Retrier, t \in Task : RetryLocks(x, t) \/ RetryCommits(x, t)
         \/ \E c \in Cleaner : CleanupPicks(c) \/ CleanupDeletes(c)
         \/ Rest \/ UNCHANGED vars
  PROVE  KeyInv'
<1>1. CASE UNCHANGED <<task, inserting, answer, pc>>
  BY <1>1, OthersKeepTheKey DEF Stored
<1>2. ASSUME NEW t \in Task, Fails(t) \/ Age(t) PROVE KeyInv'
  <2>1. /\ Stored(t) /\ \A u \in Task : u # t => task'[u] = task[u]
        /\ task'[t] \in Terminal /\ UNCHANGED <<inserting, answer, pc>>
    BY <1>2 DEF Fails, Age, Stored, Terminal, RowsInv, RowsTyped
  <2> QED BY <2>1, OthersKeepTheKey DEF Stored, Terminal
<1>3. ASSUME NEW x \in Retrier, NEW t \in Task, RetryCommits(x, t) PROVE KeyInv'
  <2>1. task[t] \in Terminal
    BY <1>3, CleanupAssumption DEF RetryCommits, RowsInv, HeldHasFailed
  <2>2. /\ task'[t] = "pending" /\ \A u \in Task : u # t => task'[u] = task[u]
        /\ UNCHANGED <<inserting, answer, pc>>
    BY <1>3 DEF RetryCommits, RowsInv, RowsTyped
  <2> QED BY <2>1, <2>2, OthersKeepTheKey DEF Stored, Terminal
<1>4. ASSUME NEW c \in Cleaner, CleanupPicks(c) PROVE KeyInv'
  <2>1. UNCHANGED <<task, inserting, answer>> /\ \A k \in Client : pc'[k] = pc[k]
    BY <1>4, CleanupAssumption DEF CleanupPicks, RowsInv, RowsTyped
  <2> QED BY <2>1, OthersKeepTheKey DEF Stored
<1>5. ASSUME NEW c \in Cleaner, CleanupDeletes(c) PROVE KeyInv'
  <2>1. UNCHANGED <<inserting, answer>> /\ \A k \in Client : pc'[k] = pc[k]
    BY <1>5, CleanupAssumption DEF CleanupDeletes, RowsInv, RowsTyped
  <2>2. \A t \in Task : task'[t] = "deleted" \/ task'[t] = task[t]
    BY <1>5 DEF CleanupDeletes
  <2> QED BY <2>1, <2>2, OthersKeepTheKey DEF Stored, Terminal
<1>6. CASE \E x \in Retrier, t \in Task : RetryLocks(x, t)
  BY <1>1, <1>6 DEF RetryLocks
<1>7. CASE Rest \/ UNCHANGED vars
  BY <1>1, <1>7 DEF Rest, vars
<1> QED BY <1>2, <1>3, <1>4, <1>5, <1>6, <1>7

\* spawn_task stores a task only when the key is free, and otherwise looks the owner up.
LEMMA ClientsKeepTheKey ==
  ASSUME RowsInv, KeyInv, NEW c \in Client,
         \/ SpawnInserts(c) \/ SpawnCommits(c) \/ SpawnRollsBack(c)
         \/ SpawnConflicts(c) \/ SpawnLooks(c)
  PROVE  KeyInv'
<1>0. /\ c # Null /\ c \in Task /\ c \in DOMAIN pc /\ DOMAIN task = Task
      /\ DOMAIN answer = Client /\ Client \subseteq DOMAIN pc
  BY CleanupAssumption DEF Task, RowsInv, RowsTyped, KeyInv, Answered
<1>1. CASE SpawnInserts(c)
  <2>1. \A t \in Task : ~Stored(t)
    BY <1>1, StoredOwns DEF SpawnInserts
  <2>2. \A k \in Client : k # c => pc'[k] = pc[k] /\ pc[k] # "inserted"
    BY <1>0, <1>1, CleanupAssumption DEF SpawnInserts, KeyInv, OneOwner
  <2>3. OneOwner'
    BY <1>0, <1>1, <2>1, <2>2 DEF SpawnInserts, OneOwner, Stored
  <2>4. Answered'
    BY <1>0, <1>1 DEF SpawnInserts, KeyInv, Answered
  <2> QED BY <2>3, <2>4 DEF KeyInv
<1>2. CASE SpawnCommits(c)
  <2>1. inserting = c /\ \A t \in Task : ~Stored(t)
    BY <1>0, <1>2 DEF SpawnCommits, KeyInv, OneOwner
  <2>2. /\ task'[c] = "pending" /\ \A t \in Task : t # c => task'[t] = task[t]
        /\ pc'[c] = "done" /\ \A k \in Client : k # c => pc'[k] = pc[k]
        /\ answer'[c] = c /\ \A k \in Client : k # c => answer'[k] = answer[k]
        /\ DOMAIN answer' = Client /\ inserting' = Null
    BY <1>0, <1>2 DEF SpawnCommits
  <2>3. OneOwner'
    BY <2>1, <2>2 DEF KeyInv, OneOwner, Stored
  <2>4. task[c] = "none"
    BY <1>2 DEF SpawnCommits, RowsInv, Unborn
  <2>5. Answered'
    BY <1>0, <2>2, <2>4 DEF KeyInv, Answered
  <2> QED BY <2>3, <2>5 DEF KeyInv
<1>3. CASE SpawnRollsBack(c)
  <2>1. inserting = c
    BY <1>3 DEF SpawnRollsBack, KeyInv, OneOwner
  <2>2. OneOwner'
    BY <1>0, <1>3, <2>1 DEF SpawnRollsBack, KeyInv, OneOwner, Stored
  <2>3. Answered'
    BY <1>0, <1>3 DEF SpawnRollsBack, KeyInv, Answered
  <2> QED BY <2>2, <2>3 DEF KeyInv
<1>4. CASE SpawnConflicts(c)
  <2>1. \E t \in Task : task[t] # "none"
    BY <1>4 DEF SpawnConflicts, Owners, Terminal
  <2>2. OneOwner'
    BY <1>0, <1>4 DEF SpawnConflicts, KeyInv, OneOwner, Stored
  <2>3. Answered'
    BY <1>0, <1>4, <2>1 DEF SpawnConflicts, KeyInv, Answered
  <2> QED BY <2>2, <2>3 DEF KeyInv
<1>5. CASE SpawnLooks(c)
  <2>1. /\ UNCHANGED <<task, inserting>> /\ pc'[c] = "done" /\ answer'[c] = OwnerSeen(c)
        /\ \A k \in Client : k # c => pc'[k] = pc[k] /\ answer'[k] = answer[k]
        /\ DOMAIN answer' = Client
    BY <1>0, <1>5 DEF SpawnLooks
  <2>2. OneOwner'
    BY <2>1 DEF KeyInv, OneOwner, Stored
  <2>3. OwnerSeen(c) # Null => OwnerSeen(c) \in Task /\ task[OwnerSeen(c)] # "none"
    BY DEF OwnerSeen, Owners, Terminal
  <2>4. OwnerSeen(c) = Null => \E t \in Task : task[t] = "deleted"
    <3>1. PICK t \in Task : task[t] # "none"
      BY <1>5 DEF SpawnLooks, KeyInv, Answered
    <3>2. Owners # {} => OwnerSeen(c) \in Owners
      BY DEF OwnerSeen
    <3>3. OwnerSeen(c) = Null => Owners = {}
      BY <3>2, CleanupAssumption DEF Owners, Task
    <3> QED BY <3>1, <3>3, StoredOwns DEF RowsInv, RowsTyped
  <2>5. Answered'
    BY <2>1, <2>3, <2>4 DEF KeyInv, Answered
  <2> QED BY <2>2, <2>5 DEF KeyInv
<1> QED BY <1>1, <1>2, <1>3, <1>4, <1>5

\* migrations/0001_initial_0_5_0.sql:852: however enqueues of one key, their rollbacks, retries
\* and cleanups interleave, they are answered with one task until a cleanup deletes it.
THEOREM KeysHaveOneTask == Spec => []KeyHasOneTask
<1>1. Init => KeyInv
  BY CleanupAssumption DEF Init, KeyInv, OneOwner, Answered, Stored, Terminal
<1>2. RowsInv /\ KeyInv /\ [Next]_vars => KeyInv'
  BY ClientsKeepTheKey, EngineKeepsTheKey DEF Next
<1> QED BY <1>1, <1>2, InitRows, NextRows, KeyInvSuffices, PTL DEF Spec

-----------------------------------------------------------------------------
(* await_event and emit_event, where no cleanup of events runs              *)

Open == {"inserted", "looked", "read"}

Typed ==
  /\ row \in Row /\ draft \in Row
  /\ sharers \subseteq Run /\ writer \in Run \cup Emitter \cup {None}
  /\ DOMAIN at = Run \cup Emitter \cup EventCleaner
  /\ DOMAIN seen = Run /\ DOMAIN state = Run /\ DOMAIN checkpoint = Run

\* From its second statement on a run's transaction holds the event's row, as the
\* writer of the sentinel or FOR SHARE; so what it has read stays true.
RunHolds(r) ==
  /\ at[r] = "inserted" => row # "none" \/ writer = r
  /\ at[r] \in {"looked", "read"} => r \in sharers \/ writer = r
  /\ r \in sharers => at[r] \in {"looked", "read"} /\ row # "none"
  /\ writer = r => at[r] \in Open /\ row = "none" /\ draft = "sentinel"
  /\ at[r] = "read" => IF seen[r] \in Payload THEN row = seen[r] ELSE ~Emitted

\* An emitter between its statements is the one writer of a row nobody shares.
EmitterHolds(m) ==
  /\ at[m] = "upserted" => writer = m
  /\ writer = m => at[m] = "upserted" /\ draft \in Payload /\ ~Emitted /\ sharers = {}

\* Who sleeps is found by the emission; what is checkpointed is the row's payload.
Served(r) ==
  /\ state[r] = "sleeping" => r \in waits /\ ~Emitted
  /\ checkpoint[r] # None => Emitted /\ checkpoint[r] = row

Handshake ==
  /\ \A r \in Run : RunHolds(r) /\ Served(r)
  /\ \A m \in Emitter : EmitterHolds(m)

HandshakeInv == Typed /\ (NoCleanup => Handshake)

-----------------------------------------------------------------------------
LEMMA Distinct ==
  /\ "none" \notin Payload /\ "sentinel" \notin Payload
  /\ None \notin Payload /\ None \notin Run /\ None \notin Emitter
  /\ \A r \in Run : r \notin Emitter /\ r \notin EventCleaner
  /\ \A m \in Emitter : m \notin EventCleaner
BY HandshakeAssumption

LEMMA InitHandshake == EHInit => HandshakeInv
<1> SUFFICES ASSUME EHInit PROVE HandshakeInv
  OBVIOUS
<1>1. Typed
  BY DEF EHInit, Typed, Row
<1>2. ASSUME NEW r \in Run PROVE RunHolds(r) /\ Served(r)
  BY Distinct DEF EHInit, RunHolds, Served
<1>3. ASSUME NEW m \in Emitter PROVE EmitterHolds(m)
  BY Distinct DEF EHInit, EmitterHolds
<1> QED BY <1>1, <1>2, <1>3 DEF HandshakeInv, Handshake

LEMMA TypedKept == Typed /\ [EHNext]_EHvars => Typed'
<1> SUFFICES ASSUME Typed, [EHNext]_EHvars PROVE Typed'
  OBVIOUS
<1>1. ASSUME NEW r \in Run, RunNext(r) \/ Abort(r) PROVE Typed'
  <2>1. CASE InsertSentinel(r)
    BY <2>1 DEF InsertSentinel, Typed, Row
  <2>2. CASE LockEvent(r) \/ ReadPayload(r) \/ Claim(r) \/ Complete(r) \/ Abort(r)
    BY <2>2 DEF LockEvent, ReadPayload, Claim, Complete, Abort, Typed
  <2>3. CASE AwaitResolves(r) \/ AwaitParks(r)
    BY <2>3 DEF AwaitResolves, AwaitParks, Commit, Visible, Typed
  <2> QED BY <1>1, <2>1, <2>2, <2>3 DEF RunNext, AwaitNext
<1>2. ASSUME NEW m \in Emitter, EmitNext(m) PROVE Typed'
  <2>1. ASSUME NEW p \in Payload, EmitUpsert(m, p) PROVE Typed'
    BY <2>1 DEF EmitUpsert, Typed, Row
  <2>2. CASE EmitWake(m)
    BY <2>2 DEF EmitWake, Typed
  <2> QED BY <1>2, <2>1, <2>2 DEF EmitNext
<1>3. ASSUME NEW c \in EventCleaner, EventCleanupNext(c) PROVE Typed'
  BY <1>3 DEF EventCleanupNext, EventCleanupPicks, EventCleanupDeletes, Typed, Row
<1>4. CASE EventAges \/ EHRest \/ UNCHANGED EHvars
  BY <1>4 DEF EventAges, EHRest, EHvars, Typed
<1> QED BY <1>1, <1>2, <1>3, <1>4 DEF EHNext

\* A cleaner that begins never ends, so a system without cleanups never had one.
LEMMA NeverCleaned ==
  ASSUME Typed, [EHNext]_EHvars, NoCleanup'
  PROVE  NoCleanup /\ \A c \in EventCleaner : ~EventCleanupNext(c)
<1>1. ASSUME NEW c \in EventCleaner, EventCleanupNext(c) PROVE FALSE
  <2>1. at'[c] # "done"
    BY <1>1 DEF EventCleanupNext, EventCleanupPicks, EventCleanupDeletes, Typed
  <2> QED BY <2>1 DEF NoCleanup
<1>2. ASSUME NEW c \in EventCleaner PROVE at'[c] = at[c]
  BY <1>1, Distinct
  DEF EHNext, RunNext, AwaitNext, InsertSentinel, LockEvent, ReadPayload, AwaitResolves, AwaitParks, Commit,
      Claim, Complete, Abort, EmitNext, EmitUpsert, EmitWake, EventAges, EHRest, EHvars, Typed
<1> QED BY <1>1, <1>2 DEF NoCleanup

-----------------------------------------------------------------------------
(* One lemma per statement that writes the row, its locks or the runs.      *)

LEMMA InsertKept ==
  ASSUME Typed, Handshake, NEW r \in Run, InsertSentinel(r)
  PROVE  Handshake'
<1>1. ASSUME NEW q \in Run PROVE RunHolds(q)'
  BY Distinct DEF InsertSentinel, Handshake, RunHolds, EmitterHolds, Emitted, Typed, Open, Row
<1>2. ASSUME NEW q \in Run PROVE Served(q)'
  BY DEF InsertSentinel, Handshake, Served, Emitted
<1>3. ASSUME NEW m \in Emitter PROVE EmitterHolds(m)'
  BY Distinct DEF InsertSentinel, Handshake, EmitterHolds, Emitted, Typed
<1> QED BY <1>1, <1>2, <1>3 DEF Handshake

LEMMA LockKept ==
  ASSUME Typed, Handshake, NEW r \in Run, LockEvent(r)
  PROVE  Handshake'
<1>1. ASSUME NEW q \in Run PROVE RunHolds(q)'
  BY Distinct DEF LockEvent, Shares, Handshake, RunHolds, Emitted, Typed, Open
<1>2. ASSUME NEW q \in Run PROVE Served(q)'
  BY DEF LockEvent, Handshake, Served, Emitted
<1>3. ASSUME NEW m \in Emitter PROVE EmitterHolds(m)'
  BY Distinct DEF LockEvent, Shares, Handshake, RunHolds, EmitterHolds, Emitted, Typed
<1> QED BY <1>1, <1>2, <1>3 DEF Handshake

LEMMA ReadKept ==
  ASSUME Typed, Handshake, NEW r \in Run, ReadPayload(r)
  PROVE  Handshake'
<1>1. ASSUME NEW q \in Run PROVE RunHolds(q)'
  BY Distinct DEF ReadPayload, Visible, Handshake, RunHolds, Emitted, Typed, Open
<1>2. ASSUME NEW q \in Run PROVE Served(q)'
  BY DEF ReadPayload, Handshake, Served, Emitted
<1>3. ASSUME NEW m \in Emitter PROVE EmitterHolds(m)'
  BY Distinct DEF ReadPayload, Handshake, EmitterHolds, Emitted, Typed
<1> QED BY <1>1, <1>2, <1>3 DEF Handshake

\* A run's commit makes a row of what was none, and changes no payload.
LEMMA CommitKept ==
  ASSUME Typed, Handshake, NEW r \in Run, at[r] = "read", AwaitResolves(r) \/ AwaitParks(r)
  PROVE  Handshake'
<1>1. /\ row' = (IF writer = r THEN "sentinel" ELSE row) /\ writer' = (IF writer = r THEN None ELSE writer)
      /\ sharers' = sharers \ {r} /\ at' = [at EXCEPT ![r] = "idle"] /\ UNCHANGED <<draft, seen>>
  BY DEF AwaitResolves, AwaitParks, Commit, Visible, Handshake, RunHolds
<1>2. Emitted' = Emitted /\ (Emitted => row' = row) /\ (row # "none" => row' = row)
  BY <1>1, Distinct DEF Emitted, Handshake, RunHolds
<1>3. ASSUME NEW q \in Run PROVE RunHolds(q)'
  BY <1>1, <1>2, Distinct DEF Handshake, RunHolds, Emitted, Typed, Open
<1>4. ASSUME NEW m \in Emitter PROVE EmitterHolds(m)'
  BY <1>1, <1>2, Distinct DEF Handshake, RunHolds, EmitterHolds, Typed
<1>5. ASSUME NEW q \in Run PROVE Served(q)'
  <2>1. CASE AwaitResolves(r)
    BY <1>2, <2>1 DEF AwaitResolves, Handshake, RunHolds, Served, Emitted, Typed
  <2>2. CASE AwaitParks(r)
    BY <1>2, <2>2 DEF AwaitParks, Handshake, RunHolds, Served, Emitted, Typed
  <2> QED BY <2>1, <2>2
<1> QED BY <1>3, <1>4, <1>5 DEF Handshake

LEMMA AbortKept ==
  ASSUME Typed, Handshake, NEW r \in Run, Abort(r)
  PROVE  Handshake'
<1>1. ASSUME NEW q \in Run PROVE RunHolds(q)'
  BY Distinct DEF Abort, Handshake, RunHolds, Emitted, Typed, Open
<1>2. ASSUME NEW q \in Run PROVE Served(q)'
  BY DEF Abort, Handshake, Served, Emitted
<1>3. ASSUME NEW m \in Emitter PROVE EmitterHolds(m)'
  BY Distinct DEF Abort, Handshake, EmitterHolds, Emitted, Typed
<1> QED BY <1>1, <1>2, <1>3 DEF Handshake

LEMMA UpsertKept ==
  ASSUME Typed, Handshake, NEW m \in Emitter, NEW p \in Payload, EmitUpsert(m, p)
  PROVE  Handshake'
<1>1. ASSUME NEW q \in Run PROVE RunHolds(q)'
  BY Distinct DEF EmitUpsert, MayUpsert, Handshake, RunHolds, Emitted, Typed, Open
<1>2. ASSUME NEW q \in Run PROVE Served(q)'
  BY DEF EmitUpsert, Handshake, Served, Emitted
<1>3. ASSUME NEW n \in Emitter PROVE EmitterHolds(n)'
  BY Distinct DEF EmitUpsert, MayUpsert, Handshake, EmitterHolds, Emitted, Typed
<1> QED BY <1>1, <1>2, <1>3 DEF Handshake

\* The emission commits: every sleeping run has a wait it sees, and nobody who read the
\* row without a payload still holds it.
LEMMA WakeKept ==
  ASSUME Typed, Handshake, NEW m \in Emitter, EmitWake(m)
  PROVE  Handshake'
<1>1. /\ writer = m /\ draft \in Payload /\ ~Emitted /\ sharers = {}
      /\ row' = draft /\ writer' = None /\ at' = [at EXCEPT ![m] = "done"] /\ UNCHANGED <<draft, sharers, seen>>
  BY DEF EmitWake, Handshake, EmitterHolds
<1>2. ASSUME NEW q \in Run PROVE RunHolds(q)'
  BY <1>1, Distinct DEF Handshake, RunHolds, Emitted, Typed
<1>3. ASSUME NEW q \in Run PROVE Served(q)'
  <2>1. q \in Woken <=> state[q] = "sleeping"
    BY DEF Woken, Handshake, Served
  <2>2. checkpoint[q] = None
    BY <1>1 DEF Handshake, Served
  <2> QED BY <1>1, <2>1, <2>2 DEF EmitWake, WakePayload, Served, Emitted
<1>4. ASSUME NEW n \in Emitter PROVE EmitterHolds(n)'
  BY <1>1, Distinct DEF Handshake, EmitterHolds, Typed
<1> QED BY <1>2, <1>3, <1>4 DEF Handshake

LEMMA AsideKept ==
  ASSUME Handshake, UNCHANGED <<row, writer, draft, sharers, at, seen, waits, checkpoint>>,
         \A r \in Run : state'[r] = "sleeping" => state[r] = "sleeping"
  PROVE  Handshake'
BY DEF Handshake, RunHolds, EmitterHolds, Served, Emitted

LEMMA NextHandshake == HandshakeInv /\ [EHNext]_EHvars => HandshakeInv'
<1> SUFFICES ASSUME HandshakeInv, [EHNext]_EHvars PROVE HandshakeInv'
  OBVIOUS
<1>1. Typed /\ Typed'
  BY TypedKept DEF HandshakeInv
<1> SUFFICES ASSUME NoCleanup' PROVE Handshake'
  BY <1>1 DEF HandshakeInv
<1>2. Handshake /\ \A c \in EventCleaner : ~EventCleanupNext(c)
  BY <1>1, NeverCleaned DEF HandshakeInv
<1>3. ASSUME NEW r \in Run, RunNext(r) \/ Abort(r) PROVE Handshake'
  <2>1. CASE Claim(r) \/ Complete(r)
    <3>1. UNCHANGED <<row, writer, draft, sharers, at, seen, waits, checkpoint>>
      BY <2>1 DEF Claim, Complete
    <3>2. \A q \in Run : state'[q] = "sleeping" => state[q] = "sleeping"
      BY <1>1, <2>1 DEF Claim, Complete, Typed
    <3> QED BY <1>2, <3>1, <3>2, AsideKept
  <2>2. CASE AwaitResolves(r) \/ AwaitParks(r)
    BY <1>1, <1>2, <2>2, CommitKept DEF AwaitResolves, AwaitParks
  <2> QED BY <1>1, <1>2, <1>3, <2>1, <2>2, InsertKept, LockKept, ReadKept, AbortKept DEF RunNext, AwaitNext
<1>4. ASSUME NEW m \in Emitter, EmitNext(m) PROVE Handshake'
  BY <1>1, <1>2, <1>4, UpsertKept, WakeKept DEF EmitNext
<1>5. CASE EventAges \/ EHRest \/ UNCHANGED EHvars
  BY <1>2, <1>5, AsideKept DEF EventAges, EHRest, EHvars
<1> QED BY <1>2, <1>3, <1>4, <1>5 DEF EHNext

-----------------------------------------------------------------------------
\* migrations/0001_initial_0_5_0.sql:1789: the locks on the event's row let no emission come
\* between await_event's look at the payload and its wait.
THEOREM HandshakeLosesNoWakeup == EHSpec => []NoLostWakeup
<1>1. HandshakeInv => NoLostWakeup
  BY DEF HandshakeInv, Handshake, Served, NoLostWakeup
<1> QED BY <1>1, InitHandshake, NextHandshake, PTL DEF EHSpec

\* migrations/0001_initial_0_5_0.sql:1901: the first emission's payload is the one that every
\* run gets, from the row or from the emission that wakes it.
THEOREM HandshakeWaitersAgree == EHSpec => []WaitersAgree
<1>1. HandshakeInv => WaitersAgree
  BY DEF HandshakeInv, Handshake, Served, WaitersAgree
<1> QED BY <1>1, InitHandshake, NextHandshake, PTL DEF EHSpec
=============================================================================
