-------------------------- MODULE AbsurdQueueProofs --------------------------
(***************************************************************************)
(* Proofs about AbsurdQueue for every value of its constants, in three     *)
(* parts: the agreement of tasks and runs (IInv), the refinement of        *)
(* TaskLifecycle (LifeStep), and the waits, wake-ups and checkpoints       *)
(* (WInv).  The second and the third rest on the first.                    *)
(***************************************************************************)
EXTENDS AbsurdQueue, TLAPS

-----------------------------------------------------------------------------
(* Part 1.  claim_task rewrites the task and run tables three times inside  *)
(* one transaction, so the invariant is stated of a pair of tables, and     *)
(* each rewriting is shown to preserve it.                                  *)

\* The part of the inductive invariant that speaks of tasks and runs alone.
Consistent(tk, rn) ==
  /\ TablesTyped(tk, rn)
  /\ TaskRunsAgreeIn(tk, rn)
  /\ EarlierAttemptsFailedIn(tk, rn)
  /\ AttemptsDistinctIn(rn)

IInv == TypeOK /\ Consistent(tasks, runs)

-----------------------------------------------------------------------------
(* Rows *)

\* A task whose state is that of a row has a whole row.
LEMMA TaskRowPresent ==
  ASSUME NEW tk, NEW rn, TablesTyped(tk, rn), NEW t \in Task, HasRow(tk[t])
  PROVE  tk[t] \in TaskRow
BY DEF TablesTyped, HasRow, Absent, NoTask

\* A run whose state is that of a row has a whole row.
LEMMA RunRowPresent ==
  ASSUME NEW tk, NEW rn, TablesTyped(tk, rn), NEW r \in Run, HasRow(rn[r])
  PROVE  rn[r] \in RunRow
BY DEF TablesTyped, HasRow, Absent, NoRun

\* A run that did not fail is the last attempt of a task in the same state,
\* or of a cancelled task when it is cancelled itself.
LEMMA UnfailedRunIsLast ==
  ASSUME NEW tk, NEW rn, Consistent(tk, rn),
         NEW r \in Run, HasRow(rn[r]), rn[r].state # "failed"
  PROVE  /\ rn[r] \in RunRow
         /\ rn[r].task \in Task
         /\ tk[rn[r].task] \in TaskRow
         /\ tk[rn[r].task].lastRun = r
         /\ tk[rn[r].task].attempts = rn[r].attempt
         /\ rn[r].state # "cancelled" => tk[rn[r].task].state = rn[r].state
<1>1. rn[r] \in RunRow
  BY RunRowPresent DEF Consistent
<1>2. rn[r].task \in Task
  BY <1>1 DEF RunRow
<1>3. HasRow(tk[rn[r].task]) /\ tk[rn[r].task].lastRun = r
  BY DEF Consistent, EarlierAttemptsFailedIn
<1>4. tk[rn[r].task] \in TaskRow
  BY <1>2, <1>3, TaskRowPresent DEF Consistent
<1>5. /\ tk[rn[r].task].attempts = rn[r].attempt
      /\ rn[r].state # "cancelled" => tk[rn[r].task].state = rn[r].state
  BY <1>2, <1>3 DEF Consistent, TaskRunsAgreeIn
<1> QED BY <1>1, <1>2, <1>3, <1>4, <1>5

\* A run that names a task has a row.
LEMMA RunOfTaskHasRow ==
  ASSUME NEW tk, NEW rn, TablesTyped(tk, rn), NEW r \in Run, rn[r].task \in Task
  PROVE  HasRow(rn[r])
BY NullAssumption DEF TablesTyped, HasRow, Absent, NoRun, RunRow, Live, Ended

\* What is known of a task that has a row, and of its last run.
LEMMA LastRunOfTask ==
  ASSUME NEW tk, NEW rn, Consistent(tk, rn), NEW t \in Task, HasRow(tk[t])
  PROVE  /\ tk[t] \in TaskRow
         /\ tk[t].lastRun \in Run
         /\ rn[tk[t].lastRun].task = t
         /\ rn[tk[t].lastRun].attempt = tk[t].attempts
         /\ tk[t].state = "cancelled" => rn[tk[t].lastRun].state \in {"cancelled", "failed"}
         /\ tk[t].state # "cancelled" => rn[tk[t].lastRun].state = tk[t].state
<1>1. tk[t] \in TaskRow
  BY TaskRowPresent DEF Consistent
<1>2. tk[t].lastRun \in Run
  BY <1>1 DEF TaskRow
<1> QED BY <1>1, <1>2 DEF Consistent, TaskRunsAgreeIn

-----------------------------------------------------------------------------
(* cancel_task *)

\* What cancelling does to a task's row.
LEMMA CancelledTaskRow ==
  ASSUME now \in Nat, NEW task \in TaskRow
  PROVE  /\ CancelledTask(task) \in TaskRow
         /\ CancelledTask(task).state = "cancelled"
         /\ CancelledTask(task).lastRun = task.lastRun
         /\ CancelledTask(task).attempts = task.attempts
         /\ CancelledTask(task).opt = task.opt
BY DEF CancelledTask, TaskRow, Live, Ended

\* What cancelling does to a run's row.
LEMMA CancelledRunRow ==
  ASSUME NEW run \in RunRow
  PROVE  /\ CancelledRun(run) \in RunRow
         /\ CancelledRun(run).state = "cancelled"
         /\ CancelledRun(run).task = run.task
         /\ CancelledRun(run).attempt = run.attempt
BY DEF CancelledRun, RunRow, Live, Ended

\* Cancelling any set of live tasks keeps the tables consistent.
LEMMA CancelConsistent ==
  ASSUME NEW tk, NEW rn, Consistent(tk, rn), now \in Nat,
         NEW S \in SUBSET Task, \A t \in S : tk[t].state \in Live
  PROVE  Consistent(CancelTasks(tk, S), CancelRuns(rn, S))
<1> DEFINE tk2 == CancelTasks(tk, S)
           rn2 == CancelRuns(rn, S)
           Hit(r) == rn[r].task \in S /\ rn[r].state \in Live
<1>1. \A t \in S : /\ HasRow(tk[t]) /\ tk[t] \in TaskRow
                   /\ tk2[t] = CancelledTask(tk[t])
  BY TaskRowPresent DEF Consistent, CancelTasks, HasRow, Live, Absent
<1>2. \A t \in Task \ S : tk2[t] = tk[t]
  BY DEF CancelTasks
<1>3. \A r \in Run : Hit(r) => rn[r] \in RunRow /\ rn2[r] = CancelledRun(rn[r])
  BY RunRowPresent DEF Consistent, CancelRuns, HasRow, Live, Absent
<1>4. \A r \in Run : ~Hit(r) => rn2[r] = rn[r]
  BY DEF CancelRuns
<1>5. TablesTyped(tk2, rn2)
  <2>1. tk2 \in [Task -> TaskRow \cup {NoTask(a) : a \in Absent}]
    BY <1>1, <1>2, CancelledTaskRow DEF Consistent, TablesTyped, CancelTasks
  <2>2. rn2 \in [Run -> RunRow \cup {NoRun(a) : a \in Absent}]
    BY <1>3, <1>4, CancelledRunRow DEF Consistent, TablesTyped, CancelRuns
  <2> QED BY <2>1, <2>2 DEF TablesTyped
<1> HIDE DEF tk2, rn2
<1>6. TaskRunsAgreeIn(tk2, rn2)
  <2> SUFFICES ASSUME NEW t \in Task, HasRow(tk2[t])
               PROVE  /\ rn2[tk2[t].lastRun].task = t
                      /\ rn2[tk2[t].lastRun].attempt = tk2[t].attempts
                      /\ tk2[t].state = "cancelled" =>
                           rn2[tk2[t].lastRun].state \in {"cancelled", "failed"}
                      /\ tk2[t].state # "cancelled" =>
                           rn2[tk2[t].lastRun].state = tk2[t].state
    BY DEF TaskRunsAgreeIn
  <2>1. CASE t \in S
    BY <2>1, <1>1, <1>3, LastRunOfTask, CancelledTaskRow, CancelledRunRow DEF Live
  <2>2. CASE t \notin S
    BY <2>2, <1>2, <1>4, LastRunOfTask
  <2> QED BY <2>1, <2>2
<1>7. EarlierAttemptsFailedIn(tk2, rn2)
  <2> SUFFICES ASSUME NEW r \in Run, HasRow(rn2[r])
               PROVE  /\ HasRow(tk2[rn2[r].task])
                      /\ rn2[r].attempt >= 1
                      /\ r # tk2[rn2[r].task].lastRun =>
                           /\ rn2[r].state = "failed"
                           /\ rn2[r].attempt < tk2[rn2[r].task].attempts
    BY DEF EarlierAttemptsFailedIn
  <2>1. HasRow(rn[r]) /\ rn2[r].task = rn[r].task /\ rn2[r].attempt = rn[r].attempt
    BY <1>3, <1>4, CancelledRunRow DEF HasRow, Live, Absent
  <2>2. rn[r].task \in Task
    BY <2>1, RunRowPresent DEF Consistent, RunRow
  <2>3. /\ HasRow(tk2[rn[r].task]) <=> HasRow(tk[rn[r].task])
        /\ tk2[rn[r].task].lastRun = tk[rn[r].task].lastRun
        /\ tk2[rn[r].task].attempts = tk[rn[r].task].attempts
    BY <2>2, <1>1, <1>2, CancelledTaskRow DEF HasRow, Absent
  <2>4. r # tk[rn[r].task].lastRun => rn2[r] = rn[r]
    BY <2>1, <1>4 DEF Consistent, EarlierAttemptsFailedIn, Live
  <2> QED BY <2>1, <2>3, <2>4 DEF Consistent, EarlierAttemptsFailedIn
<1>8. AttemptsDistinctIn(rn2)
  <2>1. \A r \in Run : /\ rn2[r].task = rn[r].task /\ rn2[r].attempt = rn[r].attempt
                       /\ HasRow(rn2[r]) => HasRow(rn[r])
    BY <1>3, <1>4, CancelledRunRow DEF HasRow, Live, Absent
  <2> QED BY <2>1 DEF Consistent, AttemptsDistinctIn
<1> QED BY <1>5, <1>6, <1>7, <1>8 DEF Consistent, tk2, rn2
-----------------------------------------------------------------------------
(* fail_run *)

\* Whatever the strategy and the policy say, a failure ends in one of four
\* states, and a retry is never scheduled in the past.
LEMMA AfterFailureState ==
  ASSUME now \in Nat, NEW task \in TaskRow, NEW run \in RunRow,
         NEW retryAt \in Nat \cup {Null}
  PROVE  /\ RetryTime(task, retryAt) \in Nat
         /\ AfterFailure(task, run, retryAt) \in {"failed", "cancelled", "sleeping", "pending"}
<1>1. task.opt.delay \in Nat
  BY DEF TaskRow, OptionRow
<1>2. RetryTime(task, retryAt) \in Nat
  BY <1>1 DEF RetryTime, Larger
<1> QED BY <1>2 DEF AfterFailure

\* The failed run's row.
LEMMA FailedRunRow ==
  ASSUME now \in Nat, NEW run \in RunRow
  PROVE  /\ FailedRun(run) \in RunRow
         /\ FailedRun(run).state = "failed"
         /\ FailedRun(run).task = run.task
         /\ FailedRun(run).attempt = run.attempt
BY DEF FailedRun, RunRow, Live, Ended

\* The row of a task that ends with the failed run.
LEMMA FailedTaskRow ==
  ASSUME now \in Nat, NEW task \in TaskRow, NEW run \in RunRow, NEW r \in Run,
         NEW retryAt \in Nat \cup {Null},
         AfterFailure(task, run, retryAt) \notin Live,
         task.attempts = run.attempt
  PROVE  /\ FailedTask(task, run, r, retryAt) \in TaskRow
         /\ FailedTask(task, run, r, retryAt).state \in {"failed", "cancelled"}
         /\ FailedTask(task, run, r, retryAt).lastRun = r
         /\ FailedTask(task, run, r, retryAt).attempts = run.attempt
         /\ FailedTask(task, run, r, retryAt).opt = task.opt
<1>1. AfterFailure(task, run, retryAt) \in {"failed", "cancelled"}
  BY AfterFailureState DEF Live
<1>2. Larger(task.attempts, run.attempt) = run.attempt
  BY DEF Larger
<1> HIDE DEF AfterFailure, Larger
<1> QED BY <1>1, <1>2 DEF FailedTask, TaskRow, Ended

\* The row of a task that goes on with another attempt, and that attempt's run.
LEMMA RetriedRows ==
  ASSUME now \in Nat, NEW task \in TaskRow, NEW run \in RunRow, NEW new \in Run,
         NEW retryAt \in Nat \cup {Null},
         AfterFailure(task, run, retryAt) \in Live,
         task.attempts = run.attempt
  PROVE  /\ RetriedTask(task, run, new, retryAt) \in TaskRow
         /\ RetriedTask(task, run, new, retryAt).state = AfterFailure(task, run, retryAt)
         /\ RetriedTask(task, run, new, retryAt).lastRun = new
         /\ RetriedTask(task, run, new, retryAt).attempts = run.attempt + 1
         /\ RetriedTask(task, run, new, retryAt).opt = task.opt
         /\ RetryRun(task, run, retryAt) \in RunRow
         /\ RetryRun(task, run, retryAt).state = AfterFailure(task, run, retryAt)
         /\ RetryRun(task, run, retryAt).task = run.task
         /\ RetryRun(task, run, retryAt).attempt = run.attempt + 1
<1>1. RetryTime(task, retryAt) \in Nat
  BY AfterFailureState
<1>2. run.attempt \in Nat /\ run.task \in Task
  BY DEF RunRow
<1>3. Larger(task.attempts, run.attempt + 1) = run.attempt + 1
  BY <1>2 DEF Larger
<1>4. /\ RetriedTask(task, run, new, retryAt) \in TaskRow
      /\ RetriedTask(task, run, new, retryAt).state = AfterFailure(task, run, retryAt)
      /\ RetriedTask(task, run, new, retryAt).lastRun = new
      /\ RetriedTask(task, run, new, retryAt).attempts = run.attempt + 1
      /\ RetriedTask(task, run, new, retryAt).opt = task.opt
  <2> DEFINE next == AfterFailure(task, run, retryAt)
             n == Larger(task.attempts, run.attempt + 1)
  <2>1. next \in Live \cup Ended /\ n \in Nat /\ n = run.attempt + 1
    BY <1>2, <1>3
  <2>2. RetriedTask(task, run, new, retryAt) =
          [task EXCEPT !.state = next, !.attempts = n, !.lastRun = new]
    BY DEF RetriedTask
  <2> HIDE DEF next, n
  <2> QED BY <2>1, <2>2 DEF TaskRow, next
<1>5. /\ RetryRun(task, run, retryAt) \in RunRow
      /\ RetryRun(task, run, retryAt).state = AfterFailure(task, run, retryAt)
      /\ RetryRun(task, run, retryAt).task = run.task
      /\ RetryRun(task, run, retryAt).attempt = run.attempt + 1
  BY <1>1, <1>2 DEF RetryRun, NewRun, RunRow
<1> QED BY <1>4, <1>5

\* Failing any set of claimed or sleeping runs, with fresh runs for those that
\* retry, keeps the tables consistent.
LEMMA FailConsistent ==
  ASSUME NEW tk, NEW rn, Consistent(tk, rn), now \in Nat,
         NEW S \in SUBSET Run, \A r \in S : rn[r].state \in {"running", "sleeping"},
         NEW retryAt \in Nat \cup {Null},
         NEW fresh \in FreshIds({r \in S : Retries(tk, rn, r, retryAt)}, rn)
  PROVE  Consistent(FailTasks(tk, rn, S, fresh, retryAt), FailRuns(tk, rn, S, fresh, retryAt))
<1> DEFINE tk2 == FailTasks(tk, rn, S, fresh, retryAt)
           rn2 == FailRuns(tk, rn, S, fresh, retryAt)
           R == {r \in S : Retries(tk, rn, r, retryAt)}
           T(r) == rn[r].task
           New(r) == r \in Range(fresh)
\* The runs that fail are the live runs of different tasks.
<1>1. \A r \in S : /\ r \in Run /\ rn[r] \in RunRow /\ HasRow(rn[r])
                   /\ T(r) \in Task /\ tk[T(r)] \in TaskRow
                   /\ tk[T(r)].lastRun = r
                   /\ tk[T(r)].attempts = rn[r].attempt
                   /\ tk[T(r)].state \in Live
  <2> TAKE r \in S
  <2>1. HasRow(rn[r]) /\ rn[r].state # "failed" /\ rn[r].state # "cancelled"
        /\ rn[r].state \in Live
    BY DEF HasRow, Absent, Live
  <2> QED BY <2>1, UnfailedRunIsLast
<1>2. \A q, r \in S : T(q) = T(r) => q = r
  BY <1>1
<1>3. \A r \in S : RunOf(T(r), S, rn) = r
  BY <1>2 DEF RunOf
\* fresh is one-to-one, from the runs that retry to runs without a row.
<1>4. /\ fresh \in [R -> Run] /\ DOMAIN fresh = R
      /\ \A r \in R : rn[fresh[r]].state = "none"
      /\ \A q, r \in R : fresh[q] = fresh[r] => q = r
  BY DEF FreshIds, Injection, IsInjective
<1>5. \A r \in R : (CHOOSE x \in DOMAIN fresh : fresh[x] = fresh[r]) = r
  BY <1>4
\* The new tables, row by row.
<1>6. \A r \in S \ R : tk2[T(r)] = FailedTask(tk[T(r)], rn[r], r, retryAt)
  BY <1>1, <1>3, <1>4 DEF FailTasks
<1>7. \A r \in R : tk2[T(r)] = RetriedTask(tk[T(r)], rn[r], fresh[r], retryAt)
  BY <1>1, <1>3, <1>4 DEF FailTasks
<1>8. \A t \in Task : (\A r \in S : T(r) # t) => tk2[t] = tk[t]
  BY DEF FailTasks
<1>9. \A r \in S : rn2[r] = FailedRun(rn[r])
  BY DEF FailRuns
<1>10. \A r \in R : /\ fresh[r] \in Run \ S
                    /\ rn2[fresh[r]] = RetryRun(tk[T(r)], rn[r], retryAt)
  <2> TAKE r \in R
  <2>1. fresh[r] \in Run /\ fresh[r] \notin S /\ fresh[r] \in Range(fresh)
    BY <1>1, <1>4 DEF Range, HasRow, Absent
  <2> QED BY <2>1, <1>5 DEF FailRuns
<1>11. \A r \in Run : r \notin S /\ (\A x \in R : fresh[x] # r) => rn2[r] = rn[r]
  BY <1>4 DEF FailRuns, Range
<1>12. \A r \in R : AfterFailure(tk[T(r)], rn[r], retryAt) \in Live
  BY DEF Retries
<1>13. \A r \in S \ R : AfterFailure(tk[T(r)], rn[r], retryAt) \notin Live
  BY DEF Retries
<1>14. \A r \in S \ R : /\ tk2[T(r)] \in TaskRow
                        /\ tk2[T(r)].state \in {"failed", "cancelled"}
                        /\ tk2[T(r)].lastRun = r
                        /\ tk2[T(r)].attempts = rn[r].attempt
  BY <1>1, <1>6, <1>13, FailedTaskRow
<1>15. \A r \in R : /\ tk2[T(r)] \in TaskRow
                    /\ tk2[T(r)].state \in {"sleeping", "pending"}
                    /\ tk2[T(r)].lastRun = fresh[r]
                    /\ tk2[T(r)].attempts = rn[r].attempt + 1
                    /\ rn2[fresh[r]] \in RunRow
                    /\ rn2[fresh[r]].state = tk2[T(r)].state
                    /\ rn2[fresh[r]].task = T(r)
                    /\ rn2[fresh[r]].attempt = rn[r].attempt + 1
  <2> TAKE r \in R
  <2>1. AfterFailure(tk[T(r)], rn[r], retryAt) \in {"sleeping", "pending"}
    BY <1>1, <1>12, AfterFailureState DEF Live
  <2>2. fresh[r] \in Run
    BY <1>4
  <2> HIDE DEF R, T, tk2, rn2
  <2> QED BY <2>1, <2>2, <1>1, <1>7, <1>10, <1>12, RetriedRows DEF R, T
<1>16. \A r \in S : /\ rn2[r] \in RunRow /\ rn2[r].state = "failed"
                    /\ rn2[r].task = T(r) /\ rn2[r].attempt = rn[r].attempt
  BY <1>1, <1>9, FailedRunRow
<1>17. TablesTyped(tk2, rn2)
  <2>1. tk2 \in [Task -> TaskRow \cup {NoTask(a) : a \in Absent}]
    <3>1. \A t \in Task : tk2[t] \in TaskRow \cup {NoTask(a) : a \in Absent}
      BY <1>8, <1>14, <1>15 DEF Consistent, TablesTyped
    <3> QED BY <3>1 DEF FailTasks
  <2>2. rn2 \in [Run -> RunRow \cup {NoRun(a) : a \in Absent}]
    <3>1. \A r \in Run : rn2[r] \in RunRow \cup {NoRun(a) : a \in Absent}
      BY <1>11, <1>15, <1>16 DEF Consistent, TablesTyped
    <3> QED BY <3>1 DEF FailRuns
  <2> QED BY <2>1, <2>2 DEF TablesTyped
<1> HIDE DEF tk2, rn2
<1>18. TaskRunsAgreeIn(tk2, rn2)
  <2> SUFFICES ASSUME NEW t \in Task, HasRow(tk2[t])
               PROVE  /\ rn2[tk2[t].lastRun].task = t
                      /\ rn2[tk2[t].lastRun].attempt = tk2[t].attempts
                      /\ tk2[t].state = "cancelled" =>
                           rn2[tk2[t].lastRun].state \in {"cancelled", "failed"}
                      /\ tk2[t].state # "cancelled" =>
                           rn2[tk2[t].lastRun].state = tk2[t].state
    BY DEF TaskRunsAgreeIn
  <2>1. CASE \E r \in R : T(r) = t
    BY <2>1, <1>15
  <2>2. CASE \E r \in S \ R : T(r) = t
    BY <2>2, <1>14, <1>16
  <2>3. CASE \A r \in S : T(r) # t
    <3>1. tk2[t] = tk[t] /\ HasRow(tk[t])
      BY <2>3, <1>8
    <3>2. rn[tk[t].lastRun].task = t /\ tk[t].lastRun \in Run
      BY <3>1, LastRunOfTask
    <3>3. rn[tk[t].lastRun].state # "none"
      BY <3>1, LastRunOfTask DEF HasRow, Absent
    <3>4. rn2[tk[t].lastRun] = rn[tk[t].lastRun]
      BY <3>2, <3>3, <2>3, <1>4, <1>11
    <3> QED BY <3>1, <3>4, LastRunOfTask
  <2> QED BY <2>1, <2>2, <2>3
<1>19. EarlierAttemptsFailedIn(tk2, rn2)
  <2> SUFFICES ASSUME NEW r \in Run, HasRow(rn2[r])
               PROVE  /\ HasRow(tk2[rn2[r].task])
                      /\ rn2[r].attempt >= 1
                      /\ r # tk2[rn2[r].task].lastRun =>
                           /\ rn2[r].state = "failed"
                           /\ rn2[r].attempt < tk2[rn2[r].task].attempts
    BY DEF EarlierAttemptsFailedIn
  <2>0. \A x \in S : HasRow(tk2[T(x)]) /\ rn[x].attempt \in Nat /\ rn[x].attempt >= 1
    BY <1>1, <1>14, <1>15 DEF HasRow, Absent, TaskRow, RunRow, Live, Ended,
       Consistent, EarlierAttemptsFailedIn
  <2>1. CASE r \in S
    BY <2>1, <2>0, <1>14, <1>15, <1>16
  <2>2. CASE \E x \in R : fresh[x] = r
    BY <2>2, <2>0, <1>15
  <2>3. CASE r \notin S /\ \A x \in R : fresh[x] # r
    <3>1. rn2[r] = rn[r] /\ HasRow(rn[r]) /\ rn[r] \in RunRow
      BY <2>3, <1>11, RunRowPresent DEF Consistent
    <3>2. /\ HasRow(tk[T(r)]) /\ rn[r].attempt >= 1 /\ T(r) \in Task
          /\ r # tk[T(r)].lastRun =>
                rn[r].state = "failed" /\ rn[r].attempt < tk[T(r)].attempts
      BY <3>1 DEF Consistent, EarlierAttemptsFailedIn, RunRow
    <3>3. CASE \A x \in S : T(x) # T(r)
      BY <3>1, <3>2, <3>3, <1>8
    <3>4. CASE \E x \in S : T(x) = T(r)
      <4>1. PICK x \in S : T(x) = T(r)
        BY <3>4
      <4>2. r # tk[T(r)].lastRun
        BY <4>1, <1>1, <2>3
      <4>3. rn[r].state = "failed" /\ rn[r].attempt < rn[x].attempt
        BY <4>1, <4>2, <3>2, <1>1
      <4>4. tk2[T(r)].attempts \in {rn[x].attempt, rn[x].attempt + 1}
        BY <4>1, <1>14, <1>15
      <4>5. rn[r].attempt \in Nat /\ rn[x].attempt \in Nat
        BY <3>1, <1>1 DEF RunRow
      <4> QED BY <3>1, <3>2, <4>1, <4>3, <4>4, <4>5, <2>0
    <3> QED BY <3>3, <3>4
  <2> QED BY <2>1, <2>2, <2>3
<1>20. AttemptsDistinctIn(rn2)
  <2> SUFFICES ASSUME NEW q \in Run, NEW r \in Run, q # r, HasRow(rn2[q]),
                      rn2[q].task = rn2[r].task
               PROVE  rn2[q].attempt # rn2[r].attempt
    BY DEF AttemptsDistinctIn
  <2> DEFINE Old == {x \in Run : \A y \in R : fresh[y] # x}
  <2>1. \A x \in Old :
          /\ x \in Run
          /\ rn2[x].task = T(x)
          /\ rn2[x].attempt = rn[x].attempt
          /\ HasRow(rn2[x]) => HasRow(rn[x])
    BY <1>1, <1>11, <1>16
  <2> HIDE DEF Old
  \* A new run is a later attempt than every old run of its task.
  <2>2. ASSUME NEW x \in R, NEW y \in Old, rn2[y].task = T(x)
        PROVE  rn2[y].attempt < rn2[fresh[x]].attempt
    <3>0. y \in Run /\ rn2[y].task = T(y) /\ rn2[y].attempt = rn[y].attempt
      BY <2>1, <2>2
    <3>1. T(y) = T(x) /\ HasRow(rn[y]) /\ rn2[y].attempt = rn[y].attempt
      BY <3>0, <2>2, <1>1, RunOfTaskHasRow DEF Consistent
    <3>2. rn[y] \in RunRow
      BY <3>0, <3>1, RunRowPresent DEF Consistent
    <3>3. y # x => rn[y].attempt < rn[x].attempt
      BY <3>0, <3>1, <1>1 DEF Consistent, EarlierAttemptsFailedIn
    <3>4. rn[y].attempt \in Nat /\ rn[x].attempt \in Nat
      BY <3>2, <1>1 DEF RunRow
    <3> QED BY <3>1, <3>3, <3>4, <1>15
  <2>3. CASE q \in Old /\ r \in Old
    <3>1. /\ HasRow(rn[q]) /\ rn[q].task = rn[r].task
          /\ rn2[q].attempt = rn[q].attempt /\ rn2[r].attempt = rn[r].attempt
      BY <2>1, <2>3
    <3> QED BY <3>1 DEF Consistent, AttemptsDistinctIn
  <2>4. ASSUME NEW x \in R, fresh[x] = q, r \in Old
        PROVE  rn2[q].attempt # rn2[r].attempt
    <3>1. rn2[q].attempt \in Nat /\ rn2[r].attempt < rn2[q].attempt
      BY <2>2, <2>4, <1>15 DEF RunRow
    <3>2. rn2[r].attempt \in Nat
      BY <1>17 DEF TablesTyped, RunRow, NoRun
    <3> QED BY <3>1, <3>2
  <2>5. ASSUME NEW x \in R, fresh[x] = r, q \in Old
        PROVE  rn2[q].attempt # rn2[r].attempt
    <3>1. rn2[r].attempt \in Nat /\ rn2[q].attempt < rn2[r].attempt
      BY <2>2, <2>5, <1>15 DEF RunRow
    <3>2. rn2[q].attempt \in Nat
      BY <1>17 DEF TablesTyped, RunRow, NoRun
    <3> QED BY <3>1, <3>2
  <2>6. ASSUME NEW x \in R, NEW y \in R, fresh[x] = q, fresh[y] = r
        PROVE  FALSE
    BY <2>6, <1>2, <1>15
  <2> QED BY <2>3, <2>4, <2>5, <2>6 DEF Old
<1> QED BY <1>17, <1>18, <1>19, <1>20 DEF Consistent, tk2, rn2
-----------------------------------------------------------------------------
(* claim_task *)

\* The rows of a claimed run and of its task.
LEMMA StartedRows ==
  ASSUME now \in Nat, NEW task \in TaskRow, NEW run \in RunRow, NEW r \in Run,
         NEW timeout \in Nat, task.attempts = run.attempt
  PROVE  /\ StartedTask(task, run, r) \in TaskRow
         /\ StartedTask(task, run, r).state = "running"
         /\ StartedTask(task, run, r).lastRun = r
         /\ StartedTask(task, run, r).attempts = run.attempt
         /\ StartedTask(task, run, r).opt = task.opt
         /\ StartedRun(run, timeout) \in RunRow
         /\ StartedRun(run, timeout).state = "running"
         /\ StartedRun(run, timeout).task = run.task
         /\ StartedRun(run, timeout).attempt = run.attempt
<1>1. Larger(task.attempts, run.attempt) = run.attempt
  BY DEF Larger
<1>2. /\ StartedTask(task, run, r) \in TaskRow
      /\ StartedTask(task, run, r).state = "running"
      /\ StartedTask(task, run, r).lastRun = r
      /\ StartedTask(task, run, r).attempts = run.attempt
      /\ StartedTask(task, run, r).opt = task.opt
  BY <1>1 DEF StartedTask, TaskRow, Live
<1>3. /\ StartedRun(run, timeout) \in RunRow
      /\ StartedRun(run, timeout).state = "running"
      /\ StartedRun(run, timeout).task = run.task
      /\ StartedRun(run, timeout).attempt = run.attempt
  <2> DEFINE lease == IF timeout > 0 THEN now + timeout ELSE Null
  <2>1. lease \in Nat \cup {Null}
    OBVIOUS
  <2>2. StartedRun(run, timeout) =
          [run EXCEPT !.state = "running", !.availableAt = now, !.expires = lease]
    BY DEF StartedRun
  <2> HIDE DEF lease
  <2> QED BY <2>1, <2>2 DEF RunRow, Live
<1> QED BY <1>2, <1>3

\* The live runs of S and their tasks move to one state; other rows stay.
MovesTogether(tk, rn, tk2, rn2, S, state) ==
  /\ tk2 = [t \in Task |-> tk2[t]]
  /\ rn2 = [r \in Run |-> rn2[r]]
  /\ \A r \in S : /\ HasRow(rn[r])
                  /\ rn[r].state \in Live
                  /\ rn2[r] \in RunRow
                  /\ rn2[r].state = state
                  /\ rn2[r].task = rn[r].task
                  /\ rn2[r].attempt = rn[r].attempt
                  /\ tk2[rn[r].task] \in TaskRow
                  /\ tk2[rn[r].task].state = state
                  /\ tk2[rn[r].task].lastRun = r
                  /\ tk2[rn[r].task].attempts = rn[r].attempt
  /\ \A r \in Run \ S : rn2[r] = rn[r]
  /\ \A t \in Task : (\A r \in S : rn[r].task # t) => tk2[t] = tk[t]

\* A rewriting that moves some live runs and, with them, their tasks to one
\* state, and leaves every other row alone, keeps the tables consistent.
LEMMA MoveTogether ==
  ASSUME NEW tk, NEW rn, Consistent(tk, rn), NEW tk2, NEW rn2,
         NEW S \in SUBSET Run, NEW state \in (Live \cup Ended) \ {"cancelled", "failed"},
         MovesTogether(tk, rn, tk2, rn2, S, state)
  PROVE  Consistent(tk2, rn2)
<1> USE DEF MovesTogether
<1>1. \A r \in S : /\ r \in Run /\ rn[r].task \in Task
                   /\ tk[rn[r].task] \in TaskRow
                   /\ tk[rn[r].task].lastRun = r
                   /\ tk[rn[r].task].attempts = rn[r].attempt
  <2> TAKE r \in S
  <2>1. r \in Run /\ HasRow(rn[r]) /\ rn[r].state # "failed"
    BY DEF Live
  <2> QED BY <2>1, UnfailedRunIsLast
<1>2. TablesTyped(tk2, rn2)
  <2>1. \A t \in Task : tk2[t] \in TaskRow \cup {NoTask(a) : a \in Absent}
    BY DEF Consistent, TablesTyped
  <2>2. \A r \in Run : rn2[r] \in RunRow \cup {NoRun(a) : a \in Absent}
    BY DEF Consistent, TablesTyped
  <2> QED BY <2>1, <2>2 DEF TablesTyped
<1>3. TaskRunsAgreeIn(tk2, rn2)
  <2> SUFFICES ASSUME NEW t \in Task, HasRow(tk2[t])
               PROVE  /\ rn2[tk2[t].lastRun].task = t
                      /\ rn2[tk2[t].lastRun].attempt = tk2[t].attempts
                      /\ tk2[t].state = "cancelled" =>
                           rn2[tk2[t].lastRun].state \in {"cancelled", "failed"}
                      /\ tk2[t].state # "cancelled" =>
                           rn2[tk2[t].lastRun].state = tk2[t].state
    BY DEF TaskRunsAgreeIn
  <2>1. CASE \E r \in S : rn[r].task = t
    <3>1. PICK r \in S : rn[r].task = t
      BY <2>1
    <3>2. tk2[t].lastRun = r /\ tk2[t].attempts = rn[r].attempt /\ tk2[t].state = state
      BY <3>1
    <3>3. rn2[r].task = t /\ rn2[r].attempt = rn[r].attempt /\ rn2[r].state = state
      BY <3>1
    <3> QED BY <3>2, <3>3
  <2>2. CASE \A r \in S : rn[r].task # t
    <3>1. tk2[t] = tk[t] /\ HasRow(tk[t])
      BY <2>2
    <3>2. tk[t].lastRun \in Run \ S
      BY <2>2, <3>1, LastRunOfTask
    <3> QED BY <3>1, <3>2, LastRunOfTask
  <2> QED BY <2>1, <2>2
<1>4. EarlierAttemptsFailedIn(tk2, rn2)
  <2> SUFFICES ASSUME NEW r \in Run, HasRow(rn2[r])
               PROVE  /\ HasRow(tk2[rn2[r].task])
                      /\ rn2[r].attempt >= 1
                      /\ r # tk2[rn2[r].task].lastRun =>
                           /\ rn2[r].state = "failed"
                           /\ rn2[r].attempt < tk2[rn2[r].task].attempts
    BY DEF EarlierAttemptsFailedIn
  <2>1. rn2[r].task = rn[r].task /\ rn2[r].attempt = rn[r].attempt /\ HasRow(rn[r])
    OBVIOUS
  <2>2. rn[r].task \in Task
    BY <2>1, RunRowPresent DEF Consistent, RunRow
  <2>3. /\ HasRow(tk2[rn[r].task])
        /\ tk2[rn[r].task].lastRun = tk[rn[r].task].lastRun
        /\ tk2[rn[r].task].attempts = tk[rn[r].task].attempts
    BY <2>1, <2>2, <1>1 DEF Consistent, EarlierAttemptsFailedIn, HasRow, Absent, Live, Ended, TaskRow
  <2>4. r # tk[rn[r].task].lastRun => rn2[r] = rn[r]
    BY <1>1
  <2> QED BY <2>1, <2>3, <2>4 DEF Consistent, EarlierAttemptsFailedIn
<1>5. AttemptsDistinctIn(rn2)
  <2>1. \A r \in Run : /\ rn2[r].task = rn[r].task
                       /\ rn2[r].attempt = rn[r].attempt
                       /\ HasRow(rn2[r]) => HasRow(rn[r])
    OBVIOUS
  <2> QED BY <2>1 DEF Consistent, AttemptsDistinctIn
<1> QED BY <1>2, <1>3, <1>4, <1>5 DEF Consistent

\* Claiming any set of available runs keeps the tables consistent.
LEMMA StartConsistent ==
  ASSUME NEW tk, NEW rn, Consistent(tk, rn), now \in Nat, NEW timeout \in Nat,
         NEW S \in SUBSET Run, \A r \in S : rn[r].state \in {"pending", "sleeping"}
  PROVE  Consistent(StartTasks(tk, rn, S), StartRuns(rn, S, timeout))
<1> DEFINE tk2 == StartTasks(tk, rn, S)
           rn2 == StartRuns(rn, S, timeout)
<1>1. \A r \in S : /\ r \in Run /\ rn[r] \in RunRow /\ HasRow(rn[r])
                   /\ rn[r].task \in Task /\ tk[rn[r].task] \in TaskRow
                   /\ tk[rn[r].task].lastRun = r
                   /\ tk[rn[r].task].attempts = rn[r].attempt
                   /\ rn[r].state \in Live
  <2> TAKE r \in S
  <2>1. HasRow(rn[r]) /\ rn[r].state # "failed" /\ rn[r].state \in Live
    BY DEF HasRow, Absent, Live
  <2> QED BY <2>1, UnfailedRunIsLast
<1>2. \A r \in S : RunOf(rn[r].task, S, rn) = r
  BY <1>1 DEF RunOf
<1>3. \A r \in S : /\ rn2[r] = StartedRun(rn[r], timeout)
                   /\ tk2[rn[r].task] = StartedTask(tk[rn[r].task], rn[r], r)
  BY <1>1, <1>2 DEF StartRuns, StartTasks
<1>4. /\ \A r \in Run \ S : rn2[r] = rn[r]
      /\ \A t \in Task : (\A r \in S : rn[r].task # t) => tk2[t] = tk[t]
  BY DEF StartRuns, StartTasks
<1>5. tk2 = [t \in Task |-> tk2[t]] /\ rn2 = [r \in Run |-> rn2[r]]
  BY DEF StartRuns, StartTasks
<1>6. \A r \in S : /\ rn2[r] \in RunRow
                   /\ rn2[r].state = "running"
                   /\ rn2[r].task = rn[r].task
                   /\ rn2[r].attempt = rn[r].attempt
                   /\ tk2[rn[r].task] \in TaskRow
                   /\ tk2[rn[r].task].state = "running"
                   /\ tk2[rn[r].task].lastRun = r
                   /\ tk2[rn[r].task].attempts = rn[r].attempt
  BY <1>1, <1>3, StartedRows
<1> HIDE DEF tk2, rn2
<1>7. "running" \in (Live \cup Ended) \ {"cancelled", "failed"}
  BY DEF Live
<1>8. \A r \in S : HasRow(rn[r]) /\ rn[r].state \in Live
  BY <1>1
<1>9. MovesTogether(tk, rn, tk2, rn2, S, "running")
  BY <1>4, <1>5, <1>6, <1>8 DEF MovesTogether
<1>10. Consistent(tk2, rn2)
  BY <1>7, <1>9, MoveTogether
<1> QED BY <1>10 DEF tk2, rn2
-----------------------------------------------------------------------------
(* What the other procedures do to the two tables *)

\* The runs keep the columns that the invariant speaks of.
SameKeys(rn, rn2) ==
  \A r \in Run : /\ rn2[r].state = rn[r].state
                 /\ rn2[r].task = rn[r].task
                 /\ rn2[r].attempt = rn[r].attempt

\* Rewriting columns other than state, task and attempt changes nothing here.
LEMMA SameKeysConsistent ==
  ASSUME NEW tk, NEW rn, Consistent(tk, rn), NEW rn2, TablesTyped(tk, rn2),
         SameKeys(rn, rn2)
  PROVE  Consistent(tk, rn2)
<1> USE DEF SameKeys
<1>1. TaskRunsAgreeIn(tk, rn2)
  <2> SUFFICES ASSUME NEW t \in Task, HasRow(tk[t])
               PROVE  /\ rn2[tk[t].lastRun].task = t
                      /\ rn2[tk[t].lastRun].attempt = tk[t].attempts
                      /\ tk[t].state = "cancelled" =>
                           rn2[tk[t].lastRun].state \in {"cancelled", "failed"}
                      /\ tk[t].state # "cancelled" =>
                           rn2[tk[t].lastRun].state = tk[t].state
    BY DEF TaskRunsAgreeIn
  <2> QED BY LastRunOfTask
<1>2. EarlierAttemptsFailedIn(tk, rn2)
  BY DEF Consistent, EarlierAttemptsFailedIn, HasRow
<1>3. AttemptsDistinctIn(rn2)
  BY DEF Consistent, AttemptsDistinctIn, HasRow
<1> QED BY <1>1, <1>2, <1>3 DEF Consistent

\* A new run of task t, a later attempt than all the runs of t, which failed.
AddsAttempt(tk, rn, tk2, rn2, t, r, n) ==
  /\ rn[r].state = "none"
  /\ \A q \in Run : rn[q].task = t => rn[q].state = "failed" /\ rn[q].attempt < n
  /\ tk2 = [u \in Task |-> tk2[u]] /\ \A u \in Task \ {t} : tk2[u] = tk[u]
  /\ rn2 = [q \in Run |-> rn2[q]] /\ \A q \in Run \ {r} : rn2[q] = rn[q]
  /\ tk2[t] \in TaskRow /\ rn2[r] \in RunRow
  /\ tk2[t].lastRun = r /\ tk2[t].attempts = n /\ tk2[t].state = "pending"
  /\ rn2[r].task = t /\ rn2[r].attempt = n /\ rn2[r].state = "pending"

LEMMA AddAttempt ==
  ASSUME NEW tk, NEW rn, Consistent(tk, rn), NEW tk2, NEW rn2,
         NEW t \in Task, NEW r \in Run, NEW n \in Nat \ {0},
         AddsAttempt(tk, rn, tk2, rn2, t, r, n)
  PROVE  Consistent(tk2, rn2)
<1> USE DEF AddsAttempt
<1>1. /\ \A u \in Task \ {t} : tk2[u] = tk[u]
      /\ \A q \in Run \ {r} : rn2[q] = rn[q]
  OBVIOUS
<1>2. TablesTyped(tk2, rn2)
  BY DEF Consistent, TablesTyped
<1>3. TaskRunsAgreeIn(tk2, rn2)
  <2> SUFFICES ASSUME NEW u \in Task, HasRow(tk2[u])
               PROVE  /\ rn2[tk2[u].lastRun].task = u
                      /\ rn2[tk2[u].lastRun].attempt = tk2[u].attempts
                      /\ tk2[u].state = "cancelled" =>
                           rn2[tk2[u].lastRun].state \in {"cancelled", "failed"}
                      /\ tk2[u].state # "cancelled" =>
                           rn2[tk2[u].lastRun].state = tk2[u].state
    BY DEF TaskRunsAgreeIn
  <2>1. CASE u = t
    BY <2>1
  <2>2. CASE u # t
    <3>1. tk2[u] = tk[u] /\ HasRow(tk[u])
      BY <2>2, <1>1
    <3>2. tk[u].lastRun \in Run \ {r}
      BY <3>1, LastRunOfTask DEF HasRow, Absent
    <3> QED BY <3>1, <3>2, <1>1, LastRunOfTask
  <2> QED BY <2>1, <2>2
<1>4. EarlierAttemptsFailedIn(tk2, rn2)
  <2> SUFFICES ASSUME NEW q \in Run, HasRow(rn2[q])
               PROVE  /\ HasRow(tk2[rn2[q].task])
                      /\ rn2[q].attempt >= 1
                      /\ q # tk2[rn2[q].task].lastRun =>
                           /\ rn2[q].state = "failed"
                           /\ rn2[q].attempt < tk2[rn2[q].task].attempts
    BY DEF EarlierAttemptsFailedIn
  <2>1. HasRow(tk2[t])
    BY DEF HasRow, Absent
  <2>2. CASE q = r
    BY <2>1, <2>2
  <2>3. CASE q # r
    <3>1. rn2[q] = rn[q] /\ HasRow(rn[q]) /\ rn[q].task \in Task
      BY <2>3, <1>1, RunRowPresent DEF Consistent, RunRow
    <3>2. rn[q].attempt >= 1
      BY <3>1 DEF Consistent, EarlierAttemptsFailedIn
    <3>3. CASE rn[q].task = t
      BY <3>1, <3>2, <3>3, <2>1
    <3>4. CASE rn[q].task # t
      BY <3>1, <3>4, <1>1 DEF Consistent, EarlierAttemptsFailedIn
    <3> QED BY <3>3, <3>4
  <2> QED BY <2>2, <2>3
<1>5. AttemptsDistinctIn(rn2)
  <2> SUFFICES ASSUME NEW p \in Run, NEW q \in Run, p # q, HasRow(rn2[p]),
                      rn2[p].task = rn2[q].task
               PROVE  rn2[p].attempt # rn2[q].attempt
    BY DEF AttemptsDistinctIn
  <2>1. CASE p # r /\ q # r
    BY <2>1, <1>1 DEF Consistent, AttemptsDistinctIn
  <2>2. CASE p = r
    <3>1. rn[q].attempt < n /\ rn2[q] = rn[q]
      BY <2>2, <1>1
    <3>2. rn[q].attempt \in Nat
      BY DEF Consistent, TablesTyped, RunRow, NoRun
    <3> QED BY <3>1, <3>2, <2>2
  <2>3. CASE q = r
    <3>1. rn[p].attempt < n /\ rn2[p] = rn[p]
      BY <2>3, <1>1
    <3>2. rn[p].attempt \in Nat
      BY DEF Consistent, TablesTyped, RunRow, NoRun
    <3> QED BY <3>1, <3>2, <2>3
  <2> QED BY <2>1, <2>2, <2>3
<1> QED BY <1>2, <1>3, <1>4, <1>5 DEF Consistent
-----------------------------------------------------------------------------
(* Every step preserves the invariant, one lemma for each procedure         *)

\* The checkpoints, events and waits of a state that satisfies TypeOK.
OtherTablesTyped ==
  /\ now \in Nat
  /\ checkpoints \in [Task \X Step -> CheckpointRow \cup {NoCheckpoint}]
  /\ events \in [Event -> EventRow \cup {NoEvent, Sentinel}]
  /\ waits \subseteq WaitRow

\* The invariant, by what is proved of each action: the tables it rewrites and
\* the ones it only types.
LEMMA IInvParts == IInv <=> OtherTablesTyped /\ Consistent(tasks, runs)
BY DEF IInv, TypeOK, OtherTablesTyped, Consistent

\* spawn_task preserves the invariant.
LEMMA SpawnTaskInductive ==
  ASSUME IInv, NEW t \in Task, NEW r \in Run, NEW opt \in OptionRow, SpawnTask(t, r, opt)
  PROVE  IInv'
<1>1. OtherTablesTyped /\ Consistent(tasks, runs)
  BY IInvParts
<1>2. OtherTablesTyped'
  BY <1>1 DEF SpawnTask, OtherTablesTyped
<1>3. NewTask(opt, r) \in TaskRow
  BY <1>1 DEF NewTask, TaskRow, Live, OtherTablesTyped
<1>4. NewRun(t, 1, "pending", now) \in RunRow
  BY <1>1 DEF NewRun, RunRow, Live, OtherTablesTyped
<1>5. tasks'[t] = NewTask(opt, r) /\ runs'[r] = NewRun(t, 1, "pending", now)
  BY <1>1 DEF SpawnTask, Consistent, TablesTyped
<1>6. \A q \in Run : runs[q].task # t
  BY <1>1, RunOfTaskHasRow DEF SpawnTask, Consistent, EarlierAttemptsFailedIn, HasRow, Absent
<1>7. /\ tasks' = [u \in Task |-> tasks'[u]] /\ \A u \in Task \ {t} : tasks'[u] = tasks[u]
      /\ runs' = [q \in Run |-> runs'[q]] /\ \A q \in Run \ {r} : runs'[q] = runs[q]
      /\ runs[r].state = "none"
  BY <1>1 DEF SpawnTask, Consistent, TablesTyped
<1>8. AddsAttempt(tasks, runs, tasks', runs', t, r, 1)
  BY <1>3, <1>4, <1>5, <1>6, <1>7 DEF AddsAttempt, NewTask, NewRun
<1>9. Consistent(tasks', runs')
  BY <1>1, <1>8, AddAttempt
<1> QED BY <1>2, <1>9 DEF IInv, TypeOK, OtherTablesTyped, Consistent

\* retry_task in place preserves the invariant: a failed task has failed runs
\* alone, all of them earlier attempts.
LEMMA RetryTaskInductive ==
  ASSUME IInv, NEW t \in Task, NEW r \in Run, NEW requested \in RetryMax,
         RetryTask(t, r, requested)
  PROVE  IInv'
<1>1. OtherTablesTyped /\ Consistent(tasks, runs)
  BY IInvParts
<1>2. OtherTablesTyped'
  BY <1>1 DEF RetryTask, OtherTablesTyped
<1> DEFINE n == tasks[t].attempts + 1
           limit == NewLimit(tasks[t], requested)
<1>3. HasRow(tasks[t]) /\ tasks[t] \in TaskRow
  BY <1>1, TaskRowPresent DEF RetryTask, HasRow, Absent, Consistent
<1>4. n \in Nat \ {0} /\ tasks[t].attempts \in Nat
  BY <1>3 DEF TaskRow
<1>5. limit \in Nat
  BY <1>3, InputAssumption DEF NewLimit, TaskRow, OptionRow
<1>6. [tasks[t].opt EXCEPT !.maxAttempts = limit] \in OptionRow
  BY <1>3, <1>5 DEF TaskRow, OptionRow
<1>7. tasks'[t] = [tasks[t] EXCEPT !.state = "pending", !.attempts = n,
                     !.opt = [tasks[t].opt EXCEPT !.maxAttempts = limit],
                     !.lastRun = r, !.cancelledAt = Null]
  BY <1>1, <1>3 DEF RetryTask, Consistent, TablesTyped, TaskRow
<1>8. runs'[r] = NewRun(t, n, "pending", now)
  BY <1>1 DEF RetryTask, Consistent, TablesTyped
<1>9. \A q \in Run : runs[q].task = t => runs[q].state = "failed" /\ runs[q].attempt < n
  <2> SUFFICES ASSUME NEW q \in Run, runs[q].task = t
               PROVE  runs[q].state = "failed" /\ runs[q].attempt < n
    OBVIOUS
  <2>1. HasRow(runs[q]) /\ runs[q] \in RunRow
    BY <1>1, RunOfTaskHasRow, RunRowPresent DEF Consistent
  <2>2. CASE q = tasks[t].lastRun
    BY <2>2, <1>1, <1>3, <1>4, LastRunOfTask DEF RetryTask
  <2>3. CASE q # tasks[t].lastRun
    BY <2>1, <2>3, <1>1, <1>4 DEF Consistent, EarlierAttemptsFailedIn, RunRow
  <2> QED BY <2>2, <2>3
<1> HIDE DEF n, limit
<1>10. tasks'[t] \in TaskRow /\ tasks'[t].lastRun = r /\ tasks'[t].attempts = n
       /\ tasks'[t].state = "pending"
  BY <1>3, <1>4, <1>6, <1>7 DEF TaskRow, Live
<1>11. NewRun(t, n, "pending", now) \in RunRow
  BY <1>1, <1>4 DEF NewRun, RunRow, Live, OtherTablesTyped
<1>12. /\ tasks' = [u \in Task |-> tasks'[u]] /\ \A u \in Task \ {t} : tasks'[u] = tasks[u]
       /\ runs' = [q \in Run |-> runs'[q]] /\ \A q \in Run \ {r} : runs'[q] = runs[q]
       /\ runs[r].state = "none"
  BY <1>1 DEF RetryTask, Consistent, TablesTyped
<1>13. AddsAttempt(tasks, runs, tasks', runs', t, r, n)
  BY <1>8, <1>9, <1>10, <1>11, <1>12 DEF AddsAttempt, NewRun
<1>14. Consistent(tasks', runs')
  BY <1>1, <1>4, <1>13, AddAttempt
<1> QED BY <1>2, <1>14 DEF IInv, TypeOK, OtherTablesTyped, Consistent

\* retry_task that spawns a new task preserves the invariant.
LEMMA RetryAsNewTaskInductive ==
  ASSUME IInv, NEW t \in Task, NEW u \in Task, NEW r \in Run, NEW requested \in RetryMax,
         RetryAsNewTask(t, u, r, requested)
  PROVE  IInv'
<1> DEFINE opt == [tasks[t].opt EXCEPT
                    !.key = Null,
                    !.maxAttempts = IF requested = Null THEN @ ELSE requested]
<1>1. tasks[t] \in TaskRow
  BY TaskRowPresent DEF RetryAsNewTask, HasRow, Absent, IInv, TypeOK
<1>2. opt \in OptionRow
  BY <1>1, InputAssumption DEF TaskRow, OptionRow
<1>3. SpawnTask(u, r, opt)
  BY DEF RetryAsNewTask
<1> HIDE DEF opt
<1> QED BY <1>2, <1>3, SpawnTaskInductive

\* cancel_task preserves the invariant.
LEMMA CancelTaskInductive ==
  ASSUME IInv, NEW t \in Task, CancelTask(t)
  PROVE  IInv'
<1>1. OtherTablesTyped /\ Consistent(tasks, runs)
  BY IInvParts
<1>2. OtherTablesTyped'
  BY <1>1 DEF CancelTask, OtherTablesTyped
<1>3. Consistent(CancelTasks(tasks, {t}), CancelRuns(runs, {t}))
  BY <1>1, CancelConsistent DEF CancelTask, OtherTablesTyped
<1>4. Consistent(tasks', runs')
  BY <1>3 DEF CancelTask
<1> QED BY <1>2, <1>4 DEF IInv, TypeOK, OtherTablesTyped, Consistent

\* fail_run preserves the invariant.
LEMMA FailRunInductive ==
  ASSUME IInv, NEW r \in Run, NEW retryAt \in RetryAt, FailRun(r, retryAt)
  PROVE  IInv'
<1>1. OtherTablesTyped /\ Consistent(tasks, runs)
  BY IInvParts
<1>2. OtherTablesTyped'
  BY <1>1 DEF FailRun, OtherTablesTyped
<1>3. retryAt \in Nat \cup {Null}
  BY InputAssumption
<1>4. PICK fresh \in FreshIds({x \in {r} : Retries(tasks, runs, x, retryAt)}, runs) :
        /\ tasks' = FailTasks(tasks, runs, {r}, fresh, retryAt)
        /\ runs' = FailRuns(tasks, runs, {r}, fresh, retryAt)
  BY DEF FailRun
<1>5. Consistent(FailTasks(tasks, runs, {r}, fresh, retryAt),
                 FailRuns(tasks, runs, {r}, fresh, retryAt))
  BY <1>1, <1>3, FailConsistent DEF FailRun, OtherTablesTyped
<1>6. Consistent(tasks', runs')
  BY <1>4, <1>5
<1> QED BY <1>2, <1>6 DEF IInv, TypeOK, OtherTablesTyped, Consistent

\* claim_task preserves the invariant through its cancellations, its swept runs
\* and its claims.
LEMMA ClaimTaskInductive ==
  ASSUME IInv, NEW timeout \in ClaimTimeout, NEW qty \in ClaimQty, ClaimTask(timeout, qty)
  PROVE  IInv'
<1> DEFINE doomed == {t \in Task : Overdue(tasks[t])}
           tk1 == CancelTasks(tasks, doomed)
           rn1 == CancelRuns(runs, doomed)
<1>1. OtherTablesTyped /\ Consistent(tasks, runs)
  BY IInvParts
<1>2. timeout \in Nat /\ now \in Nat
  BY <1>1, InputAssumption DEF OtherTablesTyped
<1>3. Consistent(tk1, rn1)
  BY <1>1, <1>2, CancelConsistent DEF Overdue
<1> HIDE DEF tk1, rn1
<1>4. PICK swept \in Batches({r \in Run : LeaseExpired(rn1[r])}, qty) :
      \E fresh \in FreshIds({r \in swept : Retries(tk1, rn1, r, Null)}, rn1) :
        LET tk2 == FailTasks(tk1, rn1, swept, fresh, Null)
            rn2 == FailRuns(tk1, rn1, swept, fresh, Null)
            wt2 == {w \in waits : w.task \notin doomed /\ w.run \notin swept}
        IN \E taken \in Batches({r \in Run : Claimable(tk2, rn2[r])}, qty) :
             /\ tasks' = StartTasks(tk2, rn2, taken)
             /\ runs' = StartRuns(rn2, taken, timeout)
             /\ waits' = wt2 \ Timeouts(wt2, taken)
             /\ UNCHANGED <<now, checkpoints, events>>
  BY DEF ClaimTask, tk1, rn1
<1>5. PICK fresh \in FreshIds({r \in swept : Retries(tk1, rn1, r, Null)}, rn1) :
        LET tk2 == FailTasks(tk1, rn1, swept, fresh, Null)
            rn2 == FailRuns(tk1, rn1, swept, fresh, Null)
            wt2 == {w \in waits : w.task \notin doomed /\ w.run \notin swept}
        IN \E taken \in Batches({r \in Run : Claimable(tk2, rn2[r])}, qty) :
             /\ tasks' = StartTasks(tk2, rn2, taken)
             /\ runs' = StartRuns(rn2, taken, timeout)
             /\ waits' = wt2 \ Timeouts(wt2, taken)
             /\ UNCHANGED <<now, checkpoints, events>>
  BY <1>4
<1> DEFINE tk2 == FailTasks(tk1, rn1, swept, fresh, Null)
           rn2 == FailRuns(tk1, rn1, swept, fresh, Null)
           wt2 == {w \in waits : w.task \notin doomed /\ w.run \notin swept}
<1>6. swept \in SUBSET Run /\ \A r \in swept : rn1[r].state \in {"running", "sleeping"}
  BY DEF Batches, LeaseExpired
<1>7. Consistent(tk2, rn2)
  BY <1>2, <1>3, <1>6, FailConsistent
<1> HIDE DEF tk2, rn2
<1>8. PICK taken \in Batches({r \in Run : Claimable(tk2, rn2[r])}, qty) :
        /\ tasks' = StartTasks(tk2, rn2, taken)
        /\ runs' = StartRuns(rn2, taken, timeout)
        /\ waits' = wt2 \ Timeouts(wt2, taken)
        /\ UNCHANGED <<now, checkpoints, events>>
  BY <1>5 DEF tk2, rn2
<1>9. taken \in SUBSET Run /\ \A r \in taken : rn2[r].state \in {"pending", "sleeping"}
  BY DEF Batches, Claimable
<1>10. Consistent(tasks', runs')
  BY <1>2, <1>7, <1>8, <1>9, StartConsistent
<1>11. OtherTablesTyped'
  BY <1>1, <1>8 DEF OtherTablesTyped
<1> QED BY <1>10, <1>11 DEF IInv, TypeOK, OtherTablesTyped, Consistent

\* A running run: what its holder's calls find.
LEMMA RunningRun ==
  ASSUME IInv, NEW r \in Run, runs[r].state = "running"
  PROVE  /\ HasRow(runs[r]) /\ runs[r] \in RunRow /\ runs[r].task \in Task
         /\ tasks[runs[r].task] \in TaskRow
         /\ tasks[runs[r].task].lastRun = r
         /\ tasks[runs[r].task].attempts = runs[r].attempt
<1>1. Consistent(tasks, runs) /\ HasRow(runs[r]) /\ runs[r].state # "failed"
  BY DEF IInv, HasRow, Absent
<1> QED BY <1>1, UnfailedRunIsLast

\* A call of the holder that rewrites the run's row and moves run and task to
\* another state.
LEMMA HolderMoves ==
  ASSUME IInv, NEW r \in Run, runs[r].state = "running",
         NEW run \in RunRow, run.task = runs[r].task, run.attempt = runs[r].attempt,
         run.state \in {"completed", "sleeping"},
         NEW task \in TaskRow, task.state = run.state, task.lastRun = r,
         task.attempts = runs[r].attempt,
         runs' = [runs EXCEPT ![r] = run],
         tasks' = [tasks EXCEPT ![runs[r].task] = task]
  PROVE  Consistent(tasks', runs')
<1>1. Consistent(tasks, runs) /\ TablesTyped(tasks, runs)
  BY DEF IInv, Consistent
<1>2. HasRow(runs[r]) /\ runs[r].state \in Live /\ runs[r].task \in Task
  BY RunningRun DEF Live
<1>3. run.state \in (Live \cup Ended) \ {"cancelled", "failed"}
  BY DEF Live, Ended
<1>4. MovesTogether(tasks, runs, tasks', runs', {r}, run.state)
  BY <1>1, <1>2 DEF MovesTogether, TablesTyped
<1> QED BY <1>1, <1>3, <1>4, MoveTogether

\* complete_run preserves the invariant.
LEMMA CompleteRunInductive ==
  ASSUME IInv, NEW r \in Run, CompleteRun(r)
  PROVE  IInv'
<1> DEFINE run == [runs[r] EXCEPT !.state = "completed", !.endedAt = now]
           task == [tasks[runs[r].task] EXCEPT !.state = "completed", !.lastRun = r]
<1>1. runs[r].state = "running"
  BY DEF CompleteRun, MayFinish
<1>2. OtherTablesTyped
  BY IInvParts
<1>3. OtherTablesTyped'
  BY <1>2 DEF CompleteRun, OtherTablesTyped
<1>4. /\ run \in RunRow /\ run.task = runs[r].task /\ run.attempt = runs[r].attempt
      /\ run.state = "completed"
  <2>1. runs[r] \in RunRow /\ now \in Nat
    BY <1>1, <1>2, RunningRun DEF OtherTablesTyped
  <2> QED BY <2>1 DEF RunRow, Ended
<1>5. /\ task \in TaskRow /\ task.state = "completed" /\ task.lastRun = r
      /\ task.attempts = runs[r].attempt
  <2>1. tasks[runs[r].task] \in TaskRow /\ tasks[runs[r].task].attempts = runs[r].attempt
    BY <1>1, RunningRun
  <2> QED BY <2>1 DEF TaskRow, Ended
<1>6. /\ runs' = [runs EXCEPT ![r] = run]
      /\ tasks' = [tasks EXCEPT ![runs[r].task] = task]
  BY DEF CompleteRun, IInv, TypeOK, TablesTyped
<1> HIDE DEF run, task
<1>7. Consistent(tasks', runs')
  BY <1>1, <1>4, <1>5, <1>6, HolderMoves
<1> QED BY <1>3, <1>7 DEF IInv, TypeOK, OtherTablesTyped, Consistent

\* schedule_run preserves the invariant.
LEMMA ScheduleRunInductive ==
  ASSUME IInv, NEW r \in Run, NEW at \in WakeAt, ScheduleRun(r, at)
  PROVE  IInv'
<1> DEFINE run == Parked(runs[r], at, Null)
           task == [tasks[runs[r].task] EXCEPT !.state = "sleeping"]
<1>1. runs[r].state = "running"
  BY DEF ScheduleRun, MayFinish
<1>2. OtherTablesTyped
  BY IInvParts
<1>3. OtherTablesTyped'
  BY <1>2 DEF ScheduleRun, OtherTablesTyped
<1>4. /\ run \in RunRow /\ run.task = runs[r].task /\ run.attempt = runs[r].attempt
      /\ run.state = "sleeping"
  <2>1. runs[r] \in RunRow /\ at \in Nat
    BY <1>1, RunningRun, InputAssumption
  <2> QED BY <2>1 DEF RunRow, Live, Parked
<1>5. /\ task \in TaskRow /\ task.state = "sleeping" /\ task.lastRun = r
      /\ task.attempts = runs[r].attempt
  BY <1>1, RunningRun DEF TaskRow, Live
<1>6. /\ runs' = [runs EXCEPT ![r] = run]
      /\ tasks' = [tasks EXCEPT ![runs[r].task] = task]
  BY DEF ScheduleRun, IInv, TypeOK, TablesTyped
<1> HIDE DEF run, task
<1>7. Consistent(tasks', runs')
  BY <1>1, <1>4, <1>5, <1>6, HolderMoves
<1> QED BY <1>3, <1>7 DEF IInv, TypeOK, OtherTablesTyped, Consistent

\* await_event that parks its run preserves the invariant.
LEMMA AwaitParksInductive ==
  ASSUME IInv, NEW r \in Run, NEW s \in AwaitStep, NEW e \in Event,
         NEW timeout \in AwaitTimeout, AwaitParks(r, s, e, timeout)
  PROVE  IInv'
<1> DEFINE w == NewWait(r, s, e, timeout)
           at == IF timeout = Null THEN Never ELSE w.timeout
           run == [Parked(runs[r], at, e) EXCEPT !.eventPayload = Null]
           task == [tasks[runs[r].task] EXCEPT !.state = "sleeping"]
<1>1. runs[r].state = "running"
  BY DEF AwaitParks, AwaitStart
<1>2. OtherTablesTyped
  BY IInvParts
<1>3. w \in WaitRow /\ at \in Nat \cup {Never}
  BY <1>1, <1>2, RunningRun, InputAssumption DEF NewWait, WaitRow, OtherTablesTyped
<1>4. OtherTablesTyped'
  BY <1>2, <1>3 DEF AwaitParks, AwaitStart, OtherTablesTyped
<1>5. /\ run \in RunRow /\ run.task = runs[r].task /\ run.attempt = runs[r].attempt
      /\ run.state = "sleeping"
  <2> HIDE DEF at
  <2> QED BY <1>1, <1>3, RunningRun DEF RunRow, Live, Parked
<1>6. /\ task \in TaskRow /\ task.state = "sleeping" /\ task.lastRun = r
      /\ task.attempts = runs[r].attempt
  BY <1>1, RunningRun DEF TaskRow, Live
<1>7. /\ runs' = [runs EXCEPT ![r] = run]
      /\ tasks' = [tasks EXCEPT ![runs[r].task] = task]
  BY DEF AwaitParks, IInv, TypeOK, TablesTyped
<1> HIDE DEF run, task
<1>8. Consistent(tasks', runs')
  BY <1>1, <1>5, <1>6, <1>7, HolderMoves
<1> QED BY <1>4, <1>8 DEF IInv, TypeOK, OtherTablesTyped, Consistent

\* A call of the holder that rewrites columns of its run other than state, task
\* and attempt keeps the tables consistent.
LEMMA HolderWrites ==
  ASSUME IInv, NEW r \in Run, NEW run \in RunRow, HasRow(runs[r]),
         run.state = runs[r].state, run.task = runs[r].task,
         run.attempt = runs[r].attempt,
         runs' = [runs EXCEPT ![r] = run], tasks' = tasks
  PROVE  Consistent(tasks', runs')
<1>1. Consistent(tasks, runs) /\ TablesTyped(tasks, runs)
  BY DEF IInv, Consistent
<1>2. TablesTyped(tasks, runs')
  BY <1>1 DEF TablesTyped
<1>3. SameKeys(runs, runs')
  BY <1>1 DEF TablesTyped, SameKeys
<1>4. Consistent(tasks, runs')
  BY <1>1, <1>2, <1>3, SameKeysConsistent
<1> QED BY <1>4

\* set_task_checkpoint_state preserves the invariant.
LEMMA SetCheckpointInductive ==
  ASSUME IInv, NEW r \in Run, NEW s \in BodyStep, NEW p \in Payload,
         NEW by \in ExtendBy \cup {0}, SetCheckpoint(r, s, p, by)
  PROVE  IInv'
<1> DEFINE run == Extended(runs[r], by)
<1>1. OtherTablesTyped /\ TablesTyped(tasks, runs)
  BY IInvParts DEF Consistent
<1>2. HasRow(runs[r]) /\ runs[r] \in RunRow /\ runs[r].task \in Task
  BY <1>1, RunRowPresent DEF SetCheckpoint, RunRow
<1>3. /\ run \in RunRow /\ run.state = runs[r].state
      /\ run.task = runs[r].task /\ run.attempt = runs[r].attempt
  <2>1. by \in Nat /\ now \in Nat
    BY <1>1, InputAssumption DEF OtherTablesTyped
  <2> QED BY <1>2, <2>1 DEF Extended, RunRow
<1>4. runs' = [runs EXCEPT ![r] = run]
  BY <1>1 DEF SetCheckpoint, TablesTyped
<1> HIDE DEF run
<1>5. Consistent(tasks', runs')
  BY <1>2, <1>3, <1>4, HolderWrites DEF SetCheckpoint
<1>6. OtherTablesTyped'
  <2>1. [payload |-> p, owner |-> r] \in CheckpointRow
    BY DEF CheckpointRow
  <2>2. \/ checkpoints' = checkpoints
        \/ checkpoints' = [checkpoints EXCEPT ![<<runs[r].task, s>>] =
                                                  [payload |-> p, owner |-> r]]
    BY DEF SetCheckpoint
  <2>3. checkpoints' \in [Task \X Step -> CheckpointRow \cup {NoCheckpoint}]
    BY <1>1, <2>1, <2>2 DEF OtherTablesTyped
  <2> QED BY <1>1, <2>3 DEF SetCheckpoint, OtherTablesTyped
<1> QED BY <1>5, <1>6 DEF IInv, TypeOK, OtherTablesTyped, Consistent

\* extend_claim preserves the invariant.
LEMMA ExtendClaimInductive ==
  ASSUME IInv, NEW r \in Run, NEW by \in ExtendBy, ExtendClaim(r, by)
  PROVE  IInv'
<1> DEFINE run == [runs[r] EXCEPT !.expires = now + by]
<1>1. OtherTablesTyped /\ TablesTyped(tasks, runs)
  BY IInvParts DEF Consistent
<1>2. HasRow(runs[r]) /\ runs[r] \in RunRow
  BY <1>1, RunRowPresent DEF ExtendClaim
<1>3. /\ run \in RunRow /\ run.state = runs[r].state
      /\ run.task = runs[r].task /\ run.attempt = runs[r].attempt
  <2>1. now + by \in Nat
    BY <1>1, InputAssumption DEF OtherTablesTyped
  <2> QED BY <1>2, <2>1 DEF RunRow
<1>4. runs' = [runs EXCEPT ![r] = run]
  BY <1>1 DEF ExtendClaim, TablesTyped
<1> HIDE DEF run
<1>5. Consistent(tasks', runs')
  BY <1>2, <1>3, <1>4, HolderWrites DEF ExtendClaim
<1>6. OtherTablesTyped'
  BY <1>1 DEF ExtendClaim, OtherTablesTyped
<1> QED BY <1>5, <1>6 DEF IInv, TypeOK, OtherTablesTyped, Consistent

\* await_event that finds the event emitted preserves the invariant.
LEMMA AwaitResolvedInductive ==
  ASSUME IInv, NEW r \in Run, NEW s \in AwaitStep, NEW e \in Event, AwaitResolved(r, s, e)
  PROVE  IInv'
<1> DEFINE run == [runs[r] EXCEPT !.eventPayload = Null]
<1>1. OtherTablesTyped /\ TablesTyped(tasks, runs)
  BY IInvParts DEF Consistent
<1>2. HasRow(runs[r]) /\ runs[r] \in RunRow
  BY <1>1, RunRowPresent DEF AwaitResolved, AwaitStart
<1>3. /\ run \in RunRow /\ run.state = runs[r].state
      /\ run.task = runs[r].task /\ run.attempt = runs[r].attempt
  BY <1>2 DEF RunRow
<1>4. runs' = [runs EXCEPT ![r] = run]
  BY <1>1 DEF AwaitResolved, TablesTyped
<1> HIDE DEF run
<1>5. Consistent(tasks', runs')
  BY <1>2, <1>3, <1>4, HolderWrites DEF AwaitResolved
<1>6. OtherTablesTyped'
  <2>1. events[e].payload \in Payload
    BY <1>1 DEF AwaitResolved, OtherTablesTyped, EventRow, NoEvent, Sentinel
  <2>2. [payload |-> events[e].payload, owner |-> r] \in CheckpointRow
    BY <2>1 DEF CheckpointRow
  <2>3. checkpoints' \in [Task \X Step -> CheckpointRow \cup {NoCheckpoint}]
    BY <1>1, <2>2 DEF AwaitResolved, OtherTablesTyped
  <2>4. events' \in [Event -> EventRow \cup {NoEvent, Sentinel}]
    BY <1>1 DEF AwaitResolved, AwaitStart, OtherTablesTyped
  <2> QED BY <1>1, <2>3, <2>4 DEF AwaitResolved, OtherTablesTyped
<1> QED BY <1>5, <1>6 DEF IInv, TypeOK, OtherTablesTyped, Consistent

\* await_event after its timeout preserves the invariant.
LEMMA AwaitTimedOutInductive ==
  ASSUME IInv, NEW r \in Run, NEW s \in AwaitStep, NEW e \in Event, AwaitTimedOut(r, s, e)
  PROVE  IInv'
<1> DEFINE run == [runs[r] EXCEPT !.wakeEvent = Null]
<1>1. OtherTablesTyped /\ TablesTyped(tasks, runs)
  BY IInvParts DEF Consistent
<1>2. HasRow(runs[r]) /\ runs[r] \in RunRow
  BY <1>1, RunRowPresent DEF AwaitTimedOut, AwaitStart
<1>3. /\ run \in RunRow /\ run.state = runs[r].state
      /\ run.task = runs[r].task /\ run.attempt = runs[r].attempt
  BY <1>2 DEF RunRow
<1>4. runs' = [runs EXCEPT ![r] = run]
  BY <1>1 DEF AwaitTimedOut, TablesTyped
<1> HIDE DEF run
<1>5. Consistent(tasks', runs')
  BY <1>2, <1>3, <1>4, HolderWrites DEF AwaitTimedOut
<1>6. OtherTablesTyped'
  BY <1>1 DEF AwaitTimedOut, AwaitStart, OtherTablesTyped
<1> QED BY <1>5, <1>6 DEF IInv, TypeOK, OtherTablesTyped, Consistent

\* emit_event preserves the invariant: the runs it wakes sleep, so they are the
\* live runs of their tasks, and the tasks move to pending with them.
LEMMA EmitEventInductive ==
  ASSUME IInv, NEW e \in Event, NEW p \in Payload, EmitEvent(e, p)
  PROVE  IInv'
<1> DEFINE woken == {w.run : w \in WokenWaits(e)}
<1>1. OtherTablesTyped /\ Consistent(tasks, runs)
  BY IInvParts
<1>2. now \in Nat /\ waits \subseteq WaitRow
  BY <1>1 DEF OtherTablesTyped
<1>3. woken \in SUBSET Run /\ \A r \in woken : runs[r].state = "sleeping"
  BY <1>2 DEF WokenWaits, WaitRow
<1>4. \A r \in woken : HasRow(runs[r]) /\ runs[r] \in RunRow
  BY <1>1, <1>3, RunRowPresent DEF HasRow, Absent, Consistent
<1>5. \A r \in woken : /\ runs[r].task \in Task
                       /\ tasks[runs[r].task] \in TaskRow
                       /\ tasks[runs[r].task].lastRun = r
                       /\ tasks[runs[r].task].attempts = runs[r].attempt
  BY <1>1, <1>3, <1>4, UnfailedRunIsLast
<1>6. /\ runs' = [r \in Run |-> IF r \in woken THEN WokenRun(runs[r], p) ELSE runs[r]]
      /\ tasks' = [t \in Task |-> IF t \in {runs[r].task : r \in woken}
                                    THEN [tasks[t] EXCEPT !.state = "pending"]
                                    ELSE tasks[t]]
  BY DEF EmitEvent
<1> HIDE DEF woken
<1>7. \A r \in woken : /\ runs'[r] \in RunRow
                       /\ runs'[r].state = "pending"
                       /\ runs'[r].task = runs[r].task
                       /\ runs'[r].attempt = runs[r].attempt
  <2> TAKE r \in woken
  <2>1. runs'[r] = WokenRun(runs[r], p)
    BY <1>3, <1>6
  <2>2. runs[r] \in RunRow
    BY <1>4
  <2> QED BY <2>1, <2>2, <1>2 DEF WokenRun, RunRow, Live
<1>8. \A r \in woken : /\ tasks'[runs[r].task] \in TaskRow
                       /\ tasks'[runs[r].task].state = "pending"
                       /\ tasks'[runs[r].task].lastRun = r
                       /\ tasks'[runs[r].task].attempts = runs[r].attempt
  <2> TAKE r \in woken
  <2> DEFINE task == tasks[runs[r].task]
  <2>1. task \in TaskRow /\ task.lastRun = r /\ task.attempts = runs[r].attempt
    BY <1>5
  <2>2. tasks'[runs[r].task] = [task EXCEPT !.state = "pending"]
    BY <1>5, <1>6
  <2> HIDE DEF task
  <2> QED BY <2>1, <2>2 DEF TaskRow, Live
<1>9. MovesTogether(tasks, runs, tasks', runs', woken, "pending")
  <2>1. /\ tasks' = [t \in Task |-> tasks'[t]]
        /\ runs' = [r \in Run |-> runs'[r]]
        /\ \A r \in Run \ woken : runs'[r] = runs[r]
        /\ \A t \in Task : (\A r \in woken : runs[r].task # t) => tasks'[t] = tasks[t]
    BY <1>6
  <2>2. \A r \in woken : HasRow(runs[r]) /\ runs[r].state \in Live
    BY <1>3, <1>4 DEF Live
  <2> QED BY <2>1, <2>2, <1>7, <1>8 DEF MovesTogether
<1>10. Consistent(tasks', runs')
  <2>1. "pending" \in (Live \cup Ended) \ {"cancelled", "failed"}
    BY DEF Live
  <2> QED BY <1>1, <1>3, <1>9, <2>1, MoveTogether
<1>11. OtherTablesTyped'
  <2>1. events' \in [Event -> EventRow \cup {NoEvent, Sentinel}]
    BY <1>1 DEF EmitEvent, OtherTablesTyped, EventRow
  <2>2. checkpoints' \in [Task \X Step -> CheckpointRow \cup {NoCheckpoint}]
    <3> DEFINE Hit(c) == \E w \in WokenWaits(e) : c = <<w.task, w.step>>
               owner(c) == (CHOOSE w \in WokenWaits(e) : c = <<w.task, w.step>>).run
    <3>1. \A c \in Task \X Step : Hit(c) => owner(c) \in Run
      BY <1>2 DEF WokenWaits, WaitRow
    <3>2. checkpoints' = [c \in Task \X Step |->
            IF Hit(c) THEN [payload |-> p, owner |-> owner(c)] ELSE checkpoints[c]]
      BY DEF EmitEvent
    <3> HIDE DEF Hit, owner
    <3> QED BY <1>1, <3>1, <3>2 DEF OtherTablesTyped, CheckpointRow
  <2> QED BY <1>1, <2>1, <2>2 DEF EmitEvent, OtherTablesTyped
<1> QED BY <1>10, <1>11 DEF IInv, TypeOK, OtherTablesTyped, Consistent

\* cleanup_tasks preserves the invariant: a task is deleted with all its runs.
LEMMA CleanupTasksInductive ==
  ASSUME IInv, NEW ttl \in Ttl, NEW limit \in CleanupLimit, CleanupTasks(ttl, limit)
  PROVE  IInv'
<1>1. OtherTablesTyped /\ Consistent(tasks, runs)
  BY IInvParts
<1>2. PICK B \in SUBSET Cleanable(ttl) :
        /\ tasks' = [t \in Task |-> IF t \in B THEN NoTask("deleted") ELSE tasks[t]]
        /\ runs' = [r \in Run |-> IF runs[r].task \in B THEN NoRun("deleted") ELSE runs[r]]
        /\ checkpoints' = StepsWithout(B)
        /\ waits' = {w \in waits : w.task \notin B}
        /\ UNCHANGED <<now, events>>
  BY DEF CleanupTasks
<1>3. OtherTablesTyped'
  BY <1>1, <1>2 DEF OtherTablesTyped, StepsWithout
<1>4. B \subseteq Task
  BY DEF Cleanable
<1>5. NoTask("deleted").state = "deleted" /\ NoRun("deleted").state = "deleted"
      /\ NoRun("deleted").task = Null
  BY DEF NoTask, NoRun
<1>6. TablesTyped(tasks', runs')
  BY <1>1, <1>2 DEF Consistent, TablesTyped, Absent
<1>7. \A t \in Task : HasRow(tasks'[t]) => t \notin B /\ tasks'[t] = tasks[t]
  BY <1>2, <1>5 DEF HasRow, Absent
<1>8. \A r \in Run : HasRow(runs'[r]) => runs[r].task \notin B /\ runs'[r] = runs[r]
  BY <1>2, <1>5 DEF HasRow, Absent
<1>9. TaskRunsAgreeIn(tasks', runs')
  <2> SUFFICES ASSUME NEW t \in Task, HasRow(tasks'[t])
               PROVE  /\ runs'[tasks'[t].lastRun].task = t
                      /\ runs'[tasks'[t].lastRun].attempt = tasks'[t].attempts
                      /\ tasks'[t].state = "cancelled" =>
                           runs'[tasks'[t].lastRun].state \in {"cancelled", "failed"}
                      /\ tasks'[t].state # "cancelled" =>
                           runs'[tasks'[t].lastRun].state = tasks'[t].state
    BY DEF TaskRunsAgreeIn
  <2>1. t \notin B /\ tasks'[t] = tasks[t]
    BY <1>7
  <2>2. tasks[t].lastRun \in Run /\ runs[tasks[t].lastRun].task = t
    BY <1>1, <2>1, LastRunOfTask
  <2>3. runs'[tasks[t].lastRun] = runs[tasks[t].lastRun]
    BY <1>2, <2>1, <2>2
  <2> QED BY <1>1, <2>1, <2>3, LastRunOfTask
<1>10. EarlierAttemptsFailedIn(tasks', runs')
  <2> SUFFICES ASSUME NEW r \in Run, HasRow(runs'[r])
               PROVE  /\ HasRow(tasks'[runs'[r].task])
                      /\ runs'[r].attempt >= 1
                      /\ r # tasks'[runs'[r].task].lastRun =>
                           /\ runs'[r].state = "failed"
                           /\ runs'[r].attempt < tasks'[runs'[r].task].attempts
    BY DEF EarlierAttemptsFailedIn
  <2>1. runs[r].task \notin B /\ runs'[r] = runs[r]
    BY <1>8
  <2>2. runs[r].task \in Task
    BY <1>1, <2>1, RunRowPresent DEF Consistent, RunRow
  <2>3. tasks'[runs[r].task] = tasks[runs[r].task]
    BY <1>2, <2>1, <2>2
  <2> QED BY <1>1, <2>1, <2>3 DEF Consistent, EarlierAttemptsFailedIn
<1>11. AttemptsDistinctIn(runs')
  <2>1. \A q, r \in Run : HasRow(runs'[q]) /\ runs'[q].task = runs'[r].task
                            => runs'[q] = runs[q] /\ runs'[r] = runs[r]
    <3> SUFFICES ASSUME NEW q \in Run, NEW r \in Run, HasRow(runs'[q]),
                        runs'[q].task = runs'[r].task
                 PROVE  runs'[q] = runs[q] /\ runs'[r] = runs[r]
      OBVIOUS
    <3>1. runs'[q] = runs[q] /\ runs[q].task \in Task
      BY <1>1, <1>8, RunRowPresent DEF Consistent, RunRow
    <3>2. runs'[r].task # Null
      BY <3>1, NullAssumption
    <3> QED BY <1>2, <1>5, <3>1, <3>2
  <2> QED BY <1>1, <2>1 DEF Consistent, AttemptsDistinctIn
<1> QED BY <1>3, <1>6, <1>9, <1>10, <1>11 DEF IInv, TypeOK, OtherTablesTyped, Consistent

\* cleanup_events preserves the invariant: it touches no task and no run.
LEMMA CleanupEventsInductive ==
  ASSUME IInv, NEW ttl \in Ttl, NEW limit \in CleanupLimit, CleanupEvents(ttl, limit)
  PROVE  IInv'
<1>1. OtherTablesTyped /\ Consistent(tasks, runs)
  BY IInvParts
<1>2. OtherTablesTyped'
  BY <1>1 DEF CleanupEvents, OtherTablesTyped
<1>3. Consistent(tasks', runs')
  BY <1>1 DEF CleanupEvents
<1> QED BY <1>2, <1>3 DEF IInv, TypeOK, OtherTablesTyped, Consistent

\* The passing of time preserves the invariant.
LEMMA TickInductive ==
  ASSUME IInv, Tick
  PROVE  IInv'
<1>1. OtherTablesTyped /\ Consistent(tasks, runs)
  BY IInvParts
<1>2. OtherTablesTyped'
  BY <1>1 DEF Tick, OtherTablesTyped
<1>3. Consistent(tasks', runs')
  BY <1>1 DEF Tick
<1> QED BY <1>2, <1>3 DEF IInv, TypeOK, OtherTablesTyped, Consistent

-----------------------------------------------------------------------------
(* The theorems *)

\* An empty queue satisfies the invariant.
LEMMA InitIInv == Init => IInv
<1> SUFFICES ASSUME Init PROVE IInv
  OBVIOUS
<1>1. /\ \A t \in Task : tasks[t].state = "none"
      /\ \A r \in Run : runs[r].state = "none"
  BY DEF Init, NoTask, NoRun
<1>2. OtherTablesTyped
  BY DEF Init, OtherTablesTyped
<1>3. TablesTyped(tasks, runs)
  BY DEF Init, TablesTyped, Absent
<1>4. /\ TaskRunsAgreeIn(tasks, runs)
      /\ EarlierAttemptsFailedIn(tasks, runs)
      /\ AttemptsDistinctIn(runs)
  BY <1>1 DEF TaskRunsAgreeIn, EarlierAttemptsFailedIn, AttemptsDistinctIn, HasRow, Absent
<1> QED BY <1>2, <1>3, <1>4, IInvParts DEF Consistent

\* Every step preserves the invariant.
LEMMA NextIInv == IInv /\ [Next]_vars => IInv'
<1> SUFFICES ASSUME IInv, [Next]_vars PROVE IInv'
  OBVIOUS
<1>1. CASE ClientNext
  <2>1. ASSUME NEW t \in Task, NEW r \in Run, NEW opt \in Options, SpawnTask(t, r, opt)
        PROVE  IInv'
    BY <2>1, SpawnTaskInductive, InputAssumption
  <2>2. ASSUME NEW t \in Task, CancelTask(t)
        PROVE  IInv'
    BY <2>2, CancelTaskInductive
  <2>3. ASSUME NEW t \in Task, NEW r \in Run, NEW limit \in RetryMax, RetryTask(t, r, limit)
        PROVE  IInv'
    BY <2>3, RetryTaskInductive
  <2>4. ASSUME NEW t \in Task, NEW u \in Task, NEW r \in Run, NEW limit \in RetryMax,
               RetryAsNewTask(t, u, r, limit)
        PROVE  IInv'
    BY <2>4, RetryAsNewTaskInductive
  <2>5. ASSUME NEW e \in Event, NEW p \in Payload, EmitEvent(e, p)
        PROVE  IInv'
    BY <2>5, EmitEventInductive
  <2> QED BY <1>1, <2>1, <2>2, <2>3, <2>4, <2>5 DEF ClientNext
<1>2. CASE WorkerNext
  <2>1. ASSUME NEW timeout \in ClaimTimeout, NEW qty \in ClaimQty, ClaimTask(timeout, qty)
        PROVE  IInv'
    BY <2>1, ClaimTaskInductive
  <2>2. ASSUME NEW r \in Run, CompleteRun(r)
        PROVE  IInv'
    BY <2>2, CompleteRunInductive
  <2>3. ASSUME NEW r \in Run, NEW at \in WakeAt, ScheduleRun(r, at)
        PROVE  IInv'
    BY <2>3, ScheduleRunInductive
  <2>4. ASSUME NEW r \in Run, NEW at \in RetryAt, FailRun(r, at)
        PROVE  IInv'
    BY <2>4, FailRunInductive
  <2>5. ASSUME NEW r \in Run, NEW s \in BodyStep, NEW p \in Payload,
               NEW by \in ExtendBy \cup {0}, SetCheckpoint(r, s, p, by)
        PROVE  IInv'
    BY <2>5, SetCheckpointInductive
  <2>6. ASSUME NEW r \in Run, NEW by \in ExtendBy, ExtendClaim(r, by)
        PROVE  IInv'
    BY <2>6, ExtendClaimInductive
  <2>7. ASSUME NEW r \in Run, NEW s \in AwaitStep, NEW e \in Event, AwaitResolved(r, s, e)
        PROVE  IInv'
    BY <2>7, AwaitResolvedInductive
  <2>8. ASSUME NEW r \in Run, NEW s \in AwaitStep, NEW e \in Event, AwaitTimedOut(r, s, e)
        PROVE  IInv'
    BY <2>8, AwaitTimedOutInductive
  <2>9. ASSUME NEW r \in Run, NEW s \in AwaitStep, NEW e \in Event,
               NEW timeout \in AwaitTimeout, AwaitParks(r, s, e, timeout)
        PROVE  IInv'
    BY <2>9, AwaitParksInductive
  <2> QED BY <1>2, <2>1, <2>2, <2>3, <2>4, <2>5, <2>6, <2>7, <2>8, <2>9 DEF WorkerNext
<1>3. CASE CleanupNext
  BY <1>3, CleanupTasksInductive, CleanupEventsInductive DEF CleanupNext
<1>4. CASE Tick
  BY <1>4, TickInductive
<1>5. CASE UNCHANGED vars
  BY <1>5 DEF vars, IInv, TypeOK
<1> QED BY <1>1, <1>2, <1>3, <1>4, <1>5 DEF Next

\* Every reachable state of the queue, for any number of tasks, runs, events and
\* workers, satisfies the invariant.
THEOREM QueueIInv == Spec => []IInv
BY InitIInv, NextIInv, PTL DEF Spec

\* Every procedure leaves whole rows in every table.
THEOREM QueueTypeOK == Spec => []TypeOK
<1>1. IInv => TypeOK
  BY DEF IInv
<1> QED BY <1>1, QueueIInv, PTL

\* A task and the run last_attempt_run names are always in the same state and
\* attempt, through claims, sweeps, retries, wake-ups and cancellations.
THEOREM QueueTaskRunsAgree == Spec => []TaskRunsAgree
<1>1. IInv => TaskRunsAgree
  BY DEF IInv, Consistent, TaskRunsAgree
<1> QED BY <1>1, QueueIInv, PTL

\* A task never has two live runs: all but the last one failed.
THEOREM QueueEarlierAttemptsFailed == Spec => []EarlierAttemptsFailed
<1>1. IInv => EarlierAttemptsFailed
  BY DEF IInv, Consistent, EarlierAttemptsFailed
<1> QED BY <1>1, QueueIInv, PTL

\* The runs of a task have different attempt numbers.
THEOREM QueueAttemptsDistinct == Spec => []AttemptsDistinct
<1>1. IInv => AttemptsDistinct
  BY DEF IInv, Consistent, AttemptsDistinct
<1> QED BY <1>1, QueueIInv, PTL

-----------------------------------------------------------------------------
(* Part 2.  AbsurdQueue implements TaskLifecycle, and starts no overdue     *)
(* task.  A procedure rewrites whole tables, so a step is shown row by row: *)
(* what one transaction may make of a task's row is Becomes, which          *)
(* claim_task reaches in three stages.                                      *)

Moves(a, b, from, to) ==
  a \in TaskRow /\ b \in TaskRow /\ a.state \in from /\ b.state \in to

SameAttempt(a, b) == b.attempts = a.attempts /\ b.opt.maxAttempts = a.opt.maxAttempts

\* A claim, a suspension, a wake-up, a completion: the attempt goes on.
Started(a, b) == Moves(a, b, {"pending", "sleeping"}, {"running"}) /\ SameAttempt(a, b)
Cancelled(a, b) == Moves(a, b, Live, {"cancelled"}) /\ SameAttempt(a, b)
WentOn(a, b) ==
  /\ \/ Moves(a, b, {"running"}, {"sleeping"})
     \/ Moves(a, b, {"running"}, {"completed"})
     \/ Moves(a, b, {"sleeping"}, {"pending"})
  /\ SameAttempt(a, b)

\* A failure: another attempt, or the end of a task that has no more.
Retried(a, b) ==
  /\ Moves(a, b, {"running", "sleeping"}, Live)
  /\ b.attempts = a.attempts + 1
  /\ b.opt.maxAttempts = a.opt.maxAttempts
  /\ a.opt.maxAttempts # Null => b.attempts <= a.opt.maxAttempts
GivenUp(a, b) ==
  /\ Moves(a, b, {"running", "sleeping"}, {"failed"})
  /\ SameAttempt(a, b)
  /\ a.opt.maxAttempts # Null /\ a.attempts >= a.opt.maxAttempts

Spawned(a, b) ==
  a = NoTask("none") /\ b \in TaskRow /\ b.state = "pending" /\ b.attempts = 1
Reopened(a, b) ==
  /\ Moves(a, b, {"failed"}, {"pending"})
  /\ b.attempts = a.attempts + 1
  /\ b.opt.maxAttempts # Null /\ b.attempts <= b.opt.maxAttempts
Forgotten(a, b) == a \in TaskRow /\ a.state \in Ended /\ b = NoTask("deleted")

\* What one transaction may make of a task's row.
Becomes(a, b) ==
  \/ b = a
  \/ Started(a, b) \/ Cancelled(a, b) \/ WentOn(a, b)
  \/ Retried(a, b) \/ GivenUp(a, b)
  \/ Spawned(a, b) \/ Reopened(a, b) \/ Forgotten(a, b)

-----------------------------------------------------------------------------
(* From rows to the lifecycle *)

\* The refinement mapping, row by row.
LEMMA MappedRow ==
  ASSUME NEW t \in Task
  PROVE  /\ [u \in Task |-> tasks[u].state][t] = tasks[t].state
         /\ [u \in Task |-> tasks[u].attempts][t] = tasks[t].attempts
         /\ [u \in Task |-> LimitOf(u)][t] = LimitOf(t)
         /\ [u \in Task |-> tasks'[u].state][t] = tasks'[t].state
         /\ [u \in Task |-> tasks'[u].attempts][t] = tasks'[t].attempts
         /\ [u \in Task |-> LimitOf(u)'][t] = LimitOf(t)'
OBVIOUS

\* A row that becomes another as above makes a move of TaskLifecycle, or none.
LEMMA BecomesIsMove ==
  ASSUME NEW t \in Task, Becomes(tasks[t], tasks'[t])
  PROVE  \/ Lifecycle!Move(t)
         \/ [u \in Task |-> tasks[u].state]'[t] = [u \in Task |-> tasks[u].state][t]
            /\ Lifecycle!SameAttempt(t)
<1> DEFINE a == tasks[t]
           b == tasks'[t]
<1> USE MappedRow DEF Lifecycle!Goes, Lifecycle!SameAttempt, Lifecycle!Live
<1>1. \A c \in TaskRow : HasRow(c) /\ c.attempts \in Nat /\ c.opt.maxAttempts \in Nat \cup {Null}
  BY DEF TaskRow, HasRow, Absent, Live, Ended, OptionRow
<1>2. CASE b = a
  BY <1>2 DEF LimitOf
<1>3. CASE Started(a, b)
  BY <1>1, <1>3 DEF LimitOf, Moves, SameAttempt, Started, Lifecycle!Start, Lifecycle!Move
<1>4. CASE Cancelled(a, b)
  BY <1>1, <1>4 DEF LimitOf, Moves, SameAttempt, Cancelled, Lifecycle!Cancel,
     Lifecycle!Move, Live
<1>5. CASE WentOn(a, b)
  BY <1>1, <1>5 DEF LimitOf, Moves, SameAttempt, WentOn, Lifecycle!Suspend,
     Lifecycle!WakeUp, Lifecycle!Complete, Lifecycle!Move, Live
<1>6. CASE Retried(a, b)
  BY <1>1, <1>6 DEF LimitOf, Moves, Retried, Lifecycle!NextAttempt, Lifecycle!Move, Live
<1>7. CASE GivenUp(a, b)
  BY <1>1, <1>7 DEF LimitOf, Moves, SameAttempt, GivenUp, Lifecycle!GiveUp,
     Lifecycle!Move, Live
<1>8. CASE Spawned(a, b)
  BY <1>1, <1>8 DEF Spawned, NoTask, Lifecycle!Enqueue, Lifecycle!Move
<1>9. CASE Reopened(a, b)
  BY <1>1, <1>9 DEF LimitOf, Moves, Reopened, Lifecycle!Reopen, Lifecycle!Move
<1>10. CASE Forgotten(a, b)
  BY <1>1, <1>10 DEF Forgotten, NoTask, Lifecycle!Forget, Lifecycle!Move, Ended
<1> QED BY <1>2, <1>3, <1>4, <1>5, <1>6, <1>7, <1>8, <1>9, <1>10 DEF Becomes

\* A step that treats each task's row as above is a step of TaskLifecycle.
LEMMA RowsMakeLifecycle ==
  ASSUME \A t \in Task : Becomes(tasks[t], tasks'[t])
  PROVE  Lifecycle!Next
<1> SUFFICES ASSUME NEW t \in Task
             PROVE  \/ Lifecycle!Move(t)
                    \/ [u \in Task |-> tasks[u].state]'[t] = [u \in Task |-> tasks[u].state][t]
                       /\ Lifecycle!SameAttempt(t)
  BY DEF Lifecycle!Next
<1> QED BY BecomesIsMove

-----------------------------------------------------------------------------
(* The stages of claim_task *)

\* Cancelling live tasks, row by row.
LEMMA CancelRows ==
  ASSUME NEW tk, NEW rn, Consistent(tk, rn), now \in Nat,
         NEW S \in SUBSET Task, \A t \in S : tk[t].state \in Live
  PROVE  \A t \in Task : LET b == CancelTasks(tk, S)[t] IN
           IF t \in S THEN Cancelled(tk[t], b) ELSE b = tk[t]
<1> SUFFICES ASSUME NEW t \in Task
             PROVE  IF t \in S THEN Cancelled(tk[t], CancelTasks(tk, S)[t])
                               ELSE CancelTasks(tk, S)[t] = tk[t]
  OBVIOUS
<1>1. CASE t \in S
  <2>1. tk[t] \in TaskRow
    BY <1>1, TaskRowPresent DEF Consistent, HasRow, Live, Absent
  <2>2. CancelTasks(tk, S)[t] = CancelledTask(tk[t])
    BY <1>1 DEF CancelTasks
  <2> QED BY <1>1, <2>1, <2>2, CancelledTaskRow DEF Cancelled, Moves, SameAttempt
<1>2. CASE t \notin S
  BY <1>2 DEF CancelTasks
<1> QED BY <1>1, <1>2

\* What a failure makes of the task of a run that is its last.
Failed(a, b) ==
  \/ Retried(a, b) /\ b.state \in {"pending", "sleeping"}
  \/ GivenUp(a, b)
  \/ Cancelled(a, b)

\* A retry is an attempt more, and within max_attempts.
LEMMA RetriedIsRetried ==
  ASSUME now \in Nat, NEW task \in TaskRow, NEW run \in RunRow, NEW new \in Run,
         NEW retryAt \in Nat \cup {Null}, task.state \in {"running", "sleeping"},
         AfterFailure(task, run, retryAt) \in Live, task.attempts = run.attempt
  PROVE  Failed(task, RetriedTask(task, run, new, retryAt))
<1>1. AfterFailure(task, run, retryAt) \in {"pending", "sleeping"}
  BY AfterFailureState DEF Live
<1>2. task.opt.maxAttempts # Null => run.attempt + 1 <= task.opt.maxAttempts
  BY <1>1 DEF AfterFailure, AttemptsLeft
<1> HIDE DEF RetriedTask, AfterFailure
<1> QED BY <1>1, <1>2, RetriedRows DEF Failed, Retried, Moves, Live

\* A failure without a retry ends the task: its attempts are spent, or its
\* deadline comes before the retry.
LEMMA FailedIsFinal ==
  ASSUME now \in Nat, NEW task \in TaskRow, NEW run \in RunRow, NEW r \in Run,
         NEW retryAt \in Nat \cup {Null}, task.state \in {"running", "sleeping"},
         AfterFailure(task, run, retryAt) \notin Live, task.attempts = run.attempt
  PROVE  Failed(task, FailedTask(task, run, r, retryAt))
<1>1. task.attempts \in Nat /\ task.opt.maxAttempts \in Nat \cup {Null}
  BY DEF TaskRow, OptionRow
<1>2. FailedTask(task, run, r, retryAt).state = AfterFailure(task, run, retryAt)
  BY DEF FailedTask, TaskRow
<1>3. CASE AfterFailure(task, run, retryAt) = "failed"
  <2>1. task.opt.maxAttempts # Null /\ ~(run.attempt + 1 <= task.opt.maxAttempts)
    BY <1>3 DEF AfterFailure, AttemptsLeft
  <2> HIDE DEF AfterFailure, FailedTask
  <2> QED BY <1>1, <1>2, <1>3, <2>1, FailedTaskRow DEF Failed, GivenUp, Moves, SameAttempt
<1>4. CASE AfterFailure(task, run, retryAt) # "failed"
  <2>1. AfterFailure(task, run, retryAt) = "cancelled"
    BY <1>4, AfterFailureState DEF Live
  <2> HIDE DEF AfterFailure, FailedTask
  <2> QED BY <1>2, <2>1, FailedTaskRow DEF Failed, Cancelled, Moves, SameAttempt, Live
<1> QED BY <1>3, <1>4

\* Failing runs, row by row: only tasks in the state of a failing run change.
LEMMA FailRows ==
  ASSUME NEW tk, NEW rn, Consistent(tk, rn), now \in Nat,
         NEW S \in SUBSET Run, \A r \in S : rn[r].state \in {"running", "sleeping"},
         NEW retryAt \in Nat \cup {Null},
         NEW fresh \in FreshIds({r \in S : Retries(tk, rn, r, retryAt)}, rn),
         NEW t \in Task
  PROVE  LET b == FailTasks(tk, rn, S, fresh, retryAt)[t] IN b = tk[t] \/ Failed(tk[t], b)
<1> DEFINE b == FailTasks(tk, rn, S, fresh, retryAt)[t]
           R == {r \in S : Retries(tk, rn, r, retryAt)}
<1>1. CASE t \notin {rn[r].task : r \in S}
  BY <1>1 DEF FailTasks
<1>2. CASE \E r \in S : rn[r].task = t
  <2>1. PICK r \in S : rn[r].task = t
    BY <1>2
  <2>2. \A q \in S : /\ q \in Run /\ rn[q] \in RunRow
                     /\ rn[q].task = t => /\ tk[t] \in TaskRow
                                          /\ tk[t].lastRun = q
                                          /\ tk[t].attempts = rn[q].attempt
                                          /\ tk[t].state = rn[q].state
    <3> TAKE q \in S
    <3>1. HasRow(rn[q]) /\ rn[q].state # "failed" /\ rn[q].state # "cancelled"
      BY DEF HasRow, Absent
    <3> QED BY <3>1, UnfailedRunIsLast
  <2>3. RunOf(t, S, rn) = r
    BY <2>1, <2>2 DEF RunOf
  <2>4. DOMAIN fresh = R /\ \A q \in R : fresh[q] \in Run
    BY DEF FreshIds, Injection
  <2>5. b = IF r \in R THEN RetriedTask(tk[t], rn[r], fresh[r], retryAt)
                       ELSE FailedTask(tk[t], rn[r], r, retryAt)
    BY <2>1, <2>3, <2>4 DEF FailTasks
  <2>6. r \in R <=> AfterFailure(tk[t], rn[r], retryAt) \in Live
    BY <2>1 DEF Retries
  <2>7. tk[t].state \in {"running", "sleeping"}
    BY <2>1, <2>2
  <2> HIDE DEF R, b
  <2>8. CASE r \in R
    <3>1. b = RetriedTask(tk[t], rn[r], fresh[r], retryAt) /\ fresh[r] \in Run
      BY <2>4, <2>5, <2>8 DEF b
    <3> QED BY <3>1, <2>1, <2>2, <2>6, <2>7, <2>8, RetriedIsRetried DEF b
  <2>9. CASE r \notin R
    BY <2>1, <2>2, <2>5, <2>6, <2>7, <2>9, FailedIsFinal DEF b
  <2> QED BY <2>8, <2>9 DEF b
<1> QED BY <1>1, <1>2

\* Claiming runs, row by row.
LEMMA StartRows ==
  ASSUME NEW tk, NEW rn, Consistent(tk, rn), now \in Nat,
         NEW S \in SUBSET Run, \A r \in S : rn[r].state \in {"pending", "sleeping"},
         NEW t \in Task
  PROVE  LET b == StartTasks(tk, rn, S)[t] IN b = tk[t] \/ Started(tk[t], b)
<1>1. CASE t \notin {rn[r].task : r \in S}
  BY <1>1 DEF StartTasks
<1>2. CASE \E r \in S : rn[r].task = t
  <2>1. PICK r \in S : rn[r].task = t
    BY <1>2
  <2>2. \A q \in S : /\ q \in Run /\ rn[q] \in RunRow
                     /\ rn[q].task = t => /\ tk[t] \in TaskRow
                                          /\ tk[t].lastRun = q
                                          /\ tk[t].attempts = rn[q].attempt
                                          /\ tk[t].state = rn[q].state
    <3> TAKE q \in S
    <3>1. HasRow(rn[q]) /\ rn[q].state # "failed" /\ rn[q].state # "cancelled"
      BY DEF HasRow, Absent
    <3> QED BY <3>1, UnfailedRunIsLast
  <2>3. RunOf(t, S, rn) = r
    BY <2>1, <2>2 DEF RunOf
  <2>4. StartTasks(tk, rn, S)[t] = StartedTask(tk[t], rn[r], r)
    BY <2>1, <2>3 DEF StartTasks
  <2> HIDE DEF StartTasks, StartedTask
  <2> QED BY <2>1, <2>2, <2>4, StartedRows DEF Started, Moves, SameAttempt
<1> QED BY <1>1, <1>2

\* The three stages together are one move: a task that is cancelled for its
\* deadline is neither failed nor started, and one that failed for good is not
\* started.
LEMMA StagesCompose ==
  ASSUME NEW a, NEW b, NEW c, NEW d,
         b = a \/ Cancelled(a, b), c = b \/ Failed(b, c), d = c \/ Started(c, d)
  PROVE  Becomes(a, d)
<1>1. CASE b = a /\ c = b
  BY <1>1 DEF Becomes
<1>2. CASE Cancelled(a, b)
  BY <1>2 DEF Becomes, Cancelled, Failed, Retried, GivenUp, Started, Moves, Live
<1>3. CASE b = a /\ Failed(b, c) /\ d = c
  BY <1>3 DEF Becomes, Failed
<1>4. CASE b = a /\ Failed(b, c) /\ Started(c, d)
  BY <1>4 DEF Becomes, Failed, Retried, GivenUp, Cancelled, Started, Moves,
     SameAttempt, Live
<1> QED BY <1>1, <1>2, <1>3, <1>4

-----------------------------------------------------------------------------
(* The procedures *)

\* No run begins: only claim_task makes a run running.
NothingStarts ==
  \A r \in Run : runs'[r].state = "running" => runs[r].state = "running"

LifeStep == (\A t \in Task : Becomes(tasks[t], tasks'[t])) /\ OverdueNeverStarts

\* Where nothing starts, nothing overdue does.
LEMMA NothingOverdueStarts ==
  ASSUME NothingStarts, \A t \in Task : Becomes(tasks[t], tasks'[t])
  PROVE  LifeStep
BY DEF NothingStarts, LifeStep, OverdueNeverStarts

\* claim_task makes one move of each task, and starts no overdue one.
LEMMA ClaimTaskLife ==
  ASSUME IInv, NEW timeout \in ClaimTimeout, NEW qty \in ClaimQty, ClaimTask(timeout, qty)
  PROVE  LifeStep
<1> DEFINE doomed == {t \in Task : Overdue(tasks[t])}
           tk1 == CancelTasks(tasks, doomed)
           rn1 == CancelRuns(runs, doomed)
<1>1. OtherTablesTyped /\ Consistent(tasks, runs)
  BY IInvParts
<1>2. timeout \in Nat /\ now \in Nat
  BY <1>1, InputAssumption DEF OtherTablesTyped
<1>3. /\ Consistent(tk1, rn1)
      /\ \A t \in Task : IF t \in doomed THEN Cancelled(tasks[t], tk1[t]) ELSE tk1[t] = tasks[t]
  <2>1. doomed \in SUBSET Task /\ \A t \in doomed : tasks[t].state \in Live
    BY DEF Overdue
  <2> HIDE DEF doomed
  <2> QED BY <1>1, <1>2, <2>1, CancelConsistent, CancelRows
<1>0. \A r \in Run : rn1[r].state = "running" => rn1[r] = runs[r]
  BY DEF CancelRuns, CancelledRun
<1> HIDE DEF tk1, rn1
<1>4. PICK swept \in Batches({r \in Run : LeaseExpired(rn1[r])}, qty) :
      \E fresh \in FreshIds({r \in swept : Retries(tk1, rn1, r, Null)}, rn1) :
        LET tk2 == FailTasks(tk1, rn1, swept, fresh, Null)
            rn2 == FailRuns(tk1, rn1, swept, fresh, Null)
        IN \E taken \in Batches({r \in Run : Claimable(tk2, rn2[r])}, qty) :
             /\ tasks' = StartTasks(tk2, rn2, taken)
             /\ runs' = StartRuns(rn2, taken, timeout)
  BY DEF ClaimTask, tk1, rn1
<1>5. PICK fresh \in FreshIds({r \in swept : Retries(tk1, rn1, r, Null)}, rn1) :
        LET tk2 == FailTasks(tk1, rn1, swept, fresh, Null)
            rn2 == FailRuns(tk1, rn1, swept, fresh, Null)
        IN \E taken \in Batches({r \in Run : Claimable(tk2, rn2[r])}, qty) :
             /\ tasks' = StartTasks(tk2, rn2, taken)
             /\ runs' = StartRuns(rn2, taken, timeout)
  BY <1>4
<1> DEFINE tk2 == FailTasks(tk1, rn1, swept, fresh, Null)
           rn2 == FailRuns(tk1, rn1, swept, fresh, Null)
<1>6. swept \in SUBSET Run /\ \A r \in swept : rn1[r].state \in {"running", "sleeping"}
  BY DEF Batches, LeaseExpired
<1>7. /\ Consistent(tk2, rn2)
      /\ \A t \in Task : tk2[t] = tk1[t] \/ Failed(tk1[t], tk2[t])
  BY <1>2, <1>3, <1>6, FailConsistent, FailRows
<1> HIDE DEF tk2, rn2
<1>8. PICK taken \in Batches({r \in Run : Claimable(tk2, rn2[r])}, qty) :
        /\ tasks' = StartTasks(tk2, rn2, taken)
        /\ runs' = StartRuns(rn2, taken, timeout)
  BY <1>5 DEF tk2, rn2
<1>9. taken \in SUBSET Run /\ \A r \in taken : rn2[r].state \in {"pending", "sleeping"}
  BY DEF Batches, Claimable
<1>10. \A t \in Task : tasks'[t] = tk2[t] \/ Started(tk2[t], tasks'[t])
  BY <1>2, <1>7, <1>8, <1>9, StartRows
<1>11. \A t \in Task : Becomes(tasks[t], tasks'[t])
  <2> TAKE t \in Task
  <2>1. tk1[t] = tasks[t] \/ Cancelled(tasks[t], tk1[t])
    BY <1>3
  <2>2. tk2[t] = tk1[t] \/ Failed(tk1[t], tk2[t])
    BY <1>7
  <2> QED BY <2>1, <2>2, <1>10, StagesCompose
\* Only a claimed run starts, and the cancellation left its task alone.
<1>12. OverdueNeverStarts
  <2> SUFFICES ASSUME NEW r \in Run, runs[r].state # "running", runs'[r].state = "running"
               PROVE  LET task == tasks[runs'[r].task] IN
                      /\ task.firstStarted = Null /\ task.opt.maxDelay # Null
                           => now < task.enqueueAt + task.opt.maxDelay
                      /\ task.firstStarted # Null /\ task.opt.maxDuration # Null
                           => now < task.firstStarted + task.opt.maxDuration
    BY DEF OverdueNeverStarts
  <2>1. rn1[r].state # "running"
    BY <1>0
  <2>2. rn2[r].state # "running"
    <3>1. \A task, run : AfterFailure(task, run, Null) # "running"
      BY DEF AfterFailure
    <3>2. \A task, run : RetryRun(task, run, Null).state # "running"
      BY <3>1 DEF RetryRun, NewRun
    <3>3. CASE r \in swept
      <4>1. rn1[r] \in RunRow
        BY <1>3, <1>6, <3>3, RunRowPresent DEF Consistent, HasRow, Absent
      <4> QED BY <1>2, <3>3, <4>1, FailedRunRow DEF rn2, FailRuns
    <3>4. CASE r \notin swept
      BY <2>1, <3>2, <3>4 DEF rn2, FailRuns
    <3> QED BY <3>3, <3>4
  <2>3. r \in taken
    BY <1>8, <2>2 DEF StartRuns
  <2> DEFINE t == rn2[r].task
  <2>4. /\ rn2[r].state \in {"pending", "sleeping"} /\ t \in Task
        /\ tk2[t].state \in Live /\ runs'[r].task = t
    <3>1. rn2[r].state \in {"pending", "sleeping"} /\ tk2[t].state \in Live
      BY <2>3 DEF Batches, Claimable
    <3>2. rn2[r] \in RunRow /\ t \in Task
      BY <3>1, <1>7, UnfailedRunIsLast DEF HasRow, Absent
    <3>3. runs'[r].task = t
      BY <1>8, <2>3, <3>2 DEF StartRuns, StartedRun, RunRow
    <3> QED BY <3>1, <3>2, <3>3
  <2> HIDE DEF t
  <2>5. tk1[t].state \in Live
    BY <2>4, <1>7 DEF Failed, Retried, GivenUp, Cancelled, Moves, Live
  <2>6. t \notin doomed /\ tasks[t].state \in Live
    <3>1. t \notin doomed
      BY <2>4, <2>5, <1>3 DEF Cancelled, Moves, Live
    <3> QED BY <3>1, <2>4, <2>5, <1>3
  <2>7. ~Overdue(tasks[t])
    BY <2>4, <2>6
  <2>8. tasks[t] \in TaskRow
    BY <1>1, <2>4, <2>6, TaskRowPresent DEF Consistent, HasRow, Live, Absent
  <2>9. /\ tasks[t].enqueueAt \in Nat /\ tasks[t].enqueueAt # Null
        /\ tasks[t].firstStarted \in Nat \cup {Null}
        /\ tasks[t].opt.maxDelay \in Nat \cup {Null}
        /\ tasks[t].opt.maxDuration \in Nat \cup {Null}
    BY <2>8, NullAssumption DEF TaskRow, OptionRow
  <2> QED BY <2>4, <2>6, <2>7, <2>9, <1>2 DEF Overdue, Elapsed
<1> QED BY <1>11, <1>12 DEF LifeStep

\* spawn_task enqueues the task at its first attempt.
LEMMA SpawnTaskLife ==
  ASSUME IInv, NEW t \in Task, NEW r \in Run, NEW opt \in OptionRow, SpawnTask(t, r, opt)
  PROVE  LifeStep
<1>1. OtherTablesTyped /\ TablesTyped(tasks, runs)
  BY IInvParts DEF Consistent
<1>2. tasks[t] = NoTask("none")
  BY <1>1 DEF SpawnTask, TablesTyped, TaskRow, Live, Ended, NoTask
<1>3. NewTask(opt, r) \in TaskRow
  BY <1>1 DEF NewTask, TaskRow, Live, OtherTablesTyped
<1>4. tasks'[t] = NewTask(opt, r) /\ \A u \in Task \ {t} : tasks'[u] = tasks[u]
  BY <1>1 DEF SpawnTask, TablesTyped
<1>5. Spawned(tasks[t], tasks'[t])
  BY <1>2, <1>3, <1>4 DEF Spawned, NewTask
<1>6. NothingStarts
  BY <1>1 DEF SpawnTask, TablesTyped, NewRun, NothingStarts
<1> QED BY <1>4, <1>5, <1>6, NothingOverdueStarts DEF Becomes

\* retry_task that spawns a new task does as spawn_task does.
LEMMA RetryAsNewTaskLife ==
  ASSUME IInv, NEW t \in Task, NEW u \in Task, NEW r \in Run, NEW requested \in RetryMax,
         RetryAsNewTask(t, u, r, requested)
  PROVE  LifeStep
<1> DEFINE opt == [tasks[t].opt EXCEPT
                    !.key = Null,
                    !.maxAttempts = IF requested = Null THEN @ ELSE requested]
<1>1. tasks[t] \in TaskRow
  BY TaskRowPresent DEF RetryAsNewTask, HasRow, Absent, IInv, TypeOK
<1>2. opt \in OptionRow
  BY <1>1, InputAssumption DEF TaskRow, OptionRow
<1>3. SpawnTask(u, r, opt)
  BY DEF RetryAsNewTask
<1> HIDE DEF opt
<1> QED BY <1>2, <1>3, SpawnTaskLife

\* retry_task in place reopens the task with room for one attempt more.
LEMMA RetryTaskLife ==
  ASSUME IInv, NEW t \in Task, NEW r \in Run, NEW requested \in RetryMax,
         RetryTask(t, r, requested)
  PROVE  LifeStep
<1> DEFINE n == tasks[t].attempts + 1
           limit == NewLimit(tasks[t], requested)
<1>1. IInv' /\ TablesTyped(tasks, runs)
  BY RetryTaskInductive DEF IInv, Consistent
<1>2. tasks[t] \in TaskRow /\ tasks[t].state = "failed"
  BY <1>1, TaskRowPresent DEF RetryTask, HasRow, Absent
<1>3. limit \in Nat /\ limit > tasks[t].attempts /\ tasks[t].attempts \in Nat
  BY <1>2, InputAssumption DEF RetryTask, NewLimit, TaskRow, OptionRow
<1>4. tasks[t].opt \in OptionRow
  BY <1>2 DEF TaskRow
<1>5. tasks'[t] = [tasks[t] EXCEPT !.state = "pending", !.attempts = n,
                     !.opt = [tasks[t].opt EXCEPT !.maxAttempts = limit],
                     !.lastRun = r, !.cancelledAt = Null]
  BY <1>1, <1>2 DEF RetryTask, TablesTyped, TaskRow
<1> HIDE DEF limit
<1>6. /\ tasks'[t].state = "pending" /\ tasks'[t].attempts = n
      /\ tasks'[t].opt.maxAttempts = limit
  BY <1>2, <1>4, <1>5 DEF TaskRow, OptionRow
<1>7. tasks'[t] \in TaskRow
  BY <1>1, <1>6, TaskRowPresent DEF IInv, Consistent, TypeOK, TablesTyped, HasRow,
     Absent, NoTask
<1>8. limit # Null /\ n <= limit
  BY <1>3, NullAssumption
<1>9. Reopened(tasks[t], tasks'[t])
  BY <1>2, <1>6, <1>7, <1>8 DEF Reopened, Moves
<1>10. \A u \in Task \ {t} : tasks'[u] = tasks[u]
  BY <1>1 DEF RetryTask, TablesTyped
<1>11. NothingStarts
  BY <1>1 DEF RetryTask, TablesTyped, NewRun, NothingStarts
<1> QED BY <1>9, <1>10, <1>11, NothingOverdueStarts DEF Becomes

\* cancel_task ends a live task.
LEMMA CancelTaskLife ==
  ASSUME IInv, NEW t \in Task, CancelTask(t)
  PROVE  LifeStep
<1>1. now \in Nat /\ Consistent(tasks, runs)
  BY IInvParts DEF OtherTablesTyped
<1>2. \A u \in Task : tasks'[u] = tasks[u] \/ Cancelled(tasks[u], tasks'[u])
  BY <1>1, CancelRows DEF CancelTask
<1>3. \A r \in Run : HasRow(runs[r]) => CancelledRun(runs[r]).state = "cancelled"
  BY <1>1, RunRowPresent, CancelledRunRow DEF Consistent
<1>4. NothingStarts
  BY <1>3 DEF CancelTask, CancelRuns, NothingStarts, HasRow, Live, Absent
<1> QED BY <1>2, <1>4, NothingOverdueStarts DEF Becomes

\* fail_run queues another attempt or ends the task.
LEMMA FailRunLife ==
  ASSUME IInv, NEW r \in Run, NEW retryAt \in RetryAt, FailRun(r, retryAt)
  PROVE  LifeStep
<1>1. now \in Nat /\ Consistent(tasks, runs) /\ retryAt \in Nat \cup {Null}
  BY IInvParts, InputAssumption DEF OtherTablesTyped
<1>2. PICK fresh \in FreshIds({x \in {r} : Retries(tasks, runs, x, retryAt)}, runs) :
        /\ tasks' = FailTasks(tasks, runs, {r}, fresh, retryAt)
        /\ runs' = FailRuns(tasks, runs, {r}, fresh, retryAt)
  BY DEF FailRun
<1>3. runs[r].state \in {"running", "sleeping"} /\ runs[r] \in RunRow
  BY <1>1, RunRowPresent DEF FailRun, Consistent, HasRow, Absent
<1>4. \A t \in Task : tasks'[t] = tasks[t] \/ Failed(tasks[t], tasks'[t])
  BY <1>1, <1>2, <1>3, FailRows
<1>5. NothingStarts
  <2>1. \A task, run : RetryRun(task, run, retryAt).state # "running"
    BY DEF RetryRun, NewRun, AfterFailure
  <2> QED BY <1>1, <1>2, <1>3, <2>1, FailedRunRow DEF FailRuns, NothingStarts
<1> QED BY <1>4, <1>5, NothingOverdueStarts DEF Becomes, Failed

\* A call of a run's holder that moves the run and its task on together.
LEMMA HolderLife ==
  ASSUME IInv, NEW r \in Run, runs[r].state = "running",
         NEW task \in TaskRow, task.state \in {"completed", "sleeping"},
         SameAttempt(tasks[runs[r].task], task),
         tasks' = [tasks EXCEPT ![runs[r].task] = task],
         NEW run, run.state = task.state, runs' = [runs EXCEPT ![r] = run]
  PROVE  LifeStep
<1> DEFINE old == tasks[runs[r].task]
<1>1. /\ TablesTyped(tasks, runs) /\ runs[r].task \in Task
      /\ old \in TaskRow /\ old.state = "running"
  <2>1. Consistent(tasks, runs) /\ HasRow(runs[r])
    BY DEF IInv, HasRow, Absent
  <2> QED BY <2>1, UnfailedRunIsLast DEF Consistent
<1> HIDE DEF old
<1>2. WentOn(old, task)
  BY <1>1 DEF WentOn, Moves, old
<1>3. NothingStarts
  BY <1>1 DEF NothingStarts, TablesTyped
<1>4. \A t \in Task : Becomes(tasks[t], tasks'[t])
  BY <1>1, <1>2 DEF Becomes, TablesTyped, old
<1> QED BY <1>3, <1>4, NothingOverdueStarts

\* A call that leaves the tasks alone and every run in its state.
LEMMA TasksUntouched ==
  ASSUME tasks' = tasks, \A r \in Run : runs'[r].state = runs[r].state
  PROVE  LifeStep
BY NothingOverdueStarts DEF NothingStarts, Becomes

\* complete_run completes the task.
LEMMA CompleteRunLife ==
  ASSUME IInv, NEW r \in Run, CompleteRun(r)
  PROVE  LifeStep
<1> DEFINE run == [runs[r] EXCEPT !.state = "completed", !.endedAt = now]
           old == tasks[runs[r].task]
           task == [old EXCEPT !.state = "completed", !.lastRun = r]
<1>1. runs[r].state = "running"
  BY DEF CompleteRun, MayFinish
<1>2. runs[r] \in RunRow /\ old \in TaskRow
  BY <1>1, RunningRun
<1>3. run.state = "completed"
  BY <1>2 DEF RunRow
<1>4. task \in TaskRow /\ task.state = "completed" /\ SameAttempt(old, task)
  <2> HIDE DEF old
  <2> QED BY <1>2 DEF TaskRow, Ended, SameAttempt
<1>5. /\ runs' = [runs EXCEPT ![r] = run]
      /\ tasks' = [tasks EXCEPT ![runs[r].task] = task]
  BY DEF CompleteRun, IInv, TypeOK, TablesTyped
<1> HIDE DEF run, task
<1> QED BY <1>1, <1>3, <1>4, <1>5, HolderLife

\* schedule_run suspends the task.
LEMMA ScheduleRunLife ==
  ASSUME IInv, NEW r \in Run, NEW at \in WakeAt, ScheduleRun(r, at)
  PROVE  LifeStep
<1> DEFINE run == Parked(runs[r], at, Null)
           old == tasks[runs[r].task]
           task == [old EXCEPT !.state = "sleeping"]
<1>1. runs[r].state = "running"
  BY DEF ScheduleRun, MayFinish
<1>2. runs[r] \in RunRow /\ old \in TaskRow
  BY <1>1, RunningRun
<1>3. run.state = "sleeping"
  BY <1>2 DEF RunRow, Parked
<1>4. task \in TaskRow /\ task.state = "sleeping" /\ SameAttempt(old, task)
  <2> HIDE DEF old
  <2> QED BY <1>2 DEF TaskRow, Live, SameAttempt
<1>5. /\ runs' = [runs EXCEPT ![r] = run]
      /\ tasks' = [tasks EXCEPT ![runs[r].task] = task]
  BY DEF ScheduleRun, IInv, TypeOK, TablesTyped
<1> HIDE DEF run, task
<1> QED BY <1>1, <1>3, <1>4, <1>5, HolderLife

\* await_event that parks its run suspends the task.
LEMMA AwaitParksLife ==
  ASSUME IInv, NEW r \in Run, NEW s \in AwaitStep, NEW e \in Event,
         NEW timeout \in AwaitTimeout, AwaitParks(r, s, e, timeout)
  PROVE  LifeStep
<1> DEFINE at == IF timeout = Null THEN Never ELSE NewWait(r, s, e, timeout).timeout
           run == [Parked(runs[r], at, e) EXCEPT !.eventPayload = Null]
           old == tasks[runs[r].task]
           task == [old EXCEPT !.state = "sleeping"]
<1>1. runs[r].state = "running"
  BY DEF AwaitParks, AwaitStart
<1>2. runs[r] \in RunRow /\ old \in TaskRow
  BY <1>1, RunningRun
<1>3. run.state = "sleeping"
  <2> HIDE DEF at
  <2> QED BY <1>2 DEF RunRow, Parked
<1>4. task \in TaskRow /\ task.state = "sleeping" /\ SameAttempt(old, task)
  <2> HIDE DEF old
  <2> QED BY <1>2 DEF TaskRow, Live, SameAttempt
<1>5. /\ runs' = [runs EXCEPT ![r] = run]
      /\ tasks' = [tasks EXCEPT ![runs[r].task] = task]
  BY DEF AwaitParks, IInv, TypeOK, TablesTyped
<1> HIDE DEF run, task
<1> QED BY <1>1, <1>3, <1>4, <1>5, HolderLife

\* emit_event wakes sleeping tasks alone.
LEMMA EmitEventLife ==
  ASSUME IInv, NEW e \in Event, NEW p \in Payload, EmitEvent(e, p)
  PROVE  LifeStep
<1> DEFINE woken == {w.run : w \in WokenWaits(e)}
<1>1. Consistent(tasks, runs) /\ waits \subseteq WaitRow
  BY IInvParts DEF OtherTablesTyped
<1>2. woken \in SUBSET Run /\ \A r \in woken : runs[r].state = "sleeping"
  BY <1>1 DEF WokenWaits, WaitRow
<1>3. \A r \in woken : /\ runs[r] \in RunRow
                       /\ tasks[runs[r].task] \in TaskRow
                       /\ tasks[runs[r].task].state = "sleeping"
  BY <1>1, <1>2, UnfailedRunIsLast DEF HasRow, Absent
<1>4. /\ runs' = [r \in Run |-> IF r \in woken THEN WokenRun(runs[r], p) ELSE runs[r]]
      /\ tasks' = [t \in Task |-> IF t \in {runs[r].task : r \in woken}
                                    THEN [tasks[t] EXCEPT !.state = "pending"]
                                    ELSE tasks[t]]
  BY DEF EmitEvent
<1> HIDE DEF woken
<1>5. \A row \in TaskRow : LET b == [row EXCEPT !.state = "pending"] IN
        row.state = "sleeping" => WentOn(row, b)
  BY DEF WentOn, Moves, SameAttempt, TaskRow, Live
<1>6. \A t \in Task : Becomes(tasks[t], tasks'[t])
  BY <1>3, <1>4, <1>5 DEF Becomes
<1>7. NothingStarts
  <2>1. \A run \in RunRow : WokenRun(run, p).state = "pending"
    BY DEF WokenRun, RunRow
  <2> QED BY <1>3, <1>4, <2>1 DEF NothingStarts
<1> QED BY <1>6, <1>7, NothingOverdueStarts

\* cleanup_tasks forgets tasks that have ended.
LEMMA CleanupTasksLife ==
  ASSUME IInv, NEW ttl \in Ttl, NEW limit \in CleanupLimit, CleanupTasks(ttl, limit)
  PROVE  LifeStep
<1>1. PICK B \in SUBSET Cleanable(ttl) :
        /\ tasks' = [t \in Task |-> IF t \in B THEN NoTask("deleted") ELSE tasks[t]]
        /\ runs' = [r \in Run |-> IF runs[r].task \in B THEN NoRun("deleted") ELSE runs[r]]
  BY DEF CleanupTasks
<1>2. \A t \in B : tasks[t].state \in Ended
  BY DEF Cleanable
<1>3. \A t \in Task : tasks[t].state \in Ended => tasks[t] \in TaskRow
  BY TaskRowPresent DEF IInv, TypeOK, HasRow, Ended, Absent
<1>4. \A t \in Task : Becomes(tasks[t], tasks'[t])
  BY <1>1, <1>2, <1>3 DEF Becomes, Forgotten
<1>5. NothingStarts
  BY <1>1 DEF NothingStarts, NoRun
<1> QED BY <1>4, <1>5, NothingOverdueStarts

\* The calls that move no task.
LEMMA QuietCallsLife ==
  ASSUME IInv,
         \/ \E r \in Run, s \in BodyStep, p \in Payload, by \in ExtendBy \cup {0} :
              SetCheckpoint(r, s, p, by)
         \/ \E r \in Run, by \in ExtendBy : ExtendClaim(r, by)
         \/ \E r \in Run, s \in AwaitStep, e \in Event :
              AwaitResolved(r, s, e) \/ AwaitTimedOut(r, s, e)
         \/ \E ttl \in Ttl, limit \in CleanupLimit : CleanupEvents(ttl, limit)
         \/ Tick
         \/ UNCHANGED vars
  PROVE  LifeStep
<1>1. runs \in [Run -> RunRow \cup {NoRun(a) : a \in Absent}]
  BY DEF IInv, TypeOK, TablesTyped
<1>2. tasks' = tasks
  BY DEF SetCheckpoint, ExtendClaim, AwaitResolved, AwaitTimedOut, CleanupEvents,
     Tick, vars
<1>3. \A q \in Run : runs'[q].state = runs[q].state
  <2>0. \A row \in RunRow : \A x :
          /\ [row EXCEPT !.expires = x].state = row.state
          /\ [row EXCEPT !.eventPayload = x].state = row.state
          /\ [row EXCEPT !.wakeEvent = x].state = row.state
    BY DEF RunRow
  <2>1. ASSUME NEW r \in Run, NEW s \in BodyStep, NEW p \in Payload, NEW by \in ExtendBy \cup {0},
               SetCheckpoint(r, s, p, by)
        PROVE  \A q \in Run : runs'[q].state = runs[q].state
    <3>1. runs[r] \in RunRow
      BY <2>1, <1>1, RunRowPresent DEF SetCheckpoint, IInv, TypeOK
    <3> QED BY <2>0, <2>1, <3>1, <1>1 DEF SetCheckpoint, Extended
  <2>2. ASSUME NEW r \in Run, NEW by \in ExtendBy, ExtendClaim(r, by)
        PROVE  \A q \in Run : runs'[q].state = runs[q].state
    BY <2>0, <2>2, <1>1, RunningRun DEF ExtendClaim
  <2>3. ASSUME NEW r \in Run, NEW s \in AwaitStep, NEW e \in Event,
               AwaitResolved(r, s, e) \/ AwaitTimedOut(r, s, e)
        PROVE  \A q \in Run : runs'[q].state = runs[q].state
    <3>1. runs[r] \in RunRow
      BY <2>3, RunningRun DEF AwaitResolved, AwaitTimedOut, AwaitStart
    <3>2. \/ runs' = [runs EXCEPT ![r] = [runs[r] EXCEPT !.eventPayload = Null]]
          \/ runs' = [runs EXCEPT ![r] = [runs[r] EXCEPT !.wakeEvent = Null]]
      BY <2>3 DEF AwaitResolved, AwaitTimedOut
    <3>3. /\ [runs[r] EXCEPT !.eventPayload = Null].state = runs[r].state
          /\ [runs[r] EXCEPT !.wakeEvent = Null].state = runs[r].state
      BY <3>1 DEF RunRow
    <3>4. \A q \in Run \ {r} : runs'[q] = runs[q]
      BY <1>1, <3>2
    <3>5. runs'[r].state = runs[r].state
      BY <1>1, <3>2, <3>3
    <3> QED BY <3>4, <3>5
  <2> QED BY <2>1, <2>2, <2>3 DEF CleanupEvents, Tick, vars
<1> QED BY <1>2, <1>3, TasksUntouched

-----------------------------------------------------------------------------
(* The theorems *)

\* Every step is a move, or none, of each task, and starts nothing overdue.
LEMMA NextLife == IInv /\ [Next]_vars => LifeStep
<1> SUFFICES ASSUME IInv, [Next]_vars PROVE LifeStep
  OBVIOUS
<1>1. CASE ClientNext
  BY <1>1, SpawnTaskLife, CancelTaskLife, RetryTaskLife, RetryAsNewTaskLife, EmitEventLife,
     InputAssumption DEF ClientNext
<1>2. CASE WorkerNext
  <2>1. ASSUME NEW timeout \in ClaimTimeout, NEW qty \in ClaimQty, ClaimTask(timeout, qty)
        PROVE  LifeStep
    BY <2>1, ClaimTaskLife
  <2>2. ASSUME NEW r \in Run, CompleteRun(r)
        PROVE  LifeStep
    BY <2>2, CompleteRunLife
  <2>3. ASSUME NEW r \in Run, NEW at \in WakeAt, ScheduleRun(r, at)
        PROVE  LifeStep
    BY <2>3, ScheduleRunLife
  <2>4. ASSUME NEW r \in Run, NEW at \in RetryAt, FailRun(r, at)
        PROVE  LifeStep
    BY <2>4, FailRunLife
  <2>5. ASSUME NEW r \in Run, NEW s \in AwaitStep, NEW e \in Event,
               NEW timeout \in AwaitTimeout, AwaitParks(r, s, e, timeout)
        PROVE  LifeStep
    BY <2>5, AwaitParksLife
  <2> QED BY <1>2, <2>1, <2>2, <2>3, <2>4, <2>5, QuietCallsLife DEF WorkerNext
<1>3. CASE CleanupNext
  BY <1>3, CleanupTasksLife, QuietCallsLife DEF CleanupNext
<1>4. CASE Tick \/ UNCHANGED vars
  BY <1>4, QuietCallsLife
<1> QED BY <1>1, <1>2, <1>3, <1>4 DEF Next

\* The initial tables are those of a lifecycle in which no task exists.
LEMMA InitLife == Init => Lifecycle!Init
BY DEF Init, Lifecycle!Init, NoTask, LimitOf, HasRow, Absent

\* The queue implements the lifecycle that its clients see: whatever workers,
\* clients, events and cleanups do, each transaction moves a task at most once
\* along the lifecycle's edges, and adds an attempt only where one failed, a
\* limit permitting, or where a client asked for it.
THEOREM QueueImplementsLifecycle == Spec => ImplementsLifecycle
<1>1. IInv /\ [Next]_vars => [Lifecycle!Next]_<<[t \in Task |-> tasks[t].state],
         [t \in Task |-> tasks[t].attempts], [t \in Task |-> LimitOf(t)]>>
  BY NextLife, RowsMakeLifecycle DEF LifeStep
<1> QED BY <1>1, InitLife, QueueIInv, PTL DEF Spec, ImplementsLifecycle, Lifecycle!Spec

\* claim_task starts no run of a task whose max_delay or max_duration has
\* passed, swept and retried in the same transaction or not, and no other
\* procedure starts one at all.
THEOREM QueueOverdueNeverStarts == Spec => OverdueTasksNeverStart
<1>1. IInv /\ [Next]_vars => [OverdueNeverStarts]_vars
  BY NextLife DEF LifeStep
<1> QED BY <1>1, QueueIInv, PTL DEF Spec, OverdueTasksNeverStart

-----------------------------------------------------------------------------
(* Part 3.  Waits, wake-ups and checkpoints.  Most procedures only take     *)
(* waits away, and leave the runs of those that stay alone: StepKeepsWaits  *)
(* is their shape.                                                          *)

\* A checkpoint is owned by a run of its task; without it, the cleanup of
\* another task could take the owner away.
OwnersKnown ==
  \A c \in Task \X Step : checkpoints[c] # NoCheckpoint =>
    runs[checkpoints[c].owner].task = c[1]

WInv == IInv /\ WaitsMatchSleepers /\ NoLostWakeup /\ OwnersKnown

-----------------------------------------------------------------------------
(* Facts of a state *)

\* The tables' types, as the steps below need them.
LEMMA Types ==
  ASSUME IInv
  PROVE  /\ now \in Nat /\ Consistent(tasks, runs) /\ waits \subseteq WaitRow
         /\ runs \in [Run -> RunRow \cup {NoRun(a) : a \in Absent}]
         /\ checkpoints \in [Task \X Step -> CheckpointRow \cup {NoCheckpoint}]
         /\ events \in [Event -> EventRow \cup {NoEvent, Sentinel}]
BY DEF IInv, TypeOK, TablesTyped

\* The run of a wait: a whole row, asleep, the last of its task.
LEMMA Sleeper ==
  ASSUME WInv, NEW w \in waits
  PROVE  /\ w \in WaitRow /\ w.run \in Run /\ w.task \in Task
         /\ w.step \in AwaitStep /\ w.event \in Event
         /\ runs[w.run] \in RunRow /\ HasRow(runs[w.run])
         /\ runs[w.run].state = "sleeping" /\ runs[w.run].task = w.task
         /\ tasks[w.task] \in TaskRow /\ tasks[w.task].lastRun = w.run
         /\ tasks[w.task].state = "sleeping"
<1>1. w \in WaitRow /\ w.run \in Run /\ Consistent(tasks, runs)
  BY Types DEF WInv, WaitRow
<1>2. runs[w.run].state = "sleeping" /\ runs[w.run].task = w.task
  BY DEF WInv, WaitsMatchSleepers
<1>3. HasRow(runs[w.run])
  BY <1>2 DEF HasRow, Absent
<1> QED BY <1>1, <1>2, <1>3, UnfailedRunIsLast DEF WaitRow

\* The owner of a checkpoint has a row.
LEMMA OwnerPresent ==
  ASSUME WInv, NEW c \in Task \X Step, checkpoints[c] # NoCheckpoint
  PROVE  /\ checkpoints[c].owner \in Run
         /\ HasRow(runs[checkpoints[c].owner])
         /\ runs[checkpoints[c].owner].task = c[1]
         /\ HasRow(tasks[c[1]])
<1>1. checkpoints[c] \in CheckpointRow
  BY Types DEF WInv
<1>2. checkpoints[c].owner \in Run /\ runs[checkpoints[c].owner].task = c[1]
  BY <1>1 DEF WInv, OwnersKnown, CheckpointRow
<1>3. HasRow(runs[checkpoints[c].owner])
  BY <1>2, RunOfTaskHasRow, Types DEF WInv, Consistent
<1> QED BY <1>2, <1>3, Types DEF WInv, Consistent, EarlierAttemptsFailedIn

-----------------------------------------------------------------------------
(* The shape of most steps *)

\* Waits go, those that stay keep their runs and their steps stay open; a run
\* that sleeps without a wake-up time slept before and keeps its wait.
StepsAside ==
  /\ waits' \subseteq waits
  /\ \A w \in waits' : /\ runs'[w.run] = runs[w.run]
                       /\ checkpoints'[<<w.task, w.step>>] = NoCheckpoint
  /\ \A r \in Run : runs'[r].state = "sleeping" /\ runs'[r].availableAt = Never =>
       /\ runs'[r] = runs[r]
       /\ \A w \in waits : w.run = r =>
            w \in waits' /\ (events[w.event].payload = Null => events'[w.event].payload = Null)

\* Such a step keeps the invariant, when it keeps the owners too.
LEMMA StepKeepsWaits ==
  ASSUME WInv, IInv', StepsAside, OwnersKnown'
  PROVE  WInv'
<1>1. WaitsMatchSleepers'
  BY DEF WInv, StepsAside, WaitsMatchSleepers
<1>2. NoLostWakeup'
  BY DEF WInv, StepsAside, NoLostWakeup
<1> QED BY <1>1, <1>2 DEF WInv

\* The owners stay as long as no row changes its task.
LEMMA OwnersStay ==
  ASSUME WInv, checkpoints' = checkpoints,
         \A r \in Run : HasRow(runs[r]) => runs'[r].task = runs[r].task
  PROVE  OwnersKnown'
BY OwnerPresent DEF OwnersKnown

\* A step that rewrites one run that is not asleep, which stays so or has a
\* time to wake up at.
LEMMA OneRunMoves ==
  ASSUME WInv, IInv', NEW r \in Run, runs[r].state # "sleeping",
         \A q \in Run \ {r} : runs'[q] = runs[q],
         runs'[r].state = "sleeping" => runs'[r].availableAt # Never,
         waits' \subseteq waits, \A w \in waits : w.run # r => w \in waits',
         \A e \in Event : events[e].payload = Null => events'[e].payload = Null,
         \A w \in waits : checkpoints'[<<w.task, w.step>>] = NoCheckpoint,
         OwnersKnown'
  PROVE  WInv'
<1>1. \A w \in waits : w.run \in Run \ {r} /\ w.event \in Event
  BY Sleeper
<1>2. StepsAside
  BY <1>1 DEF StepsAside
<1> QED BY <1>2, StepKeepsWaits

-----------------------------------------------------------------------------
(* The procedures that rewrite one run *)

\* The steps of waits are open.
LEMMA WaitStepsOpen ==
  ASSUME WInv, checkpoints' = checkpoints
  PROVE  \A w \in waits : checkpoints'[<<w.task, w.step>>] = NoCheckpoint
BY DEF WInv, WaitsMatchSleepers

\* spawn_task adds a run that is not asleep.
LEMMA SpawnTaskWaits ==
  ASSUME WInv, IInv', NEW t \in Task, NEW r \in Run, NEW opt, SpawnTask(t, r, opt)
  PROVE  WInv'
<1>1. /\ runs[r].state = "none" /\ runs'[r].state = "pending"
      /\ \A q \in Run \ {r} : runs'[q] = runs[q]
  BY Types DEF WInv, SpawnTask, NewRun
<1>2. OwnersKnown'
  BY <1>1, OwnersStay DEF SpawnTask, HasRow, Absent
<1> QED BY <1>1, <1>2, OneRunMoves, WaitStepsOpen DEF SpawnTask

\* retry_task in place adds a run that is not asleep.
LEMMA RetryTaskWaits ==
  ASSUME WInv, IInv', NEW t \in Task, NEW r \in Run, NEW requested \in RetryMax,
         RetryTask(t, r, requested)
  PROVE  WInv'
<1>1. /\ runs[r].state = "none" /\ runs'[r].state = "pending"
      /\ \A q \in Run \ {r} : runs'[q] = runs[q]
  BY Types DEF WInv, RetryTask, NewRun
<1>2. OwnersKnown'
  BY <1>1, OwnersStay DEF RetryTask, HasRow, Absent
<1> QED BY <1>1, <1>2, OneRunMoves, WaitStepsOpen DEF RetryTask

\* complete_run takes the waits of its run, which has none.
LEMMA CompleteRunWaits ==
  ASSUME WInv, IInv', NEW r \in Run, CompleteRun(r)
  PROVE  WInv'
<1>1. runs[r].state = "running" /\ runs[r] \in RunRow
  BY RunningRun DEF WInv, CompleteRun, MayFinish
<1>2. /\ runs'[r] = [runs[r] EXCEPT !.state = "completed", !.endedAt = now]
      /\ \A q \in Run \ {r} : runs'[q] = runs[q]
  BY Types DEF WInv, CompleteRun
<1>3. runs'[r].state = "completed" /\ runs'[r].task = runs[r].task
  BY <1>1, <1>2 DEF RunRow
<1>4. OwnersKnown'
  BY <1>2, <1>3, OwnersStay DEF CompleteRun
<1> QED BY <1>1, <1>2, <1>3, <1>4, OneRunMoves, WaitStepsOpen DEF CompleteRun

\* schedule_run suspends its run until a time.
LEMMA ScheduleRunWaits ==
  ASSUME WInv, IInv', NEW r \in Run, NEW at \in WakeAt, ScheduleRun(r, at)
  PROVE  WInv'
<1>1. runs[r].state = "running" /\ runs[r] \in RunRow /\ at # Never
  BY RunningRun, InputAssumption, NullAssumption DEF WInv, ScheduleRun, MayFinish
<1>2. /\ runs'[r] = Parked(runs[r], at, Null)
      /\ \A q \in Run \ {r} : runs'[q] = runs[q]
  BY Types DEF WInv, ScheduleRun
<1>3. runs'[r].availableAt = at /\ runs'[r].task = runs[r].task
  BY <1>1, <1>2 DEF RunRow, Parked
<1>4. OwnersKnown'
  BY <1>2, <1>3, OwnersStay DEF ScheduleRun
<1> QED BY <1>1, <1>2, <1>3, <1>4, OneRunMoves, WaitStepsOpen DEF ScheduleRun

\* set_task_checkpoint_state may extend the claim of a running run, and writes
\* the step of a body, which no wait is of.
LEMMA SetCheckpointWaits ==
  ASSUME WInv, IInv', NEW r \in Run, NEW s \in BodyStep, NEW p \in Payload,
         NEW by \in ExtendBy \cup {0}, SetCheckpoint(r, s, p, by)
  PROVE  WInv'
<1> DEFINE t == runs[r].task
<1>1. runs[r] \in RunRow /\ HasRow(runs[r]) /\ t \in Task
  BY RunRowPresent, Types DEF WInv, SetCheckpoint, Consistent, RunRow
<1>2. runs'[r] = Extended(runs[r], by) /\ \A q \in Run \ {r} : runs'[q] = runs[q]
  BY Types DEF WInv, SetCheckpoint
<1>3. /\ runs'[r].task = t
      /\ runs'[r] # runs[r] => runs[r].state = "running" /\ runs'[r].state = "running"
  BY <1>1, <1>2 DEF Extended, RunRow
<1>4. \/ checkpoints' = checkpoints
      \/ checkpoints' = [checkpoints EXCEPT ![<<t, s>>] = [payload |-> p, owner |-> r]]
  BY DEF SetCheckpoint
<1>5. \A w \in waits : checkpoints'[<<w.task, w.step>>] = NoCheckpoint
  <2> TAKE w \in waits
  <2>1. <<w.task, w.step>> # <<t, s>> /\ <<w.task, w.step>> \in Task \X Step
    BY Sleeper, StepAssumption DEF Step
  <2>2. checkpoints[<<w.task, w.step>>] = NoCheckpoint
    BY DEF WInv, WaitsMatchSleepers
  <2> QED BY <2>1, <2>2, <1>4, Types DEF WInv
<1>6. OwnersKnown'
  <2> SUFFICES ASSUME NEW c \in Task \X Step, checkpoints'[c] # NoCheckpoint
               PROVE  runs'[checkpoints'[c].owner].task = c[1]
    BY DEF OwnersKnown
  <2>1. CASE checkpoints'[c] = checkpoints[c]
    BY <2>1, <1>2, <1>3, OwnerPresent
  <2>2. CASE checkpoints'[c] # checkpoints[c]
    <3>1. c = <<t, s>> /\ checkpoints'[c] = [payload |-> p, owner |-> r]
      BY <2>2, <1>4, Types DEF WInv
    <3> QED BY <3>1, <1>3
  <2> QED BY <2>1, <2>2
<1>7. waits' = waits /\ events' = events
  BY DEF SetCheckpoint
<1>8. CASE runs'[r] = runs[r]
  <2>1. \A q \in Run : runs'[q] = runs[q]
    BY <1>2, <1>8
  <2>2. \A w \in waits : w.run \in Run
    BY Sleeper
  <2>3. StepsAside
    BY <2>1, <2>2, <1>5, <1>7 DEF StepsAside
  <2> QED BY <2>3, <1>6, StepKeepsWaits
<1>9. CASE runs'[r] # runs[r]
  BY <1>2, <1>3, <1>5, <1>6, <1>7, <1>9, OneRunMoves
<1> QED BY <1>8, <1>9

\* extend_claim rewrites the lease of a running run.
LEMMA ExtendClaimWaits ==
  ASSUME WInv, IInv', NEW r \in Run, NEW by \in ExtendBy, ExtendClaim(r, by)
  PROVE  WInv'
<1>1. runs[r].state = "running" /\ runs[r] \in RunRow
  BY RunningRun DEF WInv, ExtendClaim
<1>2. /\ runs'[r] = [runs[r] EXCEPT !.expires = now + by]
      /\ \A q \in Run \ {r} : runs'[q] = runs[q]
  BY Types DEF WInv, ExtendClaim
<1>3. runs'[r].state = "running" /\ runs'[r].task = runs[r].task
  BY <1>1, <1>2 DEF RunRow
<1>4. OwnersKnown'
  BY <1>2, <1>3, OwnersStay DEF ExtendClaim
<1> QED BY <1>1, <1>2, <1>3, <1>4, OneRunMoves, WaitStepsOpen DEF ExtendClaim

\* await_event creates the event's row when it is missing, and no payload.
LEMMA AwaitStartEvents ==
  ASSUME WInv, NEW r \in Run, NEW s \in AwaitStep, NEW e \in Event, AwaitStart(r, s, e)
  PROVE  /\ runs[r].state = "running" /\ runs[r] \in RunRow /\ runs[r].task \in Task
         /\ tasks[runs[r].task] \in TaskRow /\ tasks[runs[r].task].lastRun = r
         /\ checkpoints[<<runs[r].task, s>>] = NoCheckpoint
         /\ \A x \in Event : events'[x].payload = events[x].payload
<1>1. runs[r].state = "running" /\ checkpoints[<<runs[r].task, s>>] = NoCheckpoint
  BY DEF AwaitStart
<1>2. events' = [events EXCEPT ![e] = IF events[e] = NoEvent THEN Sentinel ELSE events[e]]
  BY DEF AwaitStart
<1>3. \A x \in Event : events'[x].payload = events[x].payload
  BY <1>2, Types DEF WInv, NoEvent, Sentinel
<1> QED BY <1>1, <1>3, RunningRun DEF WInv

\* await_event that returns a payload: the run is not asleep, so none of its
\* task's steps is waited for.
LEMMA AwaitResolvedWaits ==
  ASSUME WInv, IInv', NEW r \in Run, NEW s \in AwaitStep, NEW e \in Event,
         AwaitResolved(r, s, e)
  PROVE  WInv'
<1> DEFINE t == runs[r].task
<1>1. /\ runs[r].state = "running" /\ runs[r] \in RunRow /\ t \in Task
      /\ tasks[t].lastRun = r
      /\ \A x \in Event : events'[x].payload = events[x].payload
  BY AwaitStartEvents DEF AwaitResolved
<1>2. /\ runs'[r] = [runs[r] EXCEPT !.eventPayload = Null]
      /\ \A q \in Run \ {r} : runs'[q] = runs[q]
  BY Types DEF WInv, AwaitResolved
<1>3. runs'[r].state = "running" /\ runs'[r].task = t
  BY <1>1, <1>2 DEF RunRow
<1>4. checkpoints' = [checkpoints EXCEPT
                       ![<<t, s>>] = [payload |-> events[e].payload, owner |-> r]]
  BY DEF AwaitResolved
<1>5. \A w \in waits : checkpoints'[<<w.task, w.step>>] = NoCheckpoint
  <2> TAKE w \in waits
  <2>1. w.task # t
    BY <1>1, Sleeper
  <2>2. <<w.task, w.step>> \in Task \X Step
    BY Sleeper DEF Step
  <2>3. checkpoints[<<w.task, w.step>>] = NoCheckpoint
    BY DEF WInv, WaitsMatchSleepers
  <2> QED BY <2>1, <2>2, <2>3, <1>4, Types DEF WInv
<1>6. OwnersKnown'
  <2> SUFFICES ASSUME NEW c \in Task \X Step, checkpoints'[c] # NoCheckpoint
               PROVE  runs'[checkpoints'[c].owner].task = c[1]
    BY DEF OwnersKnown
  <2>1. CASE checkpoints'[c] = checkpoints[c]
    <3>1. checkpoints[c].owner \in Run /\ runs[checkpoints[c].owner].task = c[1]
      BY <2>1, OwnerPresent
    <3> QED BY <2>1, <3>1, <1>2, <1>3
  <2>2. CASE checkpoints'[c] # checkpoints[c]
    <3>1. c = <<t, s>> /\ checkpoints'[c].owner = r
      BY <2>2, <1>4, Types DEF WInv
    <3> QED BY <3>1, <1>3
  <2> QED BY <2>1, <2>2
<1>7. waits' = waits
  BY DEF AwaitResolved
<1> QED BY <1>1, <1>2, <1>3, <1>5, <1>6, <1>7, OneRunMoves

\* await_event of a run that a timeout woke: its row forgets the event.
LEMMA AwaitTimedOutWaits ==
  ASSUME WInv, IInv', NEW r \in Run, NEW s \in AwaitStep, NEW e \in Event,
         AwaitTimedOut(r, s, e)
  PROVE  WInv'
<1>1. /\ runs[r].state = "running" /\ runs[r] \in RunRow
      /\ \A x \in Event : events'[x].payload = events[x].payload
  BY AwaitStartEvents DEF AwaitTimedOut
<1>2. /\ runs'[r] = [runs[r] EXCEPT !.wakeEvent = Null]
      /\ \A q \in Run \ {r} : runs'[q] = runs[q]
  BY Types DEF WInv, AwaitTimedOut
<1>3. runs'[r].state = "running" /\ runs'[r].task = runs[r].task
  BY <1>1, <1>2 DEF RunRow
<1>4. OwnersKnown'
  BY <1>2, <1>3, OwnersStay DEF AwaitTimedOut
<1> QED BY <1>1, <1>2, <1>3, <1>4, OneRunMoves, WaitStepsOpen DEF AwaitTimedOut

-----------------------------------------------------------------------------
(* await_event that parks, emit_event *)

\* await_event that parks its run adds the run's only wait, for an event that
\* has no payload.
LEMMA AwaitParksWaits ==
  ASSUME WInv, IInv', NEW r \in Run, NEW s \in AwaitStep, NEW e \in Event,
         NEW timeout \in AwaitTimeout, AwaitParks(r, s, e, timeout)
  PROVE  WInv'
<1> DEFINE w == NewWait(r, s, e, timeout)
           at == IF timeout = Null THEN Never ELSE w.timeout
           t == runs[r].task
<1>1. /\ runs[r].state = "running" /\ runs[r] \in RunRow
      /\ checkpoints[<<t, s>>] = NoCheckpoint
      /\ \A x \in Event : events'[x].payload = events[x].payload
  BY AwaitStartEvents DEF AwaitParks
<1>2. /\ w.run = r /\ w.task = t /\ w.step = s /\ w.event = e
      /\ at = IF w.timeout = Null THEN Never ELSE w.timeout
  BY Types, InputAssumption, NullAssumption DEF WInv, NewWait
<1>3. /\ runs'[r] = [Parked(runs[r], at, e) EXCEPT !.eventPayload = Null]
      /\ \A q \in Run \ {r} : runs'[q] = runs[q]
  BY Types DEF WInv, AwaitParks
<1> HIDE DEF at
<1>4. /\ runs'[r].state = "sleeping" /\ runs'[r].task = t /\ runs'[r].wakeEvent = e
      /\ runs'[r].availableAt = at
  BY <1>1, <1>3 DEF RunRow, Parked
<1>5. \A v \in waits : v.run \in Run \ {r} /\ v.event \in Event
  BY <1>1, Sleeper
<1>6. waits' = waits \cup {w} /\ checkpoints' = checkpoints /\ events[e].payload = Null
  BY <1>5 DEF AwaitParks
<1> HIDE DEF w, t
<1>7. WaitsMatchSleepers'
  <2>1. \A v \in waits' : v \in waits \/ v = w
    BY <1>6
  <2>2. ASSUME NEW v \in waits'
        PROVE  /\ runs'[v.run].state = "sleeping"
               /\ runs'[v.run].task = v.task
               /\ runs'[v.run].wakeEvent = v.event
               /\ runs'[v.run].availableAt = IF v.timeout = Null THEN Never ELSE v.timeout
               /\ checkpoints'[<<v.task, v.step>>] = NoCheckpoint
    <3>1. CASE v \in waits
      <4>1. runs'[v.run] = runs[v.run] /\ checkpoints' = checkpoints
        BY <3>1, <1>3, <1>5, <1>6
      <4> QED BY <3>1, <4>1 DEF WInv, WaitsMatchSleepers
    <3>2. CASE v = w
      BY <3>2, <1>1, <1>2, <1>4, <1>6 DEF t
    <3> QED BY <2>1, <2>2, <3>1, <3>2
  <2>3. \A u, v \in waits' : u.run = v.run => u = v
    BY <2>1, <1>2, <1>5 DEF WInv, WaitsMatchSleepers
  <2> QED BY <2>2, <2>3 DEF WaitsMatchSleepers
<1>8. NoLostWakeup'
  <2> SUFFICES ASSUME NEW q \in Run, runs'[q].state = "sleeping", runs'[q].availableAt = Never
               PROVE  \E v \in waits' : v.run = q /\ events'[v.event].payload = Null
    BY DEF NoLostWakeup
  <2>1. CASE q = r
    <3>1. w \in waits' /\ w.run = r /\ events'[w.event].payload = Null
      BY <1>1, <1>2, <1>6
    <3> QED BY <2>1, <3>1
  <2>2. CASE q # r
    <3>1. PICK v \in waits : v.run = q /\ events[v.event].payload = Null
      BY <2>2, <1>3 DEF WInv, NoLostWakeup
    <3>2. v \in waits' /\ events'[v.event].payload = Null
      BY <3>1, <1>1, <1>5, <1>6
    <3> QED BY <3>1, <3>2
  <2> QED BY <2>1, <2>2
<1>9. OwnersKnown'
  BY <1>3, <1>4, <1>6, OwnersStay DEF t
<1> QED BY <1>7, <1>8, <1>9 DEF WInv

\* emit_event wakes whoever waits for the event, and no wait for it is left: a
\* wait whose timeout has passed has no run that sleeps without a wake-up time.
LEMMA EmitEventWaits ==
  ASSUME WInv, IInv', NEW e \in Event, NEW p \in Payload, EmitEvent(e, p)
  PROVE  WInv'
<1> DEFINE woken == {w.run : w \in WokenWaits(e)}
           Hit(c) == \E w \in WokenWaits(e) : c = <<w.task, w.step>>
           giver(c) == CHOOSE w \in WokenWaits(e) : c = <<w.task, w.step>>
<1>1. /\ runs' = [r \in Run |-> IF r \in woken THEN WokenRun(runs[r], p) ELSE runs[r]]
      /\ checkpoints' = [c \in Task \X Step |->
           IF Hit(c) THEN [payload |-> p, owner |-> giver(c).run] ELSE checkpoints[c]]
      /\ events' = [events EXCEPT ![e] = [payload |-> p, emittedAt |-> now]]
      /\ waits' = {w \in waits : w.event = e => Unexpired(w) /\ w.run \notin woken}
  BY DEF EmitEvent
<1>2. \A w \in WokenWaits(e) : w \in waits /\ w.event = e /\ w.run \in woken
  BY DEF WokenWaits
<1>3. \A w \in waits : w.event = e /\ Unexpired(w) => w \in WokenWaits(e)
  BY Sleeper DEF WokenWaits
<1>4. \A w \in waits : w.run \in woken => w \in WokenWaits(e)
  BY <1>2 DEF WInv, WaitsMatchSleepers
<1>5. \A r \in woken : r \in Run /\ runs[r] \in RunRow /\ runs[r].state = "sleeping"
  BY <1>2, Sleeper
<1>6. \A r \in woken : /\ runs'[r] = WokenRun(runs[r], p)
                       /\ runs'[r].state = "pending" /\ runs'[r].task = runs[r].task
  BY <1>1, <1>5 DEF WokenRun, RunRow
<1> HIDE DEF woken
<1>7. \A w \in waits' : /\ w \in waits /\ w.event # e /\ w.run \notin woken
                        /\ w \notin WokenWaits(e)
  BY <1>1, <1>2, <1>3, <1>4
\* Two waits for one step are of one run, the last of the task, and so the same.
<1>8. \A w \in waits : Hit(<<w.task, w.step>>) => w \in WokenWaits(e)
  <2> SUFFICES ASSUME NEW w \in waits, NEW v \in WokenWaits(e),
                      <<w.task, w.step>> = <<v.task, v.step>>
               PROVE  w \in WokenWaits(e)
    OBVIOUS
  <2>1. v \in waits /\ w.task = v.task
    BY <1>2
  <2>2. w.run = v.run
    BY <2>1, Sleeper
  <2> QED BY <2>1, <2>2 DEF WInv, WaitsMatchSleepers
<1>9. StepsAside
  <2>1. \A w \in waits' : /\ runs'[w.run] = runs[w.run]
                          /\ checkpoints'[<<w.task, w.step>>] = NoCheckpoint
    <3> TAKE w \in waits'
    <3>1. w \in waits /\ w.run \in Run /\ w.run \notin woken /\ ~Hit(<<w.task, w.step>>)
          /\ <<w.task, w.step>> \in Task \X Step
      BY <1>7, <1>8, Sleeper DEF Step
    <3>2. checkpoints[<<w.task, w.step>>] = NoCheckpoint
      BY <3>1 DEF WInv, WaitsMatchSleepers
    <3> HIDE DEF Hit, giver
    <3> QED BY <3>1, <3>2, <1>1
  <2>2. ASSUME NEW r \in Run, runs'[r].state = "sleeping", runs'[r].availableAt = Never
        PROVE  /\ runs'[r] = runs[r]
               /\ \A w \in waits : w.run = r => w \in waits' /\
                    (events[w.event].payload = Null => events'[w.event].payload = Null)
    <3>1. r \notin woken
      BY <2>2, <1>6
    <3>2. runs'[r] = runs[r]
      BY <3>1, <1>1
    <3>3. \A w \in waits : w.run = r => w.event # e
      <4> SUFFICES ASSUME NEW w \in waits, w.run = r, w.event = e PROVE FALSE
        OBVIOUS
      <4>1. w.timeout = Null
        <5>1. w.timeout \in Nat \cup {Null}
          BY Sleeper DEF WaitRow
        <5>2. runs[r].availableAt = IF w.timeout = Null THEN Never ELSE w.timeout
          BY DEF WInv, WaitsMatchSleepers
        <5> QED BY <5>1, <5>2, <2>2, <3>2, NullAssumption
      <4> QED BY <4>1, <3>1, <1>2, <1>3 DEF Unexpired
    <3>4. \A w \in waits : w.run = r => w \in waits' /\ events'[w.event] = events[w.event]
      BY <3>3, <1>1, Sleeper, Types DEF WInv
    <3> QED BY <3>2, <3>4
  <2> HIDE DEF Hit, giver
  <2> QED BY <1>7, <2>1, <2>2 DEF StepsAside
<1>10. OwnersKnown'
  <2> SUFFICES ASSUME NEW c \in Task \X Step, checkpoints'[c] # NoCheckpoint
               PROVE  runs'[checkpoints'[c].owner].task = c[1]
    BY DEF OwnersKnown
  <2>1. CASE Hit(c)
    <3>1. giver(c) \in WokenWaits(e) /\ c = <<giver(c).task, giver(c).step>>
      BY <2>1
    <3>2. checkpoints'[c].owner = giver(c).run
      BY <2>1, <1>1
    <3> HIDE DEF giver, Hit
    <3>3. runs[giver(c).run].task = c[1] /\ giver(c).run \in woken
      BY <3>1, <1>2, Sleeper
    <3> QED BY <3>2, <3>3, <1>6
  <2>2. CASE ~Hit(c)
    <3>1. checkpoints'[c] = checkpoints[c]
      BY <2>2, <1>1
    <3> HIDE DEF giver, Hit
    <3>2. checkpoints[c].owner \in Run /\ runs[checkpoints[c].owner].task = c[1]
      BY <3>1, OwnerPresent
    <3> QED BY <3>1, <3>2, <1>1, <1>6
  <2> QED BY <2>1, <2>2
<1> QED BY <1>9, <1>10, StepKeepsWaits

-----------------------------------------------------------------------------
(* The procedures that rewrite many runs *)

\* cancel_task's rewriting of the runs: live runs of the tasks end.
LEMMA CancelledRuns ==
  ASSUME NEW tk, NEW rn, TablesTyped(tk, rn), NEW S, NEW r \in Run
  PROVE  /\ IF rn[r].task \in S /\ rn[r].state \in Live
              THEN CancelRuns(rn, S)[r].state = "cancelled"
              ELSE CancelRuns(rn, S)[r] = rn[r]
         /\ HasRow(rn[r]) => CancelRuns(rn, S)[r].task = rn[r].task
<1>1. CASE rn[r].task \in S /\ rn[r].state \in Live
  <2>1. rn[r] \in RunRow
    BY <1>1, RunRowPresent DEF HasRow, Live, Absent
  <2> QED BY <1>1, <2>1, CancelledRunRow DEF CancelRuns
<1>2. CASE ~(rn[r].task \in S /\ rn[r].state \in Live)
  BY <1>2 DEF CancelRuns
<1> QED BY <1>1, <1>2

\* The runs of S fail, and every new run has a time to wake up at.
RunsFail(rn, rn2, S) ==
  \A r \in Run :
    /\ r \in S => rn2[r].state = "failed"
    /\ rn2[r] = rn[r] \/ r \in S \/ (rn[r].state = "none" /\ rn2[r].availableAt # Never)
    /\ HasRow(rn[r]) => rn2[r].task = rn[r].task

\* fail_run's rewriting of the runs.
LEMMA FailedRuns ==
  ASSUME NEW tk, NEW rn, Consistent(tk, rn), now \in Nat,
         NEW S \in SUBSET Run, \A r \in S : rn[r].state \in {"running", "sleeping"},
         NEW retryAt \in Nat \cup {Null},
         NEW fresh \in FreshIds({r \in S : Retries(tk, rn, r, retryAt)}, rn)
  PROVE  RunsFail(rn, FailRuns(tk, rn, S, fresh, retryAt), S)
<1> DEFINE new(r) == FailRuns(tk, rn, S, fresh, retryAt)[r]
<1> SUFFICES ASSUME NEW r \in Run
             PROVE  /\ r \in S => new(r).state = "failed"
                    /\ \/ new(r) = rn[r] \/ r \in S
                       \/ rn[r].state = "none" /\ new(r).availableAt # Never
                    /\ HasRow(rn[r]) => new(r).task = rn[r].task
  BY DEF RunsFail
<1> DEFINE R == {x \in S : Retries(tk, rn, x, retryAt)}
<1>1. DOMAIN fresh = R /\ \A x \in R : rn[fresh[x]].state = "none"
  BY DEF FreshIds, Injection
<1>2. CASE r \in S
  <2>1. new(r) = FailedRun(rn[r])
    BY <1>2 DEF FailRuns
  <2>2. rn[r] \in RunRow
    BY <1>2, RunRowPresent DEF Consistent, HasRow, Absent
  <2> QED BY <1>2, <2>1, <2>2, FailedRunRow
<1>3. CASE r \notin S /\ r \notin Range(fresh)
  BY <1>3 DEF FailRuns
<1>4. CASE r \notin S /\ r \in Range(fresh)
  <2>1. PICK old \in R : fresh[old] = r
    BY <1>1, <1>4 DEF Range
  <2> DEFINE x == CHOOSE x \in DOMAIN fresh : fresh[x] = r
  <2>2. x \in R /\ fresh[x] = r
    BY <1>1, <2>1
  <2>3. new(r) = RetryRun(tk[rn[x].task], rn[x], retryAt)
    BY <1>4 DEF FailRuns
  <2> HIDE DEF x
  <2>4. rn[r].state = "none"
    BY <1>1, <2>2
  <2>5. HasRow(rn[x]) /\ rn[x].state # "failed" /\ rn[x] \in RunRow /\ x \in Run
    BY <2>2, RunRowPresent DEF Consistent, HasRow, Absent
  <2>6. RetryTime(tk[rn[x].task], retryAt) \in Nat
    BY <2>5, UnfailedRunIsLast, AfterFailureState
  <2>7. new(r).availableAt = RetryTime(tk[rn[x].task], retryAt)
    BY <2>3 DEF RetryRun, NewRun
  <2> HIDE DEF new
  <2>8. new(r).availableAt # Never /\ ~HasRow(rn[r])
    BY <2>4, <2>6, <2>7, NullAssumption DEF HasRow, Absent
  <2> QED BY <1>4, <2>4, <2>8 DEF new
<1> QED BY <1>2, <1>3, <1>4

\* cancel_task takes the waits of the task's runs with them.
LEMMA CancelTaskWaits ==
  ASSUME WInv, IInv', NEW t \in Task, CancelTask(t)
  PROVE  WInv'
<1>1. \A r \in Run :
        /\ IF runs[r].task = t /\ runs[r].state \in Live THEN runs'[r].state = "cancelled"
                                                         ELSE runs'[r] = runs[r]
        /\ HasRow(runs[r]) => runs'[r].task = runs[r].task
  BY CancelledRuns DEF WInv, IInv, TypeOK, CancelTask
<1>2. /\ waits' = {w \in waits : w.task # t} /\ checkpoints' = checkpoints /\ events' = events
  BY DEF CancelTask
<1>3. StepsAside
  <2>1. \A w \in waits' : w \in waits /\ runs'[w.run] = runs[w.run]
    BY <1>1, <1>2, Sleeper
  <2>2. \A r \in Run : runs'[r].state = "sleeping" => runs'[r] = runs[r] /\ runs[r].task # t
    BY <1>1 DEF Live
  <2>3. \A w \in waits : w.task = runs[w.run].task
    BY Sleeper
  <2> QED BY <1>2, <2>1, <2>2, <2>3, WaitStepsOpen DEF StepsAside
<1>4. OwnersKnown'
  BY <1>1, <1>2, OwnersStay
<1> QED BY <1>3, <1>4, StepKeepsWaits

\* fail_run takes the wait of its run; a retry has a time to wake up at.
LEMMA FailRunWaits ==
  ASSUME WInv, IInv', NEW r \in Run, NEW retryAt \in RetryAt, FailRun(r, retryAt)
  PROVE  WInv'
<1>1. now \in Nat /\ Consistent(tasks, runs) /\ retryAt \in Nat \cup {Null}
      /\ runs[r].state \in {"running", "sleeping"}
  BY Types, InputAssumption DEF WInv, FailRun
<1>2. PICK fresh \in FreshIds({x \in {r} : Retries(tasks, runs, x, retryAt)}, runs) :
        runs' = FailRuns(tasks, runs, {r}, fresh, retryAt)
  BY DEF FailRun
<1>3. RunsFail(runs, runs', {r})
  BY <1>1, <1>2, FailedRuns
<1>4. waits' = {w \in waits : w.run # r} /\ checkpoints' = checkpoints /\ events' = events
  BY DEF FailRun
<1>5. StepsAside
  <2>1. \A w \in waits' : w \in waits /\ runs'[w.run] = runs[w.run]
    BY <1>3, <1>4, Sleeper DEF RunsFail
  <2>2. \A q \in Run : runs'[q].state = "sleeping" /\ runs'[q].availableAt = Never =>
          runs'[q] = runs[q] /\ q # r
    BY <1>3 DEF RunsFail
  <2> QED BY <1>4, <2>1, <2>2, WaitStepsOpen DEF StepsAside
<1>6. OwnersKnown'
  BY <1>3, <1>4, OwnersStay DEF RunsFail
<1> QED BY <1>5, <1>6, StepKeepsWaits

\* claim_task: the waits of cancelled and of swept runs go with them, and those
\* that timed out with the claim of their runs.
LEMMA ClaimTaskWaits ==
  ASSUME WInv, IInv', NEW timeout \in ClaimTimeout, NEW qty \in ClaimQty,
         ClaimTask(timeout, qty)
  PROVE  WInv'
<1> DEFINE doomed == {t \in Task : Overdue(tasks[t])}
           tk1 == CancelTasks(tasks, doomed)
           rn1 == CancelRuns(runs, doomed)
<1>1. now \in Nat /\ Consistent(tasks, runs) /\ timeout \in Nat
  BY Types, InputAssumption DEF WInv
<1>2. Consistent(tk1, rn1)
  BY <1>1, CancelConsistent DEF Overdue
<1>3. \A r \in Run :
        /\ IF runs[r].task \in doomed /\ runs[r].state \in Live THEN rn1[r].state = "cancelled"
                                                                ELSE rn1[r] = runs[r]
        /\ HasRow(runs[r]) => rn1[r].task = runs[r].task
  BY <1>1, CancelledRuns DEF Consistent
<1> HIDE DEF tk1, rn1
<1>4. PICK swept \in Batches({r \in Run : LeaseExpired(rn1[r])}, qty) :
      \E fresh \in FreshIds({r \in swept : Retries(tk1, rn1, r, Null)}, rn1) :
        LET tk2 == FailTasks(tk1, rn1, swept, fresh, Null)
            rn2 == FailRuns(tk1, rn1, swept, fresh, Null)
            wt2 == {w \in waits : w.task \notin doomed /\ w.run \notin swept}
        IN \E taken \in Batches({r \in Run : Claimable(tk2, rn2[r])}, qty) :
             /\ runs' = StartRuns(rn2, taken, timeout)
             /\ waits' = wt2 \ Timeouts(wt2, taken)
             /\ UNCHANGED <<now, checkpoints, events>>
  BY DEF ClaimTask, tk1, rn1
<1>5. PICK fresh \in FreshIds({r \in swept : Retries(tk1, rn1, r, Null)}, rn1) :
        LET tk2 == FailTasks(tk1, rn1, swept, fresh, Null)
            rn2 == FailRuns(tk1, rn1, swept, fresh, Null)
            wt2 == {w \in waits : w.task \notin doomed /\ w.run \notin swept}
        IN \E taken \in Batches({r \in Run : Claimable(tk2, rn2[r])}, qty) :
             /\ runs' = StartRuns(rn2, taken, timeout)
             /\ waits' = wt2 \ Timeouts(wt2, taken)
             /\ UNCHANGED <<now, checkpoints, events>>
  BY <1>4
<1> DEFINE tk2 == FailTasks(tk1, rn1, swept, fresh, Null)
           rn2 == FailRuns(tk1, rn1, swept, fresh, Null)
           wt2 == {w \in waits : w.task \notin doomed /\ w.run \notin swept}
<1>6. swept \in SUBSET Run /\ \A r \in swept : rn1[r].state \in {"running", "sleeping"}
  BY DEF Batches, LeaseExpired
<1>7. RunsFail(rn1, rn2, swept)
  BY <1>1, <1>2, <1>6, FailedRuns
<1>8. Consistent(tk2, rn2)
  BY <1>1, <1>2, <1>6, FailConsistent
<1> HIDE DEF tk2, rn2
<1>9. PICK taken \in Batches({r \in Run : Claimable(tk2, rn2[r])}, qty) :
        /\ runs' = StartRuns(rn2, taken, timeout)
        /\ waits' = wt2 \ Timeouts(wt2, taken)
        /\ UNCHANGED <<now, checkpoints, events>>
  BY <1>5 DEF tk2, rn2
<1>10. \A r \in taken : r \in Run /\ Due(rn2[r].availableAt) /\ rn2[r] \in RunRow
  <2> TAKE r \in taken
  <2>1. r \in Run /\ Due(rn2[r].availableAt) /\ rn2[r].state \in {"pending", "sleeping"}
    BY DEF Batches, Claimable
  <2> QED BY <2>1, <1>8, RunRowPresent DEF Consistent, HasRow, Absent
<1>11. \A r \in Run : IF r \in taken THEN runs'[r].state = "running" /\ runs'[r].task = rn2[r].task
                                     ELSE runs'[r] = rn2[r]
  BY <1>9, <1>10 DEF StartRuns, StartedRun, RunRow
\* A claimed run that slept with a wait has reached the wait's timeout.
<1>12. \A w \in waits : w.run \in taken /\ rn2[w.run] = runs[w.run] =>
         w \in Timeouts(waits, taken)
  <2> SUFFICES ASSUME NEW w \in waits, w.run \in taken, rn2[w.run] = runs[w.run]
               PROVE  w \in Timeouts(waits, taken)
    OBVIOUS
  <2>1. runs[w.run].availableAt = IF w.timeout = Null THEN Never ELSE w.timeout
    BY DEF WInv, WaitsMatchSleepers
  <2> QED BY <2>1, <1>10 DEF Due, Timeouts
<1>13. \A w \in wt2 : w \in waits /\ w.run \in Run /\ rn2[w.run] = runs[w.run]
  <2> TAKE w \in wt2
  <2>1. w \in waits /\ w.run \in Run /\ w.run \notin swept
        /\ runs[w.run].task \notin doomed /\ runs[w.run].state = "sleeping"
    BY Sleeper
  <2> QED BY <2>1, <1>3, <1>7 DEF RunsFail
<1>14. StepsAside
  <2>1. \A w \in waits' : w \in waits /\ runs'[w.run] = runs[w.run]
    <3> TAKE w \in waits'
    <3>1. w \in wt2 /\ w \notin Timeouts(wt2, taken)
      BY <1>9
    <3>2. w.run \notin taken
      BY <3>1, <1>12, <1>13 DEF Timeouts
    <3> QED BY <3>1, <3>2, <1>11, <1>13
  <2>2. ASSUME NEW r \in Run, runs'[r].state = "sleeping", runs'[r].availableAt = Never
        PROVE  runs'[r] = runs[r] /\ \A w \in waits : w.run = r => w \in waits'
    <3>1. r \notin taken /\ runs'[r] = rn2[r]
      BY <2>2, <1>11
    <3>2. rn2[r] = rn1[r] /\ r \notin swept
      BY <2>2, <3>1, <1>7 DEF RunsFail
    <3>3. rn1[r] = runs[r] /\ runs[r].task \notin doomed
      BY <2>2, <3>1, <3>2, <1>3 DEF Live
    <3>4. \A w \in waits : w.run = r => w \in wt2
      BY <3>2, <3>3, Sleeper
    <3> QED BY <3>1, <3>2, <3>3, <3>4, <1>9 DEF Timeouts
  <2>3. waits' \subseteq waits
    BY <2>1
  <2> HIDE DEF wt2, doomed
  <2> QED BY <2>1, <2>2, <2>3, <1>9, WaitStepsOpen DEF StepsAside
<1>15. OwnersKnown'
  <2>1. \A r \in Run : HasRow(runs[r]) => HasRow(rn1[r])
    BY <1>3 DEF HasRow, Absent
  <2>2. \A r \in Run : HasRow(runs[r]) => runs'[r].task = runs[r].task
    BY <2>1, <1>3, <1>7, <1>11 DEF RunsFail
  <2> QED BY <2>2, <1>9, OwnersStay
<1> QED BY <1>14, <1>15, StepKeepsWaits

\* cleanup_tasks takes the waits and the steps of a task with its runs.
LEMMA CleanupTasksWaits ==
  ASSUME WInv, IInv', NEW ttl \in Ttl, NEW limit \in CleanupLimit, CleanupTasks(ttl, limit)
  PROVE  WInv'
<1>1. PICK B \in SUBSET Cleanable(ttl) :
        /\ runs' = [r \in Run |-> IF runs[r].task \in B THEN NoRun("deleted") ELSE runs[r]]
        /\ checkpoints' = StepsWithout(B)
        /\ waits' = {w \in waits : w.task \notin B}
        /\ events' = events
  BY DEF CleanupTasks
<1>2. \A c \in Task \X Step : checkpoints'[c] # NoCheckpoint =>
        checkpoints'[c] = checkpoints[c] /\ c[1] \notin B
  BY <1>1 DEF StepsWithout
<1>3. StepsAside
  <2>1. \A w \in waits' : /\ w \in waits /\ runs'[w.run] = runs[w.run]
                          /\ checkpoints'[<<w.task, w.step>>] = NoCheckpoint
    <3> TAKE w \in waits'
    <3>1. w \in waits /\ w.task \notin B /\ w.run \in Run /\ runs[w.run].task = w.task
          /\ <<w.task, w.step>> \in Task \X Step
      BY <1>1, Sleeper DEF Step
    <3>2. checkpoints[<<w.task, w.step>>] = NoCheckpoint
      BY <3>1 DEF WInv, WaitsMatchSleepers
    <3> QED BY <3>1, <3>2, <1>1, <1>2
  <2>2. \A r \in Run : runs'[r].state = "sleeping" => runs'[r] = runs[r] /\ runs[r].task \notin B
    BY <1>1 DEF NoRun
  <2>3. \A w \in waits : w.task = runs[w.run].task
    BY Sleeper
  <2> QED BY <1>1, <2>1, <2>2, <2>3 DEF StepsAside
<1>4. OwnersKnown'
  <2> SUFFICES ASSUME NEW c \in Task \X Step, checkpoints'[c] # NoCheckpoint
               PROVE  runs'[checkpoints'[c].owner].task = c[1]
    BY DEF OwnersKnown
  <2>1. checkpoints'[c] = checkpoints[c] /\ c[1] \notin B
    BY <1>2
  <2>2. checkpoints[c].owner \in Run /\ runs[checkpoints[c].owner].task = c[1]
    BY <2>1, OwnerPresent
  <2> QED BY <2>1, <2>2, <1>1
<1> QED BY <1>3, <1>4, StepKeepsWaits

\* cleanup_events, the clock and steps of others take no payload in, no wait out.
LEMMA RunsUntouchedWaits ==
  ASSUME WInv, IInv',
         \/ \E ttl \in Ttl, limit \in CleanupLimit : CleanupEvents(ttl, limit)
         \/ Tick
         \/ UNCHANGED vars
  PROVE  WInv'
<1>1. runs' = runs /\ waits' = waits /\ checkpoints' = checkpoints
  BY DEF CleanupEvents, Tick, vars
<1>2. \A e \in Event : events[e].payload = Null => events'[e].payload = Null
  <2>1. \/ \E B : events' = [e \in Event |-> IF e \in B THEN NoEvent ELSE events[e]]
        \/ events' = events
    BY DEF CleanupEvents, Tick, vars
  <2> QED BY <2>1 DEF NoEvent
<1>3. StepsAside
  <2>1. \A w \in waits : w.event \in Event
    BY Sleeper
  <2> QED BY <1>1, <1>2, <2>1, WaitStepsOpen DEF StepsAside
<1>4. OwnersKnown'
  BY <1>1, OwnersStay
<1> QED BY <1>3, <1>4, StepKeepsWaits

-----------------------------------------------------------------------------
(* The theorems *)

\* No run sleeps and nothing waits at first.
LEMMA InitWInv == Init => WInv
<1> SUFFICES ASSUME Init PROVE WInv
  OBVIOUS
<1>1. WaitsMatchSleepers /\ NoLostWakeup /\ OwnersKnown
  BY DEF Init, WaitsMatchSleepers, NoLostWakeup, OwnersKnown, NoRun
<1> QED BY <1>1, InitIInv DEF WInv

\* Every step preserves the invariant.
LEMMA NextWInv == WInv /\ [Next]_vars => WInv'
<1> SUFFICES ASSUME WInv, [Next]_vars PROVE WInv'
  OBVIOUS
<1>1. IInv'
  BY NextIInv DEF WInv
<1>2. CASE ClientNext
  BY <1>1, <1>2, SpawnTaskWaits, CancelTaskWaits, RetryTaskWaits, EmitEventWaits
     DEF ClientNext, RetryAsNewTask
<1>3. CASE WorkerNext
  <2>1. ASSUME NEW timeout \in ClaimTimeout, NEW qty \in ClaimQty, ClaimTask(timeout, qty)
        PROVE  WInv'
    BY <1>1, <2>1, ClaimTaskWaits
  <2>2. ASSUME NEW r \in Run, CompleteRun(r)
        PROVE  WInv'
    BY <1>1, <2>2, CompleteRunWaits
  <2>3. ASSUME NEW r \in Run, NEW at \in WakeAt, ScheduleRun(r, at)
        PROVE  WInv'
    BY <1>1, <2>3, ScheduleRunWaits
  <2>4. ASSUME NEW r \in Run, NEW at \in RetryAt, FailRun(r, at)
        PROVE  WInv'
    BY <1>1, <2>4, FailRunWaits
  <2>5. ASSUME NEW r \in Run, NEW s \in BodyStep, NEW p \in Payload,
               NEW by \in ExtendBy \cup {0}, SetCheckpoint(r, s, p, by)
        PROVE  WInv'
    BY <1>1, <2>5, SetCheckpointWaits
  <2>6. ASSUME NEW r \in Run, NEW by \in ExtendBy, ExtendClaim(r, by)
        PROVE  WInv'
    BY <1>1, <2>6, ExtendClaimWaits
  <2>7. ASSUME NEW r \in Run, NEW s \in AwaitStep, NEW e \in Event, AwaitResolved(r, s, e)
        PROVE  WInv'
    BY <1>1, <2>7, AwaitResolvedWaits
  <2>8. ASSUME NEW r \in Run, NEW s \in AwaitStep, NEW e \in Event, AwaitTimedOut(r, s, e)
        PROVE  WInv'
    BY <1>1, <2>8, AwaitTimedOutWaits
  <2>9. ASSUME NEW r \in Run, NEW s \in AwaitStep, NEW e \in Event,
               NEW timeout \in AwaitTimeout, AwaitParks(r, s, e, timeout)
        PROVE  WInv'
    BY <1>1, <2>9, AwaitParksWaits
  <2> QED BY <1>3, <2>1, <2>2, <2>3, <2>4, <2>5, <2>6, <2>7, <2>8, <2>9 DEF WorkerNext
<1>4. CASE CleanupNext
  BY <1>1, <1>4, CleanupTasksWaits, RunsUntouchedWaits DEF CleanupNext
<1>5. CASE Tick \/ UNCHANGED vars
  BY <1>1, <1>5, RunsUntouchedWaits
<1> QED BY <1>2, <1>3, <1>4, <1>5 DEF Next

\* Every reachable state satisfies the invariant.
THEOREM QueueWInv == Spec => []WInv
BY InitWInv, NextWInv, PTL DEF Spec

\* A wait is of a sleeping run that names its event and wakes at its timeout,
\* and a run has one wait, whatever is swept, cancelled, retried or emitted.
THEOREM QueueWaitsMatchSleepers == Spec => []WaitsMatchSleepers
<1>1. WInv => WaitsMatchSleepers
  BY DEF WInv
<1> QED BY <1>1, QueueWInv, PTL

\* A run that sleeps without a wake-up time waits for an event that has no
\* payload yet, so the emission will wake it.
THEOREM QueueLosesNoWakeup == Spec => []NoLostWakeup
<1>1. WInv => NoLostWakeup
  BY DEF WInv
<1> QED BY <1>1, QueueWInv, PTL

\* No checkpoint and no wait refers to a task or a run that cleanup deleted.
THEOREM QueueLeavesNoOrphans == Spec => []NoOrphans
<1>1. WInv => NoOrphans
  BY Sleeper, OwnerPresent DEF NoOrphans, HasRow, TaskRow, Live, Ended, Absent
<1> QED BY <1>1, QueueWInv, PTL

\* What await_event returned for a step stays the step's result: a wake-up
\* writes only steps that a wait shows to be open.
THEOREM QueueAwaitResultsStable == Spec => AwaitResultsAreStable
<1>1. ASSUME WInv, Next PROVE AwaitResultsStable
  <2> SUFFICES ASSUME NEW t \in Task, NEW s \in AwaitStep,
                      checkpoints[<<t, s>>] # NoCheckpoint, HasRow(tasks'[t])
               PROVE  checkpoints'[<<t, s>>] = checkpoints[<<t, s>>]
    BY DEF AwaitResultsStable
  <2> DEFINE c == <<t, s>>
  <2>1. c \in Task \X Step /\ checkpoints \in [Task \X Step -> CheckpointRow \cup {NoCheckpoint}]
    BY <1>1, Types DEF WInv, Step
  <2>2. ASSUME NEW r \in Run, NEW x \in BodyStep, NEW p \in Payload,
               NEW by \in ExtendBy \cup {0}, SetCheckpoint(r, x, p, by)
        PROVE  checkpoints'[c] = checkpoints[c]
    BY <2>1, <2>2, StepAssumption DEF SetCheckpoint
  <2>3. ASSUME NEW r \in Run, NEW x \in AwaitStep, NEW e \in Event, AwaitResolved(r, x, e)
        PROVE  checkpoints'[c] = checkpoints[c]
    <3>1. checkpoints[<<runs[r].task, x>>] = NoCheckpoint
      BY <2>3 DEF AwaitResolved, AwaitStart
    <3> QED BY <2>1, <2>3, <3>1 DEF AwaitResolved
  <2>4. ASSUME NEW e \in Event, NEW p \in Payload, EmitEvent(e, p)
        PROVE  checkpoints'[c] = checkpoints[c]
    <3>1. ~\E w \in WokenWaits(e) : c = <<w.task, w.step>>
      BY <1>1 DEF WInv, WaitsMatchSleepers, WokenWaits
    <3> QED BY <2>1, <2>4, <3>1 DEF EmitEvent
  <2>5. ASSUME NEW ttl \in Ttl, NEW limit \in CleanupLimit, CleanupTasks(ttl, limit)
        PROVE  checkpoints'[c] = checkpoints[c]
    <3>1. PICK B \in SUBSET Cleanable(ttl) :
            /\ tasks' = [u \in Task |-> IF u \in B THEN NoTask("deleted") ELSE tasks[u]]
            /\ checkpoints' = StepsWithout(B)
      BY <2>5 DEF CleanupTasks
    <3>2. t \notin B
      BY <3>1 DEF HasRow, Absent, NoTask
    <3> QED BY <2>1, <3>1, <3>2 DEF StepsWithout
  <2>6. CASE ClientNext
    <3>1. ASSUME NEW u \in Task, NEW r \in Run, NEW opt, SpawnTask(u, r, opt)
          PROVE  checkpoints' = checkpoints
      BY <3>1 DEF SpawnTask
    <3>2. ASSUME NEW u \in Task, NEW v \in Task, NEW r \in Run, NEW limit \in RetryMax,
                 RetryAsNewTask(u, v, r, limit)
          PROVE  checkpoints' = checkpoints
      BY <3>1, <3>2 DEF RetryAsNewTask
    <3>3. ASSUME NEW u \in Task, NEW r \in Run, NEW limit \in RetryMax, RetryTask(u, r, limit)
          PROVE  checkpoints' = checkpoints
      BY <3>3 DEF RetryTask
    <3>4. ASSUME NEW u \in Task, CancelTask(u)
          PROVE  checkpoints' = checkpoints
      BY <3>4 DEF CancelTask
    <3> QED BY <2>4, <2>6, <3>1, <3>2, <3>3, <3>4 DEF ClientNext
  <2>7. CASE WorkerNext
    BY <2>2, <2>3, <2>7 DEF WorkerNext, ClaimTask, CompleteRun, ScheduleRun, FailRun, ExtendClaim,
       AwaitTimedOut, AwaitParks
  <2>8. CASE CleanupNext
    BY <2>5, <2>8 DEF CleanupNext, CleanupEvents
  <2>9. CASE Tick
    BY <2>9 DEF Tick
  <2> QED BY <1>1, <2>6, <2>7, <2>8, <2>9 DEF Next
<1>2. WInv /\ [Next]_vars => [AwaitResultsStable]_vars
  BY <1>1
<1> QED BY <1>2, QueueWInv, PTL DEF Spec, AwaitResultsAreStable
=============================================================================
