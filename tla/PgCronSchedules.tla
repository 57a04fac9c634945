-------------------------- MODULE PgCronSchedules --------------------------
(***************************************************************************)
(* The schedules of the pg_cron app: ScheduledTask rows in the application *)
(* database, jobs in a catalogue that the databases of a server share, and *)
(* the processes that write both.  A row and its job are never written in  *)
(* one transaction: a row's commit leaves hooks behind, and each statement *)
(* on the catalogue's autocommit connection is a transaction of its own.   *)
(* So a process is a list of statements still to run, one per step, and    *)
(* what another process does may come between any two.                     *)
(*                                                                         *)
(* A row is its cron and its switch; the spawn options ride along with the *)
(* row and are read when the job fires.                                    *)
(*                                                                         *)
(* Bounds: a budget says how many rows are written by hand, how often the  *)
(* catalogue or a process fails and how many commands are run.             *)
(***************************************************************************)
EXTENDS Integers, Sequences, SequencesExt, FiniteSets

CONSTANTS
  Process,
  Names,          \* names of the schedules: a settings and an admin row may share one
  Crons,
  Releases,       \* what settings can say: [schedule: names -> crons, cleanup: a cron]
  Deployments,    \* the environments a process may find itself in
  Budgets,
  None

ASSUME PgCronAssumption ==
  /\ IsFiniteSet(Names) /\ Crons # {} /\ None \notin Crons
  /\ \A r \in Releases : r.schedule \in [Names -> Crons \cup {None}] /\ r.cleanup \in Crons \cup {None}
  /\ Budgets \subseteq [{"writes", "faults", "runs"} -> Nat]

Settings == "s"
Admin == "a"
Cleanup == <<"c", "cleanup_all">>
RowKey == {Settings, Admin} \X Names
Row == [cron : Crons, enabled : BOOLEAN]

\* A job's name is its database, its source and its schedule.
Ours == (RowKey \cup {Cleanup}) \X {"app"}
JobKey == (RowKey \cup {Cleanup}) \X {"app", "other"}
Job(key) == <<key, "app">>
Lane(source) == {j \in Ours : j[1][1] = source}

VARIABLES
  rows,        \* ScheduledTask
  jobs,        \* cron.job: [id, cron, active]
  todo,        \* the statements each process has still to run
  release,     \* the settings now deployed
  deployment,  \* what detection finds, and the opt-ins of OPTIONS
  spawned,     \* what the last step spawned, if it did
  owed,        \* what the processes now running promise when all of them are done
  left         \* how much may still happen

vars == <<rows, jobs, todo, release, deployment, spawned, owed, left>>
world == <<release, deployment>>

JobIds == Nat
JobRow == [id : JobIds, cron : Crons, active : BOOLEAN]

ASSUME NoneAssumption == None \notin Row /\ None \notin JobRow

-----------------------------------------------------------------------------
(* detection.py and apps.py: where scheduling is inert.                     *)

Inert == (deployment.test_environment \/ deployment.test_database)
           /\ ~deployment.PG_CRON_ON_TEST_DB

ShouldSyncSchedules == IF deployment.test_database
                         THEN deployment.SYNC_SCHEDULES_ON_TEST_DB
                         ELSE deployment.SYNC_SCHEDULES_ON_MIGRATE

-----------------------------------------------------------------------------
(* The statements.  A hook is run after a commit and its failure is logged; *)
(* a statement of the command itself takes the rest of the command with it. *)

Save(key, row) == [op |-> "save", key |-> key, row |-> row]
DeleteRows(gone) == [op |-> "delete", gone |-> gone]
Truncate == [op |-> "truncate"]
ReadAdminRows == [op |-> "read"]
Schedule(key, row, hook) == [op |-> "schedule", key |-> key, row |-> row, hook |-> hook]
Alter(j, id, active, hook) == [op |-> "alter", job |-> j, id |-> id, active |-> active, hook |-> hook]
Find(lanes, keep, hook) == [op |-> "find", lanes |-> lanes, keep |-> keep, hook |-> hook]
Drop(j, id, hook) == [op |-> "drop", job |-> j, id |-> id, hook |-> hook]

\* unschedule_job looks one job up, prune_jobs a lane without the names to keep,
\* unschedule_jobs_for_database a lane, flush_database_jobs all of them.
UnscheduleJob(key, hook) == Find({Job(key)}, {}, hook)
PruneJobs(source, names) == Find(Lane(source), {Job(<<source, n>>) : n \in names}, FALSE)
UnscheduleLane(source) == Find(Lane(source), {}, FALSE)
FlushDatabaseJobs == Find(Ours, {}, FALSE)

Statement ==
  [op : {"save"}, key : RowKey, row : Row]
    \cup [op : {"delete"}, gone : SUBSET RowKey] \cup [op : {"truncate", "read"}]
    \cup [op : {"schedule"}, key : RowKey \cup {Cleanup}, row : Row, hook : BOOLEAN]
    \cup [op : {"alter"}, job : Ours, id : JobIds, active : BOOLEAN, hook : BOOLEAN]
    \cup [op : {"find"}, lanes : SUBSET Ours, keep : SUBSET Ours, hook : BOOLEAN]
    \cup [op : {"drop"}, job : Ours, id : JobIds, hook : BOOLEAN]

TypeOK ==
  /\ rows \in [RowKey -> Row \cup {None}] /\ jobs \in [JobKey -> JobRow \cup {None}]
  /\ todo \in [Process -> Seq(Statement)]
  /\ release \in Releases /\ deployment \in Deployments
  /\ spawned \in RowKey \cup {None}
  /\ owed \in {"nothing", "agreement", "teardown"}
  /\ left \in [{"writes", "faults", "runs"} -> Nat]

OnCatalogue == {"schedule", "alter", "find", "drop"}

-----------------------------------------------------------------------------
(* What the commands consist of.                                            *)

Declared(r) == {n \in Names : r.schedule[n] # None}

Undeclared(r) == {Settings} \X (Names \ Declared(r))

SaveDeclared(r) ==
  SetToSeq({Save(<<Settings, n>>, [cron |-> r.schedule[n], enabled |-> TRUE]) : n \in Declared(r)})

ReconcileCleanupJob(r) ==
  IF r.cleanup # None THEN Schedule(Cleanup, [cron |-> r.cleanup, enabled |-> TRUE], FALSE)
                      ELSE UnscheduleJob(Cleanup, FALSE)

SyncCrons(r) ==
  SaveDeclared(r)
    \o << DeleteRows(Undeclared(r)),
          PruneJobs(Settings, Declared(r)),
          ReconcileCleanupJob(r) >>

SyncAdminCrons == << ReadAdminRows >>

TeardownKeepingAdminRows ==   \* mutant: the admin rows are kept
   << UnscheduleLane(Settings), UnscheduleLane(Admin),
                               UnscheduleJob(Cleanup, FALSE), DeleteRows({Settings} \X Names) >>
TeardownCrons == << UnscheduleLane(Settings), UnscheduleLane(Admin),
                    UnscheduleJob(Cleanup, FALSE), DeleteRows(RowKey) >>

DropPgCronState == << FlushDatabaseJobs, Truncate >>

-----------------------------------------------------------------------------
Idle(p) == todo[p] = <<>>
AllIdle == \A p \in Process : Idle(p)
Spend(what) == left[what] > 0 /\ left' = [left EXCEPT ![what] = @ - 1]
Runs(p, op) == ~Idle(p) /\ Head(todo[p]).op = op
Continue(p, more) == todo' = [todo EXCEPT ![p] = more \o Tail(@)]
Fails(p, o) == todo' = [todo EXCEPT ![p] = IF o.hook THEN Tail(@) ELSE <<>>]

Pending == UNION {ToSet(todo[p]) : p \in Process}

\* A job id is fresh when neither a job nor a statement still refers to it.
FreshId ==
  LET used == {jobs[j].id : j \in {x \in JobKey : jobs[x] # None}}
                \cup {o.id : o \in {x \in Pending : x.op \in {"alter", "drop"}}}
  IN CHOOSE i \in 0 .. Cardinality(used) : i \notin used

\* The rows: each write commits, then its signals' hooks run.
SaveRow(p) ==
  LET o == Head(todo[p]) IN
  /\ Runs(p, "save")
  /\ rows' = [rows EXCEPT ![o.key] = o.row]
  /\ Continue(p, << Schedule(o.key, o.row, TRUE) >>)
  /\ spawned' = None /\ UNCHANGED <<jobs, owed, left, world>>

DeleteGoneRows(p) ==
  LET o == Head(todo[p])
      gone == {k \in o.gone : rows[k] # None} IN
  /\ Runs(p, "delete")
  /\ rows' = [k \in RowKey |-> IF k \in gone THEN None ELSE rows[k]]
  /\ Continue(p, SetToSeq({UnscheduleJob(k, TRUE) : k \in gone}))
  /\ spawned' = None /\ UNCHANGED <<jobs, owed, left, world>>

TruncateRows(p) ==
  /\ Runs(p, "truncate")
  /\ rows' = [k \in RowKey |-> None]
  /\ Continue(p, <<>>)
  /\ spawned' = None /\ UNCHANGED <<jobs, owed, left, world>>

\* sync_admin_crons emits every row it has read, then prunes by those names.
ReadAdmin(p) ==
  LET names == {n \in Names : rows[<<Admin, n>>] # None} IN
  /\ Runs(p, "read")
  /\ Continue(p, SetToSeq({Schedule(<<Admin, n>>, rows[<<Admin, n>>], FALSE) : n \in names})
                   \o << PruneJobs(Admin, names) >>)
  /\ spawned' = None /\ UNCHANGED <<rows, jobs, owed, left, world>>

-----------------------------------------------------------------------------
(* catalog.py: every verb does nothing where scheduling is inert.           *)

SkipsTestDatabase(op) ==   \* mutant: only test databases are inert, no catalogue guard
   deployment.test_database /\ ~deployment.PG_CRON_ON_TEST_DB
Skips(op) == op \in OnCatalogue /\ Inert
Gated(p, op) == Runs(p, op) /\ Skips(op) /\ Continue(p, <<>>) /\ UNCHANGED jobs

ArmNever(j, id, o) == <<>>   \* mutant: the switch of a job that exists is not set
Arm(j, id, o) == << Alter(j, id, o.row.enabled, o.hook) >>

\* cron.schedule_in_database keeps the switch of a job it finds.
ScheduleJob(p) ==
  LET o == Head(todo[p])
      j == Job(o.key) IN
  /\ \/ Gated(p, "schedule")
     \/ /\ Runs(p, "schedule") /\ ~Skips("schedule")
        /\ \E id \in {IF jobs[j] = None THEN FreshId ELSE jobs[j].id} :
             /\ jobs' = [jobs EXCEPT ![j] =
                          [id |-> id, cron |-> o.row.cron,
                           active |-> IF @ = None THEN o.row.enabled ELSE @.active]]
             /\ Continue(p, Arm(j, id, o))
  /\ spawned' = None /\ UNCHANGED <<rows, owed, left, world>>

AlterJob(p) ==
  LET o == Head(todo[p]) IN
  /\ Runs(p, "alter")
  /\ IF jobs[o.job] # None /\ jobs[o.job].id = o.id
       THEN jobs' = [jobs EXCEPT ![o.job].active = o.active] /\ Continue(p, <<>>)
       ELSE UNCHANGED jobs /\ Fails(p, o)
  /\ spawned' = None /\ UNCHANGED <<rows, owed, left, world>>

FindJobs(p) ==
  LET o == Head(todo[p])
      stale == {j \in o.lanes \ o.keep : jobs[j] # None} IN
  /\ \/ Gated(p, "find")
     \/ /\ Runs(p, "find") /\ ~Skips("find")
        /\ Continue(p, SetToSeq({Drop(j, jobs[j].id, o.hook) : j \in stale}))
        /\ UNCHANGED jobs
  /\ spawned' = None /\ UNCHANGED <<rows, owed, left, world>>

UnscheduleJobids(p) ==
  LET o == Head(todo[p]) IN
  /\ Runs(p, "drop")
  /\ jobs' = [jobs EXCEPT ![o.job] = IF @ # None /\ @.id = o.id THEN None ELSE @]
  /\ Continue(p, <<>>)
  /\ spawned' = None /\ UNCHANGED <<rows, owed, left, world>>

\* The catalogue cannot be reached, or refuses: emit_schedule_change logs it, a
\* reconcile ends there (reconcile_crons_after_migrate logs that).
CatalogueFails(p) ==
  /\ ~Idle(p) /\ Head(todo[p]).op \in OnCatalogue /\ ~Inert
  /\ Spend("faults") /\ Fails(p, Head(todo[p])) /\ owed' = "nothing"
  /\ spawned' = None /\ UNCHANGED <<rows, jobs, world>>

Dies(p) ==
  /\ ~Idle(p)
  /\ Spend("faults") /\ todo' = [todo EXCEPT ![p] = <<>>] /\ owed' = "nothing"
  /\ spawned' = None /\ UNCHANGED <<rows, jobs, world>>

-----------------------------------------------------------------------------
(* What starts a process, and what it owes.                                 *)

Starts(p, what, promise) ==
  /\ Idle(p)
  /\ todo' = [todo EXCEPT ![p] = what]
  /\ owed' = IF AllIdle \/ owed = promise THEN promise ELSE "nothing"
  /\ spawned' = None /\ UNCHANGED <<rows, jobs, world>>

\* migrate reconciles if its options say so, absurd_sync_crons refuses to be inert;
\* absurd_flush and the flush after a test tear down wherever they run.
Reconcile(p) ==
  /\ ShouldSyncSchedules \/ ~Inert
  /\ Spend("runs") /\ Starts(p, SyncCrons(release) \o SyncAdminCrons, "agreement")

Teardown(p) == Spend("runs") /\ Starts(p, TeardownCrons, "teardown")

FlushState(p) == Spend("runs") /\ Starts(p, DropPgCronState, "teardown")

\* A row written through the ORM or the admin, where settings rows are read-only and
\* a new row starts disabled (the ORM writes either).
\* An author alone keeps what agreed in agreement; two at once may not.
Author(p) ==
  /\ Idle(p) /\ Spend("writes")
  /\ \E n \in Names :
       \/ \E row \in Row :
            /\ rows' = [rows EXCEPT ![<<Admin, n>>] = row]
            /\ todo' = [todo EXCEPT ![p] = << Schedule(<<Admin, n>>, row, TRUE) >>]
       \/ /\ rows[<<Admin, n>>] # None
          /\ rows' = [rows EXCEPT ![<<Admin, n>>] = None]
          /\ todo' = [todo EXCEPT ![p] = << UnscheduleJob(<<Admin, n>>, TRUE) >>]
  /\ owed' = IF AllIdle /\ owed = "agreement" THEN owed ELSE "nothing"
  /\ spawned' = None /\ UNCHANGED <<jobs, world>>

\* update(), bulk_create, a data migration, SQL: no signal, so no hook.
SilentWrite ==
  /\ Spend("writes") /\ owed' = "nothing"
  /\ \E k \in RowKey, row \in Row \cup {None} : rows' = [rows EXCEPT ![k] = row]
  /\ spawned' = None /\ UNCHANGED <<jobs, todo, world>>

Deploy ==
  /\ \E r \in Releases \ {release} : release' = r
  /\ Spend("runs") /\ owed' = "nothing"
  /\ spawned' = None /\ UNCHANGED <<rows, jobs, todo, deployment>>

\* django_absurd_run_scheduled reads the row again.
RunScheduled(key) == rows[key] # None /\ rows[key].enabled

Fire(key) ==
  /\ jobs[Job(key)] # None /\ jobs[Job(key)].active
  /\ spawned' = IF RunScheduled(key) THEN key ELSE None
  /\ UNCHANGED <<rows, jobs, todo, owed, left, world>>

-----------------------------------------------------------------------------
LeftOver(j) == [id |-> 0, cron |-> CHOOSE c \in Crons : TRUE, active |-> TRUE]

\* The catalogue holds another database's jobs and perhaps one of ours.
Init ==
  /\ rows = [k \in RowKey |-> None]
  /\ \E old \in Ours :
       \/ jobs = [j \in JobKey |-> IF j \in Ours THEN None ELSE LeftOver(j)]
       \/ jobs = [j \in JobKey |-> IF j \in Ours \ {old} THEN None ELSE LeftOver(j)]
  /\ todo = [p \in Process |-> <<>>]
  /\ release \in Releases /\ deployment \in Deployments
  /\ spawned = None /\ owed = "nothing"
  /\ left \in Budgets

Step(p) ==
  \/ SaveRow(p) \/ DeleteGoneRows(p) \/ TruncateRows(p) \/ ReadAdmin(p)
  \/ ScheduleJob(p) \/ AlterJob(p) \/ FindJobs(p) \/ UnscheduleJobids(p)

Next ==
  \/ \E p \in Process : \/ Step(p) \/ CatalogueFails(p) \/ Dies(p)
                        \/ Reconcile(p) \/ Teardown(p) \/ FlushState(p) \/ Author(p)
  \/ SilentWrite \/ Deploy
  \/ \E key \in RowKey : Fire(key)

Spec == Init /\ [][Next]_vars

-----------------------------------------------------------------------------
(* Properties.                                                              *)

Agree(key) ==
  LET row == rows[key]
      job == jobs[Job(key)] IN
  IF row = None THEN job = None
  ELSE job # None /\ job.cron = row.cron /\ job.active = row.enabled

CleanupAgrees ==
  LET job == jobs[Job(Cleanup)] IN
  IF release.cleanup = None THEN job = None
  ELSE job # None /\ job.cron = release.cleanup /\ job.active

SettingsAgree ==
  \A n \in Names :
    IF release.schedule[n] = None THEN rows[<<Settings, n>>] = None
    ELSE rows[<<Settings, n>>] = [cron |-> release.schedule[n], enabled |-> TRUE]

(* reconcile.py:97 "concurrent reconcilers converge without one [lock]" and *)
(* signals.py:14 "the next reconcile self-heals it": whatever the rows and   *)
(* the jobs were, once the reconciles of one release are all done, with no   *)
(* failure and no other writer among them, every row has the job it          *)
(* describes, no job is left without a row, and the settings rows and the    *)
(* cleanup job are what the release declares.                                *)
ReconcileConverges ==
  AllIdle /\ owed = "agreement" /\ ~Inert =>
    SettingsAgree /\ CleanupAgrees /\ \A key \in RowKey : Agree(key)

(* reconcile.py:193: a teardown "is terminal": once it is done nothing of    *)
(* ours is in the catalogue, no row is there for a migrate to emit again,    *)
(* and (catalog.py:106) "another database's jobs" are all still there.       *)
TeardownIsTerminal ==
  AllIdle /\ owed = "teardown" =>
    /\ \A key \in RowKey : rows[key] = None
    /\ ~Inert => {j \in JobKey : jobs[j] # None} = JobKey \ Ours

(* detection.py: a test run never writes the catalogue that it shares with   *)
(* the deployed system, even through hooks, unless it opted in.              *)
InertWritesNothing == [][Inert => UNCHANGED jobs]_vars
=============================================================================
