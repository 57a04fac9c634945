---------------------------- MODULE Provisioning ----------------------------
(***************************************************************************)
(* Provisioning makes the database agree with the QUEUES of the settings:  *)
(* a catalogue row, five tables and a policy for each queue, and the admin *)
(* views over the tables of every row.  A deploy runs several provisioners *)
(* at once, each in one transaction behind an advisory lock; absurd_flush, *)
(* a psql session and a restore change the same objects without it.        *)
(*                                                                         *)
(* Rows, tables and views are the committed state; made, built, fixed and  *)
(* viewed are what a provisioner's open transaction has done, which only   *)
(* it can see.  Statements are the steps (read committed).                 *)
(*                                                                         *)
(* Bounds: MaxRuns provisionings, MaxMischief acts of operators and        *)
(* crashes, and a Part for the tables of a queue that are lost separately. *)
(***************************************************************************)
EXTENDS Naturals, Sequences, FiniteSets, SequencesExt

CONSTANTS
  Provisioner, Queue, Part,
  Declared,       \* the queues of QUEUES, in order
  HasPolicy,      \* those whose declaration sets a policy
  MaxRuns, MaxMischief, MaxFlushes

ASSUME ProvisioningAssumption ==
  /\ Declared \in Seq(Queue) \ {<< >>} /\ HasPolicy \subseteq ToSet(Declared)
  /\ Part # {} /\ "absent" \notin Queue /\ "nobody" \notin Provisioner
  /\ MaxRuns \in Nat /\ MaxMischief \in Nat /\ MaxFlushes \in Nat

NoRow == [mode |-> "none", policy |-> "none"]
Mode == {"unpartitioned", "partitioned"}
Row == {NoRow} \cup [mode : Mode, policy : {"default", "declared", "edited"}]
NoViews == {"absent"}
NoOne == "nobody"
NoPlan == [create |-> FALSE, repair |-> FALSE, policy |-> FALSE]

VARIABLES
  schema,                   \* the absurd schema is installed
  rows, tables, views,      \* absurd.queues, the queues' tables, the union views
  lock,                     \* the holder of PROVISION_LOCK_KEY
  pc, todo, plan,           \* each provisioner's place
  made, built, fixed, viewed,  \* and its open transaction
  calm,                     \* no one else has touched a queue since it began
  settled,                  \* nor since the last calm commit
  worker, workerCalm,       \* a worker of the first declared queue
  flush, names,             \* absurd_flush
  left

tx == <<made, built, fixed, viewed>>
db == <<schema, rows, tables, views>>
prov == <<lock, pc, todo, plan, calm, tx>>
others == <<worker, workerCalm, flush, names>>
vars == <<db, prov, settled, others, left>>

TypeOK ==
  /\ schema \in BOOLEAN /\ rows \in [Queue -> Row]
  /\ tables \subseteq Queue \X Part /\ (views = NoViews \/ views \subseteq Queue)
  /\ lock \in Provisioner \cup {NoOne}
  /\ pc \in [Provisioner -> {"idle", "locking", "reading", "probing", "applying",
                             "committing"}]
  /\ \A p \in Provisioner :
       /\ todo[p] \in Seq(Queue) /\ plan[p] \in [{"create", "repair", "policy"} -> BOOLEAN]
       /\ made[p] \subseteq Queue /\ fixed[p] \subseteq Queue
       /\ built[p] \subseteq Queue \X Part
       /\ viewed[p] = NoViews \/ viewed[p] \subseteq Queue
  /\ calm \in [Provisioner -> BOOLEAN] /\ settled \in BOOLEAN
  /\ worker \in {"off", "listed", "running", "ended"} /\ workerCalm \in BOOLEAN
  /\ flush \in {"idle", "teardown", "dropping"} /\ names \subseteq Queue
  /\ left \in [{"runs", "mischief", "flushes"} -> Nat]

Spend(what) == left[what] > 0 /\ left' = [left EXCEPT ![what] = @ - 1]
Goes(p, where) == pc' = [pc EXCEPT ![p] = where]

There(r) == r # NoRow
Catalogue == {q \in Queue : There(rows[q])}
Tables(q) == {q} \X Part

-----------------------------------------------------------------------------
(* What a provisioner's transaction sees.                                   *)

RowOf(p, q) ==
  IF q \in made[p] THEN [mode |-> "unpartitioned", policy |-> "default"] ELSE rows[q]
PolicyOf(p, q) == IF q \in fixed[p] THEN "declared" ELSE RowOf(p, q).policy
TablesSeen(p) == tables \cup built[p]

\* find_missing_queue_tables
Missing(q, seen) == Tables(q) \ seen

\* check_mutable_options_drifted
Drifted(p, q) == q \in HasPolicy /\ PolicyOf(p, q) # "declared"

OtherTx(p) == Provisioner \ {p}

-----------------------------------------------------------------------------
(* provision_backend                                                        *)

\* The transaction is over; the advisory lock is the transaction's.
Ends(p) ==
  /\ Goes(p, "idle") /\ calm' = [calm EXCEPT ![p] = FALSE]
  /\ todo' = [todo EXCEPT ![p] = << >>] /\ plan' = [plan EXCEPT ![p] = NoPlan]
  /\ made' = [made EXCEPT ![p] = {}] /\ built' = [built EXCEPT ![p] = {}]
  /\ fixed' = [fixed EXCEPT ![p] = {}] /\ viewed' = [viewed EXCEPT ![p] = NoViews]
LockReleased(p) == IF lock = p THEN NoOne ELSE lock

Fails(p) ==
  /\ Ends(p) /\ lock' = LockReleased(p)

\* require_installed_schema refuses without the schema; post_migrate forgives that.
Begin(p) ==
  /\ pc[p] = "idle" /\ schema /\ Spend("runs") /\ Goes(p, "locking")
  /\ calm' = [calm EXCEPT ![p] = TRUE]
  /\ UNCHANGED <<db, lock, todo, plan, tx, settled, others>>

LockIgnored(p) == TRUE   \* mutant: no lock
LockFree(p) == lock = NoOne

Lock(p) ==
  /\ pc[p] = "locking" /\ LockFree(p)
  /\ lock' = p /\ Goes(p, "reading") /\ todo' = [todo EXCEPT ![p] = Declared]
  /\ UNCHANGED <<db, plan, tx, calm, settled, others, left>>

\* plan_queue reads the row, then asks for the tables.
PlanRow(p) ==
  /\ pc[p] = "reading" /\ todo[p] # << >>
  /\ LET q == Head(todo[p]) new == ~There(RowOf(p, q)) IN
     /\ plan' = [plan EXCEPT ![p] = [create |-> new, repair |-> FALSE,
                                     policy |-> ~new /\ Drifted(p, q)]]
     /\ Goes(p, IF new THEN "applying" ELSE "probing")
  /\ UNCHANGED <<db, lock, todo, tx, calm, settled, others, left>>

Repairs(p, q) == Missing(q, TablesSeen(p)) # {}

PlanTables(p) ==
  /\ pc[p] = "probing"
  /\ plan' = [plan EXCEPT ![p].repair = Repairs(p, Head(todo[p]))]
  /\ Goes(p, "applying")
  /\ UNCHANGED <<db, lock, todo, tx, calm, settled, others, left>>

\* CREATE ... IF NOT EXISTS looks at what is committed: what another transaction has
\* created and not committed collides on the catalogue's unique index.
Collides(p, q) == \E o \in OtherTx(p) : Missing(q, TablesSeen(p)) \cap built[o] # {}
ViewsCollide(p) == \E o \in OtherTx(p) : viewed[o] # NoViews

CreateQueue(p, q) ==
  /\ made' = [made EXCEPT ![p] = IF There(RowOf(p, q)) THEN @ ELSE @ \cup {q}]
  /\ built' = [built EXCEPT ![p] = @ \cup Missing(q, TablesSeen(p))]

\* apply_queue_plan.  create_queue without options asks for an unpartitioned queue and
\* raises on a row of the other mode; set_queue_policy raises without a row.  The insert
\* of a row waits for another's.
Apply(p) ==
  LET q == Head(todo[p])
      creates == plan[p].create \/ plan[p].repair
      wrong == \/ creates /\ (RowOf(p, q).mode = "partitioned" \/ Collides(p, q))
               \/ ~creates /\ plan[p].policy /\ ~There(RowOf(p, q))
      sets == plan[p].policy \/ (plan[p].create /\ q \in HasPolicy) IN
  /\ pc[p] = "applying"
  /\ creates => \A o \in OtherTx(p) : q \notin made[o]
  /\ \/ wrong /\ Fails(p)
     \/ /\ ~wrong /\ Goes(p, "reading") /\ plan' = [plan EXCEPT ![p] = NoPlan]
        /\ IF creates THEN CreateQueue(p, q) ELSE UNCHANGED <<made, built>>
        /\ fixed' = [fixed EXCEPT ![p] = IF sets THEN @ \cup {q} ELSE @]
        /\ todo' = [todo EXCEPT ![p] = Tail(@)]
        /\ UNCHANGED <<lock, viewed, calm>>
  /\ UNCHANGED <<db, settled, others, left>>

\* rebuild_views: a select over the tables of every row of the catalogue, declared or
\* not, with the five views in one transaction.
ViewsOfDeclared(p) == ToSet(Declared)   \* mutant: views over the declared queues
ViewsOver(p) == {q \in Queue : There(RowOf(p, q))}

RebuildViews(p) ==
  /\ pc[p] = "reading" /\ todo[p] = << >>
  /\ LET over == ViewsOver(p)
         wrong == ViewsCollide(p) \/ \E q \in over : Missing(q, TablesSeen(p)) # {} IN
     \/ wrong /\ Fails(p)
     \/ /\ ~wrong /\ Goes(p, "committing") /\ viewed' = [viewed EXCEPT ![p] = over]
        /\ UNCHANGED <<lock, todo, plan, made, built, fixed, calm>>
  /\ UNCHANGED <<db, settled, others, left>>

\* sync_queues creates and updates; a row that is not declared stays.
RowsWritten(p) == [q \in Queue |-> [RowOf(p, q) EXCEPT !.policy = PolicyOf(p, q)]]

Commit(p) ==
  /\ pc[p] = "committing"
  /\ rows' = RowsWritten(p)
  /\ tables' = TablesSeen(p) /\ views' = viewed[p]
  /\ Ends(p) /\ lock' = LockReleased(p)
  /\ settled' = calm[p]
  /\ UNCHANGED <<schema, worker, workerCalm, flush, names, left>>

Dies(p) ==
  /\ pc[p] \in {"locking", "reading", "probing", "applying", "committing"}
  /\ Spend("mischief") /\ Fails(p)
  /\ UNCHANGED <<db, settled, others>>

-----------------------------------------------------------------------------
(* Everyone else, without the lock.                                         *)

Disturbs ==
  /\ calm' = [p \in Provisioner |-> FALSE] /\ settled' = FALSE
  /\ UNCHANGED <<lock, pc, todo, plan, tx>>

\* Dropping a table drops the views over it.
ViewsWithout(q) == IF views # NoViews /\ q \in views THEN NoViews ELSE views

\* The queue of the worker.
Served == Head(Declared)
StaysCalm(q) == workerCalm' = IF q = Served THEN FALSE ELSE workerCalm

\* A drop waits for the transactions that use the tables or have the row.
NotInUse(q) == \A p \in Provisioner : pc[p] # "committing" /\ q \notin fixed[p]

\* absurd.drop_queue
DropQueue(q) ==
  /\ There(rows[q]) /\ NotInUse(q)
  /\ rows' = [rows EXCEPT ![q] = NoRow] /\ tables' = tables \ Tables(q)
  /\ views' = ViewsWithout(q) /\ StaysCalm(q)

OperatorDropsQueue(q) ==
  /\ Spend("mischief") /\ DropQueue(q) /\ Disturbs
  /\ UNCHANGED <<schema, worker, flush, names>>

OperatorDropsTable(q, k) ==
  /\ Spend("mischief") /\ <<q, k>> \in tables /\ NotInUse(q) /\ Disturbs
  /\ tables' = tables \ {<<q, k>>} /\ views' = ViewsWithout(q) /\ StaysCalm(q)
  /\ UNCHANGED <<schema, rows, worker, flush, names>>

\* A queue made with absurdctl.
OperatorCreates(q, mode) ==
  /\ schema /\ Spend("mischief") /\ ~There(rows[q]) /\ Disturbs
  /\ \A p \in Provisioner : q \notin made[p]
  /\ rows' = [rows EXCEPT ![q] = [mode |-> mode, policy |-> "default"]]
  /\ tables' = tables \cup Tables(q)
  /\ UNCHANGED <<schema, views, worker, workerCalm, flush, names>>

OperatorSetsPolicy(q) ==
  /\ Spend("mischief") /\ There(rows[q]) /\ NotInUse(q) /\ Disturbs
  /\ rows' = [rows EXCEPT ![q].policy = "edited"]
  /\ UNCHANGED <<schema, tables, views, others>>

\* migrate, before its post_migrate receivers.
Migrate == ~schema /\ schema' = TRUE /\ UNCHANGED <<rows, tables, views, prov, settled, others, left>>

\* absurd_flush: list, tear pg_cron down (PgCronSchedules), drop the queues one
\* statement each.
FlushBegins ==
  /\ flush = "idle" /\ schema /\ Spend("flushes") /\ flush' = "teardown" /\ names' = Catalogue
  /\ UNCHANGED <<db, prov, settled, worker, workerCalm>>

FlushTearsDown ==
  /\ flush = "teardown" /\ flush' = "dropping"
  \* clear_provisioned_queues lists again.
  /\ names' = IF names = {} THEN {} ELSE Catalogue
  /\ UNCHANGED <<db, prov, settled, worker, workerCalm, left>>

FlushDrops(q) ==
  /\ flush = "dropping" /\ q \in names /\ names' = names \ {q}
  /\ IF There(rows[q]) THEN DropQueue(q) /\ Disturbs
     ELSE UNCHANGED <<rows, tables, views, workerCalm, prov, settled>>
  /\ UNCHANGED <<schema, worker, flush, left>>

FlushEnds ==
  /\ flush = "dropping" /\ names = {} /\ flush' = "idle"
  /\ UNCHANGED <<db, prov, settled, worker, workerCalm, names, left>>

-----------------------------------------------------------------------------
(* A worker: aworker_client's refusals, and the claims of a run.            *)

Boots == schema /\ There(rows[Served])
ProbeSkipped == TRUE   \* mutant: the row alone lets a worker start
ProbeFindsAll == Missing(Served, tables) = {}

WorkerLists ==
  /\ worker \in {"off", "ended"} /\ Boots /\ worker' = "listed"
  /\ UNCHANGED <<db, prov, settled, workerCalm, flush, names, left>>

WorkerProbes ==
  /\ worker = "listed" /\ worker' = IF ProbeFindsAll THEN "running" ELSE "off"
  /\ workerCalm' = TRUE
  /\ UNCHANGED <<db, prov, settled, flush, names, left>>

ClaimRaises == Missing(Served, tables) # {}

\* UndefinedTable ends the run; run_worker renames it.
WorkerClaims ==
  /\ worker = "running" /\ ClaimRaises /\ worker' = "ended"
  /\ UNCHANGED <<db, prov, settled, workerCalm, flush, names, left>>

\* What an enqueue or an emit answers.
Answer(q) ==
  IF q \notin ToSet(Declared) THEN "QueueNotDeclared"
  ELSE IF ~schema THEN "SchemaNotInstalled"
  ELSE IF Missing(q, tables) # {} THEN "QueueNotProvisioned" ELSE "ok"

\* plan_queue_sync: the plan of absurd_sync_queues --check, which writes nothing.
Pending == \E q \in ToSet(Declared) :
  \/ ~There(rows[q]) \/ Missing(q, tables) # {}
  \/ q \in HasPolicy /\ rows[q].policy # "declared"

-----------------------------------------------------------------------------
Init ==
  /\ schema = FALSE /\ rows = [q \in Queue |-> NoRow] /\ tables = {} /\ views = NoViews
  /\ lock = NoOne /\ pc = [p \in Provisioner |-> "idle"]
  /\ todo = [p \in Provisioner |-> << >>] /\ plan = [p \in Provisioner |-> NoPlan]
  /\ made = [p \in Provisioner |-> {}] /\ built = [p \in Provisioner |-> {}]
  /\ fixed = [p \in Provisioner |-> {}] /\ viewed = [p \in Provisioner |-> NoViews]
  /\ calm = [p \in Provisioner |-> FALSE] /\ settled = FALSE
  /\ worker = "off" /\ workerCalm = TRUE /\ flush = "idle" /\ names = {}
  /\ left = [w \in {"runs", "mischief", "flushes"} |->
               CASE w = "runs" -> MaxRuns [] w = "mischief" -> MaxMischief [] OTHER -> MaxFlushes]

Steps(p) == PlanRow(p) \/ PlanTables(p) \/ Apply(p) \/ RebuildViews(p) \/ Commit(p)
FlushGoesOn == FlushTearsDown \/ FlushEnds \/ \E q \in Queue : FlushDrops(q)

Next ==
  \/ \E p \in Provisioner : Begin(p) \/ Lock(p) \/ Steps(p) \/ Dies(p)
  \/ \E q \in Queue :
       \/ OperatorDropsQueue(q) \/ OperatorSetsPolicy(q)
       \/ \E k \in Part : OperatorDropsTable(q, k)
       \/ \E m \in Mode : OperatorCreates(q, m)
  \/ Migrate \/ FlushBegins \/ FlushGoesOn
  \/ WorkerLists \/ WorkerProbes \/ WorkerClaims

Spec == Init /\ [][Next]_vars

-----------------------------------------------------------------------------
(* Properties.                                                              *)

(* queues.py:311: provisioners that race for a database's first boot, or to  *)
(* repair the same queue, do not meet an object the other is creating.       *)
NoCollision ==
  \A p \in Provisioner :
    /\ pc[p] = "applying" /\ (plan[p].create \/ plan[p].repair) => ~Collides(p, Head(todo[p]))
    /\ pc[p] = "reading" /\ todo[p] = << >> => ~ViewsCollide(p)

(* A provisioning that commits, with nobody else at the queues from its      *)
(* start, leaves every declared queue with its row, its tables and its       *)
(* declared policy, so --check has nothing to report and an enqueue is       *)
(* taken; and the admin's views cover the catalogue, undeclared queues too.  *)
ProvisionedIsWhole ==
  settled => /\ ~Pending /\ \A q \in ToSet(Declared) : Answer(q) = "ok"
             /\ views = Catalogue

(* exceptions.py:60: a worker that announced itself is not refused: it ends  *)
(* on a missing table only if its own queue was dropped while it ran.        *)
NoBannerThenRefusal == worker = "ended" => ~workerCalm
=============================================================================
