------------------------- MODULE ProvisioningProofs -------------------------
(***************************************************************************)
(* For any provisioners, queues, declarations and acts of operators, and   *)
(* any number of them: provisioners never meet each other's uncommitted    *)
(* objects, a calm one leaves every declared queue whole, and a worker that*)
(* announced itself ends on a missing table only if a queue was dropped.   *)
(***************************************************************************)
EXTENDS Provisioning, SequenceTheorems, TLAPS

Holding == {"reading", "probing", "applying", "committing"}

\* What an open transaction has done stays with the holder of the lock.
LockInv ==
  /\ DOMAIN pc = Provisioner /\ DOMAIN built = Provisioner /\ DOMAIN viewed = Provisioner
  /\ \A p \in Provisioner :
       /\ pc[p] \in Holding => lock = p
       /\ pc[p] \notin Holding => built[p] = {} /\ viewed[p] = NoViews

-----------------------------------------------------------------------------
LEMMA InitLock == Init => LockInv
BY DEF Init, LockInv, Holding

\* The steps by which a provisioner's place, objects and lock change.
LEMMA EndsLock ==
  ASSUME LockInv, NEW p \in Provisioner, Ends(p), lock' = LockReleased(p)
  PROVE  LockInv'
<1>1. /\ pc'[p] = "idle" /\ built'[p] = {} /\ viewed'[p] = NoViews
      /\ DOMAIN pc' = Provisioner /\ DOMAIN built' = Provisioner /\ DOMAIN viewed' = Provisioner
      /\ \A o \in Provisioner \ {p} :
           pc'[o] = pc[o] /\ built'[o] = built[o] /\ viewed'[o] = viewed[o]
  BY DEF Ends, Goes, LockInv
<1>2. ASSUME NEW o \in Provisioner, pc'[o] \in Holding PROVE lock' = o
  BY <1>1, <1>2 DEF LockInv, LockReleased, Holding
<1>3. ASSUME NEW o \in Provisioner, pc'[o] \notin Holding
      PROVE  built'[o] = {} /\ viewed'[o] = NoViews
  BY <1>1, <1>3 DEF LockInv
<1> QED BY <1>1, <1>2, <1>3 DEF LockInv, NoViews, Holding

LEMMA ProvisionerLock ==
  ASSUME LockInv, NEW p \in Provisioner, Begin(p) \/ Lock(p) \/ Steps(p) \/ Dies(p)
  PROVE  LockInv'
<1>1. CASE Begin(p)
  BY <1>1 DEF Begin, Goes, tx, LockInv, Holding, NoViews
<1>2. CASE Lock(p)
  <2>1. NoOne \notin Provisioner
    BY ProvisioningAssumption DEF NoOne
  <2>2. \A o \in Provisioner : pc[o] \notin Holding
    BY <1>2, <2>1 DEF Lock, LockFree, LockInv
  <2> QED BY <1>2, <2>2 DEF Lock, Goes, tx, LockInv, Holding, NoViews
<1>3. CASE PlanRow(p)
  BY <1>3 DEF PlanRow, Goes, tx, LockInv, Holding, NoViews
<1>4. CASE PlanTables(p)
  BY <1>4 DEF PlanTables, Goes, tx, LockInv, Holding, NoViews
<1>5. CASE Apply(p)
  <2>1. pc[p] = "applying" /\ lock = p
    BY <1>5 DEF Apply, LockInv, Holding
  <2>2. CASE Fails(p)
    BY <2>2, EndsLock DEF Fails
  <2>3. CASE ~Fails(p)
    <3>1. /\ Goes(p, "reading") /\ UNCHANGED <<lock, viewed>>
          /\ \/ \E q \in {Head(todo[p])} : CreateQueue(p, q)
             \/ UNCHANGED built
      BY <1>5, <2>3 DEF Apply
    <3>2. DOMAIN built' = Provisioner /\ \A o \in Provisioner \ {p} : built'[o] = built[o]
      BY <3>1 DEF CreateQueue, LockInv
    <3>3. pc'[p] = "reading" /\ DOMAIN pc' = Provisioner
            /\ \A o \in Provisioner \ {p} : pc'[o] = pc[o]
      BY <3>1 DEF Goes, LockInv
    <3> QED BY <2>1, <3>1, <3>2, <3>3 DEF LockInv, Holding, NoViews
  <2> QED BY <2>2, <2>3
<1>6. CASE RebuildViews(p)
  <2>1. pc[p] = "reading" /\ lock = p
    BY <1>6 DEF RebuildViews, LockInv, Holding
  <2>2. CASE Fails(p)
    BY <2>2, EndsLock DEF Fails
  <2>3. CASE ~Fails(p)
    BY <1>6, <2>1, <2>3 DEF RebuildViews, Goes, LockInv, Holding, NoViews
  <2> QED BY <2>2, <2>3
<1>7. CASE Commit(p)
  BY <1>7, EndsLock DEF Commit
<1>8. CASE Dies(p)
  BY <1>8, EndsLock DEF Dies, Fails
<1> QED BY <1>1, <1>2, <1>3, <1>4, <1>5, <1>6, <1>7, <1>8 DEF Steps

\* Nobody else takes the lock or a provisioner's place.
LEMMA OthersLock ==
  ASSUME LockInv, UNCHANGED <<lock, pc, built, viewed>>
  PROVE  LockInv'
BY DEF LockInv, NoViews

LEMMA NextLock == LockInv /\ [Next]_vars => LockInv'
<1> SUFFICES ASSUME LockInv, [Next]_vars PROVE LockInv'
  OBVIOUS
<1>1. ASSUME NEW p \in Provisioner, Begin(p) \/ Lock(p) \/ Steps(p) \/ Dies(p)
      PROVE  LockInv'
  BY <1>1, ProvisionerLock
<1>2. ASSUME NEW q \in Queue,
             \/ OperatorDropsQueue(q) \/ OperatorSetsPolicy(q)
             \/ \E k \in Part : OperatorDropsTable(q, k)
             \/ \E m \in Mode : OperatorCreates(q, m)
             \/ FlushDrops(q)
      PROVE  UNCHANGED <<lock, pc, built, viewed>>
  BY <1>2 DEF OperatorDropsQueue, OperatorSetsPolicy, OperatorDropsTable, OperatorCreates,
              FlushDrops, Disturbs, prov, tx
<1>3. CASE Migrate \/ FlushBegins \/ FlushTearsDown \/ FlushEnds
             \/ WorkerLists \/ WorkerProbes \/ WorkerClaims
  <2>1. UNCHANGED <<lock, pc, built, viewed>>
    BY <1>3 DEF Migrate, FlushBegins, FlushTearsDown, FlushEnds, WorkerLists,
                WorkerProbes, WorkerClaims, prov, tx
  <2> QED BY <2>1, OthersLock
<1>4. CASE UNCHANGED vars
  BY <1>4, OthersLock DEF vars, prov, tx
<1> QED BY <1>1, <1>2, <1>3, <1>4, OthersLock DEF Next, FlushGoesOn

-----------------------------------------------------------------------------
\* queues.py:311: provisioners that race never meet an object the other is creating.
THEOREM ProvisionersDoNotCollide == Spec => []NoCollision
<1>1. LockInv => NoCollision
  <2> SUFFICES ASSUME LockInv, NEW p \in Provisioner, pc[p] \in Holding,
                      NEW o \in OtherTx(p)
               PROVE  built[o] = {} /\ viewed[o] = NoViews
    BY DEF NoCollision, Collides, ViewsCollide, Holding
  <2>1. o \in Provisioner /\ o # p
    BY DEF OtherTx
  <2> QED BY <2>1 DEF LockInv
<1> QED BY <1>1, InitLock, NextLock, PTL DEF Spec

-----------------------------------------------------------------------------
(* The catalogue's rows.                                                    *)

\* A queue with a policy set by an open transaction has a row, so no commit writes
\* one for a queue that is gone.
RowsInv ==
  /\ rows \in [Queue -> Row] /\ DOMAIN made = Provisioner /\ DOMAIN fixed = Provisioner
  /\ \A p \in Provisioner : \A q \in Queue : q \in fixed[p] => q \in made[p] \/ There(rows[q])

LEMMA InitRows == Init => RowsInv
BY DEF Init, RowsInv, Row

\* The row that a commit writes is one exactly where the transaction saw one.
LEMMA WrittenRow ==
  ASSUME RowsInv, NEW p \in Provisioner, NEW q \in Queue
  PROVE  /\ RowsWritten(p)[q] \in Row
         /\ There(RowsWritten(p)[q]) <=> q \in made[p] \/ There(rows[q])
<1>1. RowOf(p, q) \in Row /\ (There(RowOf(p, q)) <=> q \in made[p] \/ There(rows[q]))
  BY DEF RowsInv, RowOf, Row, Mode, There, NoRow
<1>2. CASE There(RowOf(p, q))
  <2>1. RowOf(p, q).mode \in Mode /\ PolicyOf(p, q) \in {"default", "declared", "edited"}
    BY <1>1, <1>2 DEF Row, There, NoRow, PolicyOf
  <2>2. RowsWritten(p)[q] = [mode |-> RowOf(p, q).mode, policy |-> PolicyOf(p, q)]
    BY <1>1, <1>2 DEF RowsWritten, Row, There, NoRow
  <2> QED BY <1>1, <1>2, <2>1, <2>2 DEF Row, There, NoRow, Mode
<1>3. CASE ~There(RowOf(p, q))
  <2>1. q \notin fixed[p] /\ RowOf(p, q) = NoRow
    BY <1>1, <1>3 DEF RowsInv, There
  <2>2. RowsWritten(p)[q] = NoRow
    BY <2>1 DEF RowsWritten, PolicyOf, NoRow
  <2> QED BY <1>1, <1>3, <2>2 DEF Row, There
<1> QED BY <1>2, <1>3

LEMMA CommitRows ==
  ASSUME RowsInv, NEW p \in Provisioner, Commit(p)
  PROVE  RowsInv'
<1>1. /\ rows' = RowsWritten(p)
      /\ made' = [made EXCEPT ![p] = {}] /\ fixed' = [fixed EXCEPT ![p] = {}]
  BY DEF Commit, Ends
<1>2. rows' \in [Queue -> Row]
  BY <1>1, WrittenRow DEF RowsWritten
<1>3. \A q \in Queue : There(rows[q]) => There(rows'[q])
  BY <1>1, WrittenRow
<1>4. \A o \in Provisioner : \A q \in Queue : q \in fixed'[o] => q \in made'[o] \/ There(rows'[q])
  BY <1>1, <1>3 DEF RowsInv
<1> QED BY <1>1, <1>2, <1>4 DEF RowsInv

\* A queue is dropped, by an operator or by a flush, only where no open transaction
\* has set its policy.
LEMMA DropRows ==
  ASSUME RowsInv, NEW q \in Queue, DropQueue(q), UNCHANGED <<made, fixed>>
  PROVE  RowsInv'
<1>1. rows' = [rows EXCEPT ![q] = NoRow] /\ \A p \in Provisioner : q \notin fixed[p]
  BY DEF DropQueue, NotInUse
<1>2. /\ rows' \in [Queue -> Row] /\ ~There(rows'[q])
      /\ \A k \in Queue \ {q} : rows'[k] = rows[k]
  BY <1>1 DEF RowsInv, Row, There
<1>3. \A p \in Provisioner : \A k \in Queue : k \in fixed[p] => k \in made[p] \/ There(rows'[k])
  BY <1>1, <1>2 DEF RowsInv
<1> QED BY <1>2, <1>3 DEF RowsInv

\* What the invariant speaks of is left alone.
LEMMA OthersRows ==
  ASSUME RowsInv, UNCHANGED <<rows, made, fixed>>
  PROVE  RowsInv'
BY DEF RowsInv

\* A provisioner's other steps leave the committed rows alone.
LEMMA OpenRows ==
  ASSUME RowsInv, NEW p \in Provisioner, UNCHANGED rows,
         \/ UNCHANGED <<made, fixed>>
         \/ made' = [made EXCEPT ![p] = {}] /\ fixed' = [fixed EXCEPT ![p] = {}]
  PROVE  RowsInv'
BY DEF RowsInv

LEMMA ApplyRows ==
  ASSUME RowsInv, NEW p \in Provisioner, Apply(p)
  PROVE  RowsInv'
<1> DEFINE q == Head(todo[p])
           creates == plan[p].create \/ plan[p].repair
           sets == plan[p].policy \/ (plan[p].create /\ q \in HasPolicy)
<1>1. UNCHANGED rows
  BY DEF Apply, db, others
<1>2. CASE Fails(p)
  BY <1>1, <1>2, OpenRows DEF Fails, Ends
<1>3. CASE ~Fails(p)
  <2>1. /\ IF creates THEN CreateQueue(p, q) ELSE UNCHANGED <<made, built>>
        /\ fixed' = [fixed EXCEPT ![p] = IF sets THEN @ \cup {q} ELSE @]
        /\ ~creates /\ plan[p].policy => There(RowOf(p, q))
    BY <1>3 DEF Apply
  <2>2. /\ DOMAIN made' = Provisioner
        /\ \A o \in Provisioner : made[o] \subseteq made'[o]
        /\ creates => q \in made'[p] \/ There(RowOf(p, q))
    BY <2>1 DEF CreateQueue, RowsInv
  <2>3. sets => q \in made'[p] \/ There(RowOf(p, q))
    BY <2>1, <2>2
  <2>4. There(RowOf(p, q)) /\ q \in Queue => q \in made'[p] \/ There(rows[q])
    BY <2>2 DEF RowOf
  <2>5. /\ DOMAIN fixed' = Provisioner
        /\ \A o \in Provisioner \ {p} : fixed'[o] = fixed[o]
        /\ \A k \in fixed'[p] : k \in fixed[p] \/ (sets /\ k = q)
    BY <2>1 DEF RowsInv
  <2>6. \A o \in Provisioner : \A k \in Queue : k \in fixed'[o] => k \in made'[o] \/ There(rows[k])
    BY <2>2, <2>3, <2>4, <2>5 DEF RowsInv
  <2> QED BY <1>1, <2>2, <2>5, <2>6 DEF RowsInv
<1> QED BY <1>2, <1>3

LEMMA ProvisionerRows ==
  ASSUME RowsInv, NEW p \in Provisioner, Begin(p) \/ Lock(p) \/ Steps(p) \/ Dies(p)
  PROVE  RowsInv'
<1>1. CASE Begin(p) \/ Lock(p) \/ PlanRow(p) \/ PlanTables(p)
  BY <1>1, OpenRows DEF Begin, Lock, PlanRow, PlanTables, db, tx, others
<1>2. CASE RebuildViews(p)
  <2>1. UNCHANGED rows
    BY <1>2 DEF RebuildViews, db, others
  <2>2. CASE Fails(p)
    BY <2>1, <2>2, OpenRows DEF Fails, Ends
  <2>3. CASE ~Fails(p)
    BY <1>2, <2>1, <2>3, OpenRows DEF RebuildViews
  <2> QED BY <2>2, <2>3
<1>3. CASE Dies(p)
  BY <1>3, OpenRows DEF Dies, Fails, Ends, db, others
<1> QED BY <1>1, <1>2, <1>3, CommitRows, ApplyRows DEF Steps

LEMMA OperatorRows ==
  ASSUME RowsInv, NEW q \in Queue,
         \/ OperatorDropsQueue(q) \/ OperatorSetsPolicy(q)
         \/ \E k \in Part : OperatorDropsTable(q, k)
         \/ \E m \in Mode : OperatorCreates(q, m)
  PROVE  RowsInv'
<1>1. CASE OperatorDropsQueue(q)
  BY <1>1, DropRows DEF OperatorDropsQueue, Disturbs, tx
<1>2. CASE OperatorSetsPolicy(q)
  <2>1. /\ rows' = [rows EXCEPT ![q].policy = "edited"] /\ There(rows[q])
        /\ UNCHANGED <<made, fixed>>
    BY <1>2 DEF OperatorSetsPolicy, Disturbs, tx, others
  <2>2. rows[q].mode \in Mode /\ rows'[q] = [mode |-> rows[q].mode, policy |-> "edited"]
    BY <2>1 DEF RowsInv, Row, There, NoRow
  <2>3. /\ rows' \in [Queue -> Row]
        /\ \A k \in Queue : There(rows'[k]) <=> There(rows[k])
    BY <2>1, <2>2 DEF RowsInv, Row, There, NoRow, Mode
  <2> QED BY <2>1, <2>3 DEF RowsInv
<1>3. CASE \E k \in Part : OperatorDropsTable(q, k)
  BY <1>3, OthersRows DEF OperatorDropsTable, Disturbs, tx
<1>4. CASE \E m \in Mode : OperatorCreates(q, m)
  <2>1. PICK m \in Mode : OperatorCreates(q, m)
    BY <1>4
  <2>2. /\ rows' = [rows EXCEPT ![q] = [mode |-> m, policy |-> "default"]]
        /\ UNCHANGED <<made, fixed>>
    BY <2>1 DEF OperatorCreates, Disturbs, tx
  <2>3. /\ rows' \in [Queue -> Row] /\ There(rows'[q])
        /\ \A k \in Queue \ {q} : rows'[k] = rows[k]
    BY <2>2 DEF RowsInv, Row, There, NoRow, Mode
  <2> QED BY <2>2, <2>3 DEF RowsInv
<1> QED BY <1>1, <1>2, <1>3, <1>4

LEMMA FlushRows ==
  ASSUME RowsInv, FlushBegins \/ FlushGoesOn
  PROVE  RowsInv'
<1>1. CASE FlushBegins \/ FlushTearsDown \/ FlushEnds
  BY <1>1, OthersRows DEF FlushBegins, FlushTearsDown, FlushEnds, db, prov, tx
<1>2. ASSUME NEW q \in Queue, FlushDrops(q) PROVE RowsInv'
  <2>1. CASE There(rows[q])
    BY <1>2, <2>1, DropRows DEF FlushDrops, Disturbs, tx
  <2>2. CASE ~There(rows[q])
    BY <1>2, <2>2, OthersRows DEF FlushDrops, prov, tx
  <2> QED BY <2>1, <2>2
<1> QED BY <1>1, <1>2 DEF FlushGoesOn

LEMMA NextRows == RowsInv /\ [Next]_vars => RowsInv'
<1> SUFFICES ASSUME RowsInv, [Next]_vars PROVE RowsInv'
  OBVIOUS
<1>1. CASE Migrate \/ WorkerLists \/ WorkerProbes \/ WorkerClaims \/ UNCHANGED vars
  <2>1. UNCHANGED <<rows, made, fixed>>
    BY <1>1 DEF Migrate, WorkerLists, WorkerProbes, WorkerClaims, db, prov, tx, others, vars
  <2> QED BY <2>1, OthersRows
<1> QED BY <1>1, ProvisionerRows, OperatorRows, FlushRows DEF Next

-----------------------------------------------------------------------------
(* A worker that announced itself.                                          *)

\* A worker that runs, with its queue not dropped since its probe, has all the tables of
\* its queue; so its claims do not fail, and one whose claim failed is not calm.
BannerInv ==
  /\ worker = "running" /\ workerCalm => Missing(Served, tables) = {}
  /\ NoBannerThenRefusal

\* Whoever takes a table of the worker's queue away tells it that it is calm no longer;
\* everyone else leaves that queue's tables or adds to them.
LEMMA TablesStay ==
  ASSUME BannerInv, UNCHANGED worker,
         \/ workerCalm' = FALSE
         \/ UNCHANGED workerCalm /\ tables \cap Tables(Served) \subseteq tables'
  PROVE  BannerInv'
<1>1. Missing(Served, tables) = {} /\ tables \cap Tables(Served) \subseteq tables'
        => Missing(Served, tables') = {}
  BY DEF Missing
<1> QED BY <1>1 DEF BannerInv, NoBannerThenRefusal

LEMMA NextBanner == BannerInv /\ [Next]_vars => BannerInv'
<1> SUFFICES ASSUME BannerInv, [Next]_vars PROVE BannerInv'
  OBVIOUS
<1>1. ASSUME NEW p \in Provisioner, Begin(p) \/ Lock(p) \/ Steps(p) \/ Dies(p)
      PROVE  BannerInv'
  <2>1. UNCHANGED <<worker, workerCalm>>
    BY <1>1 DEF Begin, Lock, Steps, PlanRow, PlanTables, Apply, RebuildViews, Commit, Dies, others
  <2>2. tables' = tables \/ tables' = TablesSeen(p)
    BY <1>1 DEF Begin, Lock, Steps, PlanRow, PlanTables, Apply, RebuildViews, Commit, Dies, db
  <2> QED BY <2>1, <2>2, TablesStay DEF TablesSeen
<1>2. ASSUME NEW q \in Queue,
             \/ OperatorDropsQueue(q) \/ OperatorSetsPolicy(q)
             \/ \E k \in Part : OperatorDropsTable(q, k)
             \/ \E m \in Mode : OperatorCreates(q, m)
             \/ FlushDrops(q)
      PROVE  BannerInv'
  <2>1. CASE \/ OperatorDropsQueue(q)
             \/ FlushDrops(q) /\ There(rows[q])
             \/ \E k \in Part : OperatorDropsTable(q, k)
    <3>1. UNCHANGED worker /\ StaysCalm(q) /\ tables \ Tables(q) \subseteq tables'
      <4>1. CASE OperatorDropsQueue(q) \/ (FlushDrops(q) /\ There(rows[q]))
        BY <4>1 DEF OperatorDropsQueue, FlushDrops, DropQueue
      <4>2. ASSUME NEW k \in Part, OperatorDropsTable(q, k)
            PROVE  UNCHANGED worker /\ StaysCalm(q) /\ tables \ Tables(q) \subseteq tables'
        BY <4>2 DEF OperatorDropsTable, Tables
      <4> QED BY <2>1, <4>1, <4>2
    <3>2. q # Served => Tables(Served) \cap Tables(q) = {}
      BY DEF Tables
    <3> QED BY <3>1, <3>2, TablesStay DEF StaysCalm
  <2>2. CASE \/ OperatorSetsPolicy(q)
             \/ FlushDrops(q) /\ ~There(rows[q])
             \/ \E m \in Mode : OperatorCreates(q, m)
    <3>1. CASE OperatorSetsPolicy(q) \/ (FlushDrops(q) /\ ~There(rows[q]))
      BY <3>1, TablesStay DEF OperatorSetsPolicy, FlushDrops, others
    <3>2. ASSUME NEW m \in Mode, OperatorCreates(q, m) PROVE BannerInv'
      BY <3>2, TablesStay DEF OperatorCreates
    <3> QED BY <2>2, <3>1, <3>2
  <2> QED BY <1>2, <2>1, <2>2
<1>3. CASE Migrate \/ FlushBegins \/ FlushTearsDown \/ FlushEnds \/ UNCHANGED vars
  <2>1. UNCHANGED <<worker, workerCalm, tables>>
    BY <1>3 DEF Migrate, FlushBegins, FlushTearsDown, FlushEnds, db, others, vars
  <2> QED BY <2>1, TablesStay
<1>4. CASE WorkerLists \/ WorkerProbes \/ WorkerClaims
  <2>1. UNCHANGED tables
    BY <1>4 DEF WorkerLists, WorkerProbes, WorkerClaims, db
  <2> QED BY <1>4, <2>1 DEF WorkerLists, WorkerProbes, WorkerClaims, ProbeFindsAll, ClaimRaises,
                            BannerInv, NoBannerThenRefusal, Missing
<1> QED BY <1>1, <1>2, <1>3, <1>4 DEF Next, FlushGoesOn

\* exceptions.py:60: a worker that printed its banner, and so has probed the tables of
\* its queue, ends on a missing one only if that queue was dropped while it ran.
THEOREM BannerMeansServed == Spec => []NoBannerThenRefusal
<1>1. Init => BannerInv
  BY DEF Init, BannerInv, NoBannerThenRefusal
<1>2. BannerInv => NoBannerThenRefusal
  BY DEF BannerInv
<1> QED BY <1>1, <1>2, NextBanner, PTL DEF Spec

-----------------------------------------------------------------------------
(* A calm provisioning leaves the declared queues whole.                    *)

\* A queue as provisioning wants it, by the row, the tables and the policy one sees.
WholeIn(row, seen, policy, q) ==
  There(row) /\ Missing(q, seen) = {} /\ (q \in HasPolicy => policy = "declared")
Ready(p, q) == WholeIn(RowOf(p, q), TablesSeen(p), PolicyOf(p, q), q)
Planned(p, q) == There(RowOf(p, q)) /\ (Drifted(p, q) => plan[p].policy)

\* What a provisioner knows at each place: the queues behind it are ready in its
\* transaction, the plan for the one at hand asks for all that it lacks, and before the
\* commit the views are over the catalogue it will write.
Knows(p) ==
  /\ pc[p] \in Holding => \A q \in ToSet(Declared) \ ToSet(todo[p]) : Ready(p, q)
  /\ pc[p] = "probing" => Planned(p, Head(todo[p]))
  /\ pc[p] = "applying" /\ ~plan[p].create =>
       /\ Planned(p, Head(todo[p]))
       /\ Repairs(p, Head(todo[p])) => plan[p].repair
  /\ pc[p] = "committing" => viewed[p] = ViewsOver(p)

Place(p) ==
  /\ pc[p] # "idle" => schema
  /\ pc[p] \in {"probing", "applying"} => todo[p] # << >>
  /\ pc[p] = "committing" => todo[p] = << >>
  /\ calm[p] => Knows(p)

SettledWhole ==
  /\ schema /\ views = Catalogue
  /\ \A q \in ToSet(Declared) : WholeIn(rows[q], tables, rows[q].policy, q)

WholeInv ==
  /\ DOMAIN calm = Provisioner /\ todo \in [Provisioner -> Seq(Queue)]
  /\ plan \in [Provisioner -> [create : BOOLEAN, repair : BOOLEAN, policy : BOOLEAN]]
  /\ \A p \in Provisioner : Place(p)
  /\ settled => SettledWhole

LEMMA InitWhole == Init => WholeInv
<1> SUFFICES ASSUME Init PROVE WholeInv
  OBVIOUS
<1>1. DOMAIN calm = Provisioner /\ todo \in [Provisioner -> Seq(Queue)]
      /\ plan \in [Provisioner -> [create : BOOLEAN, repair : BOOLEAN, policy : BOOLEAN]]
  BY DEF Init, NoPlan
<1>2. \A p \in Provisioner : Place(p)
  BY DEF Init, Place
<1> QED BY <1>1, <1>2 DEF Init, WholeInv

\* A sequence is its head and the rest.
LEMMA HeadAndRest ==
  ASSUME NEW s \in Seq(Queue), s # << >>
  PROVE  /\ Head(s) \in Queue /\ Head(s) \in ToSet(s) /\ Tail(s) \in Seq(Queue)
         /\ ToSet(s) \subseteq {Head(s)} \cup ToSet(Tail(s))
<1>1. /\ Len(s) \in Nat \ {0} /\ DOMAIN s = 1 .. Len(s) /\ Head(s) = s[1]
      /\ Tail(s) \in Seq(Queue) /\ Len(Tail(s)) = Len(s) - 1
      /\ \A i \in 1 .. Len(s) - 1 : Tail(s)[i] = s[i + 1]
  BY HeadTailProperties, EmptySeq
<1>2. Head(s) \in Queue /\ Head(s) \in ToSet(s)
  BY <1>1 DEF ToSet
<1>3. ASSUME NEW i \in 1 .. Len(s), i # 1 PROVE s[i] \in ToSet(Tail(s))
  <2>1. i - 1 \in 1 .. Len(s) - 1 /\ Tail(s)[i - 1] = s[i]
    BY <1>1, <1>3
  <2>2. DOMAIN Tail(s) = 1 .. Len(s) - 1
    BY <1>1
  <2> QED BY <2>1, <2>2 DEF ToSet
<1> QED BY <1>1, <1>2, <1>3 DEF ToSet

LEMMA DeclaredQueues == ToSet(Declared) \subseteq Queue
BY ProvisioningAssumption DEF ToSet

\* What a provisioner knows depends on the committed rows and tables, on its own
\* transaction, and on nothing else.
LEMMA PlaceStays ==
  ASSUME NEW p \in Provisioner, Place(p), UNCHANGED <<schema, rows, tables>>,
         calm'[p] \in {calm[p], FALSE},
         pc'[p] = pc[p], todo'[p] = todo[p], plan'[p] = plan[p],
         made'[p] = made[p], built'[p] = built[p], fixed'[p] = fixed[p], viewed'[p] = viewed[p]
  PROVE  Place(p)'
<1>1. \A q : RowOf(p, q)' = RowOf(p, q) /\ PolicyOf(p, q)' = PolicyOf(p, q)
  BY DEF RowOf, PolicyOf
<1>2. TablesSeen(p)' = TablesSeen(p)
  BY DEF TablesSeen
<1>3. Knows(p) => Knows(p)'
  <2>1. \A q : (Ready(p, q)' <=> Ready(p, q)) /\ (Planned(p, q)' <=> Planned(p, q))
               /\ (Repairs(p, q)' <=> Repairs(p, q))
    BY <1>1, <1>2 DEF Ready, Planned, Repairs, Drifted, WholeIn
  <2>2. ViewsOver(p)' = ViewsOver(p)
    BY <1>1 DEF ViewsOver
  <2> QED BY <2>1, <2>2 DEF Knows
<1> QED BY <1>3 DEF Place

\* A step within p's own transaction.
LEMMA OwnStep ==
  ASSUME WholeInv, NEW p \in Provisioner, UNCHANGED <<db, settled>>, Place(p)',
         DOMAIN calm' = Provisioner, todo' \in [Provisioner -> Seq(Queue)],
         plan' \in [Provisioner -> [create : BOOLEAN, repair : BOOLEAN, policy : BOOLEAN]],
         \A o \in Provisioner \ {p} :
           /\ pc'[o] = pc[o] /\ todo'[o] = todo[o] /\ plan'[o] = plan[o] /\ calm'[o] = calm[o]
           /\ made'[o] = made[o] /\ built'[o] = built[o]
           /\ fixed'[o] = fixed[o] /\ viewed'[o] = viewed[o]
  PROVE  WholeInv'
<1>1. UNCHANGED <<schema, rows, tables, views, settled>>
  BY DEF db
<1>2. ASSUME NEW o \in Provisioner, o # p PROVE Place(o)'
  <2>1. Place(o)
    BY DEF WholeInv
  <2> QED BY <1>1, <1>2, <2>1, PlaceStays
<1>3. SettledWhole => SettledWhole'
  BY <1>1 DEF SettledWhole, Catalogue, WholeIn
<1> QED BY <1>1, <1>2, <1>3 DEF WholeInv

LEMMA FailsWhole ==
  ASSUME LockInv, RowsInv, WholeInv, NEW p \in Provisioner, Ends(p), UNCHANGED <<db, settled>>
  PROVE  WholeInv'
<1>1. /\ pc' = [pc EXCEPT ![p] = "idle"] /\ calm' = [calm EXCEPT ![p] = FALSE]
      /\ todo' = [todo EXCEPT ![p] = << >>] /\ plan' = [plan EXCEPT ![p] = NoPlan]
      /\ made' = [made EXCEPT ![p] = {}] /\ built' = [built EXCEPT ![p] = {}]
      /\ fixed' = [fixed EXCEPT ![p] = {}] /\ viewed' = [viewed EXCEPT ![p] = NoViews]
  BY DEF Ends, Goes
<1>2. pc'[p] = "idle" /\ ~calm'[p]
  BY <1>1 DEF LockInv, WholeInv
<1>3. Place(p)'
  BY <1>2 DEF Place
<1>4. /\ DOMAIN calm' = Provisioner /\ todo' \in [Provisioner -> Seq(Queue)]
      /\ plan' \in [Provisioner -> [create : BOOLEAN, repair : BOOLEAN, policy : BOOLEAN]]
  <2>1. << >> \in Seq(Queue) /\ NoPlan \in [create : BOOLEAN, repair : BOOLEAN, policy : BOOLEAN]
    BY DEF NoPlan
  <2> QED BY <1>1, <2>1 DEF WholeInv
<1>5. \A o \in Provisioner \ {p} :
        /\ pc'[o] = pc[o] /\ todo'[o] = todo[o] /\ plan'[o] = plan[o] /\ calm'[o] = calm[o]
        /\ made'[o] = made[o] /\ built'[o] = built[o]
        /\ fixed'[o] = fixed[o] /\ viewed'[o] = viewed[o]
  BY <1>1 DEF LockInv, RowsInv, WholeInv
<1> QED BY <1>3, <1>4, <1>5, OwnStep

LEMMA BeginWhole ==
  ASSUME LockInv, WholeInv, NEW p \in Provisioner, Begin(p) \/ Lock(p)
  PROVE  WholeInv'
<1>1. UNCHANGED <<db, settled, plan, made, built, fixed, viewed>>
  BY DEF Begin, Lock, tx
<1>2. \A o \in Provisioner \ {p} : pc'[o] = pc[o] /\ todo'[o] = todo[o] /\ calm'[o] = calm[o]
  BY DEF Begin, Lock, Goes, LockInv, WholeInv
<1>3. Declared \in Seq(Queue)
  BY ProvisioningAssumption
<1>4. DOMAIN calm' = Provisioner /\ todo' \in [Provisioner -> Seq(Queue)]
  BY <1>3 DEF Begin, Lock, WholeInv
<1>5. Place(p)'
  <2>1. CASE Begin(p)
    <3>1. pc'[p] = "locking" /\ schema'
      BY <2>1 DEF Begin, Goes, db, LockInv
    <3> QED BY <3>1 DEF Place, Knows, Holding
  <2>2. CASE Lock(p)
    <3>1. pc'[p] = "reading" /\ todo'[p] = Declared /\ schema'
      BY <2>2 DEF Lock, Goes, db, LockInv, WholeInv, Place
    <3> QED BY <3>1 DEF Place, Knows, Holding
  <2> QED BY <2>1, <2>2
<1> QED BY <1>1, <1>2, <1>4, <1>5, OwnStep DEF WholeInv

\* Reading a queue's row, then asking for its tables, leaves a plan that lacks nothing.
LEMMA PlanWhole ==
  ASSUME LockInv, WholeInv, NEW p \in Provisioner, PlanRow(p) \/ PlanTables(p)
  PROVE  WholeInv'
<1>1. /\ UNCHANGED <<schema, rows, tables, db, settled, calm, todo, made, built, fixed, viewed>>
      /\ Place(p)
  BY DEF PlanRow, PlanTables, tx, db, WholeInv
<1>2. \A q : RowOf(p, q)' = RowOf(p, q) /\ PolicyOf(p, q)' = PolicyOf(p, q)
  BY <1>1 DEF RowOf, PolicyOf
<1>3. \A q : (Ready(p, q)' <=> Ready(p, q)) /\ (Repairs(p, q)' <=> Repairs(p, q))
             /\ (Drifted(p, q)' <=> Drifted(p, q))
  BY <1>1, <1>2 DEF Ready, Repairs, Drifted, WholeIn, TablesSeen
<1> DEFINE q == Head(todo[p])
           new == ~There(RowOf(p, q))
<1>4. CASE PlanRow(p)
  <2> DEFINE made_plan == [create |-> new, repair |-> FALSE, policy |-> ~new /\ Drifted(p, q)]
  <2>1. /\ pc[p] = "reading" /\ todo[p] # << >>
        /\ plan' = [plan EXCEPT ![p] = made_plan]
        /\ pc' = [pc EXCEPT ![p] = IF new THEN "applying" ELSE "probing"]
    BY <1>4 DEF PlanRow, Goes
  <2>2. made_plan \in [create : BOOLEAN, repair : BOOLEAN, policy : BOOLEAN]
    BY DEF There, Drifted
  <2>3. /\ plan' \in [Provisioner -> [create : BOOLEAN, repair : BOOLEAN, policy : BOOLEAN]]
        /\ plan'[p].create = new /\ plan'[p].policy = (~new /\ Drifted(p, q))
        /\ \A o \in Provisioner \ {p} : plan'[o] = plan[o] /\ pc'[o] = pc[o]
        /\ pc'[p] = IF new THEN "applying" ELSE "probing"
    BY <2>1, <2>2 DEF WholeInv, LockInv
  <2>4. Planned(p, q)' <=> ~new /\ (Drifted(p, q) => plan'[p].policy)
    BY <1>1, <1>2, <1>3 DEF Planned
  <2>5. ASSUME Knows(p) PROVE Knows(p)'
    <3>1. (\A k \in ToSet(Declared) \ ToSet(todo[p]) : Ready(p, k))'
      BY <1>1, <1>3, <2>1, <2>5 DEF Knows, Holding
    <3>2. CASE new
      BY <2>3, <3>1, <3>2 DEF Knows
    <3>3. CASE ~new
      <4>1. Planned(p, Head(todo[p]))'
        BY <1>1, <2>3, <2>4, <3>3
      <4> QED BY <2>3, <3>1, <3>3, <4>1 DEF Knows
    <3> QED BY <3>2, <3>3
  <2>6. Place(p)'
    BY <1>1, <2>1, <2>3, <2>5 DEF Place
  <2> QED BY <1>1, <2>3, <2>6, OwnStep DEF WholeInv
<1>5. CASE PlanTables(p)
  <2>1. /\ pc[p] = "probing" /\ plan' = [plan EXCEPT ![p] = [@ EXCEPT !.repair = Repairs(p, q)]]
        /\ pc' = [pc EXCEPT ![p] = "applying"]
    BY <1>5 DEF PlanTables, Goes
  <2>2. Repairs(p, q) \in BOOLEAN
    BY DEF Repairs
  <2>3. /\ plan' \in [Provisioner -> [create : BOOLEAN, repair : BOOLEAN, policy : BOOLEAN]]
        /\ plan'[p].repair = Repairs(p, q) /\ plan'[p].policy = plan[p].policy
        /\ \A o \in Provisioner \ {p} : plan'[o] = plan[o] /\ pc'[o] = pc[o]
        /\ pc'[p] = "applying"
    BY <2>1, <2>2 DEF WholeInv, LockInv
  <2>4. Place(p)'
    BY <1>1, <1>2, <1>3, <2>1, <2>3 DEF Place, Knows, Planned, Holding
  <2> QED BY <1>1, <2>3, <2>4, OwnStep DEF WholeInv
<1> QED BY <1>4, <1>5

\* What a transaction adds never undoes a queue that is ready in it.
LEMMA ReadyStays ==
  ASSUME NEW p \in Provisioner, NEW k, NEW q, Ready(p, k), UNCHANGED <<rows, tables>>,
         made[p] \subseteq made'[p], built[p] \subseteq built'[p], fixed[p] \subseteq fixed'[p],
         made'[p] \subseteq made[p] \cup {q}, q \in made'[p] => q \in made[p] \/ ~There(RowOf(p, q))
  PROVE  Ready(p, k)'
<1>1. There(RowOf(p, k)) /\ (k \in HasPolicy => PolicyOf(p, k) = "declared")
      /\ Missing(k, TablesSeen(p)) = {}
  BY DEF Ready, WholeIn
<1>2. k \in made'[p] <=> k \in made[p]
  BY <1>1
<1>3. RowOf(p, k)' = RowOf(p, k)
  BY <1>2 DEF RowOf
<1>4. k \in HasPolicy => PolicyOf(p, k)' = "declared"
  BY <1>1, <1>3 DEF PolicyOf
<1>5. Missing(k, TablesSeen(p)') = {}
  BY <1>1 DEF Missing, TablesSeen
<1> QED BY <1>1, <1>3, <1>4, <1>5 DEF Ready, WholeIn

\* Applying the plan makes the queue at hand ready.
LEMMA ApplyWhole ==
  ASSUME LockInv, RowsInv, WholeInv, NEW p \in Provisioner, Apply(p)
  PROVE  WholeInv'
<1> DEFINE q == Head(todo[p])
           creates == plan[p].create \/ plan[p].repair
           sets == plan[p].policy \/ (plan[p].create /\ q \in HasPolicy)
<1>1. UNCHANGED <<db, schema, rows, tables, settled>> /\ pc[p] = "applying"
  BY DEF Apply, db
<1>2. CASE Fails(p)
  BY <1>1, <1>2, FailsWhole DEF Fails
<1>3. CASE ~Fails(p)
  <2>1. /\ pc' = [pc EXCEPT ![p] = "reading"] /\ plan' = [plan EXCEPT ![p] = NoPlan]
        /\ IF creates THEN CreateQueue(p, q) ELSE UNCHANGED <<made, built>>
        /\ fixed' = [fixed EXCEPT ![p] = IF sets THEN @ \cup {q} ELSE @]
        /\ todo' = [todo EXCEPT ![p] = Tail(@)]
        /\ UNCHANGED <<lock, viewed, calm>>
    BY <1>3 DEF Apply, Goes
  <2>2. /\ todo[p] \in Seq(Queue) /\ todo[p] # << >> /\ schema /\ Place(p)
    BY <1>1 DEF WholeInv, Place
  <2>3. /\ q \in Queue /\ Tail(todo[p]) \in Seq(Queue)
        /\ ToSet(todo[p]) \subseteq {q} \cup ToSet(Tail(todo[p]))
    BY <2>2, HeadAndRest
  <2>4. /\ todo' \in [Provisioner -> Seq(Queue)] /\ todo'[p] = Tail(todo[p])
        /\ plan' \in [Provisioner -> [create : BOOLEAN, repair : BOOLEAN, policy : BOOLEAN]]
        /\ pc'[p] = "reading" /\ calm'[p] = calm[p]
    <3>1. NoPlan \in [create : BOOLEAN, repair : BOOLEAN, policy : BOOLEAN]
      BY DEF NoPlan
    <3> QED BY <2>1, <2>3, <3>1 DEF WholeInv, LockInv
  <2>5. /\ creates => /\ made'[p] = IF There(RowOf(p, q)) THEN made[p] ELSE made[p] \cup {q}
                      /\ built'[p] = built[p] \cup Missing(q, TablesSeen(p))
        /\ ~creates => made'[p] = made[p] /\ built'[p] = built[p]
        /\ \A o \in Provisioner \ {p} : made'[o] = made[o] /\ built'[o] = built[o]
    BY <2>1 DEF CreateQueue, LockInv, RowsInv
  <2>6. /\ fixed'[p] = IF sets THEN fixed[p] \cup {q} ELSE fixed[p]
        /\ \A o \in Provisioner \ {p} : fixed'[o] = fixed[o] /\ pc'[o] = pc[o]
                                        /\ todo'[o] = todo[o] /\ plan'[o] = plan[o]
    BY <2>1 DEF LockInv, RowsInv, WholeInv
  <2>7. ASSUME NEW k, k = q, calm[p] PROVE Ready(p, k)'
    <3>1. /\ ~plan[p].create => /\ There(RowOf(p, k)) /\ (Drifted(p, k) => plan[p].policy)
                                /\ Missing(k, TablesSeen(p)) # {} => plan[p].repair
      BY <1>1, <2>2, <2>7 DEF Place, Knows, Planned, Repairs
    <3>2. There(RowOf(p, k)') /\ (There(RowOf(p, k)) => RowOf(p, k)' = RowOf(p, k))
      <4>1. CASE There(RowOf(p, k))
        BY <1>1, <2>5, <2>7, <4>1 DEF RowOf
      <4>2. CASE ~There(RowOf(p, k))
        <5>1. k \in made'[p]
          BY <2>5, <2>7, <3>1, <4>2
        <5> QED BY <4>2, <5>1 DEF RowOf, There, NoRow
      <4> QED BY <4>1, <4>2
    <3>3. Missing(k, TablesSeen(p)') = {}
      BY <1>1, <2>5, <2>7, <3>1 DEF Missing, TablesSeen
    <3>4. k \in HasPolicy => PolicyOf(p, k)' = "declared"
      <4>1. CASE sets
        BY <2>6, <2>7, <4>1 DEF PolicyOf
      <4>2. CASE ~sets /\ k \in HasPolicy
        <5>1. PolicyOf(p, k) = "declared" /\ There(RowOf(p, k))
          BY <2>7, <3>1, <4>2 DEF Drifted
        <5> QED BY <2>6, <2>7, <3>2, <4>2, <5>1 DEF PolicyOf
      <4> QED BY <4>1, <4>2
    <3> QED BY <3>2, <3>3, <3>4 DEF Ready, WholeIn
  <2>8. ASSUME calm[p], NEW k \in ToSet(Declared) \ ToSet(todo'[p]) PROVE Ready(p, k)'
    <3>1. CASE k = q
      BY <2>7, <2>8, <3>1
    <3>2. CASE k # q
      <4>1. Ready(p, k)
        BY <1>1, <2>2, <2>3, <2>4, <2>8, <3>2 DEF Place, Knows, Holding
      <4> QED BY <1>1, <2>5, <2>6, <4>1, ReadyStays
    <3> QED BY <3>1, <3>2
  <2>9. Place(p)'
    BY <1>1, <2>2, <2>4, <2>8 DEF Place, Knows
  <2> QED BY <1>1, <2>1, <2>4, <2>5, <2>6, <2>9, OwnStep DEF WholeInv
<1> QED BY <1>2, <1>3

LEMMA RebuildWhole ==
  ASSUME LockInv, RowsInv, WholeInv, NEW p \in Provisioner, RebuildViews(p)
  PROVE  WholeInv'
<1>1. /\ UNCHANGED <<db, schema, rows, tables, settled>>
      /\ pc[p] = "reading" /\ todo[p] = << >>
  BY DEF RebuildViews, db
<1>2. CASE Fails(p)
  BY <1>1, <1>2, FailsWhole DEF Fails
<1>3. CASE ~Fails(p)
  <2>1. /\ pc' = [pc EXCEPT ![p] = "committing"] /\ viewed' = [viewed EXCEPT ![p] = ViewsOver(p)]
        /\ UNCHANGED <<lock, todo, plan, made, built, fixed, calm>>
    BY <1>3 DEF RebuildViews, Goes
  <2>2. /\ pc'[p] = "committing" /\ viewed'[p] = ViewsOver(p)
        /\ \A o \in Provisioner \ {p} : pc'[o] = pc[o] /\ viewed'[o] = viewed[o]
    BY <2>1 DEF LockInv
  <2>3. (\A k : Ready(p, k)' <=> Ready(p, k)) /\ ViewsOver(p)' = ViewsOver(p)
    BY <1>1, <2>1 DEF Ready, WholeIn, RowOf, PolicyOf, TablesSeen, ViewsOver
  <2>4. Place(p)'
    BY <1>1, <2>1, <2>2, <2>3 DEF WholeInv, Place, Knows, Holding
  <2> QED BY <1>1, <2>1, <2>2, <2>4, OwnStep DEF WholeInv
<1> QED BY <1>2, <1>3

\* A commit finds nobody else at work, for it has the lock, and writes what its
\* transaction saw.
LEMMA CommitWhole ==
  ASSUME LockInv, RowsInv, WholeInv, NEW p \in Provisioner, Commit(p)
  PROVE  WholeInv'
<1>1. /\ pc[p] = "committing" /\ rows' = RowsWritten(p) /\ tables' = TablesSeen(p)
      /\ views' = viewed[p] /\ settled' = calm[p] /\ UNCHANGED schema
      /\ pc' = [pc EXCEPT ![p] = "idle"] /\ calm' = [calm EXCEPT ![p] = FALSE]
      /\ todo' = [todo EXCEPT ![p] = << >>] /\ plan' = [plan EXCEPT ![p] = NoPlan]
  BY DEF Commit, Ends, Goes
<1>2. Place(p) /\ schema /\ todo[p] = << >>
  BY <1>1 DEF WholeInv, Place
<1>3. /\ DOMAIN calm' = Provisioner /\ todo' \in [Provisioner -> Seq(Queue)]
      /\ plan' \in [Provisioner -> [create : BOOLEAN, repair : BOOLEAN, policy : BOOLEAN]]
  <2>1. << >> \in Seq(Queue) /\ NoPlan \in [create : BOOLEAN, repair : BOOLEAN, policy : BOOLEAN]
    BY DEF NoPlan
  <2> QED BY <1>1, <2>1 DEF WholeInv
<1>4. ASSUME NEW o \in Provisioner, o # p PROVE Place(o)'
  <2>1. pc[o] \notin Holding
    BY <1>1, <1>4 DEF LockInv, Holding
  <2>2. pc'[o] = pc[o] /\ todo'[o] = todo[o] /\ schema'
    BY <1>1, <1>2, <1>4 DEF LockInv, WholeInv
  <2> QED BY <2>1, <2>2 DEF Place, Knows, Holding
<1>5. Place(p)'
  <2>1. pc'[p] = "idle" /\ ~calm'[p]
    BY <1>1 DEF LockInv, WholeInv
  <2> QED BY <2>1 DEF Place
<1>6. ASSUME settled' PROVE SettledWhole'
  <2>1. Knows(p)
    BY <1>1, <1>2, <1>6 DEF Place
  <2>2. views' = Catalogue'
    <3>1. \A q \in Queue : There(RowOf(p, q)) <=> There(rows'[q])
      <4>1. ASSUME NEW q \in Queue PROVE There(RowOf(p, q)) <=> q \in made[p] \/ There(rows[q])
        BY DEF RowOf, There, NoRow
      <4> QED BY <1>1, <4>1, WrittenRow
    <3> QED BY <1>1, <2>1, <3>1 DEF Knows, ViewsOver, Catalogue
  <2>3. ASSUME NEW q \in ToSet(Declared)
        PROVE  WholeIn(rows'[q], tables', rows'[q].policy, q)
    <3>1. q \in Queue /\ Ready(p, q)
      <4>1. ToSet(<< >>) = {}
        BY DEF ToSet
      <4> QED BY <1>1, <1>2, <2>1, <4>1, DeclaredQueues DEF Knows, Holding
    <3>2. /\ There(RowOf(p, q)) /\ Missing(q, tables') = {}
          /\ q \in HasPolicy => PolicyOf(p, q) = "declared"
      BY <1>1, <3>1 DEF Ready, WholeIn
    <3>3. RowOf(p, q) \in Row
      BY <3>1 DEF RowOf, RowsInv, Row, Mode
    <3>4. rows'[q] = [RowOf(p, q) EXCEPT !.policy = PolicyOf(p, q)]
      BY <1>1, <3>1 DEF RowsWritten
    <3>5. rows'[q] = [mode |-> RowOf(p, q).mode, policy |-> PolicyOf(p, q)]
      BY <3>3, <3>4 DEF Row, NoRow
    <3>6. RowOf(p, q).mode \in Mode
      BY <3>2, <3>3 DEF Row, There
    <3> QED BY <3>2, <3>5, <3>6 DEF WholeIn, There, NoRow, Mode
  <2> QED BY <1>1, <1>2, <2>2, <2>3 DEF SettledWhole
<1> QED BY <1>3, <1>4, <1>5, <1>6 DEF WholeInv

LEMMA ProvisionerWhole ==
  ASSUME LockInv, RowsInv, WholeInv, NEW p \in Provisioner,
         Begin(p) \/ Lock(p) \/ Steps(p) \/ Dies(p)
  PROVE  WholeInv'
<1>1. CASE Dies(p)
  BY <1>1, FailsWhole DEF Dies, Fails
<1> QED BY <1>1, BeginWhole, PlanWhole, ApplyWhole, RebuildWhole, CommitWhole DEF Steps

\* Who touches the queues without the lock leaves no provisioner calm and nothing settled.
LEMMA DisturbsWhole ==
  ASSUME WholeInv, Disturbs, UNCHANGED schema
  PROVE  WholeInv'
<1>1. /\ calm' = [p \in Provisioner |-> FALSE] /\ settled' = FALSE
      /\ UNCHANGED <<pc, todo, plan, schema>>
  BY DEF Disturbs
<1> QED BY <1>1 DEF WholeInv, Place

\* What the invariant speaks of is left alone.
LEMMA OthersWhole ==
  ASSUME WholeInv, UNCHANGED <<db, prov, settled>>
  PROVE  WholeInv'
<1>1. UNCHANGED <<schema, rows, tables, views, settled, pc, todo, plan, calm, made, built,
                  fixed, viewed>>
  BY DEF db, prov, tx
<1>2. \A p \in Provisioner : Place(p)'
  BY <1>1, PlaceStays DEF WholeInv
<1>3. SettledWhole => SettledWhole'
  BY <1>1 DEF SettledWhole, Catalogue, WholeIn
<1> QED BY <1>1, <1>2, <1>3 DEF WholeInv

LEMMA NextWhole == LockInv /\ RowsInv /\ WholeInv /\ [Next]_vars => WholeInv'
<1> SUFFICES ASSUME LockInv, RowsInv, WholeInv, [Next]_vars PROVE WholeInv'
  OBVIOUS
<1>1. ASSUME NEW p \in Provisioner, Begin(p) \/ Lock(p) \/ Steps(p) \/ Dies(p)
      PROVE  WholeInv'
  BY <1>1, ProvisionerWhole
<1>2. ASSUME NEW q \in Queue,
             \/ OperatorDropsQueue(q) \/ OperatorSetsPolicy(q)
             \/ \E k \in Part : OperatorDropsTable(q, k)
             \/ \E m \in Mode : OperatorCreates(q, m)
      PROVE  WholeInv'
  <2>1. Disturbs /\ UNCHANGED schema
    BY <1>2 DEF OperatorDropsQueue, OperatorSetsPolicy, OperatorDropsTable, OperatorCreates
  <2> QED BY <2>1, DisturbsWhole
<1>3. ASSUME NEW q \in Queue, FlushDrops(q) PROVE WholeInv'
  <2>1. CASE There(rows[q])
    BY <1>3, <2>1, DisturbsWhole DEF FlushDrops
  <2>2. CASE ~There(rows[q])
    BY <1>3, <2>2, OthersWhole DEF FlushDrops, db
  <2> QED BY <2>1, <2>2
<1>4. CASE Migrate
  <2>1. ~schema /\ schema' /\ UNCHANGED <<pc, todo, plan, calm, settled>>
    BY <1>4 DEF Migrate, prov
  <2>2. ~settled /\ \A p \in Provisioner : pc[p] = "idle"
    BY <2>1 DEF WholeInv, Place, SettledWhole
  <2>3. \A p \in Provisioner : Place(p)'
    BY <2>1, <2>2 DEF Place, Knows, Holding
  <2> QED BY <2>1, <2>2, <2>3 DEF WholeInv
<1>5. CASE FlushBegins \/ FlushTearsDown \/ FlushEnds
             \/ WorkerLists \/ WorkerProbes \/ WorkerClaims \/ UNCHANGED vars
  <2>1. UNCHANGED <<db, prov, settled>>
    BY <1>5 DEF FlushBegins, FlushTearsDown, FlushEnds, WorkerLists, WorkerProbes,
                WorkerClaims, vars
  <2> QED BY <2>1, OthersWhole
<1> QED BY <1>1, <1>2, <1>3, <1>4, <1>5 DEF Next, FlushGoesOn

\* queues.py: after a provisioning that nobody disturbed, however many others raced for
\* the lock, wrote nothing or failed half-way, --check reports nothing, an enqueue to any
\* declared queue is taken, and the views cover the whole catalogue.
THEOREM CalmProvisioningIsWhole == Spec => []ProvisionedIsWhole
<1>1. WholeInv => ProvisionedIsWhole
  <2> SUFFICES ASSUME WholeInv, settled
               PROVE  /\ ~Pending /\ \A q \in ToSet(Declared) : Answer(q) = "ok"
                      /\ views = Catalogue
    BY DEF ProvisionedIsWhole
  <2> QED BY DEF WholeInv, SettledWhole, WholeIn, Pending, Answer
<1> QED BY <1>1, InitLock, NextLock, InitRows, NextRows, InitWhole, NextWhole, PTL DEF Spec
=============================================================================
