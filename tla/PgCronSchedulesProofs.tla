----------------------- MODULE PgCronSchedulesProofs -----------------------
(***************************************************************************)
(* Proofs about PgCronSchedules for any processes, names, expressions,     *)
(* releases, environments and budgets.  The order in which statements wait *)
(* does not matter: every invariant here is about the set of those that    *)
(* are Pending, of one process or of several.                              *)
(***************************************************************************)
EXTENDS PgCronSchedules, SequenceTheorems, FiniteSetTheorems, TLAPS

-----------------------------------------------------------------------------
(* Sequences and the sets of their elements                                 *)

LEMMA HeadAndRest ==
  ASSUME NEW S, NEW s \in Seq(S), s # << >>
  PROVE  /\ Head(s) \in S /\ Head(s) \in ToSet(s) /\ Tail(s) \in Seq(S)
         /\ ToSet(s) = {Head(s)} \cup ToSet(Tail(s))
<1>1. /\ Len(s) \in Nat \ {0} /\ DOMAIN s = 1 .. Len(s) /\ Head(s) = s[1]
      /\ Head(s) \in S /\ Tail(s) \in Seq(S) /\ Len(Tail(s)) = Len(s) - 1
      /\ \A i \in 1 .. Len(s) - 1 : Tail(s)[i] = s[i + 1]
  BY HeadTailProperties, EmptySeq
<1>2. DOMAIN Tail(s) = 1 .. Len(s) - 1
  BY <1>1
<1>3. ASSUME NEW i \in 1 .. Len(s), i # 1 PROVE s[i] \in ToSet(Tail(s))
  <2>1. i - 1 \in 1 .. Len(s) - 1 /\ Tail(s)[i - 1] = s[i]
    BY <1>1, <1>3
  <2> QED BY <1>2, <2>1 DEF ToSet
<1>4. ASSUME NEW i \in 1 .. Len(s) - 1 PROVE Tail(s)[i] \in ToSet(s)
  <2>1. i + 1 \in 1 .. Len(s) /\ Tail(s)[i] = s[i + 1]
    BY <1>1, <1>4
  <2> QED BY <1>1, <2>1 DEF ToSet
<1>5. Head(s) \in ToSet(s)
  BY <1>1 DEF ToSet
<1>6. ToSet(Tail(s)) \subseteq ToSet(s)
  BY <1>2, <1>4 DEF ToSet
<1>7. ToSet(s) \subseteq {Head(s)} \cup ToSet(Tail(s))
  BY <1>1, <1>3 DEF ToSet
<1> QED BY <1>1, <1>5, <1>6, <1>7

LEMMA JoinedSet ==
  ASSUME NEW S, NEW s \in Seq(S), NEW t \in Seq(S)
  PROVE  s \o t \in Seq(S) /\ ToSet(s \o t) = ToSet(s) \cup ToSet(t)
<1>1. /\ s \o t \in Seq(S) /\ Len(s) \in Nat /\ Len(t) \in Nat
      /\ DOMAIN s = 1 .. Len(s) /\ DOMAIN t = 1 .. Len(t)
      /\ DOMAIN (s \o t) = 1 .. Len(s) + Len(t)
      /\ \A i \in 1 .. Len(s) + Len(t) :
           (s \o t)[i] = IF i <= Len(s) THEN s[i] ELSE t[i - Len(s)]
  BY ConcatProperties, LenProperties
<1>2. ToSet(s \o t) \subseteq ToSet(s) \cup ToSet(t)
  <2> SUFFICES ASSUME NEW i \in 1 .. Len(s) + Len(t) PROVE (s \o t)[i] \in ToSet(s) \cup ToSet(t)
    BY <1>1 DEF ToSet
  <2>1. CASE i <= Len(s)
    BY <1>1, <2>1 DEF ToSet
  <2>2. CASE ~(i <= Len(s))
    <3>1. i - Len(s) \in 1 .. Len(t)
      BY <1>1, <2>2
    <3> QED BY <1>1, <2>2, <3>1 DEF ToSet
  <2> QED BY <2>1, <2>2
<1>3. ToSet(s) \subseteq ToSet(s \o t)
  <2> SUFFICES ASSUME NEW i \in 1 .. Len(s) PROVE s[i] \in ToSet(s \o t)
    BY <1>1 DEF ToSet
  <2>1. i \in 1 .. Len(s) + Len(t) /\ (s \o t)[i] = s[i]
    BY <1>1
  <2> QED BY <1>1, <2>1 DEF ToSet
<1>4. ToSet(t) \subseteq ToSet(s \o t)
  <2> SUFFICES ASSUME NEW i \in 1 .. Len(t) PROVE t[i] \in ToSet(s \o t)
    BY <1>1 DEF ToSet
  <2>1. i + Len(s) \in 1 .. Len(s) + Len(t) /\ (s \o t)[i + Len(s)] = t[i]
    BY <1>1
  <2> QED BY <1>1, <2>1 DEF ToSet
<1> QED BY <1>1, <1>2, <1>3, <1>4

LEMMA ListedSet ==
  ASSUME NEW S, IsFiniteSet(S)
  PROVE  SetToSeq(S) \in Seq(S) /\ ToSet(SetToSeq(S)) = S
<1> DEFINE n == Cardinality(S)
           s == SetToSeq(S)
<1>1. n \in Nat /\ ExistsBijection(1 .. n, S)
  BY FS_CardinalityType
<1>2. PICK f \in Bijection(1 .. n, S) : TRUE
  BY <1>1 DEF ExistsBijection
<1>3. f \in [1 .. n -> S] /\ IsInjective(f)
  BY <1>2 DEF Bijection, Injection
<1>4. s \in [1 .. n -> S] /\ IsInjective(s)
  BY <1>3 DEF SetToSeq
<1>5. s \in Injection(1 .. n, S)
  BY <1>4 DEF Injection
<1>6. Cardinality(1 .. n) = n
  BY <1>1, FS_Interval
<1>7. s \in Surjection(1 .. n, S)
  BY <1>5, <1>6, FS_Injection
<1>8. s \in Seq(S)
  BY <1>1, <1>4, SeqDef
<1>9. ToSet(s) = S
  BY <1>4, <1>7 DEF Surjection, ToSet
<1> QED BY <1>8, <1>9

\* What a sequence lists is finite.
LEMMA FiniteElements ==
  ASSUME NEW S, NEW s \in Seq(S)
  PROVE  IsFiniteSet(ToSet(s)) /\ ToSet(s) \subseteq S
<1>1. Len(s) \in Nat /\ DOMAIN s = 1 .. Len(s) /\ s \in [1 .. Len(s) -> S]
  BY LenProperties
<1>2. s \in Surjection(1 .. Len(s), ToSet(s))
  BY <1>1 DEF Surjection, ToSet
<1>3. IsFiniteSet(1 .. Len(s))
  BY <1>1, FS_Interval
<1> QED BY <1>1, <1>2, <1>3, FS_Surjection DEF ToSet

LEMMA Tuples ==
  /\ ToSet(<< >>) = {}
  /\ \A a : ToSet(<<a>>) = {a}
  /\ \A a, b : ToSet(<<a, b>>) = {a, b}
  /\ \A a, b, c : ToSet(<<a, b, c>>) = {a, b, c}
  /\ \A a, b, c, d : ToSet(<<a, b, c, d>>) = {a, b, c, d}
BY DEF ToSet

-----------------------------------------------------------------------------
(* The statements *)

LEMMA StatementsTyped ==
  /\ \A key \in RowKey, r \in Row : Save(key, r) \in Statement
  /\ \A gone \in SUBSET RowKey : DeleteRows(gone) \in Statement
  /\ Truncate \in Statement /\ ReadAdminRows \in Statement
  /\ \A key \in RowKey \cup {Cleanup}, r \in Row, hook \in BOOLEAN :
       Schedule(key, r, hook) \in Statement
  /\ \A j \in Ours, id \in JobIds, active \in BOOLEAN, hook \in BOOLEAN :
       Alter(j, id, active, hook) \in Statement /\ Drop(j, id, hook) \in Statement
  /\ \A lanes \in SUBSET Ours, keep \in SUBSET Ours, hook \in BOOLEAN :
       Find(lanes, keep, hook) \in Statement
BY DEF Statement, Save, DeleteRows, Truncate, ReadAdminRows, Schedule, Alter, Drop, Find

LEMMA StatementFields ==
  ASSUME NEW o \in Statement
  PROVE  /\ o.op = "save" => o.key \in RowKey /\ o.row \in Row
         /\ o.op = "delete" => o.gone \subseteq RowKey
         /\ o.op = "schedule" => o.key \in RowKey \cup {Cleanup} /\ o.row \in Row /\ o.hook \in BOOLEAN
         /\ o.op = "alter" => o.job \in Ours /\ o.id \in Nat /\ o.active \in BOOLEAN
         /\ o.op = "find" => o.lanes \subseteq Ours /\ o.keep \subseteq Ours /\ o.hook \in BOOLEAN
         /\ o.op = "drop" => o.job \in Ours /\ o.id \in Nat
BY DEF Statement, JobIds

LEMMA KeysApart ==
  /\ Cleanup \notin RowKey
  /\ \A key \in RowKey \cup {Cleanup} : Job(key) \in Ours /\ Job(key)[1] = key
  /\ \A j \in Ours : j[1] \in RowKey \cup {Cleanup} /\ j = Job(j[1])
  /\ Ours \subseteq JobKey
  /\ \A n \in Names : <<Settings, n>> \in RowKey /\ <<Admin, n>> \in RowKey
  /\ \A key \in RowKey : key[2] \in Names /\ (key = <<Settings, key[2]>> \/ key = <<Admin, key[2]>>)
  /\ \A source : Lane(source) \subseteq Ours
BY DEF RowKey, Cleanup, Job, Ours, JobKey, Settings, Admin, Lane

LEMMA FiniteKeys == IsFiniteSet(Names) /\ IsFiniteSet(RowKey) /\ IsFiniteSet(JobKey)
<1>1. IsFiniteSet(Names)
  BY PgCronAssumption
<1>2. IsFiniteSet({Settings, Admin}) /\ IsFiniteSet({"app", "other"}) /\ IsFiniteSet({Cleanup})
  <2>1. \A a, b : IsFiniteSet({a}) /\ IsFiniteSet({a} \cup {b})
    BY FS_Singleton, FS_AddElement
  <2>2. \A a, b : {a, b} = {a} \cup {b}
    OBVIOUS
  <2>3. /\ IsFiniteSet({Settings} \cup {Admin}) /\ IsFiniteSet({"app"} \cup {"other"})
        /\ IsFiniteSet({Cleanup})
    BY <2>1
  <2> QED BY <2>2, <2>3
<1>3. IsFiniteSet(RowKey)
  BY <1>1, <1>2, FS_Product DEF RowKey
<1>4. IsFiniteSet(RowKey \cup {Cleanup})
  BY <1>2, <1>3, FS_Union
<1>5. IsFiniteSet(JobKey)
  BY <1>2, <1>4, FS_Product DEF JobKey
<1> QED BY <1>1, <1>3, <1>5

-----------------------------------------------------------------------------
(* What a step does to the statements that are pending *)

Listed == TypeOK /\ IsFiniteSet(Pending)

Enlists(o, M) ==
  /\ o \in Pending /\ o \in Statement
  /\ Pending' \subseteq Pending \cup M
  /\ (Pending \ {o}) \cup M \subseteq Pending'

ListedNext == todo' \in [Process -> Seq(Statement)] /\ IsFiniteSet(Pending')

LEMMA FreshIdIsAnId == Listed => FreshId \in Nat
<1> SUFFICES ASSUME Listed PROVE FreshId \in Nat
  OBVIOUS
<1> DEFINE D == {x \in JobKey : jobs[x] # None}
           ids == [j \in D |-> jobs[j].id]
           L == {x \in Pending : x.op \in {"alter", "drop"}}
           refs == [o \in L |-> o.id]
           used == {jobs[j].id : j \in D} \cup {o.id : o \in L}
<1>1. IsFiniteSet(D) /\ IsFiniteSet(L)
  BY FiniteKeys, FS_Subset DEF Listed
<1>2. IsFiniteSet({jobs[j].id : j \in D})
  <2>1. ids \in Surjection(D, {jobs[j].id : j \in D})
    BY DEF Surjection
  <2> QED BY <1>1, <2>1, FS_Surjection
<1>3. IsFiniteSet({o.id : o \in L})
  <2>1. refs \in Surjection(L, {o.id : o \in L})
    BY DEF Surjection
  <2> QED BY <1>1, <2>1, FS_Surjection
<1>4. IsFiniteSet(used)
  BY <1>2, <1>3, FS_Union
<1>5. PICK n \in Nat : n = Cardinality(used)
  BY <1>4, FS_CardinalityType
<1>6. \E i \in 0 .. n : i \notin used
  <2> SUFFICES ASSUME 0 .. n \subseteq used PROVE FALSE
    OBVIOUS
  <2>1. Cardinality(0 .. n) <= n
    BY <1>4, <1>5, FS_Subset
  <2>2. Cardinality(0 .. n) = n + 1
    BY <1>5, FS_Interval
  <2> QED BY <1>5, <2>1, <2>2
<1>7. FreshId = CHOOSE i \in 0 .. n : i \notin used
  BY <1>5 DEF FreshId
<1> HIDE DEF used
<1>8. FreshId \in 0 .. n
  BY <1>6, <1>7
<1> QED BY <1>5, <1>8

LEMMA TodoPends ==
  ASSUME Listed, NEW p \in Process, ~Idle(p)
  PROVE  /\ todo[p] \in Seq(Statement) /\ Head(todo[p]) \in Statement
         /\ Head(todo[p]) \in Pending /\ Tail(todo[p]) \in Seq(Statement)
         /\ ToSet(todo[p]) = {Head(todo[p])} \cup ToSet(Tail(todo[p]))
<1>1. todo[p] \in Seq(Statement) /\ todo[p] # << >>
  BY DEF Listed, TypeOK, Idle
<1>2. /\ Head(todo[p]) \in Statement /\ Head(todo[p]) \in ToSet(todo[p])
      /\ Tail(todo[p]) \in Seq(Statement)
      /\ ToSet(todo[p]) = {Head(todo[p])} \cup ToSet(Tail(todo[p]))
  BY <1>1, HeadAndRest
<1> QED BY <1>1, <1>2 DEF Pending

LEMMA Replaced ==
  ASSUME Listed, NEW p \in Process, NEW s \in Seq(Statement), todo' = [todo EXCEPT ![p] = s]
  PROVE  /\ ListedNext
         /\ Pending' \subseteq Pending \cup ToSet(s)
         /\ ToSet(s) \subseteq Pending'
         /\ \A o \in Pending : o \in Pending' \/ o \in ToSet(todo[p])
<1>1. /\ todo' \in [Process -> Seq(Statement)] /\ todo'[p] = s
      /\ \A q \in Process \ {p} : todo'[q] = todo[q]
  BY DEF Listed, TypeOK
<1>2. Pending' = UNION {ToSet(todo'[q]) : q \in Process}
  BY DEF Pending, ToSet
<1>3. Pending' \subseteq Pending \cup ToSet(s) /\ ToSet(s) \subseteq Pending'
  BY <1>1, <1>2 DEF Pending
<1>4. \A o \in Pending : o \in Pending' \/ o \in ToSet(todo[p])
  BY <1>1, <1>2 DEF Pending
<1>5. IsFiniteSet(ToSet(s))
  BY FiniteElements
<1>6. IsFiniteSet(Pending \cup ToSet(s))
  BY <1>5, FS_Union DEF Listed
<1>7. IsFiniteSet(Pending')
  BY <1>3, <1>6, FS_Subset
<1> QED BY <1>1, <1>3, <1>4, <1>7 DEF ListedNext

LEMMA Continued ==
  ASSUME Listed, NEW p \in Process, ~Idle(p), NEW more \in Seq(Statement), Continue(p, more)
  PROVE  ListedNext /\ Enlists(Head(todo[p]), ToSet(more))
<1> DEFINE s == more \o Tail(todo[p])
<1>1. /\ Head(todo[p]) \in Statement /\ Head(todo[p]) \in Pending
      /\ Tail(todo[p]) \in Seq(Statement)
      /\ ToSet(todo[p]) = {Head(todo[p])} \cup ToSet(Tail(todo[p]))
  BY TodoPends
<1>2. s \in Seq(Statement) /\ ToSet(s) = ToSet(more) \cup ToSet(Tail(todo[p]))
  <2> DEFINE t == Tail(todo[p])
  <2>1. t \in Seq(Statement)
    BY <1>1
  <2> HIDE DEF t
  <2>2. more \o t \in Seq(Statement) /\ ToSet(more \o t) = ToSet(more) \cup ToSet(t)
    BY <2>1, JoinedSet
  <2> QED BY <2>2 DEF t
<1>3. todo' = [todo EXCEPT ![p] = s]
  BY DEF Continue, Listed, TypeOK
<1> HIDE DEF s
<1>4. /\ ListedNext /\ Pending' \subseteq Pending \cup ToSet(s) /\ ToSet(s) \subseteq Pending'
      /\ \A o \in Pending : o \in Pending' \/ o \in ToSet(todo[p])
  BY <1>2, <1>3, Replaced
<1>5. ToSet(todo[p]) \subseteq Pending
  BY DEF Pending
<1> QED BY <1>1, <1>2, <1>4, <1>5 DEF Enlists

\* A failure takes the statement with it, and of a command all the others.
LEMMA Ended ==
  ASSUME Listed, NEW p \in Process, ~Idle(p),
         todo' = [todo EXCEPT ![p] = << >>] \/ Fails(p, Head(todo[p]))
  PROVE  ListedNext /\ Pending' \subseteq Pending
<1>1. Tail(todo[p]) \in Seq(Statement) /\ ToSet(Tail(todo[p])) \subseteq ToSet(todo[p])
  BY TodoPends
<1>2. << >> \in Seq(Statement) /\ ToSet(<< >>) = {}
  BY DEF ToSet
<1>3. \/ todo' = [todo EXCEPT ![p] = << >>]
      \/ todo' = [todo EXCEPT ![p] = Tail(todo[p])]
  BY DEF Fails, Listed, TypeOK
<1>4. ToSet(todo[p]) \subseteq Pending
  BY DEF Pending
<1> QED BY <1>1, <1>2, <1>3, <1>4, Replaced

LEMMA Started ==
  ASSUME Listed, NEW p \in Process, Idle(p), NEW s \in Seq(Statement), todo' = [todo EXCEPT ![p] = s]
  PROVE  ListedNext /\ Pending' = Pending \cup ToSet(s)
<1>1. ToSet(todo[p]) = {}
  BY DEF Idle, ToSet
<1> QED BY <1>1, Replaced

-----------------------------------------------------------------------------
(* The steps, as what they do to what is pending, to the rows and to the jobs *)

Saves(o) ==
  /\ o.op = "save" /\ Enlists(o, {Schedule(o.key, o.row, TRUE)})
  /\ rows' = [rows EXCEPT ![o.key] = o.row] /\ jobs' = jobs

Deletes(o) ==
  LET gone == {k \in o.gone : rows[k] # None} IN
  /\ o.op = "delete" /\ Enlists(o, {UnscheduleJob(k, TRUE) : k \in gone})
  /\ rows' = [k \in RowKey |-> IF k \in gone THEN None ELSE rows[k]] /\ jobs' = jobs

Truncates(o) ==
  /\ o.op = "truncate" /\ Enlists(o, {})
  /\ rows' = [k \in RowKey |-> None] /\ jobs' = jobs

Reads(o) ==
  LET names == {n \in Names : rows[<<Admin, n>>] # None} IN
  /\ o.op = "read"
  /\ Enlists(o, {Schedule(<<Admin, n>>, rows[<<Admin, n>>], FALSE) : n \in names} \cup {PruneJobs(Admin, names)})
  /\ rows' = rows /\ jobs' = jobs

SkipsCatalogue(o) ==
  /\ o.op \in {"schedule", "find"} /\ Inert /\ Enlists(o, {})
  /\ rows' = rows /\ jobs' = jobs

Schedules(o, id) ==
  /\ o.op = "schedule" /\ ~Inert
  /\ jobs[Job(o.key)] # None => id = jobs[Job(o.key)].id
  /\ jobs' = [jobs EXCEPT ![Job(o.key)] =
               [id |-> id, cron |-> o.row.cron, active |-> IF @ = None THEN o.row.enabled ELSE @.active]]
  /\ Enlists(o, {Alter(Job(o.key), id, o.row.enabled, o.hook)})
  /\ rows' = rows

Alters(o) ==
  /\ o.op = "alter" /\ jobs[o.job] # None /\ jobs[o.job].id = o.id
  /\ jobs' = [jobs EXCEPT ![o.job].active = o.active]
  /\ Enlists(o, {})
  /\ rows' = rows

IsRefused(o) ==
  /\ o.op = "alter" /\ o \in Pending /\ ~(jobs[o.job] # None /\ jobs[o.job].id = o.id)
  /\ Pending' \subseteq Pending
  /\ rows' = rows /\ jobs' = jobs

Finds(o) ==
  LET stale == {j \in o.lanes \ o.keep : jobs[j] # None} IN
  /\ o.op = "find" /\ ~Inert /\ Enlists(o, {Drop(j, jobs[j].id, o.hook) : j \in stale})
  /\ rows' = rows /\ jobs' = jobs

Drops(o) ==
  /\ o.op = "drop" /\ Enlists(o, {})
  /\ jobs' = [jobs EXCEPT ![o.job] = IF @ # None /\ @.id = o.id THEN None ELSE @]
  /\ rows' = rows

Executes(o) ==
  \/ Saves(o) \/ Deletes(o) \/ Truncates(o) \/ Reads(o) \/ SkipsCatalogue(o)
  \/ \E id \in Nat : Schedules(o, id)
  \/ Alters(o) \/ IsRefused(o) \/ Finds(o) \/ Drops(o)

LEMMA ListedStatements ==
  ASSUME NEW S \in SUBSET Statement, IsFiniteSet(S)
  PROVE  SetToSeq(S) \in Seq(Statement) /\ ToSet(SetToSeq(S)) = S
<1>1. SetToSeq(S) \in Seq(S) /\ ToSet(SetToSeq(S)) = S
  BY ListedSet
<1> QED BY <1>1, SeqMonotonic

LEMMA OneListed ==
  ASSUME NEW a \in Statement
  PROVE  <<a>> \in Seq(Statement) /\ ToSet(<<a>>) = {a}
BY Tuples

LEMMA UnschedulesTyped ==
  ASSUME NEW key \in RowKey \cup {Cleanup}, NEW hook \in BOOLEAN
  PROVE  UnscheduleJob(key, hook) \in Statement
BY StatementsTyped, KeysApart DEF UnscheduleJob

LEMMA PrunesTyped ==
  ASSUME NEW source \in {Settings, Admin}, NEW names \in SUBSET Names
  PROVE  PruneJobs(source, names) \in Statement
<1>1. {Job(<<source, n>>) : n \in names} \in SUBSET Ours
  BY KeysApart
<1>2. Lane(source) \in SUBSET Ours
  BY DEF Lane
<1> QED BY <1>1, <1>2, StatementsTyped DEF PruneJobs

LEMMA StepsDoWhatTheyRun ==
  ASSUME Listed, NEW p \in Process, Step(p)
  PROVE  ListedNext /\ Executes(Head(todo[p])) /\ spawned' = None /\ UNCHANGED <<owed, left, world>>
<1> DEFINE o == Head(todo[p])
<1>1. ~Idle(p)
  BY DEF Step, Runs, Gated, SaveRow, DeleteGoneRows, TruncateRows, ReadAdmin, ScheduleJob, AlterJob,
         FindJobs, UnscheduleJobids
<1>2. o \in Statement /\ o \in Pending
  BY <1>1, TodoPends
<1>3. << >> \in Seq(Statement) /\ ToSet(<< >>) = {}
  BY Tuples
<1>4. CASE SaveRow(p)
  <2>1. Schedule(o.key, o.row, TRUE) \in Statement
    BY <1>2, <1>4, StatementFields, StatementsTyped DEF SaveRow, Runs
  <2>2. /\ << Schedule(o.key, o.row, TRUE) >> \in Seq(Statement)
        /\ ToSet(<< Schedule(o.key, o.row, TRUE) >>) = {Schedule(o.key, o.row, TRUE)}
    BY <2>1, OneListed
  <2> QED BY <1>1, <1>4, <2>2, Continued DEF SaveRow, Runs, Saves, Executes
<1>5. CASE DeleteGoneRows(p)
  <2> DEFINE gone == {k \in o.gone : rows[k] # None}
             S == {UnscheduleJob(k, TRUE) : k \in gone}
             f == [k \in gone |-> UnscheduleJob(k, TRUE)]
  <2>1. gone \subseteq RowKey
    BY <1>2, <1>5, StatementFields DEF DeleteGoneRows, Runs
  <2>2. S \in SUBSET Statement
    BY <2>1, UnschedulesTyped
  <2>3. IsFiniteSet(gone)
    BY <2>1, FiniteKeys, FS_Subset
  <2>4. f \in Surjection(gone, S)
    BY DEF Surjection
  <2>5. IsFiniteSet(S)
    BY <2>3, <2>4, FS_Surjection
  <2>6. SetToSeq(S) \in Seq(Statement) /\ ToSet(SetToSeq(S)) = S
    BY <2>2, <2>5, ListedStatements
  <2>7. Continue(p, SetToSeq(S))
    BY <1>5 DEF DeleteGoneRows
  <2>8. ListedNext /\ Enlists(o, S)
    BY <1>1, <2>6, <2>7, Continued
  <2> QED BY <1>5, <2>8 DEF DeleteGoneRows, Runs, Deletes, Executes
<1>6. CASE TruncateRows(p)
  <2>1. ListedNext /\ Enlists(o, {})
    BY <1>1, <1>3, <1>6, Continued DEF TruncateRows
  <2> QED BY <1>6, <2>1 DEF TruncateRows, Runs, Truncates, Executes
<1>7. CASE ReadAdmin(p)
  <2> DEFINE names == {n \in Names : rows[<<Admin, n>>] # None}
             S == {Schedule(<<Admin, n>>, rows[<<Admin, n>>], FALSE) : n \in names}
             f == [n \in names |-> Schedule(<<Admin, n>>, rows[<<Admin, n>>], FALSE)]
             P == << PruneJobs(Admin, names) >>
  <2>1. \A n \in names : rows[<<Admin, n>>] \in Row
    BY KeysApart DEF Listed, TypeOK
  <2>2. S \in SUBSET Statement
    <3>1. ASSUME NEW n \in names
          PROVE  Schedule(<<Admin, n>>, rows[<<Admin, n>>], FALSE) \in Statement
      <4>1. <<Admin, n>> \in RowKey \cup {Cleanup}
        BY KeysApart
      <4>2. FALSE \in BOOLEAN
        OBVIOUS
      <4> QED BY <2>1, <4>1, <4>2, StatementsTyped
    <3> QED BY <3>1
  <2>3. IsFiniteSet(names)
    BY FiniteKeys, FS_Subset
  <2>4. f \in Surjection(names, S)
    BY DEF Surjection
  <2>5. IsFiniteSet(S)
    BY <2>3, <2>4, FS_Surjection
  <2>6. SetToSeq(S) \in Seq(Statement) /\ ToSet(SetToSeq(S)) = S
    BY <2>2, <2>5, ListedStatements
  <2>7. PruneJobs(Admin, names) \in Statement
    BY PrunesTyped
  <2>8. P \in Seq(Statement) /\ ToSet(P) = {PruneJobs(Admin, names)}
    BY <2>7, OneListed
  <2>9. Continue(p, SetToSeq(S) \o P)
    BY <1>7 DEF ReadAdmin
  <2> HIDE DEF S, P
  <2>10. SetToSeq(S) \o P \in Seq(Statement) /\ ToSet(SetToSeq(S) \o P) = S \cup ToSet(P)
    BY <2>6, <2>8, JoinedSet
  <2>11. ListedNext /\ Enlists(o, S \cup {PruneJobs(Admin, names)})
    BY <1>1, <2>8, <2>9, <2>10, Continued
  <2> QED BY <1>7, <2>11 DEF ReadAdmin, Runs, Reads, Executes, S
<1>8. CASE ScheduleJob(p)
  <2>1. CASE Gated(p, "schedule")
    <3>1. ListedNext /\ Enlists(o, {})
      BY <1>1, <1>3, <2>1, Continued DEF Gated
    <3> QED BY <1>8, <2>1, <3>1 DEF ScheduleJob, Gated, Skips, Runs, SkipsCatalogue, Executes
  <2>2. CASE ~Gated(p, "schedule")
    <3>1. o.op = "schedule" /\ ~Inert
      BY <1>8, <2>2 DEF ScheduleJob, Runs, Skips, OnCatalogue
    <3>2. o.key \in RowKey \cup {Cleanup} /\ o.row \in Row /\ o.hook \in BOOLEAN /\ Job(o.key) \in Ours
      BY <1>2, <3>1, StatementFields, KeysApart
    <3> DEFINE id == IF jobs[Job(o.key)] = None THEN FreshId ELSE jobs[Job(o.key)].id
               A == Alter(Job(o.key), id, o.row.enabled, o.hook)
    <3>3. id \in Nat
      BY <3>2, KeysApart, FreshIdIsAnId DEF Listed, TypeOK, JobRow, JobIds
    <3>4. A \in Statement
      BY <3>2, <3>3, StatementsTyped DEF Row, JobIds
    <3>5. <<A>> \in Seq(Statement) /\ ToSet(<<A>>) = {A}
      BY <3>4, OneListed
    <3>6. Continue(p, <<A>>)
      BY <1>8, <2>2 DEF ScheduleJob, Arm
    <3>7. ListedNext /\ Enlists(o, {A})
      BY <1>1, <3>5, <3>6, Continued
    <3>8. Schedules(o, id)
      BY <1>8, <2>2, <3>1, <3>7 DEF ScheduleJob, Schedules
    <3> QED BY <1>8, <3>3, <3>7, <3>8 DEF ScheduleJob, Executes
  <2> QED BY <2>1, <2>2
<1>9. CASE AlterJob(p)
  <2>1. CASE jobs[o.job] # None /\ jobs[o.job].id = o.id
    <3>1. ListedNext /\ Enlists(o, {})
      BY <1>1, <1>3, <1>9, <2>1, Continued DEF AlterJob
    <3> QED BY <1>9, <2>1, <3>1 DEF AlterJob, Runs, Alters, Executes
  <2>2. CASE ~(jobs[o.job] # None /\ jobs[o.job].id = o.id)
    <3>1. ListedNext /\ Pending' \subseteq Pending
      BY <1>1, <1>9, <2>2, Ended DEF AlterJob
    <3> QED BY <1>2, <1>9, <2>2, <3>1 DEF AlterJob, Runs, IsRefused, Executes
  <2> QED BY <2>1, <2>2
<1>10. CASE FindJobs(p)
  <2>1. CASE Gated(p, "find")
    <3>1. ListedNext /\ Enlists(o, {})
      BY <1>1, <1>3, <2>1, Continued DEF Gated
    <3> QED BY <1>10, <2>1, <3>1 DEF FindJobs, Gated, Skips, Runs, SkipsCatalogue, Executes
  <2>2. CASE ~Gated(p, "find")
    <3>1. o.op = "find" /\ ~Inert
      BY <1>10, <2>2 DEF FindJobs, Runs, Skips, OnCatalogue
    <3> DEFINE stale == {j \in o.lanes \ o.keep : jobs[j] # None}
               S == {Drop(j, jobs[j].id, o.hook) : j \in stale}
               f == [j \in stale |-> Drop(j, jobs[j].id, o.hook)]
    <3>2. stale \subseteq Ours /\ stale \subseteq JobKey /\ o.hook \in BOOLEAN
      BY <1>2, <3>1, StatementFields, KeysApart
    <3>3. S \in SUBSET Statement
      BY <3>2, StatementsTyped DEF Listed, TypeOK, JobRow
    <3>4. IsFiniteSet(stale)
      BY <3>2, FiniteKeys, FS_Subset
    <3>5. f \in Surjection(stale, S)
      BY DEF Surjection
    <3>6. IsFiniteSet(S)
      BY <3>4, <3>5, FS_Surjection
    <3>7. SetToSeq(S) \in Seq(Statement) /\ ToSet(SetToSeq(S)) = S
      BY <3>3, <3>6, ListedStatements
    <3>8. Continue(p, SetToSeq(S)) /\ jobs' = jobs
      BY <1>10, <2>2 DEF FindJobs
    <3>9. ListedNext /\ Enlists(o, S)
      BY <1>1, <3>7, <3>8, Continued
    <3> QED BY <1>10, <3>1, <3>8, <3>9 DEF FindJobs, Finds, Executes
  <2> QED BY <2>1, <2>2
<1>11. CASE UnscheduleJobids(p)
  <2>1. ListedNext /\ Enlists(o, {})
    BY <1>1, <1>3, <1>11, Continued DEF UnscheduleJobids
  <2> QED BY <1>11, <2>1 DEF UnscheduleJobids, Runs, Drops, Executes
<1> QED BY <1>4, <1>5, <1>6, <1>7, <1>8, <1>9, <1>10, <1>11 DEF Step

-----------------------------------------------------------------------------
(* What starts a process *)

SyncStatements(r) ==
  {Save(<<Settings, n>>, [cron |-> r.schedule[n], enabled |-> TRUE]) : n \in Declared(r)}
    \cup {DeleteRows(Undeclared(r)), PruneJobs(Settings, Declared(r)), ReconcileCleanupJob(r), ReadAdminRows}

TeardownStatements ==
  {UnscheduleLane(Settings), UnscheduleLane(Admin), UnscheduleJob(Cleanup, FALSE), DeleteRows(RowKey)}

FlushStatements == {FlushDatabaseJobs, Truncate}

LEMMA SyncListed ==
  ASSUME NEW r \in Releases
  PROVE  /\ SyncCrons(r) \o SyncAdminCrons \in Seq(Statement)
         /\ ToSet(SyncCrons(r) \o SyncAdminCrons) = SyncStatements(r)
<1> DEFINE S == {Save(<<Settings, n>>, [cron |-> r.schedule[n], enabled |-> TRUE]) : n \in Declared(r)}
           f == [n \in Declared(r) |-> Save(<<Settings, n>>, [cron |-> r.schedule[n], enabled |-> TRUE])]
           T == << DeleteRows(Undeclared(r)), PruneJobs(Settings, Declared(r)), ReconcileCleanupJob(r) >>
<1>1. Declared(r) \in SUBSET Names /\ \A n \in Declared(r) : r.schedule[n] \in Crons
  BY PgCronAssumption DEF Declared
<1>2. S \in SUBSET Statement
  <2>1. ASSUME NEW n \in Declared(r)
        PROVE  Save(<<Settings, n>>, [cron |-> r.schedule[n], enabled |-> TRUE]) \in Statement
    <3>1. [cron |-> r.schedule[n], enabled |-> TRUE] \in Row
      BY <1>1 DEF Row
    <3>2. <<Settings, n>> \in RowKey
      BY <1>1, KeysApart
    <3> QED BY <3>1, <3>2, StatementsTyped
  <2> QED BY <2>1
<1>3. IsFiniteSet(Declared(r))
  BY <1>1, FiniteKeys, FS_Subset
<1>4. f \in Surjection(Declared(r), S)
  BY DEF Surjection
<1>5. IsFiniteSet(S)
  BY <1>3, <1>4, FS_Surjection
<1>6. SetToSeq(S) \in Seq(Statement) /\ ToSet(SetToSeq(S)) = S
  BY <1>2, <1>5, ListedStatements
<1>7. DeleteRows(Undeclared(r)) \in Statement /\ PruneJobs(Settings, Declared(r)) \in Statement
  <2>1. Undeclared(r) \in SUBSET RowKey
    BY DEF Undeclared, RowKey
  <2> QED BY <1>1, <2>1, StatementsTyped, PrunesTyped
<1>8. ReconcileCleanupJob(r) \in Statement
  <2>1. CASE r.cleanup # None
    <3>1. [cron |-> r.cleanup, enabled |-> TRUE] \in Row
      BY <2>1, PgCronAssumption DEF Row
    <3> QED BY <2>1, <3>1, StatementsTyped DEF ReconcileCleanupJob
  <2>2. CASE r.cleanup = None
    BY <2>2, UnschedulesTyped DEF ReconcileCleanupJob
  <2> QED BY <2>1, <2>2
<1>9. /\ T \in Seq(Statement)
      /\ ToSet(T) = {DeleteRows(Undeclared(r)), PruneJobs(Settings, Declared(r)), ReconcileCleanupJob(r)}
  BY <1>7, <1>8, Tuples
<1>10. SyncAdminCrons \in Seq(Statement) /\ ToSet(SyncAdminCrons) = {ReadAdminRows}
  BY StatementsTyped, OneListed DEF SyncAdminCrons
<1>11. SyncCrons(r) = SetToSeq(S) \o T
  BY DEF SyncCrons, SaveDeclared
<1>12. SyncCrons(r) \in Seq(Statement) /\ ToSet(SyncCrons(r)) = S \cup ToSet(T)
  <2>1. PICK saves \in Seq(Statement) : saves = SetToSeq(S) /\ ToSet(saves) = S
    BY <1>6
  <2>2. PICK t \in Seq(Statement) : t = T
    BY <1>9
  <2>3. saves \o t \in Seq(Statement) /\ ToSet(saves \o t) = ToSet(saves) \cup ToSet(t)
    BY JoinedSet
  <2> HIDE DEF S, T
  <2> QED BY <1>11, <2>1, <2>2, <2>3
<1>13. /\ SyncCrons(r) \o SyncAdminCrons \in Seq(Statement)
       /\ ToSet(SyncCrons(r) \o SyncAdminCrons) = ToSet(SyncCrons(r)) \cup ToSet(SyncAdminCrons)
  <2>1. PICK a \in Seq(Statement) : a = SyncCrons(r)
    BY <1>12
  <2>2. PICK b \in Seq(Statement) : b = SyncAdminCrons
    BY <1>10
  <2>3. a \o b \in Seq(Statement) /\ ToSet(a \o b) = ToSet(a) \cup ToSet(b)
    BY JoinedSet
  <2> QED BY <2>1, <2>2, <2>3
<1> HIDE DEF T
<1>14. ToSet(SyncCrons(r) \o SyncAdminCrons) = S \cup ToSet(T) \cup {ReadAdminRows}
  BY <1>10, <1>12, <1>13
<1> HIDE DEF S
<1>15. S \cup ToSet(T) \cup {ReadAdminRows}
         = S \cup {DeleteRows(Undeclared(r)), PruneJobs(Settings, Declared(r)), ReconcileCleanupJob(r), ReadAdminRows}
  BY <1>9
<1> QED BY <1>13, <1>14, <1>15 DEF SyncStatements, S

LEMMA TeardownListed == TeardownCrons \in Seq(Statement) /\ ToSet(TeardownCrons) = TeardownStatements
<1>1. \A source : Lane(source) \in SUBSET Ours
  BY DEF Lane
<1>2. UnscheduleLane(Settings) \in Statement /\ UnscheduleLane(Admin) \in Statement
  BY <1>1, StatementsTyped DEF UnscheduleLane
<1>3. UnscheduleJob(Cleanup, FALSE) \in Statement
  BY UnschedulesTyped
<1>4. DeleteRows(RowKey) \in Statement
  BY StatementsTyped
<1>5. PICK a \in Statement, b \in Statement, c \in Statement, d \in Statement :
        /\ a = UnscheduleLane(Settings) /\ b = UnscheduleLane(Admin)
        /\ c = UnscheduleJob(Cleanup, FALSE) /\ d = DeleteRows(RowKey)
  BY <1>2, <1>3, <1>4
<1>6. <<a, b, c, d>> \in Seq(Statement) /\ ToSet(<<a, b, c, d>>) = {a, b, c, d}
  BY Tuples
<1> QED BY <1>5, <1>6 DEF TeardownCrons, TeardownStatements

LEMMA FlushListed == DropPgCronState \in Seq(Statement) /\ ToSet(DropPgCronState) = FlushStatements
<1>1. FlushDatabaseJobs \in Statement /\ Truncate \in Statement
  BY StatementsTyped DEF FlushDatabaseJobs
<1> QED BY <1>1, Tuples DEF DropPgCronState, FlushStatements

Writes(n) ==
  \/ \E r \in Row :
       /\ rows' = [rows EXCEPT ![<<Admin, n>>] = r]
       /\ Pending' = Pending \cup {Schedule(<<Admin, n>>, r, TRUE)}
  \/ /\ rows' = [rows EXCEPT ![<<Admin, n>>] = None]
     /\ Pending' = Pending \cup {UnscheduleJob(<<Admin, n>>, TRUE)}

LEMMA AuthorWrites ==
  ASSUME Listed, NEW p \in Process, Author(p)
  PROVE  ListedNext /\ \E n \in Names : Writes(n)
<1>1. PICK n \in Names :
         \/ \E r \in Row :
              /\ rows' = [rows EXCEPT ![<<Admin, n>>] = r]
              /\ todo' = [todo EXCEPT ![p] = << Schedule(<<Admin, n>>, r, TRUE) >>]
         \/ /\ rows' = [rows EXCEPT ![<<Admin, n>>] = None]
            /\ todo' = [todo EXCEPT ![p] = << UnscheduleJob(<<Admin, n>>, TRUE) >>]
  BY DEF Author
<1>2. Idle(p)
  BY DEF Author
<1>3. ASSUME NEW r \in Row, rows' = [rows EXCEPT ![<<Admin, n>>] = r],
             todo' = [todo EXCEPT ![p] = << Schedule(<<Admin, n>>, r, TRUE) >>]
      PROVE  ListedNext /\ Writes(n)
  <2>1. Schedule(<<Admin, n>>, r, TRUE) \in Statement
    BY KeysApart, StatementsTyped
  <2> QED BY <1>2, <1>3, <2>1, OneListed, Started DEF Writes
<1>4. ASSUME rows' = [rows EXCEPT ![<<Admin, n>>] = None],
             todo' = [todo EXCEPT ![p] = << UnscheduleJob(<<Admin, n>>, TRUE) >>]
      PROVE  ListedNext /\ Writes(n)
  <2>1. UnscheduleJob(<<Admin, n>>, TRUE) \in Statement
    BY KeysApart, UnschedulesTyped
  <2> QED BY <1>2, <1>4, <2>1, OneListed, Started DEF Writes
<1> QED BY <1>1, <1>3, <1>4

\* Every step: what it does to the rows, the jobs and what is pending.
StepKinds ==
  \/ \E p \in Process :
       \/ Step(p) /\ Executes(Head(todo[p])) /\ UNCHANGED <<owed, release, deployment>>
       \/ (CatalogueFails(p) \/ Dies(p)) /\ Pending' \subseteq Pending
       \/ Reconcile(p) /\ Pending' = Pending \cup SyncStatements(release)
       \/ Teardown(p) /\ Pending' = Pending \cup TeardownStatements
       \/ FlushState(p) /\ Pending' = Pending \cup FlushStatements
       \/ Author(p) /\ \E n \in Names : Writes(n)
  \/ (SilentWrite \/ Deploy \/ (\E key \in RowKey : Fire(key)) \/ UNCHANGED vars) /\ Pending' = Pending

LEMMA NextKinds ==
  ASSUME Listed, [Next]_vars
  PROVE  ListedNext /\ StepKinds
<1>1. ASSUME NEW p \in Process, Step(p) PROVE ListedNext /\ StepKinds
  BY <1>1, StepsDoWhatTheyRun DEF StepKinds, world
<1>2. ASSUME NEW p \in Process, CatalogueFails(p) \/ Dies(p) PROVE ListedNext /\ StepKinds
  <2>1. ListedNext /\ Pending' \subseteq Pending
    BY <1>2, Ended DEF CatalogueFails, Dies
  <2> QED BY <1>2, <2>1 DEF StepKinds
<1>3. ASSUME NEW p \in Process, Reconcile(p) PROVE ListedNext /\ StepKinds
  <2>1. /\ Idle(p) /\ release \in Releases
        /\ todo' = [todo EXCEPT ![p] = SyncCrons(release) \o SyncAdminCrons]
    BY <1>3 DEF Reconcile, Starts, Listed, TypeOK
  <2>2. ListedNext /\ Pending' = Pending \cup SyncStatements(release)
    BY <2>1, SyncListed, Started
  <2> QED BY <1>3, <2>2 DEF StepKinds
<1>4. ASSUME NEW p \in Process, Teardown(p) PROVE ListedNext /\ StepKinds
  <2>1. ListedNext /\ Pending' = Pending \cup TeardownStatements
    BY <1>4, TeardownListed, Started DEF Teardown, Starts
  <2> QED BY <1>4, <2>1 DEF StepKinds
<1>5. ASSUME NEW p \in Process, FlushState(p) PROVE ListedNext /\ StepKinds
  <2>1. ListedNext /\ Pending' = Pending \cup FlushStatements
    BY <1>5, FlushListed, Started DEF FlushState, Starts
  <2> QED BY <1>5, <2>1 DEF StepKinds
<1>6. ASSUME NEW p \in Process, Author(p) PROVE ListedNext /\ StepKinds
  BY <1>6, AuthorWrites DEF StepKinds
<1>7. ASSUME SilentWrite \/ Deploy \/ (\E key \in RowKey : Fire(key)) \/ UNCHANGED vars
      PROVE  ListedNext /\ StepKinds
  <2>1. todo' = todo
    BY <1>7 DEF SilentWrite, Deploy, Fire, vars
  <2>2. Pending' = Pending
    BY <2>1 DEF Pending, ToSet
  <2> QED BY <1>7, <2>1, <2>2 DEF StepKinds, ListedNext, Listed, TypeOK
<1> QED BY <1>1, <1>2, <1>3, <1>4, <1>5, <1>6, <1>7 DEF Next

-----------------------------------------------------------------------------
(* Types *)

LEMMA PendingTyped == Listed => Pending \subseteq Statement
BY FiniteElements DEF Listed, TypeOK, Pending

LEMMA ExecutesTyped ==
  ASSUME Listed, NEW o, Executes(o)
  PROVE  rows' \in [RowKey -> Row \cup {None}] /\ jobs' \in [JobKey -> JobRow \cup {None}]
<1>1. rows \in [RowKey -> Row \cup {None}] /\ jobs \in [JobKey -> JobRow \cup {None}]
  BY DEF Listed, TypeOK
<1>2. o \in Statement
  BY PendingTyped DEF Executes, Saves, Deletes, Truncates, Reads, SkipsCatalogue, Schedules, Alters,
                      IsRefused, Finds, Drops, Enlists
<1>3. CASE Saves(o)
  BY <1>1, <1>2, <1>3, StatementFields DEF Saves
<1>4. CASE Deletes(o)
  BY <1>1, <1>4 DEF Deletes
<1>5. CASE Truncates(o)
  BY <1>1, <1>5 DEF Truncates
<1>6. CASE Reads(o) \/ SkipsCatalogue(o) \/ IsRefused(o) \/ Finds(o)
  BY <1>1, <1>6 DEF Reads, SkipsCatalogue, IsRefused, Finds
<1>7. ASSUME NEW id \in Nat, Schedules(o, id) PROVE jobs' \in [JobKey -> JobRow \cup {None}] /\ rows' = rows
  <2>1. o.row \in Row /\ Job(o.key) \in JobKey
    BY <1>2, <1>7, StatementFields, KeysApart DEF Schedules
  <2>2. jobs[Job(o.key)] = None \/ jobs[Job(o.key)].active \in BOOLEAN
    BY <1>1, <2>1 DEF JobRow
  <2>3. [id |-> id, cron |-> o.row.cron,
         active |-> IF jobs[Job(o.key)] = None THEN o.row.enabled ELSE jobs[Job(o.key)].active] \in JobRow
    BY <2>1, <2>2 DEF Row, JobRow, JobIds
  <2> QED BY <1>1, <1>7, <2>3 DEF Schedules
<1>8. CASE Alters(o)
  <2>1. o.job \in JobKey /\ o.active \in BOOLEAN
    BY <1>2, <1>8, StatementFields, KeysApart DEF Alters
  <2>2. [jobs[o.job] EXCEPT !.active = o.active] \in JobRow
    BY <1>1, <1>8, <2>1 DEF Alters, JobRow
  <2> QED BY <1>1, <1>8, <2>2 DEF Alters
<1>9. CASE Drops(o)
  BY <1>1, <1>9 DEF Drops
<1> QED BY <1>1, <1>3, <1>4, <1>5, <1>6, <1>7, <1>8, <1>9 DEF Executes

LEMMA WritesTyped ==
  ASSUME Listed, NEW n \in Names, Writes(n)
  PROVE  rows' \in [RowKey -> Row \cup {None}]
BY DEF Listed, TypeOK, Writes

LEMMA Spent ==
  ASSUME Listed, NEW what \in {"writes", "faults", "runs"}, Spend(what)
  PROVE  left' \in [{"writes", "faults", "runs"} -> Nat]
<1>1. left[what] \in Nat /\ left[what] > 0
  BY DEF Listed, TypeOK, Spend
<1> QED BY <1>1 DEF Listed, TypeOK, Spend

LEMMA NextTyped == Listed /\ [Next]_vars => Listed'
<1> SUFFICES ASSUME Listed, [Next]_vars PROVE Listed'
  OBVIOUS
<1>1. ListedNext /\ StepKinds
  BY NextKinds
<1> SUFFICES /\ rows' \in [RowKey -> Row \cup {None}] /\ jobs' \in [JobKey -> JobRow \cup {None}]
             /\ release' \in Releases /\ deployment' \in Deployments
             /\ spawned' \in RowKey \cup {None}
             /\ owed' \in {"nothing", "agreement", "teardown"}
             /\ left' \in [{"writes", "faults", "runs"} -> Nat]
  BY <1>1 DEF ListedNext, Listed, TypeOK
<1>3. /\ rows \in [RowKey -> Row \cup {None}] /\ jobs \in [JobKey -> JobRow \cup {None}]
      /\ release \in Releases /\ deployment \in Deployments
      /\ spawned \in RowKey \cup {None}
      /\ owed \in {"nothing", "agreement", "teardown"}
      /\ left \in [{"writes", "faults", "runs"} -> Nat]
  BY DEF Listed, TypeOK
<1>4. CASE \E p \in Process : Step(p) /\ Executes(Head(todo[p]))
  <2>1. PICK p \in Process : Step(p) /\ Executes(Head(todo[p]))
    BY <1>4
  <2>2. rows' \in [RowKey -> Row \cup {None}] /\ jobs' \in [JobKey -> JobRow \cup {None}]
    BY <2>1, ExecutesTyped
  <2>3. spawned' = None /\ UNCHANGED <<owed, left, release, deployment>>
    BY <2>1, StepsDoWhatTheyRun DEF world
  <2> QED BY <1>3, <2>2, <2>3
<1>5. CASE \E p \in Process : CatalogueFails(p) \/ Dies(p)
  <2>1. /\ UNCHANGED <<rows, jobs, release, deployment>> /\ spawned' = None /\ owed' = "nothing"
        /\ Spend("faults")
    BY <1>5 DEF CatalogueFails, Dies, world
  <2> QED BY <1>3, <2>1, Spent
<1>6. CASE \E p \in Process : Reconcile(p) \/ Teardown(p) \/ FlushState(p)
  <2>1. /\ UNCHANGED <<rows, jobs, release, deployment>> /\ spawned' = None
        /\ owed' \in {"agreement", "teardown", "nothing"} /\ Spend("runs")
    BY <1>6 DEF Reconcile, Teardown, FlushState, Starts, world
  <2> QED BY <1>3, <2>1, Spent
<1>7. CASE \E p \in Process : Author(p) /\ \E n \in Names : Writes(n)
  <2>1. /\ UNCHANGED <<jobs, release, deployment>> /\ spawned' = None
        /\ owed' \in {owed, "nothing"} /\ Spend("writes")
    BY <1>7 DEF Author, world
  <2>2. rows' \in [RowKey -> Row \cup {None}]
    BY <1>7, WritesTyped
  <2> QED BY <1>3, <2>1, <2>2, Spent
<1>8. CASE SilentWrite
  <2>1. PICK k \in RowKey, r \in Row \cup {None} : rows' = [rows EXCEPT ![k] = r]
    BY <1>8 DEF SilentWrite
  <2>2. UNCHANGED <<jobs, release, deployment>> /\ spawned' = None /\ owed' = "nothing" /\ Spend("writes")
    BY <1>8 DEF SilentWrite, world
  <2> QED BY <1>3, <2>1, <2>2, Spent
<1>9. CASE Deploy
  <2>1. /\ UNCHANGED <<rows, jobs, deployment>> /\ spawned' = None /\ owed' = "nothing"
        /\ release' \in Releases /\ Spend("runs")
    BY <1>9 DEF Deploy
  <2> QED BY <1>3, <2>1, Spent
<1>10. CASE (\E key \in RowKey : Fire(key)) \/ UNCHANGED vars
  BY <1>3, <1>10 DEF Fire, world, vars
<1> QED BY <1>1, <1>4, <1>5, <1>6, <1>7, <1>8, <1>9, <1>10 DEF StepKinds

LEMMA InitTyped == Init => Listed
<1> SUFFICES ASSUME Init PROVE Listed
  OBVIOUS
<1>1. << >> \in Seq(Statement) /\ ToSet(<< >>) = {}
  BY Tuples
<1>2. todo \in [Process -> Seq(Statement)]
  BY <1>1 DEF Init
<1>3. Pending = {}
  BY <1>1 DEF Init, Pending
<1>4. IsFiniteSet(Pending)
  BY <1>3, FS_EmptySet
<1>5. \A j : LeftOver(j) \in JobRow
  <2>1. (CHOOSE c \in Crons : TRUE) \in Crons
    BY PgCronAssumption
  <2> QED BY <2>1 DEF LeftOver, JobRow, JobIds
<1>6. jobs \in [JobKey -> JobRow \cup {None}]
  <2>1. \A old : /\ [j \in JobKey |-> IF j \in Ours THEN None ELSE LeftOver(j)] \in [JobKey -> JobRow \cup {None}]
                 /\ [j \in JobKey |-> IF j \in Ours \ {old} THEN None ELSE LeftOver(j)]
                      \in [JobKey -> JobRow \cup {None}]
    BY <1>5
  <2> QED BY <2>1 DEF Init
<1>7. left \in [{"writes", "faults", "runs"} -> Nat]
  BY PgCronAssumption DEF Init
<1> QED BY <1>2, <1>4, <1>6, <1>7 DEF Init, Listed, TypeOK

\* Every variable keeps its shape, and only finitely many statements wait, so the catalogue
\* never runs out of ids for its jobs.
THEOREM StatementsStayFinite == Spec => [](TypeOK /\ IsFiniteSet(Pending))
<1>1. Listed => TypeOK /\ IsFiniteSet(Pending)
  BY DEF Listed
<1> QED BY <1>1, InitTyped, NextTyped, PTL DEF Spec

-----------------------------------------------------------------------------
(* Where scheduling is inert *)

InertInv == Inert => \A o \in Pending : o.op \notin {"alter", "drop"}

StatementOps ==
  /\ \A key, r, hook : Schedule(key, r, hook).op = "schedule"
  /\ \A lanes, keep, hook : Find(lanes, keep, hook).op = "find"
  /\ \A key, r : Save(key, r).op = "save"
  /\ \A gone : DeleteRows(gone).op = "delete"
  /\ \A j, id, x, hook : Alter(j, id, x, hook).op = "alter" /\ Drop(j, id, hook).op = "drop"
  /\ Truncate.op = "truncate" /\ ReadAdminRows.op = "read"

LEMMA Ops == StatementOps
BY DEF StatementOps, Schedule, Find, Save, DeleteRows, Alter, Drop, Truncate, ReadAdminRows

LEMMA ExecutesInert ==
  ASSUME Inert, InertInv, NEW o, Executes(o)
  PROVE  jobs' = jobs /\ \A x \in Pending' : x.op \notin {"alter", "drop"}
<1>1. CASE Saves(o)
  <2>1. Schedule(o.key, o.row, TRUE).op = "schedule"
    BY Ops DEF StatementOps
  <2> QED BY <1>1, <2>1 DEF InertInv, Saves, Enlists
<1>2. CASE Deletes(o)
  <2>1. \A k : UnscheduleJob(k, TRUE).op = "find"
    BY Ops DEF StatementOps, UnscheduleJob
  <2> QED BY <1>2, <2>1 DEF InertInv, Deletes, Enlists
<1>3. CASE Truncates(o) \/ SkipsCatalogue(o) \/ IsRefused(o)
  BY <1>3 DEF InertInv, Truncates, SkipsCatalogue, IsRefused, Enlists
<1>4. CASE Reads(o)
  BY <1>4, Ops DEF StatementOps, InertInv, Reads, Enlists, PruneJobs
<1>5. CASE (\E id \in Nat : Schedules(o, id)) \/ Finds(o)
  BY <1>5 DEF Schedules, Finds
<1>6. CASE Alters(o) \/ Drops(o)
  BY <1>6 DEF InertInv, Alters, Drops, Enlists
<1> QED BY <1>1, <1>2, <1>3, <1>4, <1>5, <1>6 DEF Executes

LEMMA NextInert ==
  ASSUME Listed, InertInv, [Next]_vars
  PROVE  InertInv' /\ (Inert => jobs' = jobs) /\ deployment' = deployment
<1>1. StepKinds
  BY NextKinds
<1>2. deployment' = deployment
  BY <1>1 DEF StepKinds, CatalogueFails, Dies, Reconcile, Teardown, FlushState, Author, Starts, SilentWrite,
              Deploy, Fire, world, vars
<1>3. Inert' = Inert
  BY <1>2 DEF Inert
<1> SUFFICES ASSUME Inert PROVE jobs' = jobs /\ \A x \in Pending' : x.op \notin {"alter", "drop"}
  BY <1>2, <1>3 DEF InertInv
<1>4. CASE \E p \in Process : Step(p) /\ Executes(Head(todo[p]))
  BY <1>4, ExecutesInert
<1>5. CASE \E p \in Process : (CatalogueFails(p) \/ Dies(p)) /\ Pending' \subseteq Pending
  BY <1>5 DEF InertInv, CatalogueFails, Dies
<1>6. CASE \E p \in Process : Reconcile(p) /\ Pending' = Pending \cup SyncStatements(release)
  <2>1. \A x \in SyncStatements(release) : x.op \notin {"alter", "drop"}
    BY Ops DEF StatementOps, SyncStatements, PruneJobs, ReconcileCleanupJob, UnscheduleJob
  <2> QED BY <1>6, <2>1 DEF InertInv, Reconcile, Starts
<1>7. CASE \E p \in Process : \/ Teardown(p) /\ Pending' = Pending \cup TeardownStatements
                              \/ FlushState(p) /\ Pending' = Pending \cup FlushStatements
  <2>1. \A x \in TeardownStatements \cup FlushStatements : x.op \notin {"alter", "drop"}
    BY Ops DEF StatementOps, TeardownStatements, FlushStatements, UnscheduleLane, UnscheduleJob, FlushDatabaseJobs
  <2> QED BY <1>7, <2>1 DEF InertInv, Teardown, FlushState, Starts
<1>8. CASE \E p \in Process : Author(p) /\ \E n \in Names : Writes(n)
  <2>1. \A key, r : /\ Schedule(key, r, TRUE).op = "schedule"
                    /\ UnscheduleJob(key, TRUE).op = "find"
    BY Ops DEF StatementOps, UnscheduleJob
  <2>2. PICK n \in Names : Writes(n)
    BY <1>8
  <2>3. \E x : Pending' = Pending \cup {x} /\ x.op \in {"schedule", "find"}
    BY <2>1, <2>2 DEF Writes
  <2> QED BY <1>8, <2>3 DEF InertInv, Author
<1>9. CASE (SilentWrite \/ Deploy \/ (\E key \in RowKey : Fire(key)) \/ UNCHANGED vars) /\ Pending' = Pending
  BY <1>9 DEF InertInv, SilentWrite, Deploy, Fire, vars
<1> QED BY <1>1, <1>4, <1>5, <1>6, <1>7, <1>8, <1>9 DEF StepKinds

\* detection.py: where scheduling is inert no statement changes the catalogue, because none
\* that is pending there was started past the guard of the verb that lists it.
THEOREM InertTouchesNoJob == Spec => InertWritesNothing
<1>1. Init => Listed /\ InertInv
  <2>1. Init => Pending = {}
    BY Tuples DEF Init, Pending
  <2> QED BY <2>1, InitTyped DEF InertInv
<1>2. (Listed /\ InertInv) /\ [Next]_vars => (Listed /\ InertInv)'
  BY NextInert, NextTyped
<1>3. (Listed /\ InertInv) /\ [Next]_vars => [Inert => UNCHANGED jobs]_vars
  BY NextInert
<1> QED BY <1>1, <1>2, <1>3, PTL DEF Spec, InertWritesNothing

-----------------------------------------------------------------------------
(* A teardown *)

OthersStay == \A j \in JobKey \ Ours : jobs[j] # None

\* The statement will drop the job, if the job is still the one it found.
Covers(o, j, catalogue) ==
  \/ o.op = "find" /\ j \in o.lanes \ o.keep
  \/ o.op = "drop" /\ o.job = j /\ o.id = catalogue[j].id

Empties(o, k) == o.op = "truncate" \/ (o.op = "delete" /\ k \in o.gone)

TeardownInv ==
  owed = "teardown" =>
    /\ \A o \in Pending : o.op \in {"find", "drop", "delete", "truncate"}
    /\ \A k \in RowKey : rows[k] # None => \E o \in Pending : Empties(o, k)
    /\ ~Inert => \A j \in Ours : jobs[j] # None => \E o \in Pending : Covers(o, j, jobs)

LEMMA ExecutesOthersStay ==
  ASSUME Listed, OthersStay, NEW o, Executes(o)
  PROVE  OthersStay'
<1>1. jobs \in [JobKey -> JobRow \cup {None}] /\ Pending \subseteq Statement
  BY PendingTyped DEF Listed, TypeOK
<1>2. CASE jobs' = jobs
  BY <1>2 DEF OthersStay
<1>3. ASSUME NEW id \in Nat, Schedules(o, id) PROVE OthersStay'
  <2>1. Job(o.key) \in Ours
    BY <1>1, <1>3, StatementFields, KeysApart DEF Schedules, Enlists
  <2> QED BY <1>1, <1>3, <2>1 DEF OthersStay, Schedules
<1>4. CASE Alters(o) \/ Drops(o)
  <2>1. o.job \in Ours
    BY <1>1, <1>4, StatementFields DEF Alters, Drops, Enlists
  <2> QED BY <1>1, <1>4, <2>1 DEF OthersStay, Alters, Drops
<1> QED BY <1>2, <1>3, <1>4 DEF Executes, Saves, Deletes, Truncates, Reads, SkipsCatalogue, IsRefused, Finds

LEMMA NextOthersStay ==
  ASSUME Listed, OthersStay, [Next]_vars
  PROVE  OthersStay'
<1>1. CASE \E p \in Process : Step(p) /\ Executes(Head(todo[p]))
  BY <1>1, ExecutesOthersStay
<1>2. CASE jobs' = jobs
  BY <1>2 DEF OthersStay
<1> QED BY <1>1, <1>2, NextKinds DEF StepKinds, CatalogueFails, Dies, Reconcile, Teardown, FlushState, Author,
                                 Starts, SilentWrite, Deploy, Fire, vars

LEMMA ExecutesTearsDown ==
  ASSUME Listed, TeardownInv, owed = "teardown", NEW o, Executes(o), owed' = owed, deployment' = deployment
  PROVE  TeardownInv'
<1>1. /\ rows \in [RowKey -> Row \cup {None}] /\ jobs \in [JobKey -> JobRow \cup {None}]
      /\ Pending \subseteq Statement /\ Inert' = Inert
  BY PendingTyped DEF Listed, TypeOK, Inert
<1>2. o \in Pending /\ o \in Statement /\ o.op \in {"find", "drop", "delete", "truncate"}
  BY <1>1 DEF TeardownInv, Executes, Saves, Deletes, Truncates, Reads, SkipsCatalogue, Schedules, Alters,
              IsRefused, Finds, Drops, Enlists
<1>3. Deletes(o) \/ Truncates(o) \/ SkipsCatalogue(o) \/ Finds(o) \/ Drops(o)
  BY <1>2 DEF Executes, Saves, Reads, Schedules, Alters, IsRefused
<1> DEFINE gone == {k \in o.gone : rows[k] # None}
           stale == {j \in o.lanes \ o.keep : jobs[j] # None}
<1>4. /\ \A k : UnscheduleJob(k, TRUE).op = "find"
      /\ \A j \in stale : /\ Drop(j, jobs[j].id, o.hook).op = "drop" /\ Drop(j, jobs[j].id, o.hook).job = j
                          /\ Drop(j, jobs[j].id, o.hook).id = jobs[j].id
  BY DEF UnscheduleJob, Find, Drop
<1>5. \A x \in Pending' : x.op \in {"find", "drop", "delete", "truncate"}
  <2>1. CASE Deletes(o)
    <3>1. \A x \in Pending' : x \in Pending \/ \E k : x = UnscheduleJob(k, TRUE)
      BY <2>1 DEF Deletes, Enlists
    <3>2. \A x : (\E k : x = UnscheduleJob(k, TRUE)) => x.op = "find"
      BY <1>4
    <3>3. \A x \in Pending : x.op \in {"find", "drop", "delete", "truncate"}
      BY DEF TeardownInv
    <3> QED BY <3>1, <3>2, <3>3
  <2>2. CASE Finds(o)
    BY <1>4, <2>2 DEF TeardownInv, Finds, Enlists
  <2>3. CASE Truncates(o) \/ SkipsCatalogue(o) \/ Drops(o)
    BY <2>3 DEF TeardownInv, Truncates, SkipsCatalogue, Drops, Enlists
  <2> QED BY <1>3, <2>1, <2>2, <2>3
<1>6. \A x \in Pending : x # o => x \in Pending'
  BY <1>3 DEF Deletes, Truncates, SkipsCatalogue, Finds, Drops, Enlists
<1>7. ASSUME NEW k \in RowKey, rows'[k] # None PROVE \E x \in Pending' : Empties(x, k)
  <2>1. rows[k] # None /\ ~Empties(o, k)
    BY <1>1, <1>3, <1>7 DEF Deletes, Truncates, SkipsCatalogue, Finds, Drops, Empties
  <2>2. PICK x \in Pending : Empties(x, k)
    BY <2>1 DEF TeardownInv
  <2> QED BY <1>6, <2>1, <2>2
<1>8. ASSUME ~Inert, NEW j \in Ours, jobs'[j] # None PROVE \E x \in Pending' : Covers(x, j, jobs')
  <2>1. j \in JobKey
    BY KeysApart
  <2>2. jobs[j] # None /\ jobs'[j] = jobs[j]
    BY <1>1, <1>3, <1>8, <2>1 DEF Deletes, Truncates, SkipsCatalogue, Finds, Drops
  <2>3. PICK x \in Pending : Covers(x, j, jobs)
    BY <1>8, <2>2 DEF TeardownInv
  <2>4. Covers(x, j, jobs')
    BY <2>2, <2>3 DEF Covers
  <2>5. CASE x # o
    BY <1>6, <2>4, <2>5
  <2>6. CASE x = o /\ o.op = "find"
    <3>1. Finds(o) /\ j \in stale
      BY <1>3, <1>8, <2>2, <2>3, <2>6 DEF Deletes, Truncates, SkipsCatalogue, Drops, Covers
    <3>2. PICK d \in Pending' : d = Drop(j, jobs[j].id, o.hook)
      BY <3>1 DEF Finds, Enlists
    <3>3. d.op = "drop" /\ d.job = j /\ d.id = jobs'[j].id
      BY <1>4, <2>2, <3>1, <3>2
    <3> QED BY <3>3 DEF Covers
  <2>7. CASE x = o /\ o.op = "drop"
    <3>1. Drops(o) /\ o.job = j /\ o.id = jobs[j].id
      BY <1>3, <2>3, <2>7 DEF Deletes, Truncates, SkipsCatalogue, Finds, Covers
    <3>2. jobs'[j] = None
      BY <1>1, <2>1, <3>1 DEF Drops
    <3> QED BY <1>8, <3>2
  <2> QED BY <2>3, <2>5, <2>6, <2>7 DEF Covers
<1> QED BY <1>1, <1>5, <1>7, <1>8 DEF TeardownInv, Empties

\* The statements of a teardown cover every row and every job of this database.
LEMMA StartsTeardown ==
  ASSUME Listed, TeardownInv, NEW p \in Process,
         \/ Teardown(p) /\ Pending' = Pending \cup TeardownStatements
         \/ FlushState(p) /\ Pending' = Pending \cup FlushStatements,
         owed' = "teardown"
  PROVE  TeardownInv'
<1>1. UNCHANGED <<rows, jobs, deployment>> /\ (AllIdle \/ owed = "teardown")
  BY DEF Teardown, FlushState, Starts, world
<1>2. AllIdle => Pending = {}
  BY Tuples DEF AllIdle, Idle, Pending
<1>3. \A x \in Pending : x.op \in {"find", "drop", "delete", "truncate"}
  BY <1>1, <1>2 DEF TeardownInv
<1>4. \A j \in Ours : \/ j \in Lane(Settings) \/ j \in Lane(Admin) \/ j = Job(Cleanup)
  BY DEF Ours, Lane, RowKey, Job, Cleanup
<1>5. CASE Pending' = Pending \cup TeardownStatements
  <2>1. /\ \A lane : UnscheduleLane(lane).op = "find" /\ UnscheduleLane(lane).lanes = Lane(lane)
                     /\ UnscheduleLane(lane).keep = {}
        /\ UnscheduleJob(Cleanup, FALSE).op = "find" /\ UnscheduleJob(Cleanup, FALSE).lanes = {Job(Cleanup)}
        /\ UnscheduleJob(Cleanup, FALSE).keep = {}
        /\ DeleteRows(RowKey).op = "delete" /\ DeleteRows(RowKey).gone = RowKey
    BY DEF UnscheduleLane, UnscheduleJob, Find, DeleteRows
  <2>2. \A x \in TeardownStatements : x.op \in {"find", "delete"}
    BY <2>1 DEF TeardownStatements
  <2>3. \A j \in Ours : \E x \in TeardownStatements : x.op = "find" /\ j \in x.lanes \ x.keep
    BY <1>4, <2>1 DEF TeardownStatements
  <2>4. \A k \in RowKey : \E x \in TeardownStatements : x.op = "delete" /\ k \in x.gone
    BY <2>1 DEF TeardownStatements
  <2> QED BY <1>3, <1>5, <2>2, <2>3, <2>4 DEF TeardownInv, Covers, Empties
<1>6. CASE Pending' = Pending \cup FlushStatements
  <2>1. /\ FlushDatabaseJobs.op = "find" /\ FlushDatabaseJobs.lanes = Ours /\ FlushDatabaseJobs.keep = {}
        /\ Truncate.op = "truncate"
    BY DEF FlushDatabaseJobs, Find, Truncate
  <2>2. FlushDatabaseJobs \in Pending' /\ Truncate \in Pending'
    BY <1>6 DEF FlushStatements
  <2>3. \A x \in FlushStatements : x.op \in {"find", "truncate"}
    BY <2>1 DEF FlushStatements
  <2> QED BY <1>3, <1>6, <2>1, <2>2, <2>3 DEF TeardownInv, Covers, Empties
<1> QED BY <1>5, <1>6

LEMMA NextTearsDown ==
  ASSUME Listed, TeardownInv, [Next]_vars
  PROVE  TeardownInv'
<1>1. StepKinds
  BY NextKinds
<1> SUFFICES ASSUME owed' = "teardown" PROVE TeardownInv'
  BY DEF TeardownInv
<1>2. CASE \E p \in Process : Step(p) /\ Executes(Head(todo[p])) /\ UNCHANGED <<owed, release, deployment>>
  BY <1>2, ExecutesTearsDown
<1>3. CASE \E p \in Process : \/ Teardown(p) /\ Pending' = Pending \cup TeardownStatements
                              \/ FlushState(p) /\ Pending' = Pending \cup FlushStatements
  BY <1>3, StartsTeardown
<1>4. CASE \E p \in Process : CatalogueFails(p) \/ Dies(p) \/ Reconcile(p) \/ Author(p)
  BY <1>4 DEF CatalogueFails, Dies, Reconcile, Starts, Author
<1>5. CASE (SilentWrite \/ Deploy \/ (\E key \in RowKey : Fire(key)) \/ UNCHANGED vars) /\ Pending' = Pending
  <2>1. UNCHANGED <<owed, rows, jobs, deployment>> /\ Pending' = Pending
    BY <1>5 DEF SilentWrite, Deploy, Fire, world, vars
  <2> QED BY <2>1 DEF TeardownInv, Covers, Empties, Inert
<1> QED BY <1>1, <1>2, <1>3, <1>4, <1>5 DEF StepKinds

\* reconcile.py:193: once a teardown is done no row and no job of this database is left, and
\* every job of another database is.
THEOREM TeardownsAreTerminal == Spec => []TeardownIsTerminal
<1> DEFINE Inv == Listed /\ OthersStay /\ TeardownInv
<1>1. Init => Inv
  <2>1. Init => OthersStay
    <3>1. \A j : LeftOver(j) # None
      <4>1. LeftOver(1) \in JobRow
        <5>1. (CHOOSE c \in Crons : TRUE) \in Crons
          BY PgCronAssumption
        <5> QED BY <5>1 DEF LeftOver, JobRow, JobIds
      <4> QED BY <4>1, NoneAssumption DEF LeftOver
    <3> QED BY <3>1 DEF Init, OthersStay
  <2>2. Init => TeardownInv
    BY DEF Init, TeardownInv
  <2> QED BY <2>1, <2>2, InitTyped
<1>2. Inv /\ [Next]_vars => Inv'
  BY NextTyped, NextOthersStay, NextTearsDown
<1>3. Inv => TeardownIsTerminal
  <2> SUFFICES ASSUME Inv, AllIdle, owed = "teardown"
               PROVE  /\ \A key \in RowKey : rows[key] = None
                      /\ ~Inert => {j \in JobKey : jobs[j] # None} = JobKey \ Ours
    BY DEF TeardownIsTerminal
  <2>1. Pending = {}
    BY Tuples DEF AllIdle, Idle, Pending
  <2> QED BY <2>1 DEF TeardownInv, OthersStay
<1> QED BY <1>1, <1>2, <1>3, PTL DEF Spec

-----------------------------------------------------------------------------
(* Reconciles *)

Key == RowKey \cup {Cleanup}

\* What the release and, in the admin's lane, the rows ask for.
Desired ==
  [k \in Key |->
     IF k = Cleanup
       THEN IF release.cleanup = None THEN None ELSE [cron |-> release.cleanup, enabled |-> TRUE]
     ELSE IF k[1] = Admin THEN rows[k]
     ELSE IF release.schedule[k[2]] = None THEN None
     ELSE [cron |-> release.schedule[k[2]], enabled |-> TRUE]]

\* No statement does what is not asked for.
Right(o, desired, catalogue) ==
  /\ o.op # "truncate"
  /\ o.op = "save" => o.key[1] = Settings /\ o.row = desired[o.key]
  /\ o.op = "delete" => \A k \in o.gone : k[1] = Settings /\ desired[k] = None
  /\ o.op = "schedule" => o.row = desired[o.key]
  /\ o.op = "alter" =>
       /\ catalogue[o.job] # None /\ catalogue[o.job].id = o.id
       /\ desired[o.job[1]] # None /\ o.active = desired[o.job[1]].enabled
       /\ catalogue[o.job].cron = desired[o.job[1]].cron
  /\ o.op = "find" => \A j \in o.lanes \ o.keep : desired[j[1]] = None
  /\ o.op = "drop" => desired[o.job[1]] = None

SettlesRow(o, k) == (o.op = "save" /\ o.key = k) \/ (o.op = "delete" /\ k \in o.gone)

Fits(k, desired, catalogue) ==
  LET job == catalogue[Job(k)] IN
  IF desired[k] = None THEN job = None
  ELSE job # None /\ job.cron = desired[k].cron /\ job.active = desired[k].enabled

SettlesJob(o, k, catalogue) ==
  \/ o.op = "save" /\ o.key = k
  \/ o.op = "read" /\ k[1] = Admin
  \/ o.op = "schedule" /\ o.key = k
  \/ o.op = "alter" /\ o.job = Job(k)
  \/ catalogue[Job(k)] # None /\ Covers(o, Job(k), catalogue)

\* What is not yet as it is asked for, a pending statement will see to.
Agreement ==
  /\ \A o \in Pending : Right(o, Desired, jobs)
  /\ \A k \in RowKey : rows[k] = Desired[k] \/ \E o \in Pending : SettlesRow(o, k)
  /\ \A k \in Key : Fits(k, Desired, jobs) \/ \E o \in Pending : SettlesJob(o, k, jobs)

AgreementInv == owed = "agreement" /\ ~Inert => Agreement

LEMMA DesiredTyped == Listed => Desired \in [Key -> Row \cup {None}]
<1> SUFFICES ASSUME Listed, NEW k \in Key PROVE Desired[k] \in Row \cup {None}
  BY DEF Desired
<1>1. /\ release.schedule \in [Names -> Crons \cup {None}] /\ release.cleanup \in Crons \cup {None}
      /\ rows \in [RowKey -> Row \cup {None}]
  BY PgCronAssumption DEF Listed, TypeOK
<1>2. \A c \in Crons : [cron |-> c, enabled |-> TRUE] \in Row
  BY DEF Row
<1>3. CASE k = Cleanup
  BY <1>1, <1>2, <1>3 DEF Desired
<1>4. CASE k # Cleanup
  <2>1. k \in RowKey /\ k[2] \in Names
    BY <1>4, KeysApart DEF Key
  <2>2. release.schedule[k[2]] \in Crons \cup {None}
    BY <1>1, <2>1
  <2> QED BY <1>1, <1>2, <1>4, <2>1, <2>2 DEF Desired
<1> QED BY <1>3, <1>4

\* While reconciles are all that runs, nothing changes what is asked for.
LEMMA DesiredStays ==
  ASSUME Listed, NEW o, Executes(o), Right(o, Desired, jobs), release' = release
  PROVE  Desired' = Desired
<1>1. rows \in [RowKey -> Row \cup {None}] /\ Pending \subseteq Statement
  BY PendingTyped DEF Listed, TypeOK
<1>2. ASSUME NEW k \in RowKey, k[1] = Admin PROVE rows'[k] = rows[k]
  <2>1. Settings # Admin
    BY DEF Settings, Admin
  <2>2. CASE Saves(o)
    BY <1>1, <1>2, <2>1, <2>2 DEF Saves, Right
  <2>3. CASE Deletes(o)
    BY <1>1, <1>2, <2>1, <2>3 DEF Deletes, Right
  <2> QED BY <2>2, <2>3 DEF Executes, Truncates, Reads, SkipsCatalogue, Schedules, Alters, IsRefused, Finds,
                            Drops, Right
<1>3. \A k \in Key : k[1] = Admin => k \in RowKey
  BY DEF Key, Cleanup, Admin
<1> QED BY <1>2, <1>3 DEF Desired

LEMMA ScheduledJob ==
  ASSUME Listed, NEW o \in Statement, NEW id \in Nat, Schedules(o, id)
  PROVE  jobs'[Job(o.key)] # None
<1>1. Job(o.key) \in JobKey /\ o.row \in Row
  BY StatementFields, KeysApart DEF Schedules
<1>2. jobs \in [JobKey -> JobRow \cup {None}]
  BY DEF Listed, TypeOK
<1>3. jobs[Job(o.key)] = None \/ jobs[Job(o.key)].active \in BOOLEAN
  BY <1>1, <1>2 DEF JobRow
<1>4. [id |-> id, cron |-> o.row.cron,
       active |-> IF jobs[Job(o.key)] = None THEN o.row.enabled ELSE jobs[Job(o.key)].active] \in JobRow
  BY <1>1, <1>3 DEF Row, JobRow, JobIds
<1> QED BY <1>1, <1>2, <1>4, NoneAssumption DEF Schedules

LEMMA AlteredFits ==
  ASSUME Listed, NEW o \in Statement, Alters(o), Right(o, Desired, jobs), NEW k \in Key, o.job = Job(k)
  PROVE  Fits(k, Desired, jobs')
<1>1. /\ jobs \in [JobKey -> JobRow \cup {None}] /\ o.job \in JobKey /\ o.job[1] = k /\ o.active \in BOOLEAN
  BY StatementFields, KeysApart DEF Listed, TypeOK, Alters, Key
<1>2. /\ jobs[o.job] \in JobRow /\ jobs'[o.job] = [jobs[o.job] EXCEPT !.active = o.active]
  BY <1>1 DEF Alters
<1>3. /\ jobs'[o.job] \in JobRow /\ jobs'[o.job].active = o.active /\ jobs'[o.job].cron = jobs[o.job].cron
  BY <1>1, <1>2 DEF JobRow
<1>4. Desired[k] # None /\ o.active = Desired[k].enabled /\ jobs[o.job].cron = Desired[k].cron
  BY <1>1 DEF Alters, Right
<1> QED BY <1>3, <1>4, NoneAssumption DEF Fits

\* A job keeps its id for as long as it is in the catalogue.
LEMMA IdsStay ==
  ASSUME Listed, NEW o \in Statement, Executes(o), NEW j \in JobKey, jobs[j] # None, jobs'[j] # None
  PROVE  jobs'[j].id = jobs[j].id
<1>1. jobs \in [JobKey -> JobRow \cup {None}]
  BY DEF Listed, TypeOK
<1>2. ASSUME NEW id \in Nat, Schedules(o, id) PROVE jobs'[j].id = jobs[j].id
  BY <1>1, <1>2 DEF Schedules
<1>3. CASE Alters(o)
  <2>1. jobs[j] \in JobRow /\ (jobs'[j] = jobs[j] \/ jobs'[j] = [jobs[j] EXCEPT !.active = o.active])
    BY <1>1, <1>3 DEF Alters
  <2> QED BY <2>1 DEF JobRow
<1>4. CASE Drops(o)
  BY <1>1, <1>4 DEF Drops
<1> QED BY <1>2, <1>3, <1>4 DEF Executes, Saves, Deletes, Truncates, Reads, SkipsCatalogue, IsRefused, Finds

\* What a step adds to what is pending is right.
LEMMA NewStatementsRight ==
  ASSUME Listed, ~Inert, NEW o \in Statement, Executes(o), Right(o, Desired, jobs),
         NEW x \in Pending', x \notin Pending
  PROVE  Right(x, Desired, jobs')
<1>1. /\ rows \in [RowKey -> Row \cup {None}] /\ jobs \in [JobKey -> JobRow \cup {None}]
      /\ Desired \in [Key -> Row \cup {None}]
  BY DesiredTyped DEF Listed, TypeOK
<1>2. CASE Saves(o)
  <2>1. x = Schedule(o.key, o.row, TRUE)
    BY <1>2 DEF Saves, Enlists
  <2>2. x.op = "schedule" /\ x.key = o.key /\ x.row = o.row
    BY <2>1 DEF Schedule
  <2> QED BY <1>2, <2>2 DEF Right, Saves
<1>3. CASE Deletes(o)
  <2>1. PICK k \in o.gone : x = UnscheduleJob(k, TRUE)
    BY <1>3 DEF Deletes, Enlists
  <2>2. x.op = "find" /\ x.lanes = {Job(k)} /\ x.keep = {}
    BY <2>1 DEF UnscheduleJob, Find
  <2>3. Desired[k] = None /\ Job(k)[1] = k
    BY <1>3 DEF Deletes, Right, Job
  <2> QED BY <2>2, <2>3 DEF Right
<1>4. CASE Reads(o)
  <2> DEFINE names == {n \in Names : rows[<<Admin, n>>] # None}
  <2>1. \A n \in Names : Desired[<<Admin, n>>] = rows[<<Admin, n>>]
    BY KeysApart DEF Desired, Key
  <2>2. \/ \E n \in names : x = Schedule(<<Admin, n>>, rows[<<Admin, n>>], FALSE)
        \/ x = PruneJobs(Admin, names)
    BY <1>4 DEF Reads, Enlists
  <2>3. CASE \E n \in names : x = Schedule(<<Admin, n>>, rows[<<Admin, n>>], FALSE)
    <3>1. PICK n \in names : x = Schedule(<<Admin, n>>, rows[<<Admin, n>>], FALSE)
      BY <2>3
    <3>2. x.op = "schedule" /\ x.key = <<Admin, n>> /\ x.row = rows[<<Admin, n>>]
      BY <3>1 DEF Schedule
    <3> QED BY <2>1, <3>2 DEF Right
  <2>4. CASE x = PruneJobs(Admin, names)
    <3>1. /\ x.op = "find" /\ x.lanes = Lane(Admin)
          /\ x.keep = {Job(<<Admin, n>>) : n \in names}
      BY <2>4 DEF PruneJobs, Find
    <3>2. ASSUME NEW j \in x.lanes \ x.keep PROVE Desired[j[1]] = None
      <4>1. j \in Ours /\ j[1][1] = Admin
        BY <3>1 DEF Lane
      <4>2. j[1] \in RowKey /\ j = Job(j[1])
        BY <4>1, KeysApart DEF Cleanup, Admin
      <4>3. PICK n \in Names : j[1] = <<Admin, n>>
        BY <4>1, <4>2, KeysApart DEF Settings, Admin
      <4>4. n \notin names
        BY <3>1, <4>2, <4>3
      <4> QED BY <2>1, <4>3, <4>4
    <3> QED BY <3>1, <3>2 DEF Right
  <2> QED BY <2>2, <2>3, <2>4
<1>5. CASE SkipsCatalogue(o) \/ Truncates(o) \/ IsRefused(o) \/ Alters(o) \/ Drops(o)
  BY <1>5 DEF SkipsCatalogue, Truncates, IsRefused, Alters, Drops, Enlists
<1>6. ASSUME NEW id \in Nat, Schedules(o, id) PROVE Right(x, Desired, jobs')
  <2>1. x = Alter(Job(o.key), id, o.row.enabled, o.hook)
    BY <1>6 DEF Schedules, Enlists
  <2>2. x.op = "alter" /\ x.job = Job(o.key) /\ x.id = id /\ x.active = o.row.enabled
    BY <2>1 DEF Alter
  <2>3. o.row = Desired[o.key] /\ o.row \in Row /\ Job(o.key)[1] = o.key /\ Job(o.key) \in JobKey
    BY <1>6, StatementFields, KeysApart DEF Schedules, Right
  <2>4. /\ jobs'[Job(o.key)].id = id /\ jobs'[Job(o.key)].cron = o.row.cron
    BY <1>1, <1>6, <2>3 DEF Schedules
  <2>5. jobs'[Job(o.key)] # None /\ Desired[o.key] # None
    BY <1>6, <2>3, ScheduledJob, NoneAssumption
  <2> QED BY <2>2, <2>3, <2>4, <2>5 DEF Right
<1>7. CASE Finds(o)
  <2>1. PICK j \in o.lanes \ o.keep : x = Drop(j, jobs[j].id, o.hook)
    BY <1>7 DEF Finds, Enlists
  <2>2. x.op = "drop" /\ x.job = j
    BY <2>1 DEF Drop
  <2>3. Desired[j[1]] = None
    BY <1>7 DEF Finds, Right
  <2> QED BY <2>2, <2>3 DEF Right
<1> QED BY <1>2, <1>3, <1>4, <1>5, <1>6, <1>7 DEF Executes

\* What a step leaves pending stays right: no job loses its id or what was asked of its cron.
LEMMA OldStatementsRight ==
  ASSUME Listed, NEW o \in Statement, Executes(o), Right(o, Desired, jobs),
         NEW x \in Statement, Right(x, Desired, jobs)
  PROVE  Right(x, Desired, jobs')
<1>1. jobs \in [JobKey -> JobRow \cup {None}]
  BY DEF Listed, TypeOK
<1> SUFFICES ASSUME x.op = "alter"
             PROVE  /\ jobs'[x.job] # None /\ jobs'[x.job].id = x.id
                    /\ jobs'[x.job].cron = Desired[x.job[1]].cron
  BY DEF Right
<1>2. /\ x.job \in Ours /\ x.job \in JobKey /\ jobs[x.job] # None /\ jobs[x.job].id = x.id
      /\ Desired[x.job[1]] # None /\ jobs[x.job].cron = Desired[x.job[1]].cron
  BY StatementFields, KeysApart DEF Right
<1>3. CASE jobs' = jobs
  BY <1>2, <1>3
<1>4. ASSUME NEW id \in Nat, Schedules(o, id)
      PROVE  /\ jobs'[x.job] # None /\ jobs'[x.job].id = x.id
             /\ jobs'[x.job].cron = Desired[x.job[1]].cron
  <2>1. CASE x.job # Job(o.key)
    BY <1>1, <1>2, <1>4, <2>1 DEF Schedules
  <2>2. CASE x.job = Job(o.key)
    <3>1. x.job[1] = o.key /\ o.row = Desired[o.key]
      BY <1>4, <2>2, StatementFields, KeysApart DEF Schedules, Right
    <3>2. jobs'[x.job].id = id /\ id = jobs[x.job].id /\ jobs'[x.job].cron = o.row.cron
      BY <1>1, <1>2, <1>4, <2>2 DEF Schedules
    <3>3. jobs'[x.job] # None
      BY <1>2, <1>4, ScheduledJob, <2>2
    <3> QED BY <1>2, <3>1, <3>2, <3>3
  <2> QED BY <2>1, <2>2
<1>5. CASE Alters(o)
  <2>1. o.job \in JobKey
    BY <1>5, StatementFields, KeysApart DEF Alters
  <2>2. jobs'[x.job] \in JobRow /\ jobs'[x.job].id = jobs[x.job].id /\ jobs'[x.job].cron = jobs[x.job].cron
    <3>1. CASE x.job # o.job
      BY <1>1, <1>2, <1>5, <3>1 DEF Alters
    <3>2. CASE x.job = o.job
      <4>1. jobs[x.job] \in JobRow /\ o.active \in BOOLEAN
        BY <1>1, <1>2, <1>5, StatementFields DEF Alters
      <4>2. jobs'[x.job] = [jobs[x.job] EXCEPT !.active = o.active]
        BY <1>1, <1>2, <1>5, <3>2 DEF Alters
      <4> QED BY <4>1, <4>2 DEF JobRow
    <3> QED BY <3>1, <3>2
  <2> QED BY <1>2, <2>2, NoneAssumption
<1>6. CASE Drops(o)
  <2>1. o.job # x.job
    BY <1>2, <1>6 DEF Drops, Right
  <2> QED BY <1>1, <1>2, <1>6, <2>1 DEF Drops
<1> QED BY <1>3, <1>4, <1>5, <1>6 DEF Executes, Saves, Deletes, Truncates, Reads, SkipsCatalogue, IsRefused, Finds

LEMMA StillPending ==
  ASSUME NEW o, Executes(o), ~IsRefused(o), NEW x \in Pending, x # o
  PROVE  x \in Pending'
BY DEF Executes, Saves, Deletes, Truncates, Reads, SkipsCatalogue, Schedules, Alters, Finds, Drops, Enlists

LEMMA RowsStaySettled ==
  ASSUME Listed, NEW o \in Statement, Executes(o), ~IsRefused(o), Right(o, Desired, jobs),
         NEW k \in RowKey, rows[k] = Desired[k] \/ \E x \in Pending : SettlesRow(x, k)
  PROVE  rows'[k] = Desired[k] \/ \E x \in Pending' : SettlesRow(x, k)
<1>1. rows \in [RowKey -> Row \cup {None}]
  BY DEF Listed, TypeOK
<1>2. ASSUME rows[k] = Desired[k] PROVE rows'[k] = Desired[k]
  <2>1. CASE Saves(o)
    BY <1>1, <1>2, <2>1 DEF Saves, Right
  <2>2. CASE Deletes(o)
    BY <1>1, <1>2, <2>2 DEF Deletes, Right
  <2> QED BY <1>2, <2>1, <2>2 DEF Executes, Truncates, Reads, SkipsCatalogue, Schedules, Alters, IsRefused,
                                  Finds, Drops, Right
<1>3. ASSUME SettlesRow(o, k) PROVE rows'[k] = Desired[k]
  <2>1. CASE o.op = "save"
    <3>1. Saves(o)
      BY <2>1 DEF Executes, Deletes, Truncates, Reads, SkipsCatalogue, Schedules, Alters, IsRefused, Finds, Drops
    <3> QED BY <1>1, <1>3, <2>1, <3>1 DEF Saves, Right, SettlesRow
  <2>2. CASE o.op = "delete"
    <3>1. Deletes(o)
      BY <2>2 DEF Executes, Saves, Truncates, Reads, SkipsCatalogue, Schedules, Alters, IsRefused, Finds, Drops
    <3>2. Desired[k] = None
      BY <1>3, <2>2 DEF Right, SettlesRow
    <3>3. rows'[k] = None
      BY <1>3, <2>2, <3>1 DEF Deletes, SettlesRow
    <3> QED BY <3>2, <3>3
  <2> QED BY <1>3, <2>1, <2>2 DEF SettlesRow
<1>4. ASSUME NEW x \in Pending, SettlesRow(x, k), x # o PROVE \E y \in Pending' : SettlesRow(y, k)
  BY <1>4, StillPending
<1> QED BY <1>2, <1>3, <1>4

LEMMA JobsStayFit ==
  ASSUME Listed, NEW o \in Statement, Executes(o), Right(o, Desired, jobs),
         NEW k \in Key, Fits(k, Desired, jobs)
  PROVE  Fits(k, Desired, jobs')
<1>1. /\ jobs \in [JobKey -> JobRow \cup {None}] /\ Job(k) \in JobKey /\ Job(k)[1] = k
      /\ Desired \in [Key -> Row \cup {None}]
  BY KeysApart, DesiredTyped DEF Listed, TypeOK, Key
<1>2. CASE jobs'[Job(k)] = jobs[Job(k)]
  BY <1>2 DEF Fits
<1>3. ASSUME NEW id \in Nat, Schedules(o, id), jobs'[Job(k)] # jobs[Job(k)] PROVE Fits(k, Desired, jobs')
  <2>1. Job(k) = Job(o.key)
    BY <1>1, <1>3 DEF Schedules
  <2>2. o.key = k
    BY <2>1 DEF Job
  <2>3. o.row = Desired[k] /\ o.row \in Row
    BY <1>3, <2>2, StatementFields DEF Schedules, Right
  <2>4. jobs'[Job(k)] # None
    BY <1>3, <2>2, ScheduledJob
  <2>5. Desired[k] # None /\ jobs[Job(k)] # None /\ jobs[Job(k)].active = Desired[k].enabled
    BY <2>3, NoneAssumption DEF Fits
  <2>6. jobs'[Job(k)].cron = Desired[k].cron /\ jobs'[Job(k)].active = Desired[k].enabled
    BY <1>1, <1>3, <2>2, <2>3, <2>5 DEF Schedules
  <2> QED BY <2>4, <2>5, <2>6 DEF Fits
<1>4. ASSUME Alters(o), jobs'[Job(k)] # jobs[Job(k)] PROVE Fits(k, Desired, jobs')
  BY <1>1, <1>4, AlteredFits DEF Alters
<1>5. ASSUME Drops(o), jobs'[Job(k)] # jobs[Job(k)] PROVE Fits(k, Desired, jobs')
  <2>1. o.job = Job(k) /\ jobs'[Job(k)] = None
    BY <1>1, <1>5 DEF Drops
  <2>2. Desired[k] = None
    BY <1>1, <1>5, <2>1 DEF Drops, Right
  <2> QED BY <2>1, <2>2 DEF Fits
<1> QED BY <1>2, <1>3, <1>4, <1>5
        DEF Executes, Saves, Deletes, Truncates, Reads, SkipsCatalogue, IsRefused, Finds

\* The statement that saw to a job has done so, or has left one that will.
LEMMA ServedJob ==
  ASSUME Listed, ~Inert, NEW o \in Statement, Executes(o), ~IsRefused(o), Right(o, Desired, jobs),
         NEW k \in Key, SettlesJob(o, k, jobs)
  PROVE  Fits(k, Desired, jobs') \/ \E x \in Pending' : SettlesJob(x, k, jobs')
<1>1. /\ jobs \in [JobKey -> JobRow \cup {None}] /\ Job(k) \in JobKey /\ Job(k)[1] = k /\ Job(k) \in Ours
  BY KeysApart DEF Listed, TypeOK, Key
<1>2. CASE o.op = "save"
  <2>1. Saves(o) /\ o.key = k
    BY <1>2 DEF Executes, Deletes, Truncates, Reads, SkipsCatalogue, Schedules, Alters, IsRefused, Finds, Drops,
                SettlesJob, Covers
  <2>2. PICK x \in Pending' : x = Schedule(o.key, o.row, TRUE)
    BY <2>1 DEF Saves, Enlists
  <2>3. x.op = "schedule" /\ x.key = k
    BY <2>1, <2>2 DEF Schedule
  <2> QED BY <2>3 DEF SettlesJob
<1>3. CASE o.op = "read"
  <2> DEFINE names == {n \in Names : rows[<<Admin, n>>] # None}
  <2>1. Reads(o) /\ k[1] = Admin
    BY <1>3 DEF Executes, Saves, Deletes, Truncates, SkipsCatalogue, Schedules, Alters, IsRefused, Finds, Drops,
                SettlesJob, Covers
  <2>2. PICK n \in Names : k = <<Admin, n>>
    BY <2>1, KeysApart DEF Key, Cleanup, Admin, Settings
  <2>3. CASE n \in names
    <3>1. PICK x \in Pending' : x = Schedule(<<Admin, n>>, rows[<<Admin, n>>], FALSE)
      BY <2>1, <2>3 DEF Reads, Enlists
    <3>2. x.op = "schedule" /\ x.key = k
      BY <2>2, <3>1 DEF Schedule
    <3> QED BY <3>2 DEF SettlesJob
  <2>4. CASE n \notin names
    <3>1. PICK x \in Pending' : x = PruneJobs(Admin, names)
      BY <2>1 DEF Reads, Enlists
    <3>2. x.op = "find" /\ x.lanes = Lane(Admin) /\ x.keep = {Job(<<Admin, m>>) : m \in names}
      BY <3>1 DEF PruneJobs, Find
    <3>3. Job(k) \in Lane(Admin)
      BY <1>1, <2>1 DEF Lane
    <3>4. Job(k) \notin x.keep
      BY <2>2, <2>4, <3>2 DEF Job
    <3>5. CASE jobs'[Job(k)] # None
      BY <3>2, <3>3, <3>4, <3>5 DEF SettlesJob, Covers
    <3>6. CASE jobs'[Job(k)] = None
      <4>1. Desired[k] = None
        BY <2>2, <2>4 DEF Desired, Cleanup, Admin
      <4> QED BY <3>6, <4>1 DEF Fits
    <3> QED BY <3>5, <3>6
  <2> QED BY <2>3, <2>4
<1>4. CASE o.op = "schedule"
  <2>1. o.key = k /\ \E id \in Nat : Schedules(o, id)
    BY <1>4 DEF Executes, Saves, Deletes, Truncates, Reads, SkipsCatalogue, Alters, IsRefused, Finds, Drops,
                SettlesJob, Covers
  <2>2. PICK id \in Nat : Schedules(o, id)
    BY <2>1
  <2>3. PICK x \in Pending' : x = Alter(Job(o.key), id, o.row.enabled, o.hook)
    BY <2>2 DEF Schedules, Enlists
  <2>4. x.op = "alter" /\ x.job = Job(k)
    BY <2>1, <2>3 DEF Alter
  <2> QED BY <2>4 DEF SettlesJob
<1>5. CASE o.op = "alter"
  <2>1. Alters(o) /\ o.job = Job(k)
    BY <1>5 DEF Executes, Saves, Deletes, Truncates, Reads, SkipsCatalogue, Schedules, Finds, Drops,
                SettlesJob, Covers
  <2> QED BY <1>1, <2>1, AlteredFits
<1>6. CASE o.op = "find"
  <2>1. Finds(o) /\ jobs[Job(k)] # None /\ Job(k) \in o.lanes \ o.keep
    BY <1>6 DEF Executes, Saves, Deletes, Truncates, Reads, SkipsCatalogue, Schedules, Alters, IsRefused, Drops,
                SettlesJob, Covers
  <2>2. PICK x \in Pending' : x = Drop(Job(k), jobs[Job(k)].id, o.hook)
    BY <2>1 DEF Finds, Enlists
  <2>3. x.op = "drop" /\ x.job = Job(k) /\ x.id = jobs[Job(k)].id /\ jobs' = jobs
    BY <2>1, <2>2 DEF Drop, Finds
  <2> QED BY <2>1, <2>3 DEF SettlesJob, Covers
<1>7. CASE o.op = "drop"
  <2>1. Drops(o) /\ jobs[Job(k)] # None /\ o.job = Job(k) /\ o.id = jobs[Job(k)].id
    BY <1>7 DEF Executes, Saves, Deletes, Truncates, Reads, SkipsCatalogue, Schedules, Alters, IsRefused, Finds,
                SettlesJob, Covers
  <2>2. jobs'[Job(k)] = None
    BY <1>1, <2>1 DEF Drops
  <2>3. Desired[k] = None
    BY <1>1, <1>7, <2>1 DEF Right
  <2> QED BY <2>2, <2>3 DEF Fits
<1> QED BY <1>2, <1>3, <1>4, <1>5, <1>6, <1>7 DEF SettlesJob, Covers

\* A statement that another step leaves pending still sees to its job.
LEMMA StillServes ==
  ASSUME Listed, NEW o \in Statement, Executes(o), Right(o, Desired, jobs),
         NEW k \in Key, NEW x \in Statement, Right(x, Desired, jobs), SettlesJob(x, k, jobs)
  PROVE  Fits(k, Desired, jobs') \/ SettlesJob(x, k, jobs')
<1>1. /\ jobs \in [JobKey -> JobRow \cup {None}] /\ Job(k) \in JobKey /\ Job(k)[1] = k
  BY KeysApart DEF Listed, TypeOK, Key
<1> SUFFICES ASSUME jobs[Job(k)] # None, Covers(x, Job(k), jobs)
             PROVE  Fits(k, Desired, jobs') \/ SettlesJob(x, k, jobs')
  BY DEF SettlesJob
<1>2. Desired[k] = None
  BY <1>1 DEF Covers, Right
<1>3. CASE jobs'[Job(k)] = None
  BY <1>2, <1>3 DEF Fits
<1>4. CASE jobs'[Job(k)] # None
  <2>1. jobs'[Job(k)].id = jobs[Job(k)].id
    BY <1>1, <1>4, IdsStay
  <2> QED BY <1>4, <2>1 DEF SettlesJob, Covers
<1> QED BY <1>3, <1>4

LEMMA ExecutesAgreement ==
  ASSUME Listed, ~Inert, Agreement, NEW o, Executes(o), release' = release
  PROVE  Agreement'
<1>1. Pending \subseteq Statement
  BY PendingTyped
<1>2. o \in Pending /\ o \in Statement
  BY <1>1 DEF Executes, Saves, Deletes, Truncates, Reads, SkipsCatalogue, Schedules, Alters, IsRefused, Finds,
              Drops, Enlists
<1>3. Right(o, Desired, jobs)
  BY <1>2 DEF Agreement
<1>4. ~IsRefused(o)
  BY <1>3 DEF IsRefused, Right
<1>5. Desired' = Desired
  BY <1>3, DesiredStays
<1>6. ASSUME NEW x \in Pending' PROVE Right(x, Desired, jobs')
  <2>1. CASE x \in Pending
    <3>1. x \in Statement /\ Right(x, Desired, jobs)
      BY <1>1, <2>1 DEF Agreement
    <3> QED BY <1>2, <1>3, <3>1, OldStatementsRight
  <2>2. CASE x \notin Pending
    BY <1>2, <1>3, <2>2, NewStatementsRight
  <2> QED BY <2>1, <2>2
<1>7. ASSUME NEW k \in RowKey PROVE rows'[k] = Desired[k] \/ \E x \in Pending' : SettlesRow(x, k)
  <2>1. rows[k] = Desired[k] \/ \E x \in Pending : SettlesRow(x, k)
    BY DEF Agreement
  <2> QED BY <1>2, <1>3, <1>4, <2>1, RowsStaySettled
<1>8. ASSUME NEW k \in Key PROVE Fits(k, Desired, jobs') \/ \E x \in Pending' : SettlesJob(x, k, jobs')
  <2>1. CASE Fits(k, Desired, jobs)
    BY <1>2, <1>3, <2>1, JobsStayFit
  <2>2. ASSUME NEW x \in Pending, SettlesJob(x, k, jobs), x # o
        PROVE  Fits(k, Desired, jobs') \/ \E y \in Pending' : SettlesJob(y, k, jobs')
    <3>1. x \in Pending'
      BY <1>4, <2>2, StillPending
    <3>2. x \in Statement /\ Right(x, Desired, jobs)
      BY <1>1 DEF Agreement
    <3>3. Fits(k, Desired, jobs') \/ SettlesJob(x, k, jobs')
      BY <1>2, <1>3, <2>2, <3>2, StillServes
    <3> QED BY <3>1, <3>3
  <2>3. CASE SettlesJob(o, k, jobs)
    BY <1>2, <1>3, <1>4, <2>3, ServedJob
  <2> QED BY <2>1, <2>2, <2>3 DEF Agreement
<1> QED BY <1>5, <1>6, <1>7, <1>8 DEF Agreement

\* A reconcile's statements see to every row and every job, so it owes agreement whatever it
\* finds, as long as all that is still pending is right.
LEMMA StartsAgreement ==
  ASSUME Listed, AgreementInv, ~Inert, NEW p \in Process, Reconcile(p),
         Pending' = Pending \cup SyncStatements(release), owed' = "agreement"
  PROVE  Agreement'
<1>1. UNCHANGED <<rows, jobs, release>> /\ (AllIdle \/ owed = "agreement")
  BY DEF Reconcile, Starts, world
<1>2. AllIdle => Pending = {}
  BY Tuples DEF AllIdle, Idle, Pending
<1>3. \A x \in Pending : Right(x, Desired, jobs)
  BY <1>1, <1>2 DEF AgreementInv, Agreement
<1>4. Desired' = Desired /\ jobs' = jobs
  BY <1>1 DEF Desired
<1> DEFINE D == Declared(release)
           U == Undeclared(release)
<1>5. /\ \A n \in Names : /\ n \in D => Desired[<<Settings, n>>] = [cron |-> release.schedule[n], enabled |-> TRUE]
                          /\ n \notin D => Desired[<<Settings, n>>] = None
      /\ Desired[Cleanup] = (IF release.cleanup = None THEN None ELSE [cron |-> release.cleanup, enabled |-> TRUE])
  BY KeysApart DEF Desired, Key, Declared, Settings, Admin, Cleanup
<1>6. /\ \A n \in D : LET x == Save(<<Settings, n>>, [cron |-> release.schedule[n], enabled |-> TRUE]) IN
           /\ x.op = "save" /\ x.key = <<Settings, n>>
           /\ x.row = [cron |-> release.schedule[n], enabled |-> TRUE]
      /\ DeleteRows(U).op = "delete" /\ DeleteRows(U).gone = U
      /\ PruneJobs(Settings, D).op = "find" /\ PruneJobs(Settings, D).lanes = Lane(Settings)
      /\ PruneJobs(Settings, D).keep = {Job(<<Settings, n>>) : n \in D}
      /\ ReadAdminRows.op = "read"
  BY DEF Save, DeleteRows, PruneJobs, Find, ReadAdminRows
<1>7. \A k \in U : \E n \in Names : k = <<Settings, n>> /\ n \notin D
  BY DEF Undeclared
<1>8. ASSUME NEW j \in Lane(Settings) \ {Job(<<Settings, n>>) : n \in D}
      PROVE  \E n \in Names : j[1] = <<Settings, n>> /\ n \notin D
  <2>1. j \in Ours /\ j[1][1] = Settings
    BY DEF Lane
  <2>2. j[1] \in RowKey /\ j = Job(j[1])
    BY <2>1, KeysApart DEF Cleanup, Settings
  <2> QED BY <2>1, <2>2, KeysApart DEF Settings, Admin
<1>9. ASSUME NEW x \in SyncStatements(release) PROVE Right(x, Desired, jobs)
  <2>1. CASE \E n \in D : x = Save(<<Settings, n>>, [cron |-> release.schedule[n], enabled |-> TRUE])
    <3>1. PICK n \in D : x = Save(<<Settings, n>>, [cron |-> release.schedule[n], enabled |-> TRUE])
      BY <2>1
    <3>2. /\ x.op = "save" /\ x.key = <<Settings, n>> /\ n \in Names
          /\ x.row = [cron |-> release.schedule[n], enabled |-> TRUE]
      BY <1>6, <3>1 DEF Declared
    <3> QED BY <1>5, <3>2 DEF Right
  <2>2. CASE x = DeleteRows(U)
    <3>1. x.op = "delete" /\ x.gone = U
      BY <1>6, <2>2
    <3>2. ASSUME NEW k \in U PROVE k[1] = Settings /\ Desired[k] = None
      <4>1. PICK n \in Names : k = <<Settings, n>> /\ n \notin D
        BY <1>7
      <4>2. Desired[k] = None
        BY <1>5, <4>1
      <4> QED BY <4>1, <4>2
    <3> QED BY <3>1, <3>2 DEF Right
  <2>3. CASE x = PruneJobs(Settings, D)
    <3>1. x.op = "find" /\ x.lanes = Lane(Settings) /\ x.keep = {Job(<<Settings, n>>) : n \in D}
      BY <1>6, <2>3
    <3>2. \A j \in x.lanes \ x.keep : Desired[j[1]] = None
      BY <1>5, <1>8, <3>1
    <3> QED BY <3>1, <3>2 DEF Right
  <2>4. CASE x = ReconcileCleanupJob(release)
    <3>1. CASE release.cleanup # None
      <4>1. /\ x.op = "schedule" /\ x.key = Cleanup /\ x.row = [cron |-> release.cleanup, enabled |-> TRUE]
        BY <2>4, <3>1 DEF ReconcileCleanupJob, Schedule
      <4> QED BY <1>5, <3>1, <4>1 DEF Right
    <3>2. CASE release.cleanup = None
      <4>1. x.op = "find" /\ x.lanes = {Job(Cleanup)} /\ x.keep = {} /\ Job(Cleanup)[1] = Cleanup
        BY <2>4, <3>2 DEF ReconcileCleanupJob, UnscheduleJob, Find, Job
      <4> QED BY <1>5, <3>2, <4>1 DEF Right
    <3> QED BY <3>1, <3>2
  <2>5. CASE x = ReadAdminRows
    BY <1>6, <2>5 DEF Right
  <2> QED BY <2>1, <2>2, <2>3, <2>4, <2>5 DEF SyncStatements
<1>10. ASSUME NEW k \in RowKey PROVE rows[k] = Desired[k] \/ \E x \in Pending' : SettlesRow(x, k)
  <2>1. CASE k[1] = Admin
    BY <2>1, KeysApart DEF Desired, Key
  <2>2. ASSUME NEW n \in Names, k = <<Settings, n>>, n \in D PROVE \E x \in Pending' : SettlesRow(x, k)
    <3>1. PICK x \in Pending' : x = Save(<<Settings, n>>, [cron |-> release.schedule[n], enabled |-> TRUE])
      BY <2>2 DEF SyncStatements
    <3> QED BY <1>6, <2>2, <3>1 DEF SettlesRow
  <2>3. ASSUME NEW n \in Names, k = <<Settings, n>>, n \notin D PROVE \E x \in Pending' : SettlesRow(x, k)
    <3>1. PICK x \in Pending' : x = DeleteRows(U)
      BY DEF SyncStatements
    <3>2. k \in U
      BY <2>3 DEF Undeclared
    <3> QED BY <1>6, <3>1, <3>2 DEF SettlesRow
  <2> QED BY <2>1, <2>2, <2>3, KeysApart
<1>11. ASSUME NEW k \in Key PROVE Fits(k, Desired, jobs) \/ \E x \in Pending' : SettlesJob(x, k, jobs)
  <2>1. CASE k = Cleanup
    <3>1. PICK x \in Pending' : x = ReconcileCleanupJob(release)
      BY DEF SyncStatements
    <3>2. CASE release.cleanup # None
      <4>1. x.op = "schedule" /\ x.key = Cleanup
        BY <3>1, <3>2 DEF ReconcileCleanupJob, Schedule
      <4> QED BY <2>1, <4>1 DEF SettlesJob
    <3>3. CASE release.cleanup = None
      <4>1. x.op = "find" /\ x.lanes = {Job(Cleanup)} /\ x.keep = {}
        BY <3>1, <3>3 DEF ReconcileCleanupJob, UnscheduleJob, Find
      <4> QED BY <1>5, <2>1, <3>3, <4>1 DEF SettlesJob, Covers, Fits
    <3> QED BY <3>2, <3>3
  <2>2. CASE k \in RowKey /\ k[1] = Admin
    <3>1. PICK x \in Pending' : x = ReadAdminRows
      BY DEF SyncStatements
    <3> QED BY <1>6, <2>2, <3>1 DEF SettlesJob
  <2>3. ASSUME NEW n \in Names, k = <<Settings, n>>, n \in D PROVE \E x \in Pending' : SettlesJob(x, k, jobs)
    <3>1. PICK x \in Pending' : x = Save(<<Settings, n>>, [cron |-> release.schedule[n], enabled |-> TRUE])
      BY <2>3 DEF SyncStatements
    <3> QED BY <1>6, <2>3, <3>1 DEF SettlesJob
  <2>4. ASSUME NEW n \in Names, k = <<Settings, n>>, n \notin D
        PROVE  Fits(k, Desired, jobs) \/ \E x \in Pending' : SettlesJob(x, k, jobs)
    <3>1. PICK x \in Pending' : x = PruneJobs(Settings, D)
      BY DEF SyncStatements
    <3>2. Job(k) \in Lane(Settings) /\ Job(k) \notin {Job(<<Settings, m>>) : m \in D}
      BY <2>4, KeysApart DEF Lane, Job, Key
    <3>3. x.op = "find" /\ Job(k) \in x.lanes \ x.keep
      BY <1>6, <3>1, <3>2
    <3>4. Desired[k] = None
      BY <1>5, <2>4
    <3> QED BY <3>3, <3>4 DEF SettlesJob, Covers, Fits
  <2> QED BY <2>1, <2>2, <2>3, <2>4, KeysApart DEF Key
<1>12. \A x \in Pending' : Right(x, Desired, jobs)
  BY <1>3, <1>9
<1> QED BY <1>1, <1>4, <1>10, <1>11, <1>12 DEF Agreement

\* Alone, an author leaves a row and the one statement that its job then needs.
LEMMA AuthorAgreement ==
  ASSUME Listed, Agreement, AllIdle, NEW n \in Names, Writes(n), UNCHANGED <<jobs, release>>
  PROVE  Agreement'
<1> DEFINE key == <<Admin, n>>
<1>1. Pending = {}
  BY Tuples DEF AllIdle, Idle, Pending
<1>2. /\ \A k \in RowKey : rows[k] = Desired[k]
      /\ \A k \in Key : Fits(k, Desired, jobs)
  BY <1>1 DEF Agreement
<1>3. /\ key \in RowKey /\ key \in Key /\ key # Cleanup /\ rows \in [RowKey -> Row \cup {None}]
      /\ Job(key)[1] = key
  BY KeysApart DEF Listed, TypeOK, Key
<1>4. /\ \A k \in RowKey : k # key => rows'[k] = rows[k]
      /\ \A k \in Key : k # key => Desired'[k] = Desired[k]
      /\ Desired'[key] = rows'[key]
  <2>1. \A k \in RowKey : k # key => rows'[k] = rows[k]
    BY <1>3 DEF Writes
  <2>2. \A k \in Key : k # key => Desired'[k] = Desired[k]
    BY <2>1 DEF Desired, Key
  <2> QED BY <1>3, <2>1, <2>2 DEF Desired
<1>5. \A k \in RowKey : rows'[k] = Desired'[k]
  BY <1>2, <1>4 DEF Key
<1>6. \A k \in Key : k # key => Fits(k, Desired', jobs')
  BY <1>2, <1>4 DEF Fits
<1>7. CASE \E r \in Row : /\ rows' = [rows EXCEPT ![key] = r]
                          /\ Pending' = Pending \cup {Schedule(key, r, TRUE)}
  <2>1. PICK r \in Row : /\ rows' = [rows EXCEPT ![key] = r]
                         /\ Pending' = Pending \cup {Schedule(key, r, TRUE)}
    BY <1>7
  <2>2. PICK x \in Pending' : x = Schedule(key, r, TRUE) /\ Pending' = {x}
    BY <1>1, <2>1
  <2>3. x.op = "schedule" /\ x.key = key /\ x.row = r
    BY <2>2 DEF Schedule
  <2>4. Desired'[key] = r
    BY <1>3, <1>4, <2>1
  <2>5. Right(x, Desired', jobs')
    BY <2>3, <2>4 DEF Right
  <2>6. SettlesJob(x, key, jobs')
    BY <2>3 DEF SettlesJob
  <2> QED BY <1>5, <1>6, <2>2, <2>5, <2>6 DEF Agreement
<1>8. CASE /\ rows' = [rows EXCEPT ![key] = None]
           /\ Pending' = Pending \cup {UnscheduleJob(key, TRUE)}
  <2>1. PICK x \in Pending' : x = UnscheduleJob(key, TRUE) /\ Pending' = {x}
    BY <1>1, <1>8
  <2>2. x.op = "find" /\ x.lanes = {Job(key)} /\ x.keep = {}
    BY <2>1 DEF UnscheduleJob, Find
  <2>3. Desired'[key] = None
    BY <1>3, <1>4, <1>8
  <2>4. Right(x, Desired', jobs')
    BY <1>3, <2>2, <2>3 DEF Right
  <2>5. Fits(key, Desired', jobs') \/ SettlesJob(x, key, jobs')
    BY <2>2, <2>3 DEF Fits, SettlesJob, Covers
  <2> QED BY <1>5, <1>6, <2>1, <2>4, <2>5 DEF Agreement
<1> QED BY <1>7, <1>8 DEF Writes

LEMMA NextAgreement ==
  ASSUME Listed, AgreementInv, [Next]_vars
  PROVE  AgreementInv'
<1>1. StepKinds
  BY NextKinds
<1>2. deployment' = deployment
  BY <1>1 DEF StepKinds, CatalogueFails, Dies, Reconcile, Teardown, FlushState, Author, Starts, SilentWrite,
              Deploy, Fire, world, vars
<1>3. Inert' = Inert
  BY <1>2 DEF Inert
<1> SUFFICES ASSUME owed' = "agreement", ~Inert PROVE Agreement'
  BY <1>3 DEF AgreementInv
<1>4. CASE \E p \in Process : Step(p) /\ Executes(Head(todo[p])) /\ UNCHANGED <<owed, release, deployment>>
  <2>1. PICK p \in Process : Executes(Head(todo[p])) /\ UNCHANGED <<owed, release, deployment>>
    BY <1>4
  <2>2. Agreement
    BY <2>1 DEF AgreementInv
  <2> QED BY <2>1, <2>2, ExecutesAgreement
<1>5. CASE \E p \in Process : Reconcile(p) /\ Pending' = Pending \cup SyncStatements(release)
  BY <1>5, StartsAgreement
<1>6. CASE \E p \in Process : Author(p) /\ \E n \in Names : Writes(n)
  <2>1. AllIdle /\ owed = "agreement" /\ UNCHANGED <<jobs, release>> /\ \E n \in Names : Writes(n)
    BY <1>6 DEF Author, world
  <2>2. Agreement
    BY <2>1 DEF AgreementInv
  <2> QED BY <2>1, <2>2, AuthorAgreement
<1>7. CASE \E p \in Process : CatalogueFails(p) \/ Dies(p) \/ Teardown(p) \/ FlushState(p)
  BY <1>7 DEF CatalogueFails, Dies, Teardown, FlushState, Starts
<1>8. CASE (SilentWrite \/ Deploy \/ (\E key \in RowKey : Fire(key)) \/ UNCHANGED vars) /\ Pending' = Pending
  <2>1. UNCHANGED <<owed, rows, jobs, release>> /\ Pending' = Pending
    BY <1>8 DEF SilentWrite, Deploy, Fire, world, vars
  <2>2. Agreement /\ Desired' = Desired
    BY <2>1 DEF AgreementInv, Desired
  <2> QED BY <2>1, <2>2 DEF Agreement
<1> QED BY <1>1, <1>4, <1>5, <1>6, <1>7, <1>8 DEF StepKinds

\* reconcile.py:97 and signals.py:14: reconciles of one release that are done, with nothing else
\* among them, leave rows and jobs as the release and the admin's rows ask for, in whatever
\* order their statements came and whatever rows and jobs they found.
THEOREM ReconcilesConverge == Spec => []ReconcileConverges
<1> DEFINE Inv == Listed /\ AgreementInv
<1>1. Init => Inv
  BY InitTyped DEF Init, AgreementInv
<1>2. Inv /\ [Next]_vars => Inv'
  BY NextTyped, NextAgreement
<1>3. Inv => ReconcileConverges
  <2> SUFFICES ASSUME Inv, AllIdle, owed = "agreement", ~Inert
               PROVE  SettingsAgree /\ CleanupAgrees /\ \A key \in RowKey : Agree(key)
    BY DEF ReconcileConverges
  <2>1. Pending = {}
    BY Tuples DEF AllIdle, Idle, Pending
  <2>2. /\ \A k \in RowKey : rows[k] = Desired[k]
        /\ \A k \in Key : Fits(k, Desired, jobs)
    BY <2>1 DEF AgreementInv, Agreement
  <2>3. SettingsAgree
    BY <2>2, KeysApart DEF SettingsAgree, Desired, Key, Settings, Admin
  <2>4. CleanupAgrees
    <3>1. Cleanup \in Key /\ Fits(Cleanup, Desired, jobs)
      BY <2>2 DEF Key
    <3>2. Desired[Cleanup] = IF release.cleanup = None THEN None ELSE [cron |-> release.cleanup, enabled |-> TRUE]
      BY <3>1 DEF Desired
    <3>3. release.cleanup # None => [cron |-> release.cleanup, enabled |-> TRUE] # None
      <4>1. release.cleanup \in Crons \cup {None}
        BY PgCronAssumption DEF Listed, TypeOK
      <4>2. release.cleanup # None => [cron |-> release.cleanup, enabled |-> TRUE] \in Row
        BY <4>1 DEF Row
      <4> QED BY <4>2, NoneAssumption
    <3>4. CASE release.cleanup = None
      BY <3>1, <3>2, <3>4 DEF Fits, CleanupAgrees
    <3>5. CASE release.cleanup # None
      <4>1. Desired[Cleanup] = [cron |-> release.cleanup, enabled |-> TRUE] /\ Desired[Cleanup] # None
        BY <3>2, <3>3, <3>5
      <4>2. Desired[Cleanup].cron = release.cleanup /\ Desired[Cleanup].enabled = TRUE
        BY <4>1
      <4> QED BY <3>1, <3>5, <4>1, <4>2 DEF Fits, CleanupAgrees
    <3> QED BY <3>4, <3>5
  <2>5. \A key \in RowKey : Agree(key)
    BY <2>2 DEF Agree, Fits, Key
  <2> QED BY <2>3, <2>4, <2>5
<1> QED BY <1>1, <1>2, <1>3, PTL DEF Spec
=============================================================================
