---------------------------- MODULE AnalyticsProofs ----------------------------
(***************************************************************************)
(* Theorems about what answers come from: the schema of the database       *)
(* (SchemaBootstrap), the error budget of an objective (SloBudget), the    *)
(* clusters of an analysis (AnalysisPipeline), their ranking (Triage), the *)
(* comparison of two analyses (DriftDetector) and the search (LogQuery).   *)
(*                                                                         *)
(* Schema.  Every instance walks through bootstrap() on its own, on a      *)
(* database the others write at the same time, and may be killed between   *)
(* two statements.  Tables, columns, indexes and the stamp are only ever   *)
(* added, so what an instance has behind it stays done; SchemaInv says for *)
(* every step what that is (Place), that a revision is stamped only when   *)
(* its tables are there, and that of the instances that are up one has     *)
(* seeded, or some instance is on its way to.                              *)
(*                                                                         *)
(* Budget.  The sums of good and of all events over the days are naturals  *)
(* (an induction over the days, in FoldLemmas); what is left is the        *)
(* arithmetic of a truncated division.                                     *)
(*                                                                         *)
(* Ranking.  The timeline is the records that take part in an order sorted *)
(* by time, so that positions of the timeline and positions of the records *)
(* are one to one; the window's pairs of two clusters are then as many as  *)
(* the pairs of their records, and those where one leads as many too       *)
(* (SameCount).  The priority is monotone step by step of the arithmetic.  *)
(*                                                                         *)
(* Clusters.  Lines are counted by template and templates by cluster, so   *)
(* the sizes add up in two steps (CountByLabel, SumByLabel); the label     *)
(* kept by the fold over the results is described prefix by prefix (UpTo). *)
(*                                                                         *)
(* Comparison.  IsPaired says what the greedy choice comes to, read off    *)
(* its fold prefix by prefix; that a nearest match and the two sortings    *)
(* exist is a strict weak order each time (Orders, FirstOf, ListExists);   *)
(* TellsAll, one event for each cluster, survives the last sorting because *)
(* it only moves events (EventOrderMoves).                                 *)
(*                                                                         *)
(* Search.  The parser recurses from a token to the tokens after it, so    *)
(* what its tree keeps is an induction from the end of the query (FromEnd);*)
(* the compiler and the two evaluations are folds over the tree, compared  *)
(* prefix by prefix (Compiled, EvaluateGrows).  An evaluation of AND and   *)
(* OR grows with the leaves that hold, and a clause of the SQL holds less  *)
(* often than its leaf.                                                    *)
(***************************************************************************)
EXTENDS SchemaBootstrap, SloBudget, Triage, AnalysisPipeline, DriftDetector, LogQuery, FoldLemmas,
        SequenceTheorems
-----------------------------------------------------------------------------
\* The schema.
LEMMA RevisionFacts ==
    /\ Len(Revision) = 20 /\ \A k \in 1 .. 20 : Revision[k] \in AllTables
    /\ \A t \in AllTables : \E k \in 1 .. 20 : Revision[k] = t
    /\ {"users", "tenants", "dashboards", "monitors", "metric_rules", "extracted_metrics", "spans"}
          \subseteq AllTables
<1> DEFINE t == TablesToMonitors
           u == TablesFromNotebooks
           X == {t[k] : k \in 1 .. 11}
           Y == {u[k] : k \in 1 .. 9}
<1>1. /\ t \in Seq(X) /\ Len(t) = 11
      /\ t[5] = "dashboards" /\ t[7] = "extracted_metrics" /\ t[10] = "metric_rules" /\ t[11] = "monitors"
  BY DEF TablesToMonitors
<1>2. u \in Seq(Y) /\ Len(u) = 9 /\ u[7] = "spans" /\ u[8] = "tenants" /\ u[9] = "users"
  BY DEF TablesFromNotebooks
<1>3. Revision = t \o u
  BY DEF Revision
<1> HIDE DEF t, u, X, Y
<1>4. t \in Seq(X \cup Y) /\ u \in Seq(X \cup Y)
  BY <1>1, <1>2, SeqDef
<1>5. Revision \in Seq(X \cup Y) /\ Len(Revision) = 20
      /\ \A k \in 12 .. 20 : Revision[k] = u[k - 11]
  <2>1. t \o u \in Seq(X \cup Y) /\ Len(t \o u) = Len(t) + Len(u)
    BY <1>4, ConcatProperties
  <2>2. \A k \in 1 .. Len(t) + Len(u) : (t \o u)[k] = IF k <= Len(t) THEN t[k] ELSE u[k - Len(t)]
    BY <1>4, ConcatProperties
  <2>3. Len(t) = 11 /\ Len(u) = 9
    BY <1>1, <1>2
  <2>4. ASSUME NEW k \in 12 .. 20 PROVE (t \o u)[k] = u[k - 11]
    <3>1. k \in 1 .. Len(t) + Len(u) /\ ~(k <= Len(t))
      BY <2>3
    <3>2. (t \o u)[k] = u[k - Len(t)]
      BY <2>2, <3>1
    <3> QED BY <2>3, <3>2
  <2>5. Len(t) + Len(u) = 20
    BY <2>3
  <2>6. Len(t \o u) = 20
    BY <2>1, <2>5, Zenon
  <2> QED BY <1>3, <2>1, <2>4, <2>6, Zenon
<1>6. DOMAIN Revision = 1 .. 20
  BY <1>5
<1>7. AllTables = {Revision[k] : k \in 1 .. 20}
  BY <1>6 DEF AllTables, Range
<1>8. Revision[18] = "spans" /\ Revision[19] = "tenants" /\ Revision[20] = "users"
  BY <1>2, <1>5
<1>9. Revision[5] = "dashboards" /\ Revision[7] = "extracted_metrics"
      /\ Revision[10] = "metric_rules" /\ Revision[11] = "monitors"
  <2>1. \A k \in 1 .. 11 : Revision[k] = t[k]
    <3>1. t \in Seq(X \cup Y) /\ u \in Seq(X \cup Y) /\ Len(t) = 11 /\ Len(u) = 9
      BY <1>1, <1>2, <1>4
    <3>2. ASSUME NEW k \in 1 .. 11 PROVE (t \o u)[k] = t[k]
      <4>1. k \in 1 .. Len(t) + Len(u) /\ k <= Len(t)
        BY <3>1
      <4>2. \A j \in 1 .. Len(t) + Len(u) : (t \o u)[j] = IF j <= Len(t) THEN t[j] ELSE u[j - Len(t)]
        BY <3>1, ConcatProperties
      <4> QED BY <4>1, <4>2
    <3> QED BY <1>3, <3>2
  <2> QED BY <1>1, <2>1
<1> QED BY <1>5, <1>7, <1>8, <1>9

LEMMA LegacyFacts ==
    /\ Len(LegacyColumns) = 9
    /\ \A k \in 1 .. 9 : LegacyColumns[k] \in Range(LegacyColumns)
    /\ \A c \in Range(LegacyColumns) : \E k \in 1 .. 9 : LegacyColumns[k] = c
<1>1. LegacyColumns = << LegacyColumns[1], LegacyColumns[2], LegacyColumns[3], LegacyColumns[4],
      LegacyColumns[5], LegacyColumns[6], LegacyColumns[7], LegacyColumns[8], LegacyColumns[9] >>
  BY DEF LegacyColumns
<1>2. Len(LegacyColumns) = 9 /\ DOMAIN LegacyColumns = 1 .. 9
  BY <1>1
<1> QED BY <1>2 DEF Range
LEMMA LegacyTables == \A c \in Range(LegacyColumns) : c[1] \in AllTables
<1> SUFFICES ASSUME NEW c \in Range(LegacyColumns) PROVE c[1] \in AllTables
  OBVIOUS
<1>1. c[1] \in {"users", "dashboards", "monitors", "metric_rules", "extracted_metrics", "spans"}
  <2>1. PICK k \in 1 .. 9 : LegacyColumns[k] = c
    BY LegacyFacts
  <2>2. k = 1 \/ k = 2 \/ k = 3 \/ k = 4 \/ k = 5 \/ k = 6 \/ k = 7 \/ k = 8 \/ k = 9
    OBVIOUS
  <2>3. LegacyColumns[1][1] = "users" /\ LegacyColumns[2][1] = "users" /\ LegacyColumns[3][1] = "users"
    BY DEF LegacyColumns
  <2>4. LegacyColumns[4][1] = "dashboards" /\ LegacyColumns[5][1] = "dashboards"
        /\ LegacyColumns[6][1] = "monitors"
    BY DEF LegacyColumns
  <2>5. LegacyColumns[7][1] = "metric_rules" /\ LegacyColumns[8][1] = "extracted_metrics"
        /\ LegacyColumns[9][1] = "spans"
    BY DEF LegacyColumns
  <2> QED BY <2>1, <2>2, <2>3, <2>4, <2>5
<1> QED BY <1>1, RevisionFacts

-----------------------------------------------------------------------------
\* Where an instance can be, and what there is by then.  Whoever adds a table adds its
\* late columns with it, so a column is only missing from a table that was there before.
Steps == {"down", "managed", "upgrade", "table", "index", "repair", "add", "add index",
          "create", "making", "stamp", "seed", "insert", "up"}
SchemaTypes ==
    /\ dialect \in {"postgres", "sqlite"} /\ mode \in {"revisions", "library", "off"}
    /\ tables \subseteq AllTables /\ columns \subseteq Range(LegacyColumns)
    /\ indexes \subseteq Keys(AllTables) \cup Indexed
    /\ version \in {"absent", "empty", "head"} /\ seeded \subseteq Range(Seeds)
    /\ DOMAIN at = Instances
    /\ \A i \in Instances :
         /\ at[i] = [step |-> at[i].step, n |-> at[i].n, absent |-> at[i].absent]
         /\ at[i].step \in Steps /\ at[i].n \in Nat

\* The first n tables of the revision are there, as the revision makes them.
Created(n) == \A k \in 1 .. n : Revision[k] \in tables /\ ColumnsOf(Revision[k]) \subseteq columns
\* The first n late columns are there, if their tables are.
Repaired(n) == \A k \in 1 .. n : LegacyColumns[k][1] \in tables => LegacyColumns[k] \in columns
\* What the last look-up of this table found missing covers what is missing now.
LookedUp(i) ==
    LET t == LegacyColumns[at[i].n][1] IN t \in tables => Missing(t) \subseteq at[i].absent
Whole == tables = AllTables /\ columns = Range(LegacyColumns)
WholeIndexes == dialect = "postgres" => indexes = Keys(AllTables) \cup Indexed

Revising(i) ==
    /\ at[i].step \in {"table", "index"} =>
         dialect = "sqlite" /\ at[i].n \in 1 .. 20 /\ Created(at[i].n - 1)
    /\ at[i].step = "index" => Created(at[i].n)
Repairing(i) ==
    /\ at[i].step \in {"repair", "add", "add index"} =>
         /\ at[i].n \in 1 .. 10 /\ Repaired(at[i].n - 1)
         /\ mode = "library" => tables = AllTables
    /\ at[i].step = "repair" /\ at[i].n \in 2 .. 9
         /\ LegacyColumns[at[i].n - 1][1] = LegacyColumns[at[i].n][1] => LookedUp(i)
    /\ at[i].step \in {"add", "add index"} => at[i].n \in 1 .. 9 /\ LookedUp(i)
    /\ at[i].step = "add index" => LegacyColumns[at[i].n] \in columns \cap Indexed
Making(i) ==
    /\ at[i].step \in {"create", "making"} /\ mode # "library" => Repaired(9)
    /\ at[i].step = "making" => at[i].absent \subseteq AllTables /\ AllTables \subseteq tables \cup at[i].absent
    /\ at[i].step = "stamp" => Whole /\ WholeIndexes
Seeding(i) ==
    /\ at[i].step \in {"seed", "insert", "up"} /\ mode # "off" => tables = AllTables
    /\ at[i].step = "seed" => at[i].n \in 1 .. 4
    /\ at[i].step = "insert" => at[i].n \in 1 .. 3
    /\ at[i].step \in {"seed", "insert"} =>
         /\ \A k \in 1 .. at[i].n - 1 : Seeds[k] \in seeded
         /\ at[i].n = 2 \/ (at[i].n = 1 /\ at[i].step = "insert") => Seeds[2] \in at[i].absent \cup seeded
\* On Postgres an index comes with its table or column.
WithIndexes == dialect = "postgres" => Keys(tables) \cup (columns \cap Indexed) \subseteq indexes

\* The seeds come in their order, and while one is missing an instance is at work, or
\* down, that has not lost the race for it: it will find the rest missing and add it.
SeedsInOrder == \A m, n \in 1 .. 3 : m < n /\ Seeds[n] \in seeded => Seeds[m] \in seeded
Lost(i) ==
    \/ at[i].step = "seed" /\ at[i].n = 2 /\ Seeds[2] \in at[i].absent /\ Seeds[2] \in seeded
    \/ at[i].step = "insert" /\ Seeds[at[i].n] \in seeded
SomebodySeeds ==
    mode # "off" /\ seeded # Range(Seeds) => \E i \in Instances : at[i].step # "up" /\ ~Lost(i)

SchemaInv ==
    /\ SchemaTypes /\ WithIndexes /\ SeedsInOrder /\ SomebodySeeds
    /\ version = "head" => Whole /\ WholeIndexes
    /\ \A i \in Instances : Revising(i) /\ Repairing(i) /\ Making(i) /\ Seeding(i)
Place(i) == Revising(i) /\ Repairing(i) /\ Making(i) /\ Seeding(i)

LEMMA SchemaInitially == SchemaInit => SchemaInv
<1> SUFFICES ASSUME SchemaInit PROVE SchemaInv
  OBVIOUS
<1>1. PICK old \in OldDatabases :
        /\ tables = old.tables /\ columns = old.columns
        /\ indexes = Keys(old.tables) \cup (old.columns \cap Indexed)
  BY DEF SchemaInit
<1>2. old.tables \subseteq AllTables /\ old.columns \subseteq Range(LegacyColumns)
  BY SchemaAssumption
<1>3. indexes \subseteq Keys(AllTables) \cup Indexed
  BY <1>1, <1>2 DEF Keys
<1>4. \A i \in Instances : at[i] = [step |-> "down", n |-> 0, absent |-> {}]
  BY DEF SchemaInit, At
<1>5. SchemaTypes
  <2>1. tables \subseteq AllTables /\ columns \subseteq Range(LegacyColumns)
    BY <1>1, <1>2
  <2>2. DOMAIN at = Instances /\ version \in {"absent", "empty", "head"} /\ seeded \subseteq Range(Seeds)
        /\ dialect \in {"postgres", "sqlite"} /\ mode \in {"revisions", "library", "off"}
    BY DEF SchemaInit
  <2>3. ASSUME NEW i \in Instances
        PROVE  /\ at[i] = [step |-> at[i].step, n |-> at[i].n, absent |-> at[i].absent]
               /\ at[i].step \in Steps /\ at[i].n \in Nat
    <3>1. at[i].step = "down" /\ at[i].n = 0 /\ at[i].absent = {}
      BY <1>4
    <3> QED BY <1>4, <3>1 DEF Steps
  <2> QED BY <1>3, <2>1, <2>2, <2>3 DEF SchemaTypes
<1>6. WithIndexes
  BY <1>1 DEF WithIndexes
<1>7. SeedsInOrder
  BY DEF SchemaInit, SeedsInOrder
<1>8. SomebodySeeds
  BY <1>4, SchemaAssumption DEF SomebodySeeds, Lost
<1>9. version # "head"
  BY DEF SchemaInit
<1>10. ASSUME NEW i \in Instances PROVE Place(i)
  <2>1. at[i].step = "down"
    BY <1>4
  <2> QED BY <2>1 DEF Place, Revising, Repairing, Making, Seeding
<1> QED BY <1>5, <1>6, <1>7, <1>8, <1>9, <1>10 DEF SchemaInv, Place

-----------------------------------------------------------------------------
\* What a step of one instance may do to what the others rely on.
Grows ==
    /\ tables \subseteq tables' /\ tables' \subseteq AllTables
    /\ columns \subseteq columns' /\ columns' \subseteq Range(LegacyColumns)
    /\ \A t \in tables' \ tables : ColumnsOf(t) \subseteq columns'
    /\ indexes \subseteq indexes' /\ indexes' \subseteq Keys(AllTables) \cup Indexed
    /\ seeded \subseteq seeded' /\ seeded' \subseteq Range(Seeds)
    /\ mode' = mode /\ dialect' = dialect
Moves(i) ==
    /\ DOMAIN at' = Instances /\ \A j \in Instances \ {i} : at'[j] = at[j]
    /\ at'[i] = [step |-> at'[i].step, n |-> at'[i].n, absent |-> at'[i].absent]
    /\ at'[i].step \in Steps /\ at'[i].n \in Nat

LEMMA OthersStay ==
    ASSUME SchemaInv, Grows, NEW j \in Instances, at'[j] = at[j]
    PROVE  Place(j)'
<1>1. \A n : Created(n) => Created(n)'
  BY DEF Created, Grows
<1>2. \A n : Repaired(n) /\ n \in 0 .. 9 => Repaired(n)'
  <2> SUFFICES ASSUME NEW n \in 0 .. 9, Repaired(n), NEW k \in 1 .. n, LegacyColumns[k][1] \in tables'
               PROVE  LegacyColumns[k] \in columns'
    BY DEF Repaired
  <2>1. LegacyColumns[k] \in ColumnsOf(LegacyColumns[k][1])
    BY LegacyFacts DEF ColumnsOf
  <2> QED BY <2>1 DEF Grows, Repaired
<1>3. Whole => Whole'
  BY DEF Whole, Grows
<1>4. WholeIndexes => WholeIndexes'
  BY DEF WholeIndexes, Grows
<1>5. LookedUp(j) => LookedUp(j)'
  BY DEF LookedUp, Missing, Grows
<1>6. tables = AllTables => tables' = AllTables
  BY DEF Grows
<1>7. Place(j) /\ at[j].n \in Nat
  BY DEF SchemaInv, Place, SchemaTypes
<1>8. Revising(j)'
  BY <1>1, <1>7 DEF Revising, Place, Grows
<1>9. Repairing(j)'
  <2>1. ASSUME at[j].step \in {"repair", "add", "add index"}
        PROVE  at[j].n \in 1 .. 10 /\ Repaired(at[j].n - 1)'
               /\ (mode' = "library" => tables' = AllTables)
    <3>0. at[j].n \in 1 .. 10 /\ Repaired(at[j].n - 1)
      BY <1>7, <2>1 DEF Repairing, Place
    <3>1. at[j].n \in 1 .. 10 /\ Repaired(at[j].n - 1) /\ at[j].n - 1 \in 0 .. 9
      BY <3>0
    <3>2. mode = "library" => tables = AllTables
      BY <1>7, <2>1 DEF Repairing, Place
    <3>3. \A n \in 0 .. 9 : Repaired(n) => Repaired(n)'
      BY <1>2
    <3>4. at[j].n - 1 = (at[j].n - 1)'
      OBVIOUS
    <3> QED BY <3>1, <3>2, <3>3, <1>6 DEF Grows
  <2>2. at[j].step = "add index" /\ LegacyColumns[at[j].n] \in columns \cap Indexed
          => LegacyColumns[at[j].n] \in columns' \cap Indexed
    BY DEF Grows
  <2> QED BY <1>5, <1>7, <2>1, <2>2 DEF Repairing, Place
<1>10. Making(j)'
  BY <1>2, <1>3, <1>4, <1>7 DEF Making, Place, Grows
<1>11. Seeding(j)'
  BY <1>6, <1>7 DEF Seeding, Place, Grows
<1> QED BY <1>8, <1>9, <1>10, <1>11 DEF Place

\* The invariant after a step of one instance, from what the step does.
LEMMA SchemaStep ==
    ASSUME SchemaInv, NEW i \in Instances, Grows, Moves(i), Place(i)', WithIndexes', SeedsInOrder',
           SomebodySeeds', version' \in {"absent", "empty", "head"},
           version' = "head" => version = "head" \/ (Whole' /\ WholeIndexes')
    PROVE  SchemaInv'
<1>1. \A j \in Instances : at[j] = [step |-> at[j].step, n |-> at[j].n, absent |-> at[j].absent]
        /\ at[j].step \in Steps /\ at[j].n \in Nat
  BY DEF SchemaInv, SchemaTypes
<1>2. \A j \in Instances : at'[j] = [step |-> at'[j].step, n |-> at'[j].n, absent |-> at'[j].absent]
        /\ at'[j].step \in Steps /\ at'[j].n \in Nat
  <2> SUFFICES ASSUME NEW j \in Instances
               PROVE  at'[j] = [step |-> at'[j].step, n |-> at'[j].n, absent |-> at'[j].absent]
                      /\ at'[j].step \in Steps /\ at'[j].n \in Nat
    OBVIOUS
  <2>1. CASE j = i
    BY <2>1 DEF Moves
  <2>2. CASE j # i
    <3>1. at'[j] = at[j]
      BY <2>2 DEF Moves
    <3> QED BY <1>1, <3>1
  <2> QED BY <2>1, <2>2
<1>3. SchemaTypes'
  BY <1>2 DEF SchemaTypes, SchemaInv, Grows, Moves
<1>4. \A j \in Instances : Place(j)'
  BY OthersStay DEF Moves
<1>5. version = "head" => Whole' /\ WholeIndexes'
  BY DEF SchemaInv, Whole, WholeIndexes, Grows
<1> QED BY <1>3, <1>4, <1>5 DEF SchemaInv, Place

\* An instance that is not up and has not lost a race will seed.
LEMMA WillSeed ==
    ASSUME NEW i \in Instances, at'[i].step \notin {"up", "insert"},
           at'[i].step = "seed" => at'[i].n # 2
    PROVE  SomebodySeeds'
  BY DEF SomebodySeeds, Lost

\* A step that leaves the database alone and only goes on, to a place that is right.
LEMMA GoesOn ==
    ASSUME SchemaInv, NEW i \in Instances, Moves(i), Place(i)', SomebodySeeds',
           UNCHANGED <<dialect, mode, tables, columns, indexes, seeded>>,
           version' \in {"absent", "empty", "head"}, version' = "head" => version = "head" \/ (Whole /\ WholeIndexes)
    PROVE  SchemaInv'
<1>1. Grows
  BY DEF Grows, SchemaInv, SchemaTypes
<1>2. WithIndexes' /\ SeedsInOrder'
  BY DEF WithIndexes, SeedsInOrder, SchemaInv
<1>3. version' = "head" => version = "head" \/ (Whole' /\ WholeIndexes')
  BY DEF Whole, WholeIndexes
<1> QED BY <1>1, <1>2, <1>3, SchemaStep
LEMMA Going ==
    ASSUME SchemaInv, NEW i \in Instances, NEW STATE s, NEW STATE n, NEW STATE a, s \in Steps, n \in Nat,
           at' = [at EXCEPT ![i] = [step |-> s, n |-> n, absent |-> a]]
    PROVE  Moves(i) /\ at'[i].step = s /\ at'[i].n = n /\ at'[i].absent = a
<1>1. DOMAIN at = Instances
  BY DEF SchemaInv, SchemaTypes
<1>2. at'[i] = [step |-> s, n |-> n, absent |-> a]
  BY <1>1
<1>3. at'[i].step = s /\ at'[i].n = n /\ at'[i].absent = a
  BY <1>2
<1>4. DOMAIN at' = Instances /\ \A j \in Instances \ {i} : at'[j] = at[j]
  BY <1>1
<1> QED BY <1>2, <1>3, <1>4 DEF Moves

LEMMA GoingAt ==
    ASSUME SchemaInv, NEW i \in Instances, NEW STATE s, NEW STATE n, s \in Steps, n \in Nat,
           GoTo(i, At(s, n))
    PROVE  Moves(i) /\ at'[i].step = s /\ at'[i].n = n /\ at'[i].absent = {}
<1>1. at' = [at EXCEPT ![i] = [step |-> s, n |-> n, absent |-> {}]]
  BY DEF GoTo, At
<1> QED BY <1>1, Going
LEMMA GoingStill ==
    ASSUME SchemaInv, NEW i \in Instances, NEW STATE s, NEW STATE n, s \in Steps, n \in Nat,
           GoTo(i, Still(i, s, n))
    PROVE  Moves(i) /\ at'[i].step = s /\ at'[i].n = n /\ at'[i].absent = at[i].absent
<1> DEFINE a == at[i].absent
<1>1. at' = [at EXCEPT ![i] = [step |-> s, n |-> n, absent |-> a]]
  BY DEF GoTo, Still
<1> HIDE DEF a
<1>2. Moves(i) /\ at'[i].step = s /\ at'[i].n = n /\ at'[i].absent = a
  BY <1>1, Going
<1> QED BY <1>2 DEF a

LEMMA StepNames ==
    /\ "down" \in Steps /\ "managed" \in Steps /\ "upgrade" \in Steps /\ "table" \in Steps
    /\ "index" \in Steps /\ "repair" \in Steps /\ "add" \in Steps /\ "add index" \in Steps
    /\ "create" \in Steps /\ "making" \in Steps /\ "stamp" \in Steps /\ "seed" \in Steps
    /\ "insert" \in Steps /\ "up" \in Steps /\ 0 \in Nat /\ 1 \in Nat /\ 2 \in Nat
  BY DEF Steps

LEMMA StartStep ==
    ASSUME SchemaInv, NEW i \in Instances,
           \/ StartManaged(i) \/ StartFresh(i) \/ StartLegacy(i) \/ StartLibrary(i) \/ StartOff(i)
    PROVE  SchemaInv'
<1> SUFFICES ASSUME NEW s \in {"managed", "upgrade", "repair", "create", "seed"}, Start(i, s),
                    s = "repair" => mode = "revisions", s = "create" => mode = "library",
                    s = "seed" => mode = "off"
             PROVE  SchemaInv'
  BY DEF StartManaged, StartFresh, StartLegacy, StartLibrary, StartOff
<1>1. Moves(i) /\ at'[i].step = s /\ at'[i].n = 1
  <2>1. GoTo(i, At(s, 1))
    BY DEF Start
  <2>2. s \in Steps
    BY DEF Steps
  <2> QED BY <2>1, <2>2, GoingAt
<1>2. UNCHANGED <<dialect, mode, tables, columns, indexes, seeded, version>>
  BY DEF Start, NoTable, NoSeed, Given
<1>3. Place(i)'
  <2>1. Revising(i)'
    BY <1>1 DEF Revising
  <2>2. Repairing(i)'
    <3>1. Repaired(at[i].n - 1)'
      BY <1>1 DEF Repaired
    <3>2. at'[i].n \in 1 .. 10 /\ at'[i].n \notin 2 .. 9
      BY <1>1
    <3>3. at'[i].step \notin {"add", "add index"} /\ (at'[i].step = "repair" => mode' # "library")
      BY <1>1, <1>2
    <3> QED BY <3>1, <3>2, <3>3 DEF Repairing
  <2>3. Making(i)'
    BY <1>1, <1>2 DEF Making
  <2>4. Seeding(i)'
    BY <1>1, <1>2 DEF Seeding
  <2> QED BY <2>1, <2>2, <2>3, <2>4 DEF Place
<1>4. SomebodySeeds'
  BY <1>1, WillSeed
<1> QED BY <1>1, <1>2, <1>3, <1>4, GoesOn DEF SchemaInv, SchemaTypes
LEMMA StopStep ==
    ASSUME SchemaInv, NEW i \in Instances, GoTo(i, At("down", 0)), NoTable, NoSeed,
           UNCHANGED <<dialect, mode, version>>
    PROVE  SchemaInv'
<1>1. Moves(i) /\ at'[i].step = "down"
  <2>1. GoTo(i, At("down", 0))
    OBVIOUS
  <2> QED BY <2>1, StepNames, GoingAt
<1>2. Place(i)'
  BY <1>1 DEF Place, Revising, Repairing, Making, Seeding
<1>3. SomebodySeeds'
  BY <1>1, WillSeed
<1> QED BY <1>1, <1>2, <1>3, GoesOn DEF NoTable, NoSeed, SchemaInv, SchemaTypes

LEMMA UpgradeNothingStep ==
    ASSUME SchemaInv, NEW i \in Instances, UpgradeNothing(i) PROVE SchemaInv'
<1>1. Moves(i) /\ at'[i].step = "seed" /\ at'[i].n = 1
  <2>1. GoTo(i, At("seed", 1))
    BY DEF UpgradeNothing
  <2> QED BY <2>1, StepNames, GoingAt
<1>2. UNCHANGED <<dialect, mode, tables, columns, indexes, seeded, version>> /\ version = "head"
  BY DEF UpgradeNothing, NoTable, NoSeed, Given
<1>3. tables' = AllTables
  BY <1>2 DEF SchemaInv, Whole
<1>4. Place(i)'
  BY <1>1, <1>3 DEF Place, Revising, Repairing, Making, Seeding
<1>5. SomebodySeeds'
  BY <1>1, WillSeed
<1> QED BY <1>1, <1>2, <1>4, <1>5, GoesOn DEF SchemaInv, SchemaTypes

LEMMA UpgradeStep ==
    ASSUME SchemaInv, NEW i \in Instances, Upgrade(i) PROVE SchemaInv'
<1>1. Moves(i) /\ at'[i].step = "seed" /\ at'[i].n = 1
  <2>1. GoTo(i, At("seed", 1))
    BY DEF Upgrade
  <2> QED BY <2>1, StepNames, GoingAt
<1>2. /\ tables' = AllTables /\ columns' = Range(LegacyColumns)
      /\ indexes' = Keys(AllTables) \cup Indexed /\ version' = "head"
      /\ seeded' = seeded /\ mode' = mode /\ dialect' = dialect
  BY DEF Upgrade, NoSeed, Given
<1>3. Grows
  BY <1>2 DEF Grows, SchemaInv, SchemaTypes, ColumnsOf
<1>4. Place(i)'
  BY <1>1, <1>2 DEF Place, Revising, Repairing, Making, Seeding
<1>5. SomebodySeeds'
  BY <1>1, WillSeed
<1>6. WithIndexes' /\ SeedsInOrder'
  BY <1>2 DEF WithIndexes, SeedsInOrder, SchemaInv
<1>7. Whole' /\ WholeIndexes'
  BY <1>2 DEF Whole, WholeIndexes
<1> QED BY <1>1, <1>2, <1>3, <1>4, <1>5, <1>6, <1>7, SchemaStep

LEMMA MakeVersionTableStep ==
    ASSUME SchemaInv, NEW i \in Instances, MakeVersionTable(i) PROVE SchemaInv'
<1>1. Moves(i) /\ at'[i].step = "table" /\ at'[i].n = 1
  <2>1. GoTo(i, At("table", 1))
    BY DEF MakeVersionTable
  <2> QED BY <2>1, StepNames, GoingAt
<1>2. /\ UNCHANGED <<dialect, mode, tables, columns, indexes, seeded>> /\ version' = "empty"
      /\ dialect = "sqlite"
  BY DEF MakeVersionTable, NoTable, NoSeed, Given
<1>3. Created(at[i].n - 1)'
  BY <1>1 DEF Created
<1>4. Place(i)'
  BY <1>1, <1>2, <1>3 DEF Place, Revising, Repairing, Making, Seeding
<1>5. SomebodySeeds'
  BY <1>1, WillSeed
<1> QED BY <1>1, <1>2, <1>4, <1>5, GoesOn

LEMMA CreateTableStep ==
    ASSUME SchemaInv, NEW i \in Instances, CreateTable(i) PROVE SchemaInv'
<1> DEFINE n == at[i].n
           t == Revision[n]
<1>1. dialect = "sqlite" /\ n \in 1 .. 20 /\ Created(n - 1)
  BY DEF CreateTable, SchemaInv, Revising
<1>2. Moves(i) /\ at'[i].step = "index" /\ at'[i].n = n
  <2>1. GoTo(i, At("index", n))
    BY DEF CreateTable
  <2>2. n \in Nat
    BY <1>1
  <2> QED BY <2>1, <2>2, StepNames, GoingAt
<1>3. /\ tables' = tables \cup {t} /\ columns' = columns \cup ColumnsOf(t) /\ t \in AllTables
      /\ UNCHANGED <<dialect, mode, indexes, seeded, version>>
  BY <1>1, RevisionFacts DEF CreateTable, NoSeed, Given
<1>4. Grows
  BY <1>3 DEF Grows, SchemaInv, SchemaTypes, ColumnsOf
<1>5. Created(n)'
  <2>1. SUFFICES ASSUME NEW k \in 1 .. n PROVE Revision[k] \in tables' /\ ColumnsOf(Revision[k]) \subseteq columns'
    BY <1>2 DEF Created
  <2>2. CASE k = n
    BY <1>3, <2>2
  <2>3. CASE k # n
    <3>1. k \in 1 .. n - 1
      BY <1>1, <2>3
    <3> QED BY <1>1, <1>3, <3>1 DEF Created
  <2> QED BY <2>2, <2>3
<1>6. Place(i)'
  <2>1. Created(at[i].n)' /\ Created(at[i].n - 1)'
    BY <1>1, <1>2, <1>5 DEF Created
  <2> QED BY <1>1, <1>2, <1>3, <2>1 DEF Place, Revising, Repairing, Making, Seeding
<1>7. SomebodySeeds'
  BY <1>2, WillSeed
<1>8. WithIndexes' /\ SeedsInOrder'
  BY <1>1, <1>3 DEF WithIndexes, SeedsInOrder, SchemaInv
<1> QED BY <1>2, <1>3, <1>4, <1>6, <1>7, <1>8, SchemaStep DEF SchemaInv, SchemaTypes

LEMMA CreateIndexesStep ==
    ASSUME SchemaInv, NEW i \in Instances, CreateIndexes(i) PROVE SchemaInv'
<1> DEFINE n == at[i].n
           t == Revision[n]
<1>1. dialect = "sqlite" /\ n \in 1 .. 20 /\ Created(n)
  BY DEF CreateIndexes, SchemaInv, Revising
<1>2. /\ indexes' = indexes \cup Keys({t}) \cup (ColumnsOf(t) \cap Indexed) /\ t \in AllTables
      /\ UNCHANGED <<dialect, mode, tables, columns, seeded, version>>
  BY <1>1, RevisionFacts DEF CreateIndexes, NoSeed, Given
<1>3. Grows
  BY <1>2 DEF Grows, SchemaInv, SchemaTypes, Keys
<1>4. WithIndexes' /\ SeedsInOrder'
  BY <1>1, <1>2 DEF WithIndexes, SeedsInOrder, SchemaInv
<1>5. CASE n = 20
  <2>1. Moves(i) /\ at'[i].step = "stamp"
    <3>1. GoTo(i, At("stamp", 2))
      BY <1>5, RevisionFacts DEF CreateIndexes
    <3> QED BY <3>1, StepNames, GoingAt
  <2>2. tables = AllTables
    BY <1>1, <1>5, RevisionFacts DEF Created, SchemaInv, SchemaTypes
  <2>3. columns = Range(LegacyColumns)
    <3>1. ASSUME NEW c \in Range(LegacyColumns) PROVE c \in columns
      <4>1. c[1] \in AllTables
        BY LegacyTables
      <4>2. PICK k \in 1 .. 20 : Revision[k] = c[1]
        BY <4>1, RevisionFacts
      <4>3. c \in ColumnsOf(Revision[k])
        BY <4>2 DEF ColumnsOf
      <4> QED BY <1>1, <1>5, <4>3 DEF Created
    <3> QED BY <3>1 DEF SchemaInv, SchemaTypes
  <2>4. Place(i)'
    BY <1>1, <1>2, <2>1, <2>2, <2>3 DEF Place, Revising, Repairing, Making, Seeding, Whole, WholeIndexes
  <2>5. SomebodySeeds'
    BY <2>1, WillSeed
  <2> QED BY <1>2, <1>3, <1>4, <2>1, <2>4, <2>5, SchemaStep DEF SchemaInv, SchemaTypes
<1>6. CASE n # 20
  <2>1. Moves(i) /\ at'[i].step = "table" /\ at'[i].n = n + 1
    <3>1. GoTo(i, At("table", n + 1))
      BY <1>6, RevisionFacts DEF CreateIndexes
    <3>2. n + 1 \in Nat
      BY <1>1
    <3> QED BY <3>1, <3>2, StepNames, GoingAt
  <2>2. Created(at[i].n - 1)'
    BY <1>1, <1>2, <2>1 DEF Created
  <2>3. n + 1 \in 1 .. 20
    BY <1>1, <1>6
  <2>4. Place(i)'
    BY <1>1, <1>2, <2>1, <2>2, <2>3 DEF Place, Revising, Repairing, Making, Seeding
  <2>5. SomebodySeeds'
    BY <2>1, WillSeed
  <2> QED BY <1>2, <1>3, <1>4, <2>1, <2>4, <2>5, SchemaStep DEF SchemaInv, SchemaTypes
<1> QED BY <1>5, <1>6
LEMMA GoingWith ==
    ASSUME SchemaInv, NEW i \in Instances, NEW STATE s, NEW STATE n, NEW STATE a, s \in Steps, n \in Nat,
           GoTo(i, [step |-> s, n |-> n, absent |-> a])
    PROVE  Moves(i) /\ at'[i].step = s /\ at'[i].n = n /\ at'[i].absent = a
<1>1. at' = [at EXCEPT ![i] = [step |-> s, n |-> n, absent |-> a]]
  BY DEF GoTo
<1> QED BY <1>1, Going

\* Repairing goes on from a column to the next; k is the number of the column.
LEMMA NextColumn ==
    ASSUME NEW i \in Instances, NEW k \in 1 .. 9, at'[i].step = "repair", at'[i].n = k + 1,
           \A m \in 1 .. k - 1 : LegacyColumns[m][1] \in tables' => LegacyColumns[m] \in columns',
           LegacyColumns[k][1] \in tables' =>
               LegacyColumns[k] \in columns' /\ ColumnsOf(LegacyColumns[k][1]) \ columns' \subseteq at'[i].absent,
           mode' = "library" => tables' = AllTables
    PROVE  Repairing(i)'
<1>1. Repaired(at[i].n - 1)'
  <2> SUFFICES ASSUME NEW m \in 1 .. k, LegacyColumns[m][1] \in tables' PROVE LegacyColumns[m] \in columns'
    BY DEF Repaired
  <2>1. m = k \/ m \in 1 .. k - 1
    OBVIOUS
  <2> QED BY <2>1
<1>2. LegacyColumns[at'[i].n - 1][1] = LegacyColumns[at'[i].n][1] => LookedUp(i)'
  <2>1. at'[i].n - 1 = k
    OBVIOUS
  <2> QED BY <2>1 DEF LookedUp, Missing
<1>3. at'[i].n \in 1 .. 10
  OBVIOUS
<1> QED BY <1>1, <1>2, <1>3 DEF Repairing

LEMMA ProbeColumnStep ==
    ASSUME SchemaInv, NEW i \in Instances, ProbeColumn(i) PROVE SchemaInv'
<1> DEFINE n == at[i].n
           t == LegacyColumns[n][1]
           lookup == n = 1 \/ LegacyColumns[n - 1][1] # t
           missing == IF t \notin tables THEN {} ELSE IF lookup THEN Missing(t) ELSE at[i].absent
<1>1. /\ at[i].step = "repair" /\ n \in 1 .. 10 /\ Repaired(n - 1)
      /\ mode = "library" => tables = AllTables
  BY DEF ProbeColumn, SchemaInv, Repairing
<1>2. UNCHANGED <<dialect, mode, tables, columns, indexes, seeded, version>>
  BY DEF ProbeColumn, NoTable, NoSeed, Given
<1>3. GoTo(i, IF n > Len(LegacyColumns) THEN At(IF mode = "library" THEN "seed" ELSE "create", 1)
              ELSE [step |-> IF LegacyColumns[n] \in missing THEN "add" ELSE "repair",
                    n |-> IF LegacyColumns[n] \in missing THEN n ELSE n + 1,
                    absent |-> missing])
  BY DEF ProbeColumn
<1>4. CASE n = 10
  <2>1. GoTo(i, At(IF mode = "library" THEN "seed" ELSE "create", 1))
    BY <1>3, <1>4, LegacyFacts
  <2> DEFINE s == IF mode = "library" THEN "seed" ELSE "create"
  <2>2. s \in Steps
    BY StepNames
  <2> HIDE DEF s
  <2>3. GoTo(i, At(s, 1))
    BY <2>1 DEF s
  <2>4. Moves(i) /\ at'[i].step = s /\ at'[i].n = 1
    BY <2>2, <2>3, StepNames, GoingAt
  <2>5. (s = "seed" /\ mode = "library") \/ (s = "create" /\ mode # "library")
    BY DEF s
  <2>6. Repaired(9)'
    BY <1>1, <1>2, <1>4 DEF Repaired
  <2>7. Place(i)'
    <3>1. Revising(i)' /\ Repairing(i)'
      BY <2>4, <2>5 DEF Revising, Repairing
    <3>2. Making(i)'
      BY <1>2, <2>4, <2>5, <2>6 DEF Making
    <3>3. Seeding(i)'
      BY <1>1, <1>2, <2>4, <2>5 DEF Seeding
    <3> QED BY <3>1, <3>2, <3>3 DEF Place
  <2>8. SomebodySeeds'
    BY <2>4, <2>5, WillSeed
  <2> QED BY <1>2, <2>4, <2>7, <2>8, GoesOn DEF SchemaInv, SchemaTypes
<1>5. CASE n # 10
  <2>1. n \in 1 .. 9 /\ n \in Nat /\ n + 1 \in Nat
    BY <1>1, <1>5
  <2>2. GoTo(i, [step |-> IF LegacyColumns[n] \in missing THEN "add" ELSE "repair",
                 n |-> IF LegacyColumns[n] \in missing THEN n ELSE n + 1, absent |-> missing])
    <3>1. ~(n > Len(LegacyColumns))
      BY <2>1, LegacyFacts
    <3> QED BY <1>3, <3>1, Zenon
  <2>3. t \in tables => Missing(t) \subseteq missing
    <3>1. n \in 2 .. 9 /\ LegacyColumns[n - 1][1] = t => LookedUp(i)
      BY <1>1 DEF SchemaInv, Repairing
    <3>2. n # 1 => n \in 2 .. 9
      BY <2>1
    <3> QED BY <3>1, <3>2 DEF LookedUp
  <2> HIDE DEF missing
  <2>4. CASE LegacyColumns[n] \in missing
    <3>1. GoTo(i, [step |-> "add", n |-> n, absent |-> missing])
      BY <2>2, <2>4
    <3>2. Moves(i) /\ at'[i].step = "add" /\ at'[i].n = n /\ at'[i].absent = missing
      BY <2>1, <3>1, StepNames, GoingWith
    <3>3. LookedUp(i)'
      BY <1>2, <2>3, <3>2 DEF LookedUp, Missing
    <3>4. Repaired(at[i].n - 1)'
      BY <1>1, <1>2, <3>2 DEF Repaired
    <3>5. Place(i)'
      <4>1. Repairing(i)'
        BY <1>1, <1>2, <2>1, <3>2, <3>3, <3>4 DEF Repairing
      <4> QED BY <3>2, <4>1 DEF Place, Revising, Making, Seeding
    <3>6. SomebodySeeds'
      BY <3>2, WillSeed
    <3> QED BY <1>2, <3>2, <3>5, <3>6, GoesOn DEF SchemaInv, SchemaTypes
  <2>5. CASE LegacyColumns[n] \notin missing
    <3>1. GoTo(i, [step |-> "repair", n |-> n + 1, absent |-> missing])
      BY <2>2, <2>5
    <3>2. Moves(i) /\ at'[i].step = "repair" /\ at'[i].n = n + 1 /\ at'[i].absent = missing
      BY <2>1, <3>1, StepNames, GoingWith
    <3>3. t \in tables => LegacyColumns[n] \in columns
      <4>1. LegacyColumns[n] \in ColumnsOf(t)
        BY <2>1, LegacyFacts DEF ColumnsOf
      <4> QED BY <2>3, <2>5, <4>1 DEF Missing
    <3>4. Repairing(i)'
      <4>1. PICK k \in 1 .. 9 : k = n
        BY <2>1
      <4>2. LegacyColumns[k][1] \in tables' =>
              LegacyColumns[k] \in columns' /\ ColumnsOf(LegacyColumns[k][1]) \ columns' \subseteq at'[i].absent
        BY <1>2, <2>3, <3>2, <3>3, <4>1 DEF Missing
      <4>3. \A m \in 1 .. k - 1 : LegacyColumns[m][1] \in tables' => LegacyColumns[m] \in columns'
        BY <1>1, <1>2, <4>1 DEF Repaired
      <4> QED BY <1>1, <1>2, <3>2, <4>1, <4>2, <4>3, NextColumn
    <3>5. Place(i)'
      BY <3>2, <3>4 DEF Place, Revising, Making, Seeding
    <3>6. SomebodySeeds'
      BY <3>2, WillSeed
    <3> QED BY <1>2, <3>2, <3>5, <3>6, GoesOn DEF SchemaInv, SchemaTypes
  <2> QED BY <2>4, <2>5
<1> QED BY <1>4, <1>5
LEMMA AddColumnStep ==
    ASSUME SchemaInv, NEW i \in Instances, AddColumn(i) PROVE SchemaInv'
<1> DEFINE n == at[i].n
           c == LegacyColumns[n]
<1>1. /\ at[i].step = "add" /\ n \in 1 .. 9 /\ Repaired(n - 1) /\ LookedUp(i)
      /\ mode = "library" => tables = AllTables
  BY DEF AddColumn, SchemaInv, Repairing
<1>2. UNCHANGED <<dialect, mode, seeded, version>> /\ c \in Range(LegacyColumns)
  BY <1>1, LegacyFacts DEF AddColumn, NoSeed, Given
<1>3. CASE c \in columns
  BY <1>2, <1>3, StopStep DEF AddColumn, NoSeed
<1>4. CASE c \notin columns
  <2>1. tables' = tables /\ columns' = columns \cup {c}
    BY <1>4 DEF AddColumn
  <2>2. CASE c[3] /\ dialect = "sqlite"
    <3>1. GoTo(i, Still(i, "add index", n)) /\ indexes' = indexes
      BY <1>4, <2>2 DEF AddColumn
    <3>2. n \in Nat
      BY <1>1
    <3>3. Moves(i) /\ at'[i].step = "add index" /\ at'[i].n = n /\ at'[i].absent = at[i].absent
      BY <3>1, <3>2, StepNames, GoingStill
    <3>4. Grows
      BY <1>2, <2>1, <3>1 DEF Grows, SchemaInv, SchemaTypes
    <3>5. WithIndexes' /\ SeedsInOrder'
      BY <1>2, <2>2 DEF WithIndexes, SeedsInOrder, SchemaInv
    <3>6. Repairing(i)'
      <4>1. Repaired(at[i].n - 1)'
        BY <1>1, <2>1, <3>3 DEF Repaired
      <4>2. LookedUp(i)'
        BY <1>1, <2>1, <3>3 DEF LookedUp, Missing
      <4>3. c \in Indexed
        BY <1>2, <2>2 DEF Indexed
      <4>4. LegacyColumns[at'[i].n] \in columns' \cap Indexed
        BY <2>1, <3>3, <4>3
      <4>5. at'[i].n \in 1 .. 9 /\ at'[i].n \in 1 .. 10
        <5>1. PICK k \in 1 .. 9 : k = n
          BY <1>1
        <5>2. at'[i].n = k
          BY <3>3, <5>1
        <5> QED BY <5>2
      <4>6. mode' = "library" => tables' = AllTables
        BY <1>1, <1>2, <2>1
      <4> QED BY <3>3, <4>1, <4>2, <4>4, <4>5, <4>6 DEF Repairing
    <3>7. Place(i)'
      BY <3>3, <3>6 DEF Place, Revising, Making, Seeding
    <3>8. SomebodySeeds'
      BY <3>3, WillSeed
    <3> QED BY <1>2, <3>3, <3>4, <3>5, <3>7, <3>8, SchemaStep DEF SchemaInv, SchemaTypes
  <2>3. CASE ~(c[3] /\ dialect = "sqlite")
    <3>1. /\ indexes' = IF c[3] THEN indexes \cup {c} ELSE indexes
          /\ GoTo(i, Still(i, "repair", n + 1))
      BY <1>4, <2>3 DEF AddColumn
    <3>2. n + 1 \in Nat
      BY <1>1
    <3>3. Moves(i) /\ at'[i].step = "repair" /\ at'[i].n = n + 1 /\ at'[i].absent = at[i].absent
      BY <3>1, <3>2, StepNames, GoingStill
    <3>4. c[3] => c \in Indexed
      BY <1>2 DEF Indexed
    <3>5. c \in Indexed => c[3]
      BY DEF Indexed
    <3>6. Grows
      BY <1>2, <2>1, <3>1, <3>4 DEF Grows, SchemaInv, SchemaTypes
    <3>7. WithIndexes' /\ SeedsInOrder'
      BY <1>2, <2>1, <3>1, <3>5 DEF WithIndexes, SeedsInOrder, SchemaInv
    <3>8. Repairing(i)'
      <4>1. PICK k \in 1 .. 9 : k = n
        BY <1>1
      <4>2. LegacyColumns[k] \in columns'
        BY <2>1, <4>1
      <4>3. LegacyColumns[k][1] \in tables' => ColumnsOf(LegacyColumns[k][1]) \ columns' \subseteq at'[i].absent
        BY <1>1, <2>1, <3>3, <4>1 DEF LookedUp, Missing
      <4>4. \A m \in 1 .. k - 1 : LegacyColumns[m][1] \in tables' => LegacyColumns[m] \in columns'
        BY <1>1, <2>1, <4>1 DEF Repaired
      <4> QED BY <1>1, <1>2, <2>1, <3>3, <4>1, <4>2, <4>3, <4>4, NextColumn
    <3>9. Place(i)'
      BY <3>3, <3>8 DEF Place, Revising, Making, Seeding
    <3>10. SomebodySeeds'
      BY <3>3, WillSeed
    <3> QED BY <1>2, <3>3, <3>6, <3>7, <3>9, <3>10, SchemaStep DEF SchemaInv, SchemaTypes
  <2> QED BY <2>2, <2>3
<1> QED BY <1>3, <1>4

LEMMA AddIndexStep ==
    ASSUME SchemaInv, NEW i \in Instances, AddIndex(i) PROVE SchemaInv'
<1> DEFINE n == at[i].n
           c == LegacyColumns[n]
<1>1. /\ at[i].step = "add index" /\ n \in 1 .. 9 /\ Repaired(n - 1) /\ LookedUp(i)
      /\ c \in columns /\ c \in Indexed
      /\ mode = "library" => tables = AllTables
  BY DEF AddIndex, SchemaInv, Repairing
<1>2. UNCHANGED <<dialect, mode, seeded, version, tables, columns>> /\ indexes' = indexes \cup {c}
  BY DEF AddIndex, NoSeed, Given
<1>3. GoTo(i, Still(i, "repair", n + 1)) /\ n + 1 \in Nat
  <2>1. n + 1 \in Nat
    <3>1. n \in 1 .. 9
      BY <1>1
    <3> QED BY <3>1
  <2>2. GoTo(i, Still(i, "repair", n + 1))
    BY DEF AddIndex
  <2> QED BY <2>1, <2>2
<1>4. Moves(i) /\ at'[i].step = "repair" /\ at'[i].n = n + 1 /\ at'[i].absent = at[i].absent
  BY <1>3, StepNames, GoingStill
<1>5. Grows
  BY <1>1, <1>2 DEF Grows, SchemaInv, SchemaTypes
<1>6. WithIndexes' /\ SeedsInOrder'
  BY <1>2 DEF WithIndexes, SeedsInOrder, SchemaInv
<1>7. Repairing(i)'
  <2>1. PICK k \in 1 .. 9 : k = n
    BY <1>1
  <2>2. LegacyColumns[k] \in columns'
    BY <1>1, <1>2, <2>1
  <2>3. LegacyColumns[k][1] \in tables' => ColumnsOf(LegacyColumns[k][1]) \ columns' \subseteq at'[i].absent
    BY <1>1, <1>2, <1>4, <2>1 DEF LookedUp, Missing
  <2>4. \A m \in 1 .. k - 1 : LegacyColumns[m][1] \in tables' => LegacyColumns[m] \in columns'
    BY <1>1, <1>2, <2>1 DEF Repaired
  <2> QED BY <1>1, <1>2, <1>4, <2>1, <2>2, <2>3, <2>4, NextColumn
<1>8. Place(i)'
  BY <1>4, <1>7 DEF Place, Revising, Making, Seeding
<1>9. SomebodySeeds'
  BY <1>4, WillSeed
<1> QED BY <1>2, <1>4, <1>5, <1>6, <1>8, <1>9, SchemaStep DEF SchemaInv, SchemaTypes

LEMMA LookForTablesStep ==
    ASSUME SchemaInv, NEW i \in Instances, LookForTables(i) PROVE SchemaInv'
<1>1. at[i].step = "create" /\ (mode # "library" => Repaired(9))
  BY DEF LookForTables, SchemaInv, Making
<1>2. UNCHANGED <<dialect, mode, tables, columns, indexes, seeded, version>>
  BY DEF LookForTables, NoTable, NoSeed, Given
<1> DEFINE a == AllTables \ tables
<1>3. GoTo(i, [step |-> "making", n |-> 1, absent |-> a])
  BY DEF LookForTables
<1> HIDE DEF a
<1>4. Moves(i) /\ at'[i].step = "making" /\ at'[i].absent = a
  BY <1>3, StepNames, GoingWith
<1>5. Making(i)'
  <2>1. mode' # "library" => Repaired(9)'
    BY <1>1, <1>2 DEF Repaired
  <2>2. a \subseteq AllTables /\ AllTables \subseteq tables' \cup a
    BY <1>2 DEF a
  <2> QED BY <1>4, <2>1, <2>2 DEF Making
<1>6. Place(i)'
  BY <1>4, <1>5 DEF Place, Revising, Repairing, Seeding
<1>7. SomebodySeeds'
  BY <1>4, WillSeed
<1> QED BY <1>2, <1>4, <1>6, <1>7, GoesOn DEF SchemaInv, SchemaTypes

LEMMA NextTables ==
    ASSUME SchemaInv, NEW i \in Instances, at[i].step = "making"
    PROVE  Next_(i) \subseteq at[i].absent /\ Next_(i) \subseteq AllTables
<1>1. at[i].absent \subseteq AllTables
  BY DEF SchemaInv, Making
<1> QED BY <1>1 DEF Next_

\* Tables made by create_all, with their columns and indexes.
LEMMA TablesGrow ==
    ASSUME SchemaInv, NEW N \in SUBSET AllTables,
           tables' = tables \cup N, columns' = columns \cup UNION {ColumnsOf(t) : t \in N},
           UNCHANGED <<dialect, mode, seeded>>,
           \/ indexes' = indexes \cup Keys(N) \cup UNION {ColumnsOf(t) \cap Indexed : t \in N}
           \/ dialect = "sqlite" /\ indexes' = indexes
    PROVE  Grows /\ WithIndexes' /\ SeedsInOrder'
<1>1. UNION {ColumnsOf(t) : t \in N} \subseteq Range(LegacyColumns)
  BY DEF ColumnsOf
<1>2. Keys(N) \subseteq Keys(AllTables) /\ Keys(tables \cup N) = Keys(tables) \cup Keys(N)
  BY DEF Keys
<1>3. UNION {ColumnsOf(t) \cap Indexed : t \in N} = (UNION {ColumnsOf(t) : t \in N}) \cap Indexed
  OBVIOUS
<1>4. indexes \subseteq indexes' /\ indexes' \subseteq Keys(AllTables) \cup Indexed
  BY <1>2, <1>3 DEF SchemaInv, SchemaTypes
<1>5. \A t \in tables' \ tables : ColumnsOf(t) \subseteq columns'
  OBVIOUS
<1>6. Grows
  BY <1>1, <1>4, <1>5 DEF Grows, SchemaInv, SchemaTypes
<1>7. WithIndexes'
  BY <1>2, <1>3 DEF WithIndexes, SchemaInv
<1>8. SeedsInOrder'
  BY DEF SeedsInOrder, SchemaInv
<1> QED BY <1>6, <1>7, <1>8

LEMMA MakeTablesStep ==
    ASSUME SchemaInv, NEW i \in Instances, MakeTables(i) PROVE SchemaInv'
<1>1. at[i].step = "making" /\ UNCHANGED <<dialect, mode, seeded, version>>
  BY DEF MakeTables, NoSeed, Given
<1>2. CASE Next_(i) \cap tables # {}
  BY <1>1, <1>2, StopStep DEF MakeTables, NoSeed
<1>3. CASE Next_(i) \cap tables = {}
  <2>1. Next_(i) \subseteq AllTables
    BY <1>1, NextTables
  <2>2. /\ tables' = tables \cup Next_(i)
        /\ columns' = columns \cup UNION {ColumnsOf(t) : t \in Next_(i)}
        /\ indexes' = indexes \cup Keys(Next_(i)) \cup UNION {ColumnsOf(t) \cap Indexed : t \in Next_(i)}
        /\ GoTo(i, [step |-> "making", n |-> 1, absent |-> at[i].absent \ Next_(i)])
    BY <1>3 DEF MakeTables
  <2>3. PICK N : N = Next_(i)
    OBVIOUS
  <2>4. Grows /\ WithIndexes' /\ SeedsInOrder'
    BY <1>1, <2>1, <2>2, <2>3, TablesGrow
  <2> DEFINE a == at[i].absent \ N
  <2>5. GoTo(i, [step |-> "making", n |-> 1, absent |-> a])
    BY <2>2, <2>3
  <2> HIDE DEF a
  <2>6. Moves(i) /\ at'[i].step = "making" /\ at'[i].absent = a
    BY <2>5, StepNames, GoingWith
  <2>7. at[i].absent \subseteq AllTables /\ AllTables \subseteq tables \cup at[i].absent
        /\ (mode # "library" => Repaired(9))
    BY <1>1 DEF SchemaInv, Making
  <2>8. Making(i)'
    <3>1. mode' # "library" => Repaired(9)'
      <4> SUFFICES ASSUME mode # "library", NEW k \in 1 .. 9, LegacyColumns[k][1] \in tables'
                   PROVE  LegacyColumns[k] \in columns'
        BY <1>1 DEF Repaired
      <4>1. LegacyColumns[k] \in ColumnsOf(LegacyColumns[k][1])
        BY LegacyFacts DEF ColumnsOf
      <4>2. LegacyColumns[k][1] \in tables \/ LegacyColumns[k][1] \in tables' \ tables
        OBVIOUS
      <4> QED BY <2>4, <2>7, <4>1, <4>2 DEF Repaired, Grows
    <3>2. a \subseteq AllTables /\ AllTables \subseteq tables' \cup a
      BY <2>2, <2>3, <2>7 DEF a
    <3> QED BY <2>6, <3>1, <3>2 DEF Making
  <2>9. Place(i)'
    BY <2>6, <2>8 DEF Place, Revising, Repairing, Seeding
  <2>10. SomebodySeeds'
    BY <2>6, WillSeed
  <2> QED BY <1>1, <2>4, <2>6, <2>9, <2>10, SchemaStep DEF SchemaInv, SchemaTypes
<1> QED BY <1>2, <1>3
LEMMA TablesMadeStep ==
    ASSUME SchemaInv, NEW i \in Instances, TablesMade(i) PROVE SchemaInv'
<1>1. /\ at[i].step = "making" /\ at[i].absent = {}
      /\ UNCHANGED <<dialect, mode, tables, columns, indexes, seeded, version>>
  BY DEF TablesMade, NoTable, NoSeed, Given
<1>2. tables = AllTables /\ (mode # "library" => Repaired(9))
  BY <1>1 DEF SchemaInv, Making, SchemaTypes
<1>3. CASE mode = "library"
  <2>1. GoTo(i, At("repair", 1))
    BY <1>3 DEF TablesMade
  <2>2. Moves(i) /\ at'[i].step = "repair" /\ at'[i].n = 1
    BY <2>1, StepNames, GoingAt
  <2>3. Repairing(i)'
    <3>1. Repaired(at[i].n - 1)'
      BY <2>2 DEF Repaired
    <3>2. at'[i].n \in 1 .. 10 /\ at'[i].n \notin 2 .. 9 /\ tables' = AllTables
      BY <1>1, <1>2, <2>2
    <3> QED BY <2>2, <3>1, <3>2 DEF Repairing
  <2>4. Place(i)'
    BY <2>2, <2>3 DEF Place, Revising, Making, Seeding
  <2>5. SomebodySeeds'
    BY <2>2, WillSeed
  <2> QED BY <1>1, <2>2, <2>4, <2>5, GoesOn DEF SchemaInv, SchemaTypes
<1>4. CASE mode # "library"
  <2>1. GoTo(i, At("stamp", 1))
    BY <1>4 DEF TablesMade
  <2>2. Moves(i) /\ at'[i].step = "stamp" /\ at'[i].n = 1
    BY <2>1, StepNames, GoingAt
  <2>3. Whole
    <3>1. ASSUME NEW c \in Range(LegacyColumns) PROVE c \in columns
      <4>1. PICK k \in 1 .. 9 : LegacyColumns[k] = c
        BY LegacyFacts
      <4>2. c[1] \in AllTables
        BY LegacyTables
      <4> QED BY <1>2, <1>4, <4>1, <4>2 DEF Repaired
    <3> QED BY <1>2, <3>1 DEF Whole, SchemaInv, SchemaTypes
  <2>4. WholeIndexes
    <3>1. Indexed \subseteq Range(LegacyColumns)
      BY DEF Indexed
    <3> QED BY <2>3, <3>1 DEF WholeIndexes, WithIndexes, Whole, SchemaInv, SchemaTypes
  <2>5. Place(i)'
    BY <1>1, <2>2, <2>3, <2>4 DEF Place, Revising, Repairing, Making, Seeding, Whole, WholeIndexes
  <2>6. SomebodySeeds'
    BY <2>2, WillSeed
  <2> QED BY <1>1, <2>2, <2>5, <2>6, GoesOn DEF SchemaInv, SchemaTypes
<1> QED BY <1>3, <1>4

LEMMA KillMakingStep ==
    ASSUME SchemaInv, NEW i \in Instances, KillMaking(i) PROVE SchemaInv'
<1>1. /\ at[i].step = "making" /\ dialect = "sqlite" /\ GoTo(i, At("down", 0))
      /\ tables' = tables \cup Next_(i)
      /\ columns' = columns \cup UNION {ColumnsOf(t) : t \in Next_(i)}
      /\ UNCHANGED <<dialect, mode, indexes, version, seeded>>
  BY DEF KillMaking, NoSeed
<1>2. PICK N : N = Next_(i)
  OBVIOUS
<1>3. N \subseteq AllTables
  BY <1>1, <1>2, NextTables
<1>4. Grows /\ WithIndexes' /\ SeedsInOrder'
  BY <1>1, <1>2, <1>3, TablesGrow
<1>5. Moves(i) /\ at'[i].step = "down"
  BY <1>1, StepNames, GoingAt
<1>6. Place(i)'
  BY <1>5 DEF Place, Revising, Repairing, Making, Seeding
<1>7. SomebodySeeds'
  BY <1>5, WillSeed
<1> QED BY <1>1, <1>4, <1>5, <1>6, <1>7, SchemaStep DEF SchemaInv, SchemaTypes

LEMMA StampStep ==
    ASSUME SchemaInv, NEW i \in Instances, Stamp(i) PROVE SchemaInv'
<1>1. /\ at[i].step = "stamp" /\ UNCHANGED <<dialect, mode, tables, columns, indexes, seeded>>
  BY DEF Stamp, NoTable, NoSeed, Given
<1>2. Whole /\ WholeIndexes
  BY <1>1 DEF SchemaInv, Making
<1>3. CASE dialect = "sqlite" /\ at[i].n = 1 /\ version = "absent"
  <2>1. version' = "empty" /\ GoTo(i, At("stamp", 2))
    BY <1>3 DEF Stamp
  <2>2. Moves(i) /\ at'[i].step = "stamp"
    BY <2>1, StepNames, GoingAt
  <2>3. Place(i)'
    BY <1>1, <1>2, <2>2 DEF Place, Revising, Repairing, Making, Seeding, Whole, WholeIndexes
  <2>4. SomebodySeeds'
    BY <2>2, WillSeed
  <2> QED BY <1>1, <2>1, <2>2, <2>3, <2>4, GoesOn
<1>4. CASE ~(dialect = "sqlite" /\ at[i].n = 1 /\ version = "absent")
  <2>1. version' = "head" /\ GoTo(i, At("seed", 1))
    BY <1>4 DEF Stamp
  <2>2. Moves(i) /\ at'[i].step = "seed" /\ at'[i].n = 1
    BY <2>1, StepNames, GoingAt
  <2>3. tables' = AllTables
    BY <1>1, <1>2 DEF Whole
  <2>4. Place(i)'
    BY <2>2, <2>3 DEF Place, Revising, Repairing, Making, Seeding
  <2>5. SomebodySeeds'
    BY <2>2, WillSeed
  <2> QED BY <1>1, <1>2, <2>1, <2>2, <2>4, <2>5, GoesOn
<1> QED BY <1>3, <1>4

LEMMA SeedFacts ==
    /\ Len(Seeds) = 3 /\ Range(Seeds) = {Seeds[1], Seeds[2], Seeds[3]}
    /\ Seeds[1] = "tenant" /\ Seeds[2] = "admin" /\ Seeds[3] = "system-audit"
    /\ \A m, n \in 1 .. 3 : Seeds[m] = Seeds[n] => m = n
<1>1. /\ Len(Seeds) = 3 /\ DOMAIN Seeds = 1 .. 3
      /\ Seeds[1] = "tenant" /\ Seeds[2] = "admin" /\ Seeds[3] = "system-audit"
  BY DEF Seeds
<1>2. \A n \in 1 .. 3 : n = 1 \/ n = 2 \/ n = 3
  OBVIOUS
<1>3. Range(Seeds) = {Seeds[1], Seeds[2], Seeds[3]}
  BY <1>1, <1>2 DEF Range
<1>4. \A m, n \in 1 .. 3 : Seeds[m] = Seeds[n] => m = n
  BY <1>1, <1>2
<1> QED BY <1>1, <1>3, <1>4

LEMMA KillStep ==
    ASSUME SchemaInv, NEW i \in Instances, Kill(i) PROVE SchemaInv'
  BY StopStep DEF Kill
LEMMA ConflictStep ==
    ASSUME SchemaInv, NEW i \in Instances, Conflict(i) PROVE SchemaInv'
  BY StopStep DEF Conflict, Given

LEMMA DowngradeStep == ASSUME SchemaInv, Downgrade PROVE SchemaInv'
<1>1. /\ tables' = {} /\ columns' = {} /\ indexes' = {} /\ version' = "empty" /\ seeded' = {}
      /\ UNCHANGED <<dialect, mode, at>> /\ \A i \in Instances : at[i].step = "down"
  BY DEF Downgrade
<1>2. SchemaTypes'
  BY <1>1 DEF SchemaInv, SchemaTypes
<1>3. WithIndexes' /\ SeedsInOrder'
  BY <1>1 DEF WithIndexes, SeedsInOrder, Keys
<1>4. SomebodySeeds'
  BY <1>1, SchemaAssumption DEF SomebodySeeds, Lost
<1>5. ASSUME NEW i \in Instances PROVE Place(i)'
  <2>1. at'[i].step = "down"
    BY <1>1
  <2> QED BY <2>1 DEF Place, Revising, Repairing, Making, Seeding
<1> QED BY <1>1, <1>2, <1>3, <1>4, <1>5 DEF SchemaInv, Place
LEMMA ProbeSeedStep ==
    ASSUME SchemaInv, NEW i \in Instances, ProbeSeed(i) PROVE SchemaInv'
<1> DEFINE n == at[i].n
           a == IF n = 1 THEN {Seeds[2]} \ seeded ELSE at[i].absent
<1>1. /\ at[i].step = "seed" /\ n \in 1 .. 4 /\ \A k \in 1 .. n - 1 : Seeds[k] \in seeded
      /\ n = 2 => Seeds[2] \in at[i].absent \cup seeded
      /\ mode # "off" => tables = AllTables
  BY DEF ProbeSeed, SchemaInv, Seeding
<1>2. UNCHANGED <<dialect, mode, tables, columns, indexes, seeded, version>>
  BY DEF ProbeSeed, NoTable, NoSeed, Given
<1>3. GoTo(i, IF n > Len(Seeds) \/ ~ {"users", "tenants"} \subseteq tables THEN At("up", 0)
              ELSE [step |-> IF Wanted(i, n) THEN "insert" ELSE "seed",
                    n |-> IF Wanted(i, n) THEN n ELSE n + 1, absent |-> a])
  BY DEF ProbeSeed
<1>4. CASE n > Len(Seeds) \/ ~ {"users", "tenants"} \subseteq tables
  <2>1. GoTo(i, At("up", 0))
    BY <1>3, <1>4
  <2>2. Moves(i) /\ at'[i].step = "up"
    BY <2>1, StepNames, GoingAt
  <2>3. Place(i)'
    BY <1>1, <1>2, <2>2 DEF Place, Revising, Repairing, Making, Seeding
  <2>4. mode # "off" => seeded = Range(Seeds)
    <3>1. SUFFICES ASSUME mode # "off" PROVE n = 4
      BY <1>1, SeedFacts DEF SchemaInv, SchemaTypes
    <3>2. {"users", "tenants"} \subseteq tables
      BY <1>1, <3>1, RevisionFacts
    <3>3. n > 3
      BY <1>4, <3>2, SeedFacts
    <3> QED BY <1>1, <3>3
  <2>5. SomebodySeeds'
    BY <1>2, <2>4 DEF SomebodySeeds
  <2> QED BY <1>2, <2>2, <2>3, <2>5, GoesOn DEF SchemaInv, SchemaTypes
<1>5. CASE ~(n > Len(Seeds) \/ ~ {"users", "tenants"} \subseteq tables)
  <2>1. GoTo(i, [step |-> IF Wanted(i, n) THEN "insert" ELSE "seed",
                 n |-> IF Wanted(i, n) THEN n ELSE n + 1, absent |-> a])
    BY <1>3, <1>5
  <2>2. n \in 1 .. 3 /\ n \in Nat /\ n + 1 \in Nat /\ n + 1 \in 1 .. 4
    <3>1. n \in 1 .. 4 /\ ~(n > 3)
      BY <1>1, <1>5, SeedFacts
    <3> QED BY <3>1
  <2>3. n # 2 => (Wanted(i, n) <=> Seeds[n] \notin seeded)
    BY DEF Wanted
  <2>4. n = 2 => (Wanted(i, n) <=> Seeds[2] \in at[i].absent)
    BY DEF Wanted
  <2>5. n <= 2 => Seeds[2] \in a \cup seeded
    BY <1>1, <2>2
  <2>6. (n = 1 => Seeds[2] \notin a \/ Seeds[2] \notin seeded) /\ (n = 2 => a = at[i].absent)
    OBVIOUS
  <2> HIDE DEF a
  <2>7. CASE Wanted(i, n)
    <3>1. GoTo(i, [step |-> "insert", n |-> n, absent |-> a])
      BY <2>1, <2>7
    <3>2. Moves(i) /\ at'[i].step = "insert" /\ at'[i].n = n /\ at'[i].absent = a
      BY <2>2, <3>1, StepNames, GoingWith
    <3>3. Seeding(i)'
      BY <1>1, <1>2, <2>2, <2>5, <3>2 DEF Seeding
    <3>4. Place(i)'
      BY <3>2, <3>3 DEF Place, Revising, Repairing, Making
    <3>5. SomebodySeeds'
      <4>1. Lost(i)' => Lost(i)
        BY <1>1, <1>2, <2>3, <2>4, <2>7, <3>2 DEF Lost
      <4>2. \A j \in Instances \ {i} : Lost(j)' => Lost(j)
        BY <1>2, <3>2 DEF Lost, Moves
      <4> QED BY <1>2, <3>2, <4>1, <4>2 DEF SomebodySeeds, SchemaInv, Moves
    <3> QED BY <1>2, <3>2, <3>4, <3>5, GoesOn DEF SchemaInv, SchemaTypes
  <2>8. CASE ~Wanted(i, n)
    <3>1. GoTo(i, [step |-> "seed", n |-> n + 1, absent |-> a])
      BY <2>1, <2>8
    <3>2. Moves(i) /\ at'[i].step = "seed" /\ at'[i].n = n + 1 /\ at'[i].absent = a
      BY <2>2, <3>1, StepNames, GoingWith
    <3>3. Seeds[n] \in seeded
      BY <1>1, <2>3, <2>4, <2>8
    <3>4. Seeding(i)'
      <4>1. \A k \in 1 .. at'[i].n - 1 : Seeds[k] \in seeded'
        <5> SUFFICES ASSUME NEW k \in 1 .. n PROVE Seeds[k] \in seeded
          BY <1>2, <2>2, <3>2
        <5>1. k = n \/ k \in 1 .. n - 1
          BY <2>2
        <5> QED BY <1>1, <3>3, <5>1
      <4>2. at'[i].n = 2 => Seeds[2] \in at'[i].absent \cup seeded'
        BY <1>2, <2>2, <2>5, <3>2
      <4>3. mode' # "off" => tables' = AllTables
        BY <1>1, <1>2
      <4> QED BY <2>2, <3>2, <4>1, <4>2, <4>3 DEF Seeding
    <3>5. Place(i)'
      BY <3>2, <3>4 DEF Place, Revising, Repairing, Making
    <3>6. SomebodySeeds'
      <4>1. ~Lost(i)'
        <5>1. at'[i].n = 2 => n = 1
          BY <2>2, <3>2
        <5> QED BY <1>2, <2>6, <3>2, <5>1 DEF Lost
      <4> QED BY <3>2, <4>1 DEF SomebodySeeds
    <3> QED BY <1>2, <3>2, <3>5, <3>6, GoesOn DEF SchemaInv, SchemaTypes
  <2> QED BY <2>7, <2>8
<1> QED BY <1>4, <1>5

LEMMA InsertSeedStep ==
    ASSUME SchemaInv, NEW i \in Instances, InsertSeed(i) PROVE SchemaInv'
<1>0. PICK n \in 1 .. 3 : n = at[i].n
  BY DEF InsertSeed, SchemaInv, Seeding
<1>1. /\ at[i].step = "insert" /\ n \in 1 .. 3 /\ \A k \in 1 .. n - 1 : Seeds[k] \in seeded
      /\ n <= 2 => Seeds[2] \in at[i].absent \cup seeded
      /\ mode # "off" => tables = AllTables
  BY <1>0 DEF InsertSeed, SchemaInv, Seeding
<1>2. UNCHANGED <<dialect, mode, tables, columns, indexes, version>>
  BY DEF InsertSeed, NoTable, Given
<1>3. CASE Seeds[n] \in seeded
  <2>1. GoTo(i, At("up", 0)) /\ seeded' = seeded
    BY <1>0, <1>3 DEF InsertSeed, NoSeed
  <2>2. Moves(i) /\ at'[i].step = "up"
    BY <2>1, StepNames, GoingAt
  <2>3. Place(i)'
    BY <1>1, <1>2, <2>2 DEF Place, Revising, Repairing, Making, Seeding
  <2>4. SomebodySeeds'
    <3>1. Lost(i)
      BY <1>0, <1>1, <1>3 DEF Lost
    <3>2. \A j \in Instances \ {i} : at'[j] = at[j] /\ (Lost(j)' => Lost(j))
      BY <2>1, <2>2 DEF Lost, Moves
    <3> QED BY <1>2, <2>1, <3>1, <3>2 DEF SomebodySeeds, SchemaInv
  <2> QED BY <1>2, <2>1, <2>2, <2>3, <2>4, GoesOn DEF SchemaInv, SchemaTypes
<1>4. CASE Seeds[n] \notin seeded
  <2>1. GoTo(i, Still(i, "seed", n + 1)) /\ seeded' = seeded \cup {Seeds[n]}
    BY <1>0, <1>4 DEF InsertSeed
  <2>2. n + 1 \in Nat /\ n + 1 \in 1 .. 4 /\ Seeds[n] \in Range(Seeds)
    <3>1. n \in 1 .. 3
      BY <1>1
    <3>2. n = 1 \/ n = 2 \/ n = 3
      BY <3>1
    <3> QED BY <3>1, <3>2, SeedFacts
  <2>3. Moves(i) /\ at'[i].step = "seed" /\ at'[i].n = n + 1 /\ at'[i].absent = at[i].absent
    BY <2>1, <2>2, StepNames, GoingStill
  <2>4. Grows
    BY <1>2, <2>1, <2>2 DEF Grows, SchemaInv, SchemaTypes
  <2>5. WithIndexes'
    BY <1>2 DEF WithIndexes, SchemaInv
  <2>6. SeedsInOrder'
    <3> SUFFICES ASSUME NEW m \in 1 .. 3, NEW k \in 1 .. 3, m < k, Seeds[k] \in seeded'
                 PROVE  Seeds[m] \in seeded'
      BY DEF SeedsInOrder
    <3>1. CASE Seeds[k] \in seeded
      BY <2>1, <3>1 DEF SchemaInv, SeedsInOrder
    <3>2. CASE Seeds[k] = Seeds[n]
      <4>1. k = n
        BY <1>1, <3>2, SeedFacts
      <4>2. m \in 1 .. n - 1
        BY <4>1
      <4> QED BY <1>1, <2>1, <4>2
    <3> QED BY <2>1, <3>1, <3>2
  <2>7. Seeding(i)'
    <3>1. \A k \in 1 .. at'[i].n - 1 : Seeds[k] \in seeded'
      <4> SUFFICES ASSUME NEW k \in 1 .. n PROVE Seeds[k] \in seeded'
        BY <2>2, <2>3
      <4>1. k = n \/ k \in 1 .. n - 1
        BY <2>2
      <4> QED BY <1>1, <2>1, <4>1
    <3>2. at'[i].n = 2 => Seeds[2] \in at'[i].absent \cup seeded'
      <4>1. at'[i].n = 2 => n <= 2
        BY <2>2, <2>3
      <4> QED BY <1>1, <2>1, <2>3, <4>1
    <3>3. mode' # "off" => tables' = AllTables
      BY <1>1, <1>2
    <3> QED BY <2>2, <2>3, <3>1, <3>2, <3>3 DEF Seeding
  <2>8. Place(i)'
    BY <2>3, <2>7 DEF Place, Revising, Repairing, Making
  <2>9. SomebodySeeds'
    <3>1. ~Lost(i)'
      <4>1. SUFFICES ASSUME at'[i].n = 2 PROVE Seeds[2] \notin seeded'
        BY <2>3 DEF Lost
      <4>2. n = 1
        BY <2>2, <2>3, <4>1
      <4>3. Seeds[2] \notin seeded
        BY <1>4, <4>2 DEF SchemaInv, SeedsInOrder
      <4> QED BY <2>1, <4>2, <4>3, SeedFacts
    <3> QED BY <2>3, <3>1 DEF SomebodySeeds
  <2> QED BY <1>2, <2>3, <2>4, <2>5, <2>6, <2>8, <2>9, SchemaStep DEF SchemaInv, SchemaTypes
<1> QED BY <1>3, <1>4

LEMMA SchemaStays == SchemaInv /\ [SchemaNext]_schemaVars => SchemaInv'
<1> SUFFICES ASSUME SchemaInv, [SchemaNext]_schemaVars PROVE SchemaInv'
  OBVIOUS
<1>1. ASSUME NEW i \in Instances, InstanceStep(i) PROVE SchemaInv'
  BY <1>1, StartStep, UpgradeNothingStep, UpgradeStep, MakeVersionTableStep, CreateTableStep,
     CreateIndexesStep, ConflictStep, ProbeColumnStep, AddColumnStep, AddIndexStep,
     LookForTablesStep, MakeTablesStep, TablesMadeStep, StampStep, ProbeSeedStep, InsertSeedStep
     DEF InstanceStep
<1>2. ASSUME NEW i \in Instances, Kill(i) \/ KillMaking(i) PROVE SchemaInv'
  BY <1>2, KillStep, KillMakingStep
<1>3. CASE UNCHANGED schemaVars
  <2>1. UNCHANGED <<dialect, mode, tables, columns, indexes, version, seeded, at>>
    BY <1>3 DEF schemaVars
  <2>2. SchemaTypes' /\ WithIndexes' /\ SeedsInOrder'
    BY <2>1 DEF SchemaInv, SchemaTypes, WithIndexes, SeedsInOrder
  <2>3. SomebodySeeds'
    BY <2>1 DEF SchemaInv, SomebodySeeds, Lost
  <2>4. Grows
    BY <2>1 DEF Grows, SchemaInv, SchemaTypes
  <2>5. \A j \in Instances : Place(j)'
    BY <2>1, <2>4, OthersStay
  <2>6. version' = "head" => Whole' /\ WholeIndexes'
    BY <2>1 DEF SchemaInv, Whole, WholeIndexes
  <2> QED BY <2>2, <2>3, <2>5, <2>6 DEF SchemaInv, Place
<1> QED BY <1>1, <1>2, <1>3, DowngradeStep DEF SchemaNext

\* However many instances start at once, and wherever they are killed, a database that is
\* stamped has every table and late column, on Postgres every index, and when all instances
\* are up the seeds are there (BootstrapIsWhole of SchemaBootstrap).
THEOREM StartsLeaveWhole == SchemaSpec => []BootstrapIsWhole
<1>1. SchemaInv => BootstrapIsWhole
  <2> SUFFICES ASSUME SchemaInv PROVE HeadIsWhole /\ SeededWhenUp
    BY DEF BootstrapIsWhole
  <2>1. HeadIsWhole
    BY DEF SchemaInv, Whole, WholeIndexes, HeadIsWhole
  <2>2. SeededWhenUp
    BY DEF SchemaInv, SomebodySeeds, SeededWhenUp
  <2> QED BY <2>1, <2>2
<1> QED BY SchemaInitially, SchemaStays, <1>1, PTL DEF SchemaSpec
-----------------------------------------------------------------------------
\* The budget.
\* The events of each day are counted, the good ones among them.
BudgetTypes ==
    /\ total \in [1 .. Days -> Nat] /\ good \in [1 .. Days -> Nat]
    /\ target.allowed \in Nat /\ target.short \in BOOLEAN

LEMMA BudgetInitially == BudgetInit => BudgetTypes
  BY BudgetAssumption DEF BudgetInit, BudgetTypes

LEMMA BudgetStays == BudgetTypes /\ [BudgetNext]_budgetVars => BudgetTypes'
<1> SUFFICES ASSUME BudgetTypes, [BudgetNext]_budgetVars PROVE BudgetTypes'
  OBVIOUS
<1>1. ASSUME NEW d \in 1 .. Days, NEW failed \in {0, 1}, Count_(d, failed) PROVE BudgetTypes'
  <2>1. /\ total' = [total EXCEPT ![d] = total[d] + 100]
        /\ good' = [good EXCEPT ![d] = good[d] + 100 - failed] /\ target' = target
    BY <1>1 DEF Count_
  <2>2. total[d] + 100 \in Nat /\ good[d] + 100 - failed \in Nat
    BY DEF BudgetTypes
  <2> QED BY <2>1, <2>2 DEF BudgetTypes
<1>2. ASSUME UNCHANGED <<total, good, target>> PROVE BudgetTypes'
  BY <1>2 DEF BudgetTypes
<1> QED BY <1>1, <1>2 DEF BudgetNext, QueryStatus, LoseStore, budgetVars

LEMMA SumType ==
    ASSUME NEW f \in [1 .. Days -> Nat] PROVE SumFunction(f) \in Nat
<1>1. IsFiniteSet(1 .. Days)
  BY BudgetAssumption, FS_Interval
<1>2. SumFunctionOnSet(f, 1 .. Days) \in Nat
  BY <1>1, SumFacts
<1> QED BY <1>2 DEF SumFunction

\* The arithmetic of the budget, for w thousandths of an event and f failures.
LEMMA BudgetArithmetic ==
    ASSUME NEW w \in Nat, NEW f \in Int, NEW short \in BOOLEAN, NEW b,
           b = IF short /\ w > 0 /\ w % 1000 = 0 THEN w \div 1000 - 1 ELSE w \div 1000
    PROVE  /\ b \in Int /\ (1000 * f > w => b - f < 0)
           /\ b - f < 0 => IF short THEN 1000 * f >= w ELSE 1000 * f > w
  OBVIOUS

\* An objective that is missed is told as breached, and one told as breached has used up
\* what it allows, for every number of events, target and window (BreachesAreTold of
\* SloBudget): the floats cost no more than the last failure that is allowed.
THEOREM MissedIsTold == BudgetSpec => BreachesAreTold
<1> DEFINE Told ==
      answer' # answer /\ answer'.reached =>
        LET allowed == SumFunction(total) * target.allowed IN
        /\ 1000 * Failures > allowed => answer'.status = "BREACHED"
        /\ answer'.status = "BREACHED" =>
             IF target.short THEN 1000 * Failures >= allowed ELSE 1000 * Failures > allowed
<1>1. ASSUME BudgetTypes, [BudgetNext]_budgetVars PROVE [Told]_budgetVars
  <2> SUFFICES ASSUME answer' # answer, answer'.reached PROVE Told
    OBVIOUS
  <2>1. PICK points : QueryStatus(points)
    BY <1>1 DEF BudgetNext, Count_, LoseStore, Unknown, budgetVars
  <2>2. answer' = Calculated(points)
    BY <2>1 DEF QueryStatus, Unknown
  <2> DEFINE n == SumFunction(total)
             w == n * target.allowed
  <2>3. n \in Nat /\ SumFunction(good) \in Nat
    BY <1>1, SumType DEF BudgetTypes
  <2>4. w \in Nat /\ Failures \in Int /\ target.short \in BOOLEAN
    BY <1>1, <2>3 DEF Failures, BudgetTypes
  <2>5. Budget(n) = IF target.short /\ w > 0 /\ w % 1000 = 0 THEN w \div 1000 - 1 ELSE w \div 1000
    BY DEF Budget
  <2>6. answer'.status = Status(Budget(n), Failures)
    BY <2>2 DEF Calculated
  <2>7. answer'.status = "BREACHED" <=> Budget(n) - Failures < 0
    BY <2>6 DEF Status
  <2> HIDE DEF w
  <2>8. /\ 1000 * Failures > w => Budget(n) - Failures < 0
        /\ Budget(n) - Failures < 0 => IF target.short THEN 1000 * Failures >= w ELSE 1000 * Failures > w
    BY <2>4, <2>5, BudgetArithmetic
  <2> QED BY <2>7, <2>8 DEF w
<1> QED BY <1>1, BudgetInitially, BudgetStays, PTL DEF BudgetSpec, BreachesAreTold
-----------------------------------------------------------------------------
\* The ranking of clusters.
\* The records that were read, and once links are set what they were made of.
TriageInv ==
    /\ records \in Seq(RecordRows)
    /\ links # Unset => links = CausalLinks /\ score \in Scores \cup {NoScore} /\ records # <<>>

LEMMA TriageInitially == TriageInit => TriageInv
  BY DEF TriageInit, TriageInv

\* While the records stay, so does what is made of them.

LEMMA TakingSame ==
    ASSUME records' = records PROVE Taking' = Taking
  BY Zenon DEF Taking, Relevant, Noise

LEMMA ClustersSame ==
    ASSUME records' = records PROVE ClusterIds' = ClusterIds
  BY Zenon DEF ClusterIds

LEMMA OrdersSame ==
    ASSUME records' = records PROVE TimeOrders' = TimeOrders
  BY TakingSame, Zenon DEF TimeOrders, Sorted

LEMMA OrderSame ==
    ASSUME records' = records PROVE TimeOrder' = TimeOrder
  BY OrdersSame, Zenon DEF TimeOrder

LEMMA TimelineSame ==
    ASSUME records' = records PROVE Timeline' = Timeline
  BY TakingSame, OrderSame, Zenon DEF Timeline

LEMMA ServiceSame ==
    ASSUME records' = records, NEW c PROVE ServiceOf(c)' = ServiceOf(c)
  BY Zenon DEF ServiceOf

LEMMA InteractionsSame ==
    ASSUME records' = records PROVE Interactions(Timeline)' = Interactions(Timeline)
  BY TimelineSame, Zenon DEF Interactions

LEMMA LinksSame ==
    ASSUME records' = records PROVE CausalLinks' = CausalLinks
<1> DEFINE line == Timeline
           found == Interactions(line)
           Of(q) == {p \in found : {line[p[1]].cluster, line[p[2]].cluster} = {q[1], q[2]}}
           D(q) == [p \in Of(q) |-> SignedDelay(line[p[1]], line[p[2]])]
           Q == {r \in ClusterIds \X ClusterIds : r[1] < r[2] /\ Cardinality(Of(r)) >= 2}
<1>2. \A c : ServiceOf(c)' = ServiceOf(c)
  BY ServiceSame
<1>3. \A c,d,e : Link(c,d,e)' = Link(c,d,e)
  BY <1>2, Zenon DEF Link
<1>4. line' = line /\ found' = found /\ ClusterIds' = ClusterIds
  BY ClustersSame, TimelineSame, InteractionsSame
<1>5. LinksOf(line, found) = {Link(q[1], q[2], D(q)) : q \in Q}
  BY DEF LinksOf
<1>6. LinksOf(line, found)' = {Link(q[1], q[2], D(q)) : q \in Q}'
  BY DEF LinksOf
<1> HIDE DEF line, found
<1>7. \A q : Of(q)' = Of(q)
  BY <1>4
<1>8. \A q : D(q)' = D(q)
  BY <1>4
<1> HIDE DEF Of, D
<1>9. Q' = Q
  BY <1>4, <1>7
<1>10. {Link(q[1], q[2], D(q)) : q \in Q}' = {Link(q[1], q[2], D(q)) : q \in Q}
  BY <1>9, <1>8, <1>3
<1> QED BY <1>4, <1>5, <1>6, <1>10 DEF CausalLinks, line, found

LEMMA TriageStays == TriageInv /\ [TriageNext]_triageVars => TriageInv'
<1> SUFFICES ASSUME TriageInv, [TriageNext]_triageVars PROVE TriageInv'
  OBVIOUS
<1>1. ASSUME NEW r \in RecordRows, ReadRecord(r) PROVE TriageInv'
  <2>1. records' = Append(records, r) /\ links' = Unset
    BY <1>1 DEF ReadRecord
  <2>2. Append(records, r) \in Seq(RecordRows)
    BY DEF TriageInv
  <2>3. Unset' = Unset
    BY DEF Unset, Noise
  <2> QED BY <2>1, <2>2, <2>3 DEF TriageInv
<1>2. ASSUME NEW d \in Scores \cup {NoScore}, NEW k \in Keywords, ScoreClusters(d, k) PROVE TriageInv'
  <2>1. records' = records /\ links' = CausalLinks /\ score' = d /\ records # <<>>
    BY <1>2 DEF ScoreClusters
  <2>2. CausalLinks' = CausalLinks
    BY <2>1, LinksSame DEF Unset, Noise
  <2> QED BY <2>1, <2>2 DEF TriageInv
<1>3. ASSUME UNCHANGED triageVars PROVE TriageInv'
  <2>1. records' = records /\ links' = links /\ score' = score
    BY <1>3 DEF triageVars
  <2>2. CausalLinks' = CausalLinks /\ Unset' = Unset
    BY <2>1, LinksSame DEF Unset, Noise
  <2> QED BY <2>1, <2>2 DEF TriageInv
<1> QED BY <1>1, <1>2, <1>3 DEF TriageNext

\* What is read of a record.
LEMMA ReadFacts ==
    ASSUME records \in Seq(RecordRows)
    PROVE  /\ Len(records) \in Nat
           /\ \A n \in 1 .. Len(records) :
                 /\ records[n] \in RecordRows /\ records[n].time \in Nat
                 /\ records[n].cluster \in Nat \cup {-1}
           /\ IsFiniteSet(Taking) /\ Taking \subseteq 1 .. Len(records)
           /\ IsFiniteSet(ClusterIds) /\ ClusterIds \subseteq Nat \cup {-1}
<1>1. Len(records) \in Nat /\ \A n \in 1 .. Len(records) : records[n] \in RecordRows
  OBVIOUS
<1>2. IsFiniteSet(1 .. Len(records))
  BY <1>1, FS_Interval
<1>3. IsFiniteSet(Taking) /\ Taking \subseteq 1 .. Len(records)
  <2>1. Taking \subseteq 1 .. Len(records)
    BY DEF Taking
  <2> QED BY <2>1, <1>2, FS_Subset
<1>4. IsFiniteSet(ClusterIds)
  <2> DEFINE f == [n \in 1 .. Len(records) |-> records[n].cluster]
  <2>1. ClusterIds = {f[n] : n \in 1 .. Len(records)}
    BY DEF ClusterIds
  <2> HIDE DEF f
  <2> QED BY <2>1, <1>2, ImageIsFinite
<1>5. \A n \in 1 .. Len(records) : records[n].time \in Nat /\ records[n].cluster \in Nat \cup {-1}
  BY <1>1, TriageAssumption
<1> QED BY <1>1, <1>3, <1>4, <1>5 DEF ClusterIds

\* The timeline lists the records that take part, each once, by time.
LEMMA TimelineFacts ==
    ASSUME records \in Seq(RecordRows), NEW STATE o, o = TimeOrder, NEW STATE N, N = Cardinality(Taking)
    PROVE  /\ N \in Nat /\ o \in [1 .. N -> Taking]
           /\ \A i, j \in 1 .. N : o[i] = o[j] => i = j
           /\ \A n \in Taking : \E i \in 1 .. N : o[i] = n
           /\ \A i, j \in 1 .. N : i < j => records[o[i]].time <= records[o[j]].time
           /\ Len(Timeline) = N /\ \A i \in 1 .. N : Timeline[i] = records[o[i]]
<1> DEFINE time == [n \in Taking |-> records[n].time]
<1>1. IsFiniteSet(Taking) /\ \A n \in Taking : time[n] \in Nat
  BY ReadFacts
<1>2. PICK q \in [1 .. Cardinality(Taking) -> Taking] :
        \A i, j \in DOMAIN q : i < j => q[i] # q[j] /\ time[q[i]] <= time[q[j]]
  <2> HIDE DEF time
  <2> QED BY <1>1, InOrderOf
<1>3. Sorted(q)
  BY <1>2 DEF Sorted
<1>4. o \in [1 .. N -> Taking] /\ Sorted(o)
  BY <1>3 DEF TimeOrder, TimeOrders
<1>5. N \in Nat
  BY <1>1, FS_CardinalityType
<1>6. \A i, j \in 1 .. N : i < j => o[i] # o[j] /\ records[o[i]].time <= records[o[j]].time
  BY <1>4 DEF Sorted
<1>7. \A i, j \in 1 .. N : o[i] = o[j] => i = j
  BY <1>5, <1>6
<1>8. \A n \in Taking : \E i \in 1 .. N : o[i] = n
  <2>1. o \in Injection(1 .. N, Taking)
    BY <1>4, <1>7 DEF Injection, IsInjective
  <2>2. IsFiniteSet(1 .. N) /\ Cardinality(1 .. N) = N
    BY <1>5, UpToIsFinite
  <2> DEFINE I == 1 .. N
  <2> HIDE DEF I
  <2>3. o \in Surjection(I, Taking)
    BY <2>1, <2>2, <1>1, FS_Injection DEF I
  <2> QED BY <2>3 DEF Surjection, I
<1>9. Len(Timeline) = N /\ \A i \in 1 .. N : Timeline[i] = records[o[i]]
  <2>1. Timeline = [i \in 1 .. N |-> records[o[i]]]
    BY DEF Timeline
  <2>2. \A i \in 1 .. N : records[o[i]] \in RecordRows
    BY <1>4, ReadFacts
  <2>3. Timeline \in Seq(RecordRows) /\ DOMAIN Timeline = 1 .. N
    <3> DEFINE line == Timeline
               R == RecordRows
    <3>1. line \in [1 .. N -> R]
      BY <2>1, <2>2
    <3> HIDE DEF line, R
    <3> QED BY <3>1, <1>5, SeqDef DEF line, R
  <2>4. Len(Timeline) = N
    BY <2>3, <1>5, LenProperties
  <2> QED BY <2>1, <2>4
<1> QED BY <1>4, <1>5, <1>6, <1>7, <1>8, <1>9
\* What the window finds of two clusters: positions of the timeline, and their delays.
Meetings(c, d) ==
    {p \in Interactions(Timeline) : {Timeline[p[1]].cluster, Timeline[p[2]].cluster} = {c, d}}
Delays(c, d) == [p \in Meetings(c, d) |-> SignedDelay(Timeline[p[1]], Timeline[p[2]])]

\* What the window finds of two clusters, against the pairs of their records: the pairs of
\* positions are as many as the pairs of records, and those where one leads as many too.
LEMMA WindowFindsPairs ==
    ASSUME records \in Seq(RecordRows), NEW c \in Nat, NEW d \in Nat, c < d
    PROVE  LET delay == Delays(c, d) IN
           /\ IsFiniteSet(Meetings(c, d)) /\ Cardinality(Meetings(c, d)) = Cardinality(Pairs(c, d))
           /\ IsFiniteSet(Pairs(c, d)) 
           /\ Cardinality({p \in DOMAIN delay : delay[p] > 0}) = Leads(c, d)
           /\ Cardinality({p \in DOMAIN delay : delay[p] < 0}) = Leads(d, c)
<1> DEFINE line == Timeline
           A == Meetings(c, d)
           delay == Delays(c, d)
           o == TimeOrder
           N == Cardinality(Taking)
           B == Pairs(c, d)
<1>1. /\ N \in Nat /\ o \in [1 .. N -> Taking]
      /\ \A i, j \in 1 .. N : o[i] = o[j] => i = j
      /\ \A n \in Taking : \E i \in 1 .. N : o[i] = n
      /\ \A i, j \in 1 .. N : i < j => records[o[i]].time <= records[o[j]].time
      /\ Len(line) = N /\ \A i \in 1 .. N : line[i] = records[o[i]]
  BY TimelineFacts
<1>2. \A n \in Taking : /\ n \in 1 .. Len(records) /\ records[n].time \in Nat /\ records[n].time > 0
                        /\ records[n].cluster \in Nat /\ Relevant(records[n])
  BY ReadFacts DEF Taking, Relevant, Noise
<1> HIDE DEF o, N, line, A, delay
<1>3. \A i \in 1 .. N : o[i] \in Taking
  BY <1>1
<1>4. IsFiniteSet(A)
  <2>3. N \in Int
    BY <1>1
  <2>0. IsFiniteSet(1 .. N)
    BY <2>3, FS_Interval
  <2>1. IsFiniteSet((1 .. N) \X (1 .. N))
    BY <2>0, FS_Product
  <2>2. A \subseteq (1 .. N) \X (1 .. N)
    BY <1>1 DEF Interactions, A, Meetings, line
  <2> QED BY <2>1, <2>2, FS_Subset
<1>5. ASSUME NEW p
      PROVE  p \in A <=>
               /\ p \in (1 .. N) \X (1 .. N) /\ p[1] < p[2]
               /\ records[o[p[2]]].time - records[o[p[1]]].time <= CausalWindow
               /\ records[o[p[1]]].service # records[o[p[2]]].service
               /\ \/ records[o[p[1]]].cluster = c /\ records[o[p[2]]].cluster = d
                  \/ records[o[p[1]]].cluster = d /\ records[o[p[2]]].cluster = c
  <2>1. p \in A <=> /\ p \in (1 .. N) \X (1 .. N) /\ p[1] < p[2] /\ InWindow(line[p[1]], line[p[2]])
                    /\ line[p[1]].cluster # line[p[2]].cluster /\ line[p[1]].service # line[p[2]].service
                    /\ {line[p[1]].cluster, line[p[2]].cluster} = {c, d}
    BY <1>1 DEF Interactions, A, Meetings, line
  <2>2. p \in (1 .. N) \X (1 .. N) => line[p[1]] = records[o[p[1]]] /\ line[p[2]] = records[o[p[2]]]
    BY <1>1
  <2>3. p \in (1 .. N) \X (1 .. N) =>
          ((line[p[1]].cluster # line[p[2]].cluster /\ {line[p[1]].cluster, line[p[2]].cluster} = {c, d})
           <=> \/ line[p[1]].cluster = c /\ line[p[2]].cluster = d
               \/ line[p[1]].cluster = d /\ line[p[2]].cluster = c)
    <3> DEFINE x == line[p[1]].cluster
               y == line[p[2]].cluster
    <3> HIDE DEF x, y
    <3>1. (x # y /\ {x, y} = {c, d}) <=> (x = c /\ y = d) \/ (x = d /\ y = c)
      OBVIOUS
    <3> QED BY <3>1 DEF x, y
  <2> QED BY <2>1, <2>2, <2>3 DEF InWindow
<1>6. ASSUME NEW q
      PROVE  q \in B <=>
               /\ q \in (1 .. Len(records)) \X (1 .. Len(records))
               /\ records[q[1]].cluster = c /\ records[q[2]].cluster = d
               /\ records[q[1]].time > 0 /\ records[q[2]].time > 0
               /\ records[q[1]].service # records[q[2]].service
               /\ records[q[1]].time - records[q[2]].time <= CausalWindow
               /\ records[q[2]].time - records[q[1]].time <= CausalWindow
  BY DEF Pairs
<1> DEFINE f == [p \in A |-> IF records[o[p[1]]].cluster = c THEN <<o[p[1]], o[p[2]]>>
                             ELSE <<o[p[2]], o[p[1]]>>]
<1>7. ASSUME NEW p \in A
      PROVE  /\ p[1] \in 1 .. N /\ p[2] \in 1 .. N /\ p[1] < p[2] /\ p = <<p[1], p[2]>>
             /\ o[p[1]] \in Taking /\ o[p[2]] \in Taking
             /\ records[o[p[1]]].time <= records[o[p[2]]].time
  <2>1. p \in (1 .. N) \X (1 .. N) /\ p[1] < p[2]
    BY <1>5
  <2>2. p[1] \in 1 .. N /\ p[2] \in 1 .. N /\ p = <<p[1], p[2]>>
    BY <2>1
  <2> QED BY <2>1, <2>2, <1>1, <1>3
<1> HIDE DEF B
<1>8. f \in [A -> B]
  <2> SUFFICES ASSUME NEW p \in A PROVE f[p] \in B
    OBVIOUS
  <2> DEFINE m == o[p[1]]
             n == o[p[2]]
  <2>1. /\ m \in Taking /\ n \in Taking /\ records[m].time <= records[n].time
        /\ records[n].time - records[m].time <= CausalWindow
        /\ records[m].service # records[n].service
        /\ \/ records[m].cluster = c /\ records[n].cluster = d
           \/ records[m].cluster = d /\ records[n].cluster = c
    BY <1>5, <1>7
  <2>2. records[m].time - records[n].time <= CausalWindow
    BY <2>1, <1>2, TriageAssumption
  <2>3. f[p] = IF records[m].cluster = c THEN <<m, n>> ELSE <<n, m>>
    OBVIOUS
  <2> HIDE DEF m, n, f
  <2> QED BY <2>1, <2>2, <2>3, <1>2, <1>6
<1>9. \A p, q \in A : f[p] = f[q] => p = q
  <2> SUFFICES ASSUME NEW p \in A, NEW q \in A, f[p] = f[q] PROVE p = q
    OBVIOUS
  <2>1. \/ o[p[1]] = o[q[1]] /\ o[p[2]] = o[q[2]]
        \/ o[p[1]] = o[q[2]] /\ o[p[2]] = o[q[1]]
    OBVIOUS
  <2>2. /\ p[1] \in 1 .. N /\ p[2] \in 1 .. N /\ p[1] < p[2] /\ p = <<p[1], p[2]>>
        /\ q[1] \in 1 .. N /\ q[2] \in 1 .. N /\ q[1] < q[2] /\ q = <<q[1], q[2]>>
    BY <1>7
  <2> HIDE DEF f
  <2>3. \/ p[1] = q[1] /\ p[2] = q[2]
        \/ p[1] = q[2] /\ p[2] = q[1]
    BY <2>1, <2>2, <1>1
  <2>4. p[1] = q[1] /\ p[2] = q[2]
    BY <2>2, <2>3, <1>1
  <2> QED BY <2>2, <2>4
<1>10. \A y \in B : \E p \in A : f[p] = y
  <2> SUFFICES ASSUME NEW y \in B PROVE \E p \in A : f[p] = y
    OBVIOUS
  <2>1. /\ y[1] \in Taking /\ y[2] \in Taking /\ y = <<y[1], y[2]>>
        /\ records[y[1]].cluster = c /\ records[y[2]].cluster = d
        /\ records[y[1]].service # records[y[2]].service
        /\ records[y[1]].time - records[y[2]].time <= CausalWindow
        /\ records[y[2]].time - records[y[1]].time <= CausalWindow
    BY <1>6 DEF Taking, Relevant, Noise
  <2>2. PICK i \in 1 .. N : o[i] = y[1]
    BY <2>1, <1>1
  <2>3. PICK j \in 1 .. N : o[j] = y[2]
    BY <2>1, <1>1
  <2>4. i # j
    BY <2>1, <2>2, <2>3
  <2>5. CASE i < j
    <3>1. <<i, j>> \in A
      BY <2>1, <2>2, <2>3, <2>5, <1>5
    <3>2. f[<<i, j>>] = y
      BY <3>1, <2>1, <2>2, <2>3
    <3> QED BY <3>1, <3>2
  <2>6. CASE j < i
    <3>1. <<j, i>> \in A
      BY <2>1, <2>2, <2>3, <2>6, <1>5
    <3>2. records[o[j]].cluster # c
      BY <2>1, <2>3
    <3>3. f[<<j, i>>] = y
      BY <3>1, <3>2, <2>1, <2>2, <2>3
    <3> QED BY <3>1, <3>3
  <2> QED BY <2>4, <2>5, <2>6, <1>1
<1>11. f \in Bijection(A, B)
  <2> HIDE DEF f
  <2> QED BY <1>8, <1>9, <1>10 DEF Bijection, Injection, Surjection, IsInjective
<1> HIDE DEF f
<1>20. IsFiniteSet(B) /\ Cardinality(A) = Cardinality(B)
  <2>1. Takes(f, A, B, A, B)
    BY <1>8, <1>11 DEF Takes
  <2> QED BY <2>1, <1>4, SameCount
<1>12. ASSUME NEW p \in A
       PROVE  /\ delay[p] > 0 <=> records[f[p][1]].time < records[f[p][2]].time
              /\ delay[p] < 0 <=> records[f[p][2]].time < records[f[p][1]].time
  <2> DEFINE m == o[p[1]]
             n == o[p[2]]
  <2>1. /\ m \in Taking /\ n \in Taking /\ records[m].time <= records[n].time
        /\ \/ records[m].cluster = c /\ records[n].cluster = d
           \/ records[m].cluster = d /\ records[n].cluster = c
    BY <1>5, <1>7
  <2>2. f[p] = IF records[m].cluster = c THEN <<m, n>> ELSE <<n, m>>
    BY DEF f
  <2>3. delay[p] = SignedDelay(records[m], records[n])
    BY <1>7, <1>1 DEF delay, Delays, A, line
  <2>4. records[m].time \in Nat /\ records[n].time \in Nat
    BY <2>1, <1>2
  <2> HIDE DEF m, n
  <2>5. SignedDelay(records[m], records[n]) =
          IF records[m].cluster < records[n].cluster THEN records[n].time - records[m].time
          ELSE records[m].time - records[n].time
    BY DEF SignedDelay
  <2>6. CASE records[m].cluster = c /\ records[n].cluster = d
    <3>1. f[p] = <<m, n>>
      BY <2>2, <2>6
    <3>2. delay[p] = records[n].time - records[m].time
      BY <2>3, <2>5, <2>6
    <3> QED BY <3>1, <3>2, <2>4
  <2>7. CASE records[m].cluster = d /\ records[n].cluster = c
    <3>1. f[p] = <<n, m>>
      BY <2>2, <2>7
    <3>2. delay[p] = records[m].time - records[n].time
      BY <2>3, <2>5, <2>7
    <3> QED BY <3>1, <3>2, <2>4
  <2> QED BY <2>1, <2>6, <2>7
<1> DEFINE First == {q \in B : records[q[1]].time < records[q[2]].time}
           Second == {q \in B : records[q[2]].time < records[q[1]].time}
<1>13. /\ Cardinality({p \in A : delay[p] > 0}) = Cardinality(First)
       /\ Cardinality({p \in A : delay[p] < 0}) = Cardinality(Second)
       /\ IsFiniteSet(Second)
  <2> DEFINE C1 == {p \in A : delay[p] > 0}
             C2 == {p \in A : delay[p] < 0}
  <2>1. Takes(f, A, B, C1, First)
    BY <1>8, <1>11, <1>12 DEF Takes
  <2>2. Takes(f, A, B, C2, Second)
    BY <1>8, <1>11, <1>12 DEF Takes
  <2> HIDE DEF C1, C2, First, Second
  <2>3. Cardinality(C1) = Cardinality(First)
    BY <2>1, <1>4, SameCount
  <2>4. Cardinality(C2) = Cardinality(Second) /\ IsFiniteSet(Second)
    BY <2>2, <1>4, SameCount
  <2> QED BY <2>3, <2>4 DEF C1, C2
<1>14. Leads(c, d) = Cardinality(First)
  BY DEF Leads, B
<1>15. Leads(d, c) = Cardinality(Second)
  <2> DEFINE Third == {q \in Pairs(d, c) : records[q[1]].time < records[q[2]].time}
             g == [q \in Second |-> <<q[2], q[1]>>]
  <2>1. \A q : q \in B => q = <<q[1], q[2]>> /\ <<q[2], q[1]>> \in Pairs(d, c)
    BY DEF Pairs, B
  <2>2. \A q : q \in Pairs(d, c) => q = <<q[1], q[2]>> /\ <<q[2], q[1]>> \in B
    BY DEF Pairs, B
  <2>3. g \in [Second -> Third]
    BY <2>1
  <2>4. \A p, q \in Second : g[p] = g[q] => p = q
    <3> SUFFICES ASSUME NEW p \in Second, NEW q \in Second, g[p] = g[q] PROVE p = q
      OBVIOUS
    <3>1. p[1] = q[1] /\ p[2] = q[2]
      OBVIOUS
    <3> QED BY <3>1, <2>1
  <2>5. \A y \in Third : \E q \in Second : g[q] = y
    <3> SUFFICES ASSUME NEW y \in Third PROVE \E q \in Second : g[q] = y
      OBVIOUS
    <3>1. y = <<y[1], y[2]>> /\ <<y[2], y[1]>> \in Second
      BY <2>2
    <3>2. g[<<y[2], y[1]>>] = y
      BY <3>1
    <3> QED BY <3>1, <3>2
  <2> HIDE DEF g, Third, Second
  <2>8. g \in Bijection(Second, Third)
    BY <2>3, <2>4, <2>5 DEF Bijection, Injection, Surjection, IsInjective
  <2>6. Takes(g, Second, Third, Second, Third)
    BY <2>3, <2>8 DEF Takes
  <2>7. Cardinality(Second) = Cardinality(Third)
    BY <2>6, <1>13, SameCount
  <2> QED BY <2>7 DEF Leads, Third
<1>16. DOMAIN delay = A
  BY DEF delay, Delays, A
<1> QED BY <1>4, <1>20, <1>13, <1>14, <1>15, <1>16 DEF B, A, delay
\* The pairs of clusters that meet twice, and the links these make.
Meeting == {r \in ClusterIds \X ClusterIds : r[1] < r[2] /\ Cardinality(Meetings(r[1], r[2])) >= 2}
LinkOf(q) == Link(q[1], q[2], Delays(q[1], q[2]))

LEMMA LinksAre ==
    CausalLinks = IF Cardinality(ClusterIds) < 2 THEN {} ELSE {LinkOf(q) : q \in Meeting}
<1> DEFINE line == Timeline
           found == Interactions(line)
           Of(q) == {p \in found : {line[p[1]].cluster, line[p[2]].cluster} = {q[1], q[2]}}
           D(q) == [p \in Of(q) |-> SignedDelay(line[p[1]], line[p[2]])]
           Q == {r \in ClusterIds \X ClusterIds : r[1] < r[2] /\ Cardinality(Of(r)) >= 2}
<1>1. LinksOf(line, found) = {Link(q[1], q[2], D(q)) : q \in Q}
  BY DEF LinksOf
<1>2. \A q : Of(q) = Meetings(q[1], q[2])
  BY DEF Meetings
<1>3. \A q : D(q) = Delays(q[1], q[2])
  BY DEF Meetings, Delays
<1> HIDE DEF Of, D
<1>4. Q = Meeting
  BY <1>2 DEF Meeting
<1>5. LinksOf(line, found) = {LinkOf(q) : q \in Meeting}
  BY <1>1, <1>3, <1>4 DEF LinkOf
<1> QED BY <1>5 DEF CausalLinks

\* A link says which two clusters met and how often, and points from the one that leads.
LEMMA LinkFacts ==
    ASSUME NEW q
    PROVE  /\ {LinkOf(q).source, LinkOf(q).target} = {q[1], q[2]}
           /\ LinkOf(q).source \in {q[1], q[2]}
           /\ LinkOf(q).occurrences = Cardinality(Meetings(q[1], q[2]))
           /\ LET delay == Delays(q[1], q[2])
                  forward == Cardinality({p \in DOMAIN delay : delay[p] > 0})
                                >= Cardinality({p \in DOMAIN delay : delay[p] < 0}) IN
              /\ forward => LinkOf(q).source = q[1] /\ LinkOf(q).target = q[2]
              /\ ~forward => LinkOf(q).source = q[2] /\ LinkOf(q).target = q[1]
<1>1. DOMAIN Delays(q[1], q[2]) = Meetings(q[1], q[2])
  BY DEF Delays
<1> QED BY <1>1 DEF LinkOf, Link

LEMMA Coincide ==
    ASSUME TriageInv, links # Unset,
           NEW c \in ClusterIds \ {Noise}, NEW d \in ClusterIds \ {Noise}, c < d
    PROVE  LET between == {l \in links : {l.source, l.target} = {c, d}} IN
           IF Cardinality(Pairs(c, d)) < 2 THEN between = {}
           ELSE /\ Cardinality(between) = 1
                /\ \A l \in between :
                     /\ l.occurrences = Cardinality(Pairs(c, d))
                     /\ Leads(l.source, l.target) >= Leads(l.target, l.source)
<1> DEFINE between == {l \in links : {l.source, l.target} = {c, d}}
           q == <<c, d>>
           L == LinkOf(q)
           delay == Delays(c, d)
<1>1. records \in Seq(RecordRows) /\ links = CausalLinks
  BY DEF TriageInv
<1>2. IsFiniteSet(ClusterIds) /\ ClusterIds \subseteq Nat \cup {-1} /\ c \in Nat /\ d \in Nat
  BY <1>1, ReadFacts DEF Noise
<1>3. Cardinality(ClusterIds) >= 2
  <2>1. IsFiniteSet({c}) /\ Cardinality({c}) = 1
    BY FS_Singleton
  <2>2. Cardinality({c} \cup {d}) = 2
    BY <2>1, <1>2, FS_AddElement
  <2>3. {c} \cup {d} \subseteq ClusterIds
    OBVIOUS
  <2>4. Cardinality({c} \cup {d}) <= Cardinality(ClusterIds)
    BY <2>3, <1>2, FS_Subset
  <2>5. Cardinality(ClusterIds) \in Nat
    BY <1>2, FS_CardinalityType
  <2> QED BY <2>2, <2>4, <2>5
<1>4. links = {LinkOf(r) : r \in Meeting}
  <2>1. ~(Cardinality(ClusterIds) < 2)
    BY <1>3, <1>2, FS_CardinalityType
  <2> QED BY <1>1, <2>1, LinksAre
<1>5. /\ IsFiniteSet(Meetings(c, d)) /\ Cardinality(Meetings(c, d)) = Cardinality(Pairs(c, d))
      /\ IsFiniteSet(Pairs(c, d))
      /\ Cardinality({p \in DOMAIN delay : delay[p] > 0}) = Leads(c, d)
      /\ Cardinality({p \in DOMAIN delay : delay[p] < 0}) = Leads(d, c)
  BY <1>1, <1>2, WindowFindsPairs
<1>6. Leads(c, d) \in Nat /\ Leads(d, c) \in Nat /\ Cardinality(Pairs(c, d)) \in Nat
  <2>1. DOMAIN delay = Meetings(c, d)
    BY DEF Delays
  <2> DEFINE S == {p \in DOMAIN delay : delay[p] > 0}
             T == {p \in DOMAIN delay : delay[p] < 0}
  <2>2. S \subseteq Meetings(c, d) /\ T \subseteq Meetings(c, d)
    BY <2>1
  <2> HIDE DEF S, T
  <2>3. IsFiniteSet(S) /\ IsFiniteSet(T)
    BY <2>2, <1>5, FS_Subset
  <2>4. Cardinality(S) \in Nat /\ Cardinality(T) \in Nat /\ Cardinality(Pairs(c, d)) \in Nat
    BY <2>3, <1>5, FS_CardinalityType
  <2> QED BY <2>4, <1>5 DEF S, T
<1>7. ASSUME NEW l \in between PROVE l = L /\ Cardinality(Pairs(c, d)) >= 2
  <2>1. PICK r \in Meeting : l = LinkOf(r)
    BY <1>4
  <2>2. {r[1], r[2]} = {c, d}
    BY <2>1, LinkFacts
  <2>3. r \in ClusterIds \X ClusterIds /\ r[1] < r[2] /\ Cardinality(Meetings(r[1], r[2])) >= 2
    BY DEF Meeting
  <2>4. r[1] \in Int /\ r[2] \in Int /\ r = <<r[1], r[2]>>
    <3>1. r[1] \in ClusterIds /\ r[2] \in ClusterIds /\ r = <<r[1], r[2]>>
      BY <2>3
    <3>2. \A k \in ClusterIds : k \in Int
      BY <1>2
    <3> QED BY <3>1, <3>2
  <2>5. r[1] = c /\ r[2] = d
    <3> DEFINE x == r[1]
               y == r[2]
    <3>1. x \in Int /\ y \in Int /\ x < y /\ {x, y} = {c, d}
      BY <2>2, <2>3, <2>4
    <3> HIDE DEF x, y
    <3>2. x = c /\ y = d
      BY <3>1, <1>2
    <3> QED BY <3>2 DEF x, y
  <2> QED BY <2>1, <2>3, <2>4, <2>5, <1>5
<1>8. L.occurrences = Cardinality(Pairs(c, d)) /\ Leads(L.source, L.target) >= Leads(L.target, L.source)
      /\ {L.source, L.target} = {c, d}
  <2>1. q[1] = c /\ q[2] = d
    OBVIOUS
  <2> HIDE DEF q
  <2>2. CASE Leads(c, d) >= Leads(d, c)
    <3>1. L.source = c /\ L.target = d
      BY <2>1, <2>2, <1>5, LinkFacts
    <3> QED BY <3>1, <2>1, <2>2, <1>5, LinkFacts
  <2>3. CASE ~(Leads(c, d) >= Leads(d, c))
    <3>1. L.source = d /\ L.target = c
      BY <2>1, <2>3, <1>5, LinkFacts
    <3>2. Leads(d, c) >= Leads(c, d)
      BY <2>3, <1>6
    <3> QED BY <3>1, <3>2, <2>1, <1>5, LinkFacts
  <2> QED BY <2>2, <2>3
<1>9. ASSUME ~(Cardinality(Pairs(c, d)) < 2) PROVE between = {L}
  <2>1. q \in Meeting
    BY <1>9, <1>5, <1>6 DEF Meeting
  <2>2. L \in links
    BY <2>1, <1>4
  <2> HIDE DEF L
  <2> QED BY <2>2, <1>7, <1>8
<1>10. Cardinality({L}) = 1
  BY FS_Singleton
<1> HIDE DEF L
<1>11. CASE Cardinality(Pairs(c, d)) < 2
  <2>1. between = {}
    BY <1>7, <1>6, <1>11
  <2> QED BY <2>1, <1>11
<1>12. CASE ~(Cardinality(Pairs(c, d)) < 2)
  <2>1. between = {L}
    BY <1>9, <1>12
  <2> QED BY <2>1, <1>8, <1>10, <1>12
<1> QED BY <1>11, <1>12
\* The signals lie between 0 and 100.
LEMMA AnomalyFacts ==
    /\ AnomalySignal(NoScore) = 50
    /\ \A d \in Scores : AnomalySignal(d) \in 0 .. 100
    /\ \A d, e \in Scores : e >= d => AnomalySignal(e) >= AnomalySignal(d)
<1>1. AnomalySignal(NoScore) = 50
  BY DEF AnomalySignal
<1>2. ASSUME NEW d \in Scores
      PROVE  /\ AnomalySignal(d) = Clamp(d + Boost(d))
             /\ Boost(d) = IF d >= Thresholds.high THEN 15 ELSE IF d >= Thresholds.medium THEN 5
                           ELSE IF d >= Thresholds.low THEN 0 ELSE -10
  <2>1. d # NoScore
    BY TriageAssumption
  <2>2. Boost(d) = IF d >= Thresholds.high THEN 15 ELSE IF d >= Thresholds.medium THEN 5
                   ELSE IF d >= Thresholds.low THEN 0 ELSE -10
    BY DEF Boost, Label
  <2> QED BY <2>1, <2>2 DEF AnomalySignal
<1>3. ASSUME NEW n \in Int, NEW m \in Int PROVE Clamp(n) \in 0 .. 100 /\ (m >= n => Clamp(m) >= Clamp(n))
  BY DEF Clamp
<1>4. \A d \in Scores : d \in Int
  BY TriageAssumption
<1>5. Thresholds.low \in Int /\ Thresholds.medium \in Int /\ Thresholds.high \in Int
      /\ Thresholds.low < Thresholds.medium /\ Thresholds.medium < Thresholds.high
  BY TriageAssumption
<1>6. \A d \in Scores : d + Boost(d) \in Int
  BY <1>2, <1>4
<1>7. ASSUME NEW d \in Scores, NEW e \in Scores, e >= d PROVE e + Boost(e) >= d + Boost(d)
  BY <1>2, <1>4, <1>5, <1>7
<1>8. \A d \in Scores : AnomalySignal(d) \in 0 .. 100
  BY <1>2, <1>3, <1>6
<1>9. ASSUME NEW d \in Scores, NEW e \in Scores, e >= d PROVE AnomalySignal(e) >= AnomalySignal(d)
  BY <1>2, <1>3, <1>6, <1>7, <1>9
<1> QED BY <1>1, <1>8, <1>9

LEMMA OtherSignals ==
    /\ \A n, all : VolumeSignal(n, all) \in 0 .. 100
    /\ \A n, many \in Nat : CausalSignal(n, many) \in 0 .. 100
    /\ \A many \in Nat : CausalSignal(0, many) = 0
    /\ \A k : KeywordSignal(k) \in {0, 50, 100} /\ (k # "P0" => KeywordSignal(k) \in {0, 50})
    /\ \A j, k : Worse(j, k) => KeywordSignal(k) >= KeywordSignal(j)
<1>1. ASSUME NEW n, NEW all PROVE VolumeSignal(n, all) \in 0 .. 100
  <2> DEFINE twelfth == (12 * n) \div all
  <2>1. VolumeSignal(n, all) =
          CASE twelfth = 0 -> 0 [] twelfth \in 1 .. 3 -> 71 [] twelfth \in 4 .. 5 -> 77
            [] twelfth \in 6 .. 7 -> 85 [] twelfth = 8 -> 91 [] twelfth \in 9 .. 11 -> 94
            [] OTHER -> 100
    BY DEF VolumeSignal
  <2> HIDE DEF twelfth
  <2>2. VolumeSignal(n, all) \in {0, 71, 77, 85, 91, 94, 100}
    BY <2>1
  <2> QED BY <2>2
<1>2. ASSUME NEW n \in Nat, NEW many \in Nat
      PROVE  CausalSignal(n, many) \in 0 .. 100 /\ CausalSignal(0, many) = 0
  <2>1. PICK k \in Nat \ {0} : k = IF many > CausalFloor THEN many ELSE CausalFloor
    BY TriageAssumption
  <2>2. CausalSignal(n, many) = Clamp((100 * n) \div k) /\ CausalSignal(0, many) = Clamp(0 \div k)
    BY <2>1 DEF CausalSignal
  <2>3. (100 * n) \div k \in Int /\ 0 \div k = 0
    OBVIOUS
  <2> QED BY <2>2, <2>3 DEF Clamp
<1>3. \A k : KeywordSignal(k) \in {0, 50, 100} /\ (k # "P0" => KeywordSignal(k) \in {0, 50})
  BY DEF KeywordSignal
<1>4. \A j, k : Worse(j, k) => KeywordSignal(k) >= KeywordSignal(j)
  BY DEF KeywordSignal, Worse
<1> QED BY <1>1, <1>2, <1>3, <1>4

\* The downstream services can be counted, and nothing is downstream of the noise.
LEMMA BlastFacts ==
    ASSUME TriageInv, links # Unset
    PROVE  /\ Cardinality(ClusterIds) \in Nat /\ \A c : BlastRadius(c) \in Nat
           /\ BlastRadius(Noise) = 0
<1>1. records \in Seq(RecordRows) /\ links = CausalLinks
  BY DEF TriageInv
<1>2. IsFiniteSet(ClusterIds) /\ Cardinality(ClusterIds) \in Nat
  BY <1>1, ReadFacts, FS_CardinalityType
<1>3. IsFiniteSet(links)
  <2>1. CASE links = {}
    BY <2>1, FS_EmptySet
  <2>2. CASE links = {LinkOf(q) : q \in Meeting}
    <3>1. IsFiniteSet(ClusterIds \X ClusterIds)
      BY <1>2, FS_Product
    <3>2. IsFiniteSet(Meeting)
      BY <3>1, FS_Subset DEF Meeting
    <3> DEFINE f == [q \in Meeting |-> LinkOf(q)]
    <3>3. links = {f[q] : q \in Meeting}
      BY <2>2
    <3> HIDE DEF f
    <3> QED BY <3>2, <3>3, ImageIsFinite
  <2> QED BY <1>1, <2>1, <2>2, LinksAre
<1>4. ASSUME NEW c PROVE BlastRadius(c) \in Nat
  <2> DEFINE S == {k \in links : k.source = c}
             f == [l \in links |-> l.service]
  <2>1. IsFiniteSet(S)
    BY <1>3, FS_Subset
  <2>2. {l.service : l \in S} = {f[l] : l \in S}
    OBVIOUS
  <2> HIDE DEF f, S
  <2>3. IsFiniteSet({l.service : l \in S})
    BY <2>1, <2>2, ImageIsFinite
  <2>4. Cardinality({l.service : l \in S}) \in Nat
    BY <2>3, FS_CardinalityType
  <2> QED BY <2>4 DEF BlastRadius, S
<1>5. ASSUME NEW l \in links PROVE l.source # Noise
  <2>1. PICK q \in Meeting : l = LinkOf(q)
    BY <1>1, LinksAre
  <2>2. Meetings(q[1], q[2]) # {}
    BY FS_EmptySet DEF Meeting
  <2>3. PICK p : p \in Interactions(Timeline)
                 /\ {Timeline[p[1]].cluster, Timeline[p[2]].cluster} = {q[1], q[2]}
    BY <2>2 DEF Meetings
  <2>4. p[1] \in 1 .. Len(Timeline) /\ p[2] \in 1 .. Len(Timeline)
    BY <2>3 DEF Interactions
  <2>5. ASSUME NEW i \in 1 .. Len(Timeline) PROVE Timeline[i].cluster # Noise
    <3>1. PICK n \in Taking : Timeline[i] = records[n]
      BY <1>1, TimelineFacts
    <3> QED BY <3>1 DEF Taking, Relevant
  <2>6. q[1] # Noise /\ q[2] # Noise
    BY <2>3, <2>4, <2>5
  <2> QED BY <2>1, <2>6, LinkFacts
<1>6. BlastRadius(Noise) = 0
  <2>1. {k \in links : k.source = Noise} = {}
    BY <1>5
  <2>2. {l.service : l \in {k \in links : k.source = Noise}} = {}
    BY <2>1
  <2> QED BY <2>2, FS_EmptySet DEF BlastRadius
<1> QED BY <1>2, <1>4, <1>6

\* The sum is a number.
LEMMA CompositeIsInt ==
    ASSUME NEW d \in Scores \cup {NoScore}, NEW volume \in 0 .. 100, NEW causal \in 0 .. 100,
           NEW noise \in BOOLEAN, NEW k
    PROVE  Composite(d, volume, causal, noise, k) \in Int
<1> DEFINE a == AnomalySignal(d)
           w == KeywordSignal(k)
           s == 35 * a + 20 * volume + 25 * causal + (IF noise THEN 1000 ELSE 0) + 10 * w
<1>1. a \in 0 .. 100 /\ w \in {0, 50, 100}
  BY AnomalyFacts, OtherSignals
<1>2. s \in Int
  <2> HIDE DEF a, w
  <2> QED BY <1>1
<1>3. Composite(d, volume, causal, noise, k) = IF k = "P0" /\ s < 8000 THEN 8000 ELSE s
  BY DEF Composite
<1> HIDE DEF s
<1> QED BY <1>2, <1>3

\* A priority of P0 without the keyword needs a score, and the noise needs a cause as well.
LEMMA UrgentHasEvidence ==
    ASSUME NEW d \in Scores \cup {NoScore}, NEW volume \in 0 .. 100, NEW causal \in 0 .. 100,
           NEW noise \in BOOLEAN, NEW k, k # "P0",
           Priority(Composite(d, volume, causal, noise, k)) = 0
    PROVE  d # NoScore /\ (causal = 0 => ~noise)
<1> DEFINE a == AnomalySignal(d)
           w == KeywordSignal(k)
           s == 35 * a + 20 * volume + 25 * causal + (IF noise THEN 1000 ELSE 0) + 10 * w
<1>1. a \in 0 .. 100 /\ w \in {0, 50} /\ (d = NoScore => a = 50)
  BY AnomalyFacts, OtherSignals
<1>2. Composite(d, volume, causal, noise, k) = s /\ s \in Int
  <2>1. Composite(d, volume, causal, noise, k) = s
    BY DEF Composite
  <2> HIDE DEF s
  <2> QED BY <2>1, CompositeIsInt
<1>3. s >= 8000
  <2> HIDE DEF s
  <2> QED BY <1>2 DEF Priority
<1>4. volume <= 100 /\ causal <= 100 /\ volume \in Int /\ causal \in Int
  OBVIOUS
<1> HIDE DEF a, w
<1>5. d # NoScore
  BY <1>1, <1>3, <1>4
<1>6. causal = 0 => ~noise
  BY <1>1, <1>3, <1>4
<1> QED BY <1>5, <1>6

\* Worse evidence never gives less.
LEMMA WorseIsMore ==
    ASSUME NEW d \in Scores, NEW e \in Scores, e >= d,
           NEW volume \in 0 .. 100, NEW v \in 0 .. 100, v >= volume,
           NEW causal \in 0 .. 100, NEW noise \in BOOLEAN, NEW k, NEW j, Worse(k, j)
    PROVE  Composite(e, v, causal, noise, j) >= Composite(d, volume, causal, noise, k)
<1> DEFINE a == AnomalySignal(d)
           b == AnomalySignal(e)
           y == KeywordSignal(k)
           z == KeywordSignal(j)
           N == IF noise THEN 1000 ELSE 0
           s == 35 * a + 20 * volume + 25 * causal + N + 10 * y
           t == 35 * b + 20 * v + 25 * causal + N + 10 * z
<1>1. /\ a \in 0 .. 100 /\ b \in 0 .. 100 /\ b >= a
      /\ y \in {0, 50, 100} /\ z \in {0, 50, 100} /\ z >= y
  BY AnomalyFacts, OtherSignals
<1>2. /\ a \in Int /\ b \in Int /\ y \in Int /\ z \in Int /\ N \in Int
      /\ volume \in Int /\ v \in Int /\ causal \in Int
  BY <1>1
<1>3. Composite(d, volume, causal, noise, k) = IF k = "P0" /\ s < 8000 THEN 8000 ELSE s
  BY DEF Composite
<1>4. Composite(e, v, causal, noise, j) = IF j = "P0" /\ t < 8000 THEN 8000 ELSE t
  BY DEF Composite
<1>5. s \in Int /\ t \in Int /\ t >= s
  <2> HIDE DEF a, b, y, z, N
  <2> QED BY <1>1, <1>2
<1>6. k = "P0" => j = "P0"
  BY DEF Worse
<1> HIDE DEF s, t
<1> QED BY <1>3, <1>4, <1>5, <1>6

\* Every priority, and every link, that an analysis tells of follows from the records and
\* the baseline, for any records, window, thresholds and floor (TriageIsJustified of Triage).
THEOREM PrioritiesAreJustified == TriageSpec => []TriageIsJustified
<1>1. ASSUME TriageInv PROVE LinksAreCoincidences
  BY <1>1, Coincide DEF LinksAreCoincidences
<1>2. ASSUME TriageInv, links # Unset, NEW c \in ClusterIds
      PROVE  /\ VolumeSignal(Size_(c), Len(records)) \in 0 .. 100
             /\ CausalSignal(BlastRadius(c), Cardinality(ClusterIds)) \in 0 .. 100
             /\ CausalSignal(BlastRadius(Noise), Cardinality(ClusterIds)) = 0
             /\ score \in Scores \cup {NoScore} /\ (c = Noise) \in BOOLEAN
  BY <1>2, BlastFacts, OtherSignals DEF TriageInv
<1>3. ASSUME TriageInv PROVE TriageMonotone
  <2> SUFFICES ASSUME links # Unset, NEW c \in ClusterIds, NEW e \in Scores, NEW v \in {0, 50, 100},
                      NEW k \in {"P0", "P1", "none"}, score # NoScore, e >= score, Worse(keyword, k)
               PROVE  LET volume == VolumeSignal(Size_(c), Len(records))
                          causal == CausalSignal(BlastRadius(c), Cardinality(ClusterIds)) IN
                      Priority(Composite(e, IF v > volume THEN v ELSE volume, causal, c = Noise, k))
                          <= PriorityOf(c)
    BY DEF TriageMonotone
  <2> DEFINE volume == VolumeSignal(Size_(c), Len(records))
             causal == CausalSignal(BlastRadius(c), Cardinality(ClusterIds))
             u == IF v > volume THEN v ELSE volume
             s == Composite(score, volume, causal, c = Noise, keyword)
             t == Composite(e, u, causal, c = Noise, k)
  <2>1. volume \in 0 .. 100 /\ causal \in 0 .. 100 /\ score \in Scores \cup {NoScore}
        /\ (c = Noise) \in BOOLEAN
    BY <1>2, <1>3
  <2>2. u \in 0 .. 100 /\ u >= volume
    <3> HIDE DEF volume
    <3> QED BY <2>1
  <2>3. s \in Int /\ t \in Int /\ t >= s
    <3> HIDE DEF volume, causal, u
    <3>1. score \in Scores
      BY <2>1
    <3>2. Composite(score, volume, causal, c = Noise, keyword) \in Int
          /\ Composite(e, u, causal, c = Noise, k) \in Int
      BY <2>1, <2>2, <3>1, CompositeIsInt
    <3>3. Composite(e, u, causal, c = Noise, k) >= Composite(score, volume, causal, c = Noise, keyword)
      BY <2>1, <2>2, <3>1, WorseIsMore
    <3> QED BY <3>2, <3>3
  <2>4. PriorityOf(c) = Priority(s)
    BY DEF PriorityOf
  <2> HIDE DEF s, t
  <2>5. Priority(t) <= Priority(s)
    BY <2>3 DEF Priority
  <2> QED BY <2>4, <2>5 DEF t
<1>4. ASSUME TriageInv PROVE PageNeedsEvidence
  <2> SUFFICES ASSUME links # Unset, NEW c \in ClusterIds, PriorityOf(c) = 0, keyword # "P0"
               PROVE  score # NoScore /\ c # Noise
    BY DEF PageNeedsEvidence
  <2> DEFINE volume == VolumeSignal(Size_(c), Len(records))
             causal == CausalSignal(BlastRadius(c), Cardinality(ClusterIds))
  <2>1. volume \in 0 .. 100 /\ causal \in 0 .. 100 /\ score \in Scores \cup {NoScore}
        /\ (c = Noise) \in BOOLEAN /\ (c = Noise => causal = 0)
    BY <1>2, <1>4
  <2>2. Priority(Composite(score, volume, causal, c = Noise, keyword)) = 0
    BY DEF PriorityOf
  <2>3. PICK noise \in BOOLEAN : noise <=> c = Noise
    OBVIOUS
  <2>4. Priority(Composite(score, volume, causal, noise, keyword)) = 0
    BY <2>2, <2>3 DEF Composite
  <2> HIDE DEF volume, causal
  <2>5. score # NoScore /\ (causal = 0 => ~noise)
    BY <2>1, <2>4, UrgentHasEvidence
  <2> QED BY <2>1, <2>3, <2>5
<1>5. TriageInv => TriageIsJustified
  BY <1>1, <1>3, <1>4 DEF TriageIsJustified
<1> QED BY TriageInitially, TriageStays, <1>5, PTL DEF TriageSpec
-----------------------------------------------------------------------------
\* From lines to clusters, and the exit code.
LEMMA ClustersShareLines ==
    ASSUME NEW file \in Seq(LogLines), NEW labels \in Labellings(file), NEW cs,
           cs = Clustered(file, labels)
    PROVE  /\ UNION {c.templates : c \in cs} = Templates(file)
           /\ SumFunctionOnSet([c \in cs |-> c.size], cs) = Cardinality(ReadLines(file))
<1> DEFINE L == ReadLines(file)
           T == Templates(file)
           count == Counted(file)
           Of(l) == {t \in T : labels[t] = l}
           Cl(l) == [id |-> l, templates |-> Of(l), size |-> SizeOf(file, Of(l))]
           template == [n \in L |-> Template(file[n])]
           cluster == [t \in T |-> Cl(labels[t])]
<1>1. IsFiniteSet(L)
  <2> DEFINE I == 1 .. Len(file)
  <2>1. IsFiniteSet(I)
    BY LenProperties, UpToIsFinite
  <2>2. L \subseteq I
    BY DEF ReadLines
  <2> HIDE DEF I, L
  <2> QED BY <2>1, <2>2, FS_Subset
<1>2. T = {template[n] : n \in L}
  BY DEF Templates
<1>3. IsFiniteSet(T)
  <2> HIDE DEF T, L, template
  <2> QED BY <1>1, <1>2, ImageIsFinite
<1>4. DOMAIN labels = T /\ labels = [t \in T |-> labels[t]]
  BY DEF Labellings
<1>5. cs = {Cl(l) : l \in {labels[t] : t \in T}}
  BY <1>4 DEF Clustered, Range
<1>6. cs = {cluster[t] : t \in T}
  BY <1>5
<1>7. IsFiniteSet(cs)
  <2> HIDE DEF T, cluster
  <2> QED BY <1>3, <1>6, ImageIsFinite
<1>8. count = [t \in T |-> Cardinality(PartsOf(L, template, t))]
  BY DEF Counted, PartsOf
<1>9. \A n \in L : template[n] \in T
  BY <1>2
<1>10. SumFunctionOnSet(count, T) = Cardinality(L)
  <2> HIDE DEF L, T, template, count
  <2> QED BY <1>1, <1>3, <1>8, <1>9, CountByLabel
<1>11. \A t \in T : count[t] \in Nat
  <2>1. TAKE t \in T
  <2>2. IsFiniteSet(PartsOf(L, template, t))
    BY <1>1, FS_Subset DEF PartsOf
  <2>3. count[t] = Cardinality(PartsOf(L, template, t))
    BY <1>8
  <2> QED BY <2>2, <2>3, FS_CardinalityType
<1>12. \A t \in T : cluster[t] \in cs
  BY <1>6
<1>13. \A c \in cs : PartsOf(T, cluster, c) = c.templates /\ c.size = SumFunctionOnSet(count, c.templates)
  <2>1. TAKE c \in cs
  <2>2. PICK u \in T : c = Cl(labels[u])
    BY <1>5
  <2>3. c.id = labels[u] /\ c.templates = Of(labels[u]) /\ c.size = SizeOf(file, c.templates)
    BY <2>2
  <2>4. ASSUME NEW t \in T PROVE cluster[t] = c <=> labels[t] = labels[u]
    <3>1. cluster[t] = Cl(labels[t]) /\ Cl(labels[t]).id = labels[t]
      OBVIOUS
    <3> QED BY <2>2, <2>3, <3>1
  <2> QED BY <2>3, <2>4 DEF PartsOf, SizeOf
<1>14. SumOfParts(count, T, cluster, cs) = [c \in cs |-> c.size]
  BY <1>13 DEF SumOfParts
<1>15. SumFunctionOnSet([c \in cs |-> c.size], cs) = SumFunctionOnSet(count, T)
  <2> HIDE DEF T, cluster, count
  <2> QED BY <1>3, <1>7, <1>11, <1>12, <1>14, SumByLabel
<1>16. UNION {c.templates : c \in cs} = T
  <2>1. ASSUME NEW c \in cs PROVE c.templates \subseteq T
    BY <1>13, <2>1 DEF PartsOf
  <2>2. ASSUME NEW t \in T PROVE \E c \in cs : t \in c.templates
    <3>1. t \in PartsOf(T, cluster, cluster[t])
      BY DEF PartsOf
    <3> QED BY <1>12, <1>13, <3>1
  <2> QED BY <2>1, <2>2
<1> QED BY <1>10, <1>15, <1>16

-----------------------------------------------------------------------------
\* The exit code.
LevelNames == {"known", "rare_known", "new_pattern", "high_risk_anomaly"}
LEMMA LevelFacts ==
    /\ Range(Levels) = LevelNames
    /\ Rank("known") = 1 /\ Rank("rare_known") = 2
    /\ Rank("new_pattern") = 3 /\ Rank("high_risk_anomaly") = 4
<1>1. DOMAIN Levels = 1 .. 4 /\ Levels[1] = "known" /\ Levels[2] = "rare_known"
      /\ Levels[3] = "new_pattern" /\ Levels[4] = "high_risk_anomaly"
  BY DEF Levels
<1>2. Range(Levels) = LevelNames
  BY <1>1 DEF Range, LevelNames
<1> HIDE DEF Levels
<1>3. Rank("known") = 1
  BY <1>1 DEF Rank
<1>4. Rank("rare_known") = 2
  BY <1>1 DEF Rank
<1>5. Rank("new_pattern") = 3
  BY <1>1 DEF Rank
<1>6. Rank("high_risk_anomaly") = 4
  BY <1>1 DEF Rank
<1> QED BY <1>2, <1>3, <1>4, <1>5, <1>6

Keep(h, l) == IF Replaces(h, l) THEN l ELSE h
IsHighest(it, labels) ==
    it = [s \in SUBSET DOMAIN labels |->
            IF s = {} THEN "none" ELSE Keep(it[s \ {Max(s)}], labels[Max(s)])]
LEMMA HighestUnfolds ==
    ASSUME NEW labels
    PROVE  Highest(labels) = (CHOOSE it : IsHighest(it, labels))[DOMAIN labels]
  BY DEF Highest, FoldLeft, MapThenFoldSet, IsHighest, Keep

\* The label kept so far against the labels so far.
LEMMA HighestIsFound ==
    ASSUME NEW n \in Nat, NEW labels \in [1 .. n -> LevelNames]
    PROVE  /\ Highest(labels) \in LevelNames \cup {"none"}
           /\ Highest(labels) = "high_risk_anomaly" <=> \E i \in 1 .. n : labels[i] = "high_risk_anomaly"
           /\ Highest(labels) \in {"new_pattern", "high_risk_anomaly"}
                <=> \E i \in 1 .. n : labels[i] \in {"new_pattern", "high_risk_anomaly"}
<1> DEFINE H == LevelNames \cup {"none"}
           step == [p \in (1 .. n) \X H |-> Keep(p[2], labels[p[1]])]
<1>1. \A k \in 1 .. n, h \in H : step[<<k, h>>] = Keep(h, labels[k]) /\ Keep(h, labels[k]) \in H
  BY DEF Keep
<1>2. DOMAIN labels = 1 .. n /\ "none" \in H
  OBVIOUS
<1> HIDE DEF step
<1>3. PICK it0 : /\ IsFoldBy(it0, 1 .. n, "none", step, LatestOf(n))
                 /\ \A s \in SUBSET (1 .. n) : it0[s] \in H
  <2> HIDE DEF H
  <2> QED BY <1>1, <1>2, LeftFoldExists
<1>4. IsHighest(it0, labels)
  <2>1. \A s \in SUBSET (1 .. n) : s # {} =>
          /\ LatestOf(n)[s] = Max(s) /\ Max(s) \in 1 .. n /\ it0[s \ {Max(s)}] \in H
    BY <1>3, LatestPicks DEF Picks, LatestOf
  <2>2. \A s \in SUBSET (1 .. n) : s # {} =>
          step[<<LatestOf(n)[s], it0[s \ {LatestOf(n)[s]}]>>] = Keep(it0[s \ {Max(s)}], labels[Max(s)])
    BY <1>1, <2>1
  <2> QED BY <1>2, <1>3, <2>2 DEF IsFoldBy, IsHighest
<1> DEFINE it == CHOOSE f : IsHighest(f, labels)
           kept == [k \in 0 .. n |-> it[1 .. k]]
<1>5. IsHighest(it, labels)
  BY <1>4
<1>6. Highest(labels) = it[1 .. n]
  BY <1>2, HighestUnfolds
<1> HIDE DEF it
<1>7. kept[0] = "none" /\ \A k \in 1 .. n : kept[k] = Keep(kept[k - 1], labels[k])
  <2>1. kept[0] = it[{}] /\ it[{}] = "none"
    BY <1>2, <1>5 DEF IsHighest
  <2>2. ASSUME NEW k \in 1 .. n PROVE kept[k] = Keep(kept[k - 1], labels[k])
    <3>1. it[1 .. k] = Keep(it[(1 .. k) \ {Max(1 .. k)}], labels[Max(1 .. k)])
      BY <1>2, <1>5, LatestOfPrefix DEF IsHighest
    <3>2. it[1 .. k] = Keep(it[1 .. (k - 1)], labels[k])
      BY <3>1, LatestOfPrefix
    <3> QED BY <3>2
  <2> QED BY <2>1, <2>2
<1>8. kept[n] = Highest(labels)
  BY <1>6
<1> HIDE DEF kept
<1> DEFINE Good(k) ==
       /\ kept[k] \in H
       /\ kept[k] = "none" => k = 0
       /\ kept[k] = "high_risk_anomaly" <=> \E i \in 1 .. k : labels[i] = "high_risk_anomaly"
       /\ kept[k] \in {"new_pattern", "high_risk_anomaly"}
            <=> \E i \in 1 .. k : labels[i] \in {"new_pattern", "high_risk_anomaly"}
           I == {k \in 0 .. n : Good(k)}
<1>9. Good(0)
  BY <1>7
<1>10. ASSUME NEW k \in 1 .. n, k - 1 \in I PROVE k \in I
  <2>1. Good(k - 1) /\ kept[k] = Keep(kept[k - 1], labels[k]) /\ labels[k] \in LevelNames
    BY <1>7, <1>10
  <2>2. \A i : i \in 1 .. k <=> i \in 1 .. (k - 1) \/ i = k
    OBVIOUS
  <2>3. kept[k] \in H /\ kept[k] # "none"
    BY <2>1 DEF Keep, LevelNames, Replaces
  <2>4. kept[k] = "high_risk_anomaly" <=> kept[k - 1] = "high_risk_anomaly" \/ labels[k] = "high_risk_anomaly"
    BY <2>1 DEF Keep, LevelNames, Replaces
  <2>5. kept[k] \in {"new_pattern", "high_risk_anomaly"}
          <=> \/ kept[k - 1] \in {"new_pattern", "high_risk_anomaly"}
              \/ labels[k] \in {"new_pattern", "high_risk_anomaly"}
    BY <2>1 DEF Keep, LevelNames, Replaces
  <2>6. Good(k)
    BY <2>1, <2>2, <2>3, <2>4, <2>5
  <2> QED BY <2>6
<1> HIDE DEF Good
<1>11. 0 \in I
  BY <1>9
<1> HIDE DEF I
<1>12. n \in I
  BY <1>10, <1>11, UpTo
<1> QED BY <1>8, <1>12 DEF I, Good
NoExit == [labels |-> <<>>, level |-> "known", failed |-> FALSE]
ExitOf(labels, level) ==
    [labels |-> labels, level |-> level,
     failed |-> Highest(labels) # "none" /\ Rank(Highest(labels)) >= Rank(level)]
PipelineInv ==
    /\ logFile \in Seq(LogLines) /\ read \in Seq(LogLines)
    /\ agent = "reported" => \E labels \in Labellings(read) : clusters = Clustered(read, labels)
    /\ \/ exit = NoExit
       \/ \E n \in Nat : \E labels \in [1 .. n -> LevelNames], level \in LevelNames :
             exit = ExitOf(labels, level)

LEMMA PipelineInitially == PipelineInit => PipelineInv
  BY DEF PipelineInit, PipelineInv, NoExit

LEMMA PipelineStep == PipelineInv /\ [PipelineNext]_pipelineVars => PipelineInv'
<1> SUFFICES ASSUME PipelineInv, [PipelineNext]_pipelineVars PROVE PipelineInv'
  OBVIOUS
<1> DEFINE Exits(e) ==
      \/ e = NoExit
      \/ \E n \in Nat : \E labels \in [1 .. n -> LevelNames], level \in LevelNames :
            e = ExitOf(labels, level)
<1>0. Exits(exit)
  BY DEF PipelineInv
<1>a. exit' = exit => Exits(exit')
  BY <1>0
<1> HIDE DEF Exits
<1>b. /\ logFile \in Seq(LogLines) /\ read \in Seq(LogLines)
      /\ agent = "reported" => \E labels \in Labellings(read) : clusters = Clustered(read, labels)
  BY DEF PipelineInv
<1>1. ASSUME NEW line \in LogLines, Appended(line) PROVE PipelineInv'
  <2>1. logFile' \in Seq(LogLines) /\ UNCHANGED <<read, agent, clusters, exit>>
    BY <1>1, <1>b DEF Appended
  <2> QED BY <1>a, <1>b, <2>1 DEF PipelineInv, Exits
<1>2. ASSUME TruncateFile PROVE PipelineInv'
  <2>1. logFile' \in Seq(LogLines) /\ UNCHANGED <<read, agent, clusters, exit>>
    BY <1>2, <1>b DEF TruncateFile
  <2> QED BY <1>a, <1>b, <2>1 DEF PipelineInv, Exits
<1>3. ASSUME StartAgent \/ LookAtFile PROVE PipelineInv'
  <2>1. UNCHANGED <<logFile, read, exit>> /\ agent' # "reported"
    BY <1>3 DEF StartAgent, LookAtFile
  <2> QED BY <1>a, <1>b, <2>1 DEF PipelineInv, Exits
<1>4. ASSUME ReadFile \/ Sleep \/ FailAnalysis_ PROVE PipelineInv'
  <2>1. UNCHANGED <<logFile, exit>> /\ read' \in Seq(LogLines) /\ agent' # "reported"
    <3>1. CASE ReadFile
      BY <3>1, <1>b DEF ReadFile
    <3>2. CASE Sleep
      BY <3>2, <1>b DEF Sleep
    <3>3. CASE FailAnalysis_
      BY <3>3, <1>b DEF FailAnalysis_
    <3> QED BY <1>4, <3>1, <3>2, <3>3
  <2> QED BY <1>a, <1>b, <2>1 DEF PipelineInv, Exits
<1>5. ASSUME FinishAnalysis PROVE PipelineInv'
  <2>1. UNCHANGED <<logFile, read, exit>>
    BY <1>5 DEF FinishAnalysis
  <2>2. \E labels \in Labellings(read) : clusters' = Clustered(read, labels)
    BY <1>5 DEF FinishAnalysis
  <2>3. \E labels \in Labellings(read') : clusters' = Clustered(read', labels)
    BY <2>1, <2>2
  <2> QED BY <1>a, <1>b, <2>1, <2>3 DEF PipelineInv, Exits
<1>6. ASSUME NEW labels \in SeqOf(Range(Levels), MaxResults), NEW level \in Range(Levels),
             RunCommand(labels, level)
      PROVE  PipelineInv'
  <2>1. UNCHANGED <<logFile, read>> /\ agent' # "reported" /\ exit' = ExitOf(labels, level)
    BY <1>6 DEF RunCommand, ExitOf
  <2>2. PICK n \in 0 .. MaxResults : labels \in [1 .. n -> LevelNames]
    BY LevelFacts DEF SeqOf
  <2>3. n \in Nat /\ level \in LevelNames
    BY LevelFacts, PipelineAssumption
  <2>4. Exits(exit')
    BY <2>1, <2>2, <2>3 DEF Exits
  <2> QED BY <1>b, <2>1, <2>4 DEF PipelineInv, Exits
<1>7. ASSUME UNCHANGED pipelineVars PROVE PipelineInv'
  <2>1. UNCHANGED <<logFile, read, agent, clusters, exit>>
    BY <1>7 DEF pipelineVars
  <2> QED BY <1>a, <1>b, <2>1 DEF PipelineInv, Exits
<1> QED BY <1>1, <1>2, <1>3, <1>4, <1>5, <1>6, <1>7 DEF PipelineNext, AgentStep

LEMMA ReportFollows == PipelineInv => ReportIsFaithful
<1> SUFFICES ASSUME PipelineInv PROVE ReportIsFaithful
  OBVIOUS
<1>1. ClustersAccountForLines
  <2> SUFFICES ASSUME agent = "reported"
               PROVE  /\ UNION {c.templates : c \in clusters} = Templates(read)
                      /\ SumFunctionOnSet([c \in clusters |-> c.size], clusters)
                            = Cardinality(ReadLines(read))
    BY DEF ClustersAccountForLines
  <2>1. PICK labels \in Labellings(read) : clusters = Clustered(read, labels)
    BY DEF PipelineInv
  <2>2. read \in Seq(LogLines)
    BY DEF PipelineInv
  <2> QED BY <2>1, <2>2, ClustersShareLines
<1>2. FailsOnWhatWasFound
  <2>1. CASE exit = NoExit
    BY <2>1 DEF NoExit, FailsOnWhatWasFound
  <2>2. ASSUME NEW n \in Nat, NEW labels \in [1 .. n -> LevelNames], NEW level \in LevelNames,
               exit = ExitOf(labels, level)
        PROVE  FailsOnWhatWasFound
    <3> DEFINE h == Highest(labels)
    <3>1. /\ exit.labels = labels /\ exit.level = level
          /\ exit.failed <=> h # "none" /\ Rank(h) >= Rank(level)
      BY <2>2 DEF ExitOf
    <3>2. /\ h \in LevelNames \cup {"none"}
          /\ h = "high_risk_anomaly" <=> \E i \in 1 .. n : labels[i] = "high_risk_anomaly"
          /\ h \in {"new_pattern", "high_risk_anomaly"}
               <=> \E i \in 1 .. n : labels[i] \in {"new_pattern", "high_risk_anomaly"}
      BY HighestIsFound
    <3> HIDE DEF h
    <3>3. Len(labels) = n /\ \A i \in 1 .. n : labels[i] \in LevelNames
      OBVIOUS
    <3>4. \A l \in LevelNames : /\ Rank(l) >= 4 <=> l = "high_risk_anomaly"
                                /\ Rank(l) >= 3 <=> l \in {"new_pattern", "high_risk_anomaly"}
      BY LevelFacts DEF LevelNames
    <3>5. CASE level = "high_risk_anomaly"
      <4>1. exit.failed <=> h = "high_risk_anomaly"
        BY <3>1, <3>2, <3>4, <3>5, LevelFacts
      <4>2. (\E i \in 1 .. n : Rank(labels[i]) >= Rank(level))
               <=> \E i \in 1 .. n : labels[i] = "high_risk_anomaly"
        BY <3>3, <3>4, <3>5, LevelFacts
      <4> QED BY <3>1, <3>2, <3>3, <4>1, <4>2 DEF FailsOnWhatWasFound
    <3>6. CASE level = "new_pattern"
      <4>1. exit.failed <=> h \in {"new_pattern", "high_risk_anomaly"}
        BY <3>1, <3>2, <3>4, <3>6, LevelFacts
      <4>2. (\E i \in 1 .. n : Rank(labels[i]) >= Rank(level))
               <=> \E i \in 1 .. n : labels[i] \in {"new_pattern", "high_risk_anomaly"}
        BY <3>3, <3>4, <3>6, LevelFacts
      <4> QED BY <3>1, <3>2, <3>3, <4>1, <4>2 DEF FailsOnWhatWasFound
    <3>7. CASE level \notin {"new_pattern", "high_risk_anomaly"}
      BY <3>1, <3>7 DEF FailsOnWhatWasFound
    <3> QED BY <3>5, <3>6, <3>7
  <2> QED BY <2>1, <2>2 DEF PipelineInv
<1> QED BY <1>1, <1>2 DEF ReportIsFaithful

\* Whatever labels the algorithms give, the clusters of a report share out the templates and
\* their sizes add up to the lines read, and a command that is to fail on new patterns or
\* high risks fails exactly when one was among its results.
THEOREM ReportsAreFaithful == PipelineSpec => []ReportIsFaithful
<1>1. PipelineInit => PipelineInv
  BY PipelineInitially
<1>2. PipelineInv /\ [PipelineNext]_pipelineVars => PipelineInv'
  BY PipelineStep
<1>3. PipelineInv => ReportIsFaithful
  BY ReportFollows
<1> QED BY <1>1, <1>2, <1>3, PTL DEF PipelineSpec

-----------------------------------------------------------------------------
\* The comparison of two runs.
Fractions == Nat \X (Nat \ {0})

\* To be above is a strict weak order on fractions.
LEMMA AboveOrders ==
    ASSUME NEW s \in Fractions, NEW t \in Fractions, NEW u \in Fractions
    PROVE  /\ ~Above(s, s)
           /\ Above(s, t) => ~Above(t, s)
           /\ ~Above(s, t) /\ ~Above(t, u) => ~Above(s, u)
<1>1. PICK a \in Nat, b \in Nat \ {0} : s[1] = a /\ s[2] = b
  BY DEF Fractions
<1>2. PICK c \in Nat, d \in Nat \ {0} : t[1] = c /\ t[2] = d
  BY DEF Fractions
<1>3. PICK e \in Nat, f \in Nat \ {0} : u[1] = e /\ u[2] = f
  BY DEF Fractions
<1>4. a * b \in Nat /\ a * d \in Nat /\ c * b \in Nat /\ c * f \in Nat /\ e * d \in Nat
      /\ a * f \in Nat /\ e * b \in Nat
  BY SMT
<1>5. ASSUME a * d <= c * b, c * f <= e * d PROVE a * f <= e * b
  <2>1. (a * d) * f <= (c * b) * f /\ (c * f) * b <= (e * d) * b
    BY <1>4, <1>5, SMT
  <2>2. (c * b) * f = (c * f) * b /\ (a * d) * f = (a * f) * d /\ (e * d) * b = (e * b) * d
    BY SMT
  <2>3. (a * f) * d <= (e * b) * d
    <3>1. (a * d) * f \in Nat /\ (c * b) * f \in Nat /\ (e * d) * b \in Nat
      BY <1>4, SMT
    <3> QED BY <2>1, <2>2, <3>1
  <2> DEFINE x == a * f
             y == e * b
  <2>4. x \in Nat /\ y \in Nat /\ x * d <= y * d
    BY <1>4, <2>3
  <2> HIDE DEF x, y
  <2>5. x <= y
    BY <2>4, SMT
  <2> QED BY <2>5 DEF x, y
<1>6. ~Above(s, s)
  BY <1>1, <1>4 DEF Above
<1>7. Above(s, t) => ~Above(t, s)
  BY <1>1, <1>2, <1>4 DEF Above
<1>8. ~Above(s, t) /\ ~Above(t, u) => ~Above(s, u)
  BY <1>1, <1>2, <1>3, <1>4, <1>5 DEF Above
<1> QED BY <1>6, <1>7, <1>8

\* How alike two clusters are is a fraction of at most one; a cluster is fully like itself.
LEMMA SimilarityFacts ==
    ASSUME NEW a \in ClusterRows, NEW b \in ClusterRows
    PROVE  /\ Similarity(a, b) \in Fractions
           /\ ~Above(Similarity(a, b), Similarity(a, a))
           /\ Above(Similarity(a, a), MatchThreshold)
<1> DEFINE I(c) == a.tokens \cap c.tokens
           U(c) == a.tokens \cup c.tokens
<1>1. ASSUME NEW c \in ClusterRows
      PROVE  /\ Similarity(a, c) \in Fractions /\ Similarity(a, c)[1] <= Similarity(a, c)[2]
             /\ I(c) = U(c) => Similarity(a, c)[1] = Similarity(a, c)[2]
  <2>1. IsFiniteSet(U(c)) /\ I(c) \subseteq U(c)
    BY FS_Union, DriftAssumption
  <2>2. /\ Cardinality(U(c)) \in Nat /\ Cardinality(I(c)) \in Nat
        /\ Cardinality(I(c)) <= Cardinality(U(c))
    <3> HIDE DEF I, U
    <3> QED BY <2>1, FS_Subset, FS_CardinalityType
  <2>3. Similarity(a, c) = IF Cardinality(U(c)) = 0 THEN <<1, 1>>
                           ELSE <<Cardinality(I(c)), Cardinality(U(c))>>
    BY DEF Similarity
  <2> HIDE DEF I, U
  <2>4. CASE Cardinality(U(c)) = 0
    BY <2>3, <2>4 DEF Fractions
  <2>5. CASE Cardinality(U(c)) # 0
    BY <2>2, <2>3, <2>5 DEF Fractions
  <2> QED BY <2>4, <2>5
<1>2. I(a) = U(a)
  OBVIOUS
<1> HIDE DEF I, U
<1>3. PICK m \in Nat, n \in Nat \ {0} :
        Similarity(a, b)[1] = m /\ Similarity(a, b)[2] = n /\ m <= n
  BY <1>1 DEF Fractions
<1>4. PICK k \in Nat \ {0} : Similarity(a, a)[1] = k /\ Similarity(a, a)[2] = k
  BY <1>1, <1>2 DEF Fractions
<1>5. m * k <= k * n /\ m * k \in Nat /\ k * n \in Nat
  BY <1>3, <1>4, SMT
<1>6. ~Above(Similarity(a, b), Similarity(a, a))
  BY <1>3, <1>4, <1>5 DEF Above
<1>7. Above(Similarity(a, a), MatchThreshold)
  BY <1>4 DEF Above, MatchThreshold
<1> QED BY <1>1, <1>6, <1>7

\* There is a nearest one, and none is nearer, or as near and before it.
IsNearest(a, b, free, j) ==
    \A k \in free : /\ ~Above(Similarity(a, b[k]), Similarity(a, b[j]))
                    /\ k < j => Above(Similarity(a, b[j]), Similarity(a, b[k]))
LEMMA NearestIs ==
    ASSUME NEW a \in ClusterRows, NEW b \in Seq(ClusterRows), NEW free,
           free \subseteq IndexOf(b), free # {}
    PROVE  /\ Nearest(a, free, b) \in free
           /\ IsNearest(a, b, free, Nearest(a, free, b))
<1> DEFINE s == [j \in free |-> Similarity(a, b[j])]
           R == {p \in free \X free : \/ Above(s[p[1]], s[p[2]])
                                      \/ ~Above(s[p[2]], s[p[1]]) /\ p[1] < p[2]}
<1>1. Len(b) \in Nat /\ free \subseteq 1 .. Len(b) /\ free \subseteq Int
  BY DEF IndexOf
<1>2. \A j \in free : s[j] \in Fractions
  <2>1. TAKE j \in free
  <2>2. b[j] \in ClusterRows
    BY <1>1
  <2> QED BY <2>2, SimilarityFacts
<1>3. IsFiniteSet(free)
  <2> DEFINE N == 1 .. Len(b)
  <2>1. IsFiniteSet(N) /\ free \in SUBSET N
    BY <1>1, FS_Interval
  <2> HIDE DEF N
  <2> QED BY <2>1, FS_Subset
<1>s. \A j \in free : s[j] = Similarity(a, b[j])
  OBVIOUS
<1> HIDE DEF s
<1>4. \A x, y \in free :
         (<<x, y>> \in R) <=> (Above(s[x], s[y]) \/ (~Above(s[y], s[x]) /\ x < y))
  OBVIOUS
<1> HIDE DEF R
<1>5. \A x, y \in free : x # y => <<x, y>> \in R \/ <<y, x>> \in R
  BY <1>1, <1>2, <1>4, AboveOrders
<1>6. ASSUME NEW x \in free, NEW y \in free, NEW z \in free, <<x, y>> \in R, <<y, z>> \in R
      PROVE  <<x, z>> \in R
  <2>1. s[x] \in Fractions /\ s[y] \in Fractions /\ s[z] \in Fractions
    BY <1>2
  <2>2. ~Above(s[y], s[x]) /\ ~Above(s[z], s[y])
    BY <1>4, <1>6, <2>1, AboveOrders
  <2>3. ~Above(s[z], s[x])
    BY <2>1, <2>2, AboveOrders
  <2>4. CASE x < y /\ y < z
    <3>1. x < z
      BY <1>1, <2>4
    <3> QED BY <1>4, <2>3, <3>1
  <2>5. CASE Above(s[x], s[y])
    <3>1. Above(s[x], s[z])
      BY <2>1, <2>2, <2>5, AboveOrders
    <3> QED BY <1>4, <3>1
  <2>6. CASE Above(s[y], s[z])
    <3>1. Above(s[x], s[z])
      BY <2>1, <2>2, <2>6, AboveOrders
    <3> QED BY <1>4, <3>1
  <2> QED BY <1>4, <1>6, <2>4, <2>5, <2>6
<1>7. Orders(R, free)
  BY <1>5, <1>6 DEF Orders
<1>8. PICK m \in free : \A x \in free : x # m => <<m, x>> \in R
  BY <1>3, <1>7, FirstOf
<1>9. IsNearest(a, b, free, m)
  <2> SUFFICES ASSUME NEW k \in free PROVE ~Above(s[k], s[m]) /\ (k < m => Above(s[m], s[k]))
    BY <1>s DEF IsNearest
  <2>1. s[k] \in Fractions /\ s[m] \in Fractions /\ k \in Int /\ m \in Int
    BY <1>1, <1>2
  <2>2. CASE k = m
    BY <2>1, <2>2, AboveOrders
  <2>3. CASE k # m
    <3>1. <<m, k>> \in R
      BY <1>8, <2>3
    <3>2. Above(s[m], s[k]) \/ (~Above(s[k], s[m]) /\ m < k)
      BY <1>4, <3>1
    <3> QED BY <2>1, <3>2, AboveOrders
  <2> QED BY <2>2, <2>3
<1>10. Nearest(a, free, b) = CHOOSE j \in free : IsNearest(a, b, free, j)
  BY DEF Nearest, IsNearest
<1> QED BY <1>9, <1>10

LEMMA ChoiceIs ==
    ASSUME NEW a \in ClusterRows, NEW bs \in Seq(ClusterRows), NEW pair
    PROVE  /\ ChoiceOf(a, bs, pair) \in 0 .. Len(bs)
           /\ ChoiceOf(a, bs, pair) = None <=> Candidates(a, bs, pair) = {}
           /\ Candidates(a, bs, pair) # {} =>
                /\ ChoiceOf(a, bs, pair) \in Candidates(a, bs, pair)
                /\ IsNearest(a, bs, Candidates(a, bs, pair), ChoiceOf(a, bs, pair))
<1> DEFINE free == Candidates(a, bs, pair)
<1>1. free \subseteq IndexOf(bs) /\ IndexOf(bs) = 1 .. Len(bs) /\ Len(bs) \in Nat
  BY DEF Candidates, IndexOf
<1>2. ChoiceOf(a, bs, pair) = IF free = {} THEN None ELSE Nearest(a, free, bs)
  BY DEF ChoiceOf
<1> HIDE DEF free
<1>3. free # {} => Nearest(a, free, bs) \in free /\ IsNearest(a, bs, free, Nearest(a, free, bs))
  BY <1>1, NearestIs
<1>4. free # {} => Nearest(a, free, bs) \in 1 .. Len(bs)
  BY <1>1, <1>3
<1> QED BY <1>1, <1>2, <1>3, <1>4 DEF None, free

\* The fold of the clusters of run A.
Chosen(pair, a, bs) == Append(pair, ChoiceOf(a, bs, pair))
IsPairing(it, as, bs) ==
    it = [s \in SUBSET DOMAIN as |->
            IF s = {} THEN <<>> ELSE Chosen(it[s \ {Max(s)}], as[Max(s)], bs)]
LEMMA PairingUnfolds ==
    ASSUME NEW as, NEW bs
    PROVE  Pairing(as, bs) = (CHOOSE it : IsPairing(it, as, bs))[DOMAIN as]
  BY DEF Pairing, FoldLeft, MapThenFoldSet, IsPairing, Chosen

\* Each cluster chooses among those that the ones before it have left.
Earlier(pair, k) == [i \in 1 .. k - 1 |-> pair[i]]
LEMMA PairingIs ==
    ASSUME NEW as \in Seq(ClusterRows), NEW bs \in Seq(ClusterRows)
    PROVE  /\ Pairing(as, bs) \in [1 .. Len(as) -> 0 .. Len(bs)]
           /\ \A k \in 1 .. Len(as) :
                Pairing(as, bs)[k] = ChoiceOf(as[k], bs, Earlier(Pairing(as, bs), k))
<1> DEFINE n == Len(as)
<1>1. n \in Nat /\ DOMAIN as = 1 .. n /\ Len(bs) \in Nat /\ \A k \in 1 .. n : as[k] \in ClusterRows
  BY LenProperties
<1> HIDE DEF n
<1> DEFINE V == 0 .. Len(bs)
           H == Seq(V)
<1> HIDE DEF V
<1>3. <<>> \in H
  OBVIOUS
<1>a. ASSUME NEW k \in 1 .. n, NEW h \in H PROVE Chosen(h, as[k], bs) \in H
  <2>1. ChoiceOf(as[k], bs, h) \in V
    BY <1>1, ChoiceIs DEF V
  <2>2. Append(h, ChoiceOf(as[k], bs, h)) \in Seq(V)
    BY <2>1, AppendProperties
  <2> QED BY <2>2 DEF Chosen
<1> HIDE DEF H
<1> DEFINE step == [p \in (1 .. n) \X H |-> Chosen(p[2], as[p[1]], bs)]
<1>2. \A k \in 1 .. n, h \in H : step[<<k, h>>] = Chosen(h, as[k], bs) /\ Chosen(h, as[k], bs) \in H
  BY <1>a
<1> HIDE DEF step
<1>4. PICK it0 : /\ IsFoldBy(it0, 1 .. n, <<>>, step, LatestOf(n))
                 /\ \A s \in SUBSET (1 .. n) : it0[s] \in H
  BY <1>1, <1>2, <1>3, LeftFoldExists
<1>5. IsPairing(it0, as, bs)
  <2>1. \A s \in SUBSET (1 .. n) : s # {} =>
          /\ LatestOf(n)[s] = Max(s) /\ Max(s) \in 1 .. n /\ it0[s \ {Max(s)}] \in H
    BY <1>1, <1>4, LatestPicks DEF Picks, LatestOf
  <2>2. \A s \in SUBSET (1 .. n) : s # {} =>
          step[<<LatestOf(n)[s], it0[s \ {LatestOf(n)[s]}]>>] = Chosen(it0[s \ {Max(s)}], as[Max(s)], bs)
    BY <1>2, <2>1
  <2> QED BY <1>1, <1>4, <2>2 DEF IsFoldBy, IsPairing
<1> DEFINE it == CHOOSE f : IsPairing(f, as, bs)
           upto == [k \in 0 .. n |-> it[1 .. k]]
<1>6. IsPairing(it, as, bs)
  BY <1>5
<1>7. Pairing(as, bs) = it[1 .. n]
  BY <1>1, PairingUnfolds
<1> HIDE DEF it
<1>8. upto[0] = <<>> /\ \A k \in 1 .. n : upto[k] = Chosen(upto[k - 1], as[k], bs)
  <2>1. upto[0] = it[{}] /\ it[{}] = <<>>
    <3>1. 0 \in 0 .. n /\ 1 .. 0 = {} /\ {} \in SUBSET DOMAIN as
      BY <1>1
    <3> QED BY <1>6, <3>1 DEF IsPairing
  <2>2. ASSUME NEW k \in 1 .. n PROVE upto[k] = Chosen(upto[k - 1], as[k], bs)
    <3>1. it[1 .. k] = Chosen(it[(1 .. k) \ {Max(1 .. k)}], as[Max(1 .. k)], bs)
      BY <1>1, <1>6, LatestOfPrefix DEF IsPairing
    <3>2. it[1 .. k] = Chosen(it[1 .. (k - 1)], as[k], bs)
      BY <1>1, <3>1, LatestOfPrefix
    <3>3. k \in 0 .. n /\ k - 1 \in 0 .. n
      BY <1>1
    <3>4. upto[k] = it[1 .. k] /\ upto[k - 1] = it[1 .. (k - 1)]
      BY <3>3
    <3> QED BY <3>2, <3>4
  <2> QED BY <2>1, <2>2
<1>9. upto[n] = Pairing(as, bs)
  BY <1>1, <1>7
<1> HIDE DEF upto
<1> DEFINE Good(k) ==
       /\ upto[k] \in H /\ Len(upto[k]) = k
       /\ \A i \in 1 .. k : upto[k][i] = ChoiceOf(as[i], bs, Earlier(upto[k], i))
           I == {k \in 0 .. n : Good(k)}
<1>10. Good(0)
  BY <1>3, <1>8
<1>11. ASSUME NEW k \in 1 .. n, k - 1 \in I PROVE k \in I
  <2> DEFINE p == upto[k - 1]
             c == ChoiceOf(as[k], bs, p)
  <2>1. Good(k - 1) /\ upto[k] = Append(p, c) /\ c \in V
    BY <1>1, <1>8, <1>11, ChoiceIs DEF Chosen, V
  <2>a. k \in 1 .. k /\ k \in Nat
    BY <1>1
  <2> HIDE DEF c, p
  <2>2. p \in Seq(V) /\ Len(p) = k - 1
    BY <2>1 DEF H, p
  <2>3. upto[k] \in H /\ Len(upto[k]) = k /\ upto[k][k] = c /\ \A i \in 1 .. k - 1 : upto[k][i] = p[i]
    BY <2>a, <2>1, <2>2, AppendProperties DEF H
  <2>4. \A i \in 1 .. k : Earlier(upto[k], i) = Earlier(p, i)
    BY <2>a, <2>3 DEF Earlier
  <2>5. p = Earlier(p, k)
    BY <2>2 DEF Earlier
  <2>6. upto[k][k] = ChoiceOf(as[k], bs, Earlier(upto[k], k))
    BY <2>a, <2>3, <2>4, <2>5 DEF c
  <2>7. \A i \in 1 .. k - 1 : upto[k][i] = ChoiceOf(as[i], bs, Earlier(upto[k], i))
    <3>1. \A i \in 1 .. k - 1 : p[i] = ChoiceOf(as[i], bs, Earlier(p, i))
      BY <2>1 DEF p
    <3>2. \A i \in 1 .. k - 1 : i \in 1 .. k
      BY <2>a
    <3> QED BY <2>3, <2>4, <3>1, <3>2
  <2>8. Good(k)
    <3>1. \A i \in 1 .. k : i = k \/ i \in 1 .. k - 1
      BY <2>a
    <3> QED BY <2>3, <2>6, <2>7, <3>1
  <2>9. k \in 0 .. n
    BY <1>1
  <2> HIDE DEF Good
  <2> QED BY <2>8, <2>9
<1> HIDE DEF Good
<1>12. 0 \in I
  BY <1>1, <1>10
<1> HIDE DEF I
<1>13. n \in I
  BY <1>1, <1>11, <1>12, UpTo
<1>14. Good(n)
  BY <1>13 DEF I
<1>15. upto[n] \in [1 .. n -> 0 .. Len(bs)]
  BY <1>14, LenProperties DEF Good, H, V
<1> QED BY <1>1, <1>9, <1>14, <1>15 DEF Good, n

\* What the greedy choice comes to.
IsPaired(pair, as, bs) ==
    /\ pair \in [1 .. Len(as) -> 0 .. Len(bs)]
    /\ \A i, j \in 1 .. Len(as) : i < j /\ pair[i] # None => pair[i] # pair[j]
    /\ \A i \in 1 .. Len(as), j \in 1 .. Len(bs) :
         pair[i] = None /\ (\A k \in 1 .. Len(as) : pair[k] # j)
           => ~Above(Similarity(as[i], bs[j]), MatchThreshold)

LEMMA PairingPairs ==
    ASSUME NEW as \in Seq(ClusterRows), NEW bs \in Seq(ClusterRows)
    PROVE  IsPaired(Pairing(as, bs), as, bs)
<1> DEFINE pair == Pairing(as, bs)
           n == Len(as)
<1>1. /\ pair \in [1 .. n -> 0 .. Len(bs)]
      /\ \A k \in 1 .. n : pair[k] = ChoiceOf(as[k], bs, Earlier(pair, k))
  BY PairingIs
<1> HIDE DEF pair
<1>2. n \in Nat /\ Len(bs) \in Nat /\ \A k \in 1 .. n : as[k] \in ClusterRows
  BY LenProperties
<1> HIDE DEF n
<1>3. \A k \in 1 .. n : \A j : j \in Range(Earlier(pair, k)) <=> \E i \in 1 .. k - 1 : pair[i] = j
  BY DEF Range, Earlier
<1>4. ASSUME NEW i \in 1 .. n, NEW j \in 1 .. n, i < j, pair[i] # None PROVE pair[i] # pair[j]
  <2>1. i \in 1 .. j - 1
    BY <1>2, <1>4
  <2>2. pair[i] \in Range(Earlier(pair, j))
    BY <1>3, <2>1
  <2>3. CASE Candidates(as[j], bs, Earlier(pair, j)) = {}
    <3>1. pair[j] = None
      BY <1>1, <1>2, <2>3, ChoiceIs
    <3> QED BY <1>4, <3>1
  <2>4. CASE Candidates(as[j], bs, Earlier(pair, j)) # {}
    <3>1. pair[j] \in Candidates(as[j], bs, Earlier(pair, j))
      BY <1>1, <1>2, <2>4, ChoiceIs
    <3> QED BY <2>2, <3>1 DEF Candidates
  <2> QED BY <2>3, <2>4
<1>5. ASSUME NEW i \in 1 .. n, NEW j \in 1 .. Len(bs), pair[i] = None, \A k \in 1 .. n : pair[k] # j
      PROVE  ~Above(Similarity(as[i], bs[j]), MatchThreshold)
  <2>1. Candidates(as[i], bs, Earlier(pair, i)) = {}
    BY <1>1, <1>2, <1>5, ChoiceIs
  <2>2. \A k \in 1 .. i - 1 : k \in 1 .. n
    BY <1>2
  <2>3. j \notin Range(Earlier(pair, i))
    BY <1>3, <1>5, <2>2
  <2> QED BY <2>1, <2>3 DEF Candidates, IndexOf
<1> QED BY <1>1, <1>4, <1>5 DEF IsPaired, n, pair

\* A run compared with itself: each cluster chooses itself.
LEMMA SamePairing ==
    ASSUME NEW as \in Seq(ClusterRows)
    PROVE  \A i \in 1 .. Len(as) : Pairing(as, as)[i] = i
<1> DEFINE pair == Pairing(as, as)
           n == Len(as)
           I == {k \in 0 .. n : \A i \in 1 .. k : pair[i] = i}
<1>1. /\ pair \in [1 .. n -> 0 .. Len(as)]
      /\ \A k \in 1 .. n : pair[k] = ChoiceOf(as[k], as, Earlier(pair, k))
  BY PairingIs
<1> HIDE DEF pair
<1>2. n \in Nat /\ \A k \in 1 .. n : as[k] \in ClusterRows
  BY LenProperties
<1>i. IndexOf(as) = 1 .. n
  BY DEF IndexOf
<1> HIDE DEF n
<1>3. 0 \in I
  BY <1>2
<1>4. ASSUME NEW k \in 1 .. n, k - 1 \in I PROVE k \in I
  <2> DEFINE free == Candidates(as[k], as, Earlier(pair, k))
             c == ChoiceOf(as[k], as, Earlier(pair, k))
  <2>1. Range(Earlier(pair, k)) = 1 .. k - 1
    <3>1. Earlier(pair, k) = [i \in 1 .. k - 1 |-> i]
      BY <1>2, <1>4 DEF Earlier
    <3> QED BY <3>1 DEF Range
  <2>2. \A j : j \in free <=> j \in k .. n /\ Above(Similarity(as[k], as[j]), MatchThreshold)
    <3>1. \A j : j \in free <=> /\ j \in (1 .. n) \ (1 .. k - 1)
                               /\ Above(Similarity(as[k], as[j]), MatchThreshold)
      BY <1>i, <2>1 DEF Candidates
    <3>2. k \in Int /\ k >= 1 /\ k - 1 \in Int /\ n \in Int
      BY <1>2
    <3>3. \A j : j \in (1 .. n) \ (1 .. k - 1) <=> j \in k .. n
      BY <3>2
    <3> QED BY <3>1, <3>3
  <2>3. k \in free
    <3>a. k \in k .. n
      BY <1>2
    <3>b. as[k] \in ClusterRows
      BY <1>2
    <3>1. k \in k .. n /\ as[k] \in ClusterRows
      BY <3>a, <3>b
    <3>2. Above(Similarity(as[k], as[k]), MatchThreshold)
      BY <3>1, SimilarityFacts
    <3> QED BY <2>2, <3>1, <3>2
  <2>4. c \in free /\ IsNearest(as[k], as, free, c)
    BY <1>2, <2>3, ChoiceIs
  <2> HIDE DEF free, c
  <2>5. c \in k .. n /\ as[c] \in ClusterRows /\ as[k] \in ClusterRows
    <3>1. c \in k .. n
      BY <2>2, <2>4
    <3>2. c \in 1 .. n
      BY <1>2, <3>1
    <3> QED BY <1>2, <3>1, <3>2
  <2>6. k < c => Above(Similarity(as[k], as[c]), Similarity(as[k], as[k]))
    BY <2>3, <2>4 DEF IsNearest
  <2>7. c = k
    <3>1. ~Above(Similarity(as[k], as[c]), Similarity(as[k], as[k]))
      BY <2>5, SimilarityFacts
    <3>2. ~(k < c)
      BY <2>6, <3>1
    <3>3. c \in Int /\ k \in Int /\ k <= c
      BY <1>2, <2>5
    <3> QED BY <3>2, <3>3
  <2>8. pair[k] = k
    BY <1>1, <2>7 DEF c
  <2>9. \A i \in 1 .. k : i = k \/ i \in 1 .. k - 1
    BY <1>2
  <2> QED BY <1>2, <1>4, <2>8, <2>9
<1> HIDE DEF I
<1>5. n \in I
  BY <1>2, <1>3, <1>4, UpTo
<1> QED BY <1>5 DEF I, n, pair

-----------------------------------------------------------------------------
\* s lists each element of S once.
IsListing(s, S) ==
    /\ Cardinality(S) \in Nat /\ s \in [1 .. Cardinality(S) -> S]
    /\ \A x \in S : \E n \in 1 .. Cardinality(S) : s[n] = x
    /\ \A m, n \in 1 .. Cardinality(S) : s[m] = s[n] => m = n

LEMMA InOrderLists == ASSUME NEW k \in Nat, NEW S \in SUBSET (1 .. k) PROVE IsListing(InOrder(S), S)
<1> DEFINE N == 1 .. k
           R == {p \in S \X S : p[1] < p[2]}
           c == Cardinality(S)
           Up(s) == \A m, n \in DOMAIN s : m < n => s[m] < s[n]
<1>1. IsFiniteSet(N) /\ S \in SUBSET N /\ S \subseteq Int
  BY FS_Interval
<1> HIDE DEF N
<1>2. IsFiniteSet(S)
  BY <1>1, FS_Subset
<1>3. \A x, y \in S : (<<x, y>> \in R) <=> x < y
  OBVIOUS
<1> HIDE DEF R
<1>4. Orders(R, S)
  BY <1>1, <1>3 DEF Orders
<1>5. PICK o : o \in ListOf(R, S)
  BY <1>2, <1>4, ListExists
<1>6. c \in Nat
  BY <1>2, FS_CardinalityType
<1>7. o \in [1 .. c -> S] /\ Up(o)
  BY <1>3, <1>5 DEF ListOf
<1>8. InOrder(S) = CHOOSE s \in [1 .. c -> S] : Up(s)
  BY DEF InOrder
<1>9. InOrder(S) \in [1 .. c -> S] /\ Up(InOrder(S))
  BY <1>7, <1>8
<1>10. \A i, j \in 1 .. Cardinality(S) : i < j => InOrder(S)[i] # InOrder(S)[j]
  <2>1. \A i, j \in 1 .. Cardinality(S) : i < j =>
          InOrder(S)[i] < InOrder(S)[j] /\ InOrder(S)[i] \in Int
    BY <1>1, <1>9
  <2> QED BY <2>1
<1>11. /\ \A x \in S : \E i \in 1 .. Cardinality(S) : InOrder(S)[i] = x
       /\ \A i, j \in 1 .. Cardinality(S) : InOrder(S)[i] = InOrder(S)[j] => i = j
  BY <1>2, <1>9, <1>10, ListHasAll
<1> QED BY <1>6, <1>9, <1>11 DEF IsListing

\* Three sequences, one after the other.
Joined(w, x, y, z, a, b, c, V) ==
    /\ w \in Seq(V) /\ Len(w) = a + b + c
    /\ \A n \in 1 .. a : w[n] = x[n]
    /\ \A n \in 1 .. b : w[a + n] = y[n]
    /\ \A n \in 1 .. c : w[a + b + n] = z[n]
LEMMA ThreeParts ==
    ASSUME NEW a \in Nat, NEW b \in Nat, NEW c \in Nat, NEW V,
           NEW x \in [1 .. a -> V], NEW y \in [1 .. b -> V], NEW z \in [1 .. c -> V]
    PROVE  Joined(x \o y \o z, x, y, z, a, b, c, V)
<1>1. x \in Seq(V) /\ y \in Seq(V) /\ z \in Seq(V) /\ Len(x) = a /\ Len(y) = b /\ Len(z) = c
  OBVIOUS
<1> DEFINE w == x \o y
<1>2. /\ w \in Seq(V) /\ Len(w) = a + b
      /\ \A n \in 1 .. a : w[n] = x[n]
      /\ \A n \in 1 .. b : w[a + n] = y[n]
  <2>1. /\ w \in Seq(V) /\ Len(w) = a + b
        /\ \A n \in 1 .. a + b : w[n] = IF n <= a THEN x[n] ELSE y[n - a]
    BY <1>1, ConcatProperties
  <2>2. ASSUME NEW n \in 1 .. a PROVE w[n] = x[n]
    <3>1. n \in 1 .. a + b /\ n <= a
      OBVIOUS
    <3> HIDE DEF w
    <3> QED BY <2>1, <3>1
  <2>3. ASSUME NEW n \in 1 .. b PROVE w[a + n] = y[n]
    <3>1. a + n \in 1 .. a + b /\ ~(a + n <= a) /\ (a + n) - a = n
      OBVIOUS
    <3> HIDE DEF w
    <3> QED BY <2>1, <3>1
  <2> QED BY <2>1, <2>2, <2>3
<1> HIDE DEF w
<1>3. /\ w \o z \in Seq(V) /\ Len(w \o z) = a + b + c
      /\ \A n \in 1 .. a + b : (w \o z)[n] = w[n]
      /\ \A n \in 1 .. c : (w \o z)[a + b + n] = z[n]
  <2> DEFINE v == w \o z
  <2>1. /\ v \in Seq(V) /\ Len(v) = a + b + c
        /\ \A n \in 1 .. a + b + c : v[n] = IF n <= a + b THEN w[n] ELSE z[n - (a + b)]
    <3>1. /\ v \in Seq(V) /\ Len(v) = Len(w) + c
          /\ \A n \in 1 .. Len(w) + c : v[n] = IF n <= Len(w) THEN w[n] ELSE z[n - Len(w)]
      BY <1>1, <1>2, ConcatProperties
    <3> HIDE DEF v
    <3> QED BY <1>2, <3>1
  <2> HIDE DEF v
  <2>2. ASSUME NEW n \in 1 .. a + b PROVE v[n] = w[n]
    <3>1. n \in 1 .. a + b + c /\ n <= a + b
      OBVIOUS
    <3> QED BY <2>1, <3>1
  <2>3. ASSUME NEW n \in 1 .. c PROVE v[a + b + n] = z[n]
    <3>1. a + b + n \in 1 .. a + b + c /\ ~(a + b + n <= a + b) /\ (a + b + n) - (a + b) = n
      OBVIOUS
    <3> QED BY <2>1, <3>1
  <2> QED BY <2>1, <2>2, <2>3 DEF v
<1>4. /\ \A n \in 1 .. a : n \in 1 .. a + b
      /\ \A n \in 1 .. b : a + n \in 1 .. a + b
  OBVIOUS
<1> DEFINE all == w \o z
<1>5. Joined(all, x, y, z, a, b, c, V)
  <2> HIDE DEF all
  <2>1. /\ all \in Seq(V) /\ Len(all) = a + b + c
        /\ \A n \in 1 .. a + b : all[n] = w[n]
        /\ \A n \in 1 .. c : all[a + b + n] = z[n]
    BY <1>3 DEF all
  <2>2. ASSUME NEW n \in 1 .. a PROVE all[n] = x[n]
    BY <1>2, <1>4, <2>1
  <2>3. ASSUME NEW n \in 1 .. b PROVE all[a + n] = y[n]
    BY <1>2, <1>4, <2>1
  <2> QED BY <2>1, <2>2, <2>3 DEF Joined
<1> QED BY <1>5 DEF w

\* What an event of the comparison may be: of a pair, of what is left of A, of what is left of B.
PairEvent(pair, as, bs, i) == Event(Kind(as[i], bs[pair[i]]), i, pair[i], bs[pair[i]].rank)
GoneEvent(i) == Event("resolved", i, None, 4)
NewEvent(bs, j) == Event("emerged", None, j, bs[j].rank)
IsEvent(e, pair, as, bs) ==
    \/ \E i \in 1 .. Len(as) : pair[i] # None /\ e = PairEvent(pair, as, bs, i)
    \/ \E i \in 1 .. Len(as) : pair[i] = None /\ e = GoneEvent(i)
    \/ \E j \in 1 .. Len(bs) : (\A k \in 1 .. Len(as) : pair[k] # j) /\ e = NewEvent(bs, j)

\* One event, and no other, has v in field f.
OnlyOne(all, f, v) ==
    \E n \in 1 .. Len(all) : all[n][f] = v /\ \A m \in 1 .. Len(all) : all[m][f] = v => m = n

TellsAll(all, pair, as, bs) ==
    /\ Len(all) \in Nat /\ DOMAIN all = 1 .. Len(all)
    /\ \A n \in 1 .. Len(all) : IsEvent(all[n], pair, as, bs)
    /\ \A i \in 1 .. Len(as) : OnlyOne(all, "a", i)
    /\ \A j \in 1 .. Len(bs) : OnlyOne(all, "b", j)

LEMMA EventFields ==
    \A k, i, j, r : LET e == Event(k, i, j, r) IN
        e.kind = k /\ e.a = i /\ e.b = j /\ e.severity = EventSeverity(k, r)
  BY DEF Event

LEMMA AllEventsTellAll ==
    ASSUME NEW as \in Seq(ClusterRows), NEW bs \in Seq(ClusterRows)
    PROVE  TellsAll(AllEvents(as, bs), Pairing(as, bs), as, bs)
<1> DEFINE pair == Pairing(as, bs)
           Kept == {i \in IndexOf(as) : pair[i] # None}
           Gone == {i \in IndexOf(as) : pair[i] = None}
           Left == IndexOf(bs) \ Range(pair)
           kept == InOrder(Kept)
           gone == InOrder(Gone)
           left == InOrder(Left)
           x == [n \in DOMAIN kept |-> PairEvent(pair, as, bs, kept[n])]
           y == [n \in DOMAIN gone |-> GoneEvent(gone[n])]
           z == [n \in DOMAIN left |-> NewEvent(bs, left[n])]
           all == x \o y \o z
<1>1. AllEvents(as, bs) = all
  BY DEF AllEvents, PairEvent, GoneEvent, NewEvent
<1>2. IsPaired(pair, as, bs)
  BY PairingPairs
<1>3. Len(as) \in Nat /\ Len(bs) \in Nat
  BY LenProperties
<1> HIDE DEF pair
<1>4. /\ \A i : i \in Kept <=> i \in 1 .. Len(as) /\ pair[i] # None
      /\ \A i : i \in Gone <=> i \in 1 .. Len(as) /\ pair[i] = None
      /\ \A j : j \in Left <=> j \in 1 .. Len(bs) /\ \A k \in 1 .. Len(as) : pair[k] # j
  <2>1. DOMAIN pair = 1 .. Len(as)
    BY <1>2 DEF IsPaired
  <2> QED BY <2>1 DEF IndexOf, Range
<1>5. Kept \in SUBSET (1 .. Len(as)) /\ Gone \in SUBSET (1 .. Len(as)) /\ Left \in SUBSET (1 .. Len(bs))
  BY <1>4
<1> HIDE DEF Kept, Gone, Left
<1>6. IsListing(kept, Kept) /\ IsListing(gone, Gone) /\ IsListing(left, Left)
  BY <1>3, <1>5, InOrderLists
<1> HIDE DEF kept, gone, left
<1> DEFINE a == Cardinality(Kept)
           b == Cardinality(Gone)
           c == Cardinality(Left)
<1>7. /\ a \in Nat /\ b \in Nat /\ c \in Nat
      /\ kept \in [1 .. a -> Kept] /\ gone \in [1 .. b -> Gone] /\ left \in [1 .. c -> Left]
      /\ DOMAIN kept = 1 .. a /\ DOMAIN gone = 1 .. b /\ DOMAIN left = 1 .. c
  BY <1>6 DEF IsListing
<1> DEFINE V == {x[n] : n \in 1 .. a} \cup {y[n] : n \in 1 .. b} \cup {z[n] : n \in 1 .. c}
<1>8. x \in [1 .. a -> V] /\ y \in [1 .. b -> V] /\ z \in [1 .. c -> V]
  BY <1>7
<1>9. /\ \A n \in 1 .. a : x[n] = PairEvent(pair, as, bs, kept[n])
      /\ \A n \in 1 .. b : y[n] = GoneEvent(gone[n])
      /\ \A n \in 1 .. c : z[n] = NewEvent(bs, left[n])
  BY <1>7
<1> HIDE DEF x, y, z, V, a, b, c
<1>10. \A n \in 1 .. a : kept[n] = x[n].a /\ pair[kept[n]] = x[n].b
  <2>1. TAKE n \in 1 .. a
  <2>2. x[n] = PairEvent(pair, as, bs, kept[n])
    BY <1>9
  <2> DEFINE k == Kind(as[kept[n]], bs[pair[kept[n]]])
             v == EventSeverity(k, bs[pair[kept[n]]].rank)
  <2>3. x[n] = [kind |-> k, a |-> kept[n], b |-> pair[kept[n]], severity |-> v]
    BY <2>2 DEF PairEvent, Event
  <2> HIDE DEF k, v
  <2> QED BY <2>3
<1>11. \A n \in 1 .. b : gone[n] = y[n].a /\ y[n].b = None
  BY <1>9, EventFields DEF GoneEvent
<1>12. \A n \in 1 .. c : z[n].a = None /\ left[n] = z[n].b
  BY <1>9, EventFields DEF NewEvent
<1>n. a \in Nat /\ b \in Nat /\ c \in Nat
  BY <1>7
<1>k. Joined(all, x, y, z, a, b, c, V)
  BY <1>n, <1>8, ThreeParts
<1>13. /\ all \in Seq(V) /\ Len(all) = a + b + c
       /\ \A n \in 1 .. a : all[n] = x[n]
       /\ \A n \in 1 .. b : all[a + n] = y[n]
       /\ \A n \in 1 .. c : all[a + b + n] = z[n]
  BY <1>k DEF Joined
<1>14. Len(all) \in Nat /\ DOMAIN all = 1 .. Len(all)
  BY <1>13, LenProperties
<1> HIDE DEF all
\* A position is in one of the three parts.
<1>15. ASSUME NEW n \in 1 .. Len(all)
       PROVE  \/ n \in 1 .. a /\ all[n] = x[n]
              \/ n - a \in 1 .. b /\ all[n] = y[n - a]
              \/ n - a - b \in 1 .. c /\ all[n] = z[n - a - b]
  <2>1. CASE n <= a
    <3>1. n \in 1 .. a
      BY <1>7, <1>13, <2>1
    <3> QED BY <1>13, <3>1
  <2>2. CASE n > a /\ n <= a + b
    <3>1. n - a \in 1 .. b /\ a + (n - a) = n
      BY <1>7, <1>13, <2>2
    <3> QED BY <1>13, <3>1
  <2>3. CASE n > a + b
    <3>1. n - a - b \in 1 .. c /\ a + b + (n - a - b) = n
      BY <1>7, <1>13, <2>3
    <3> QED BY <1>13, <3>1
  <2> QED BY <1>7, <1>13, <2>1, <2>2, <2>3
<1>16. /\ \A n \in 1 .. a : n \in 1 .. Len(all)
       /\ \A n \in 1 .. b : a + n \in 1 .. Len(all)
       /\ \A n \in 1 .. c : a + b + n \in 1 .. Len(all)
  BY <1>7, <1>13
<1>17. /\ \A n \in 1 .. a : kept[n] \in Kept
       /\ \A n \in 1 .. b : gone[n] \in Gone
       /\ \A n \in 1 .. c : left[n] \in Left
  BY <1>7
<1>18. ASSUME NEW n \in 1 .. Len(all) PROVE IsEvent(all[n], pair, as, bs)
  <2>1. CASE n \in 1 .. a /\ all[n] = x[n]
    <3>1. kept[n] \in 1 .. Len(as) /\ pair[kept[n]] # None
      BY <1>4, <1>17, <2>1
    <3> QED BY <1>9, <2>1, <3>1 DEF IsEvent
  <2>2. CASE n - a \in 1 .. b /\ all[n] = y[n - a]
    <3>1. gone[n - a] \in Gone
      BY <1>17, <2>2
    <3>2. gone[n - a] \in 1 .. Len(as) /\ pair[gone[n - a]] = None
      BY <1>4, <3>1
    <3> QED BY <1>9, <2>2, <3>2 DEF IsEvent
  <2>3. CASE n - a - b \in 1 .. c /\ all[n] = z[n - a - b]
    <3>1. left[n - a - b] \in Left
      BY <1>17, <2>3
    <3>2. left[n - a - b] \in 1 .. Len(bs) /\ \A k \in 1 .. Len(as) : pair[k] # left[n - a - b]
      BY <1>4, <3>1
    <3> QED BY <1>9, <2>3, <3>2 DEF IsEvent
  <2> QED BY <1>15, <2>1, <2>2, <2>3
<1>l. /\ \A i \in Kept : \E n \in 1 .. a : kept[n] = i
      /\ \A m, n \in 1 .. a : kept[m] = kept[n] => m = n
      /\ \A i \in Gone : \E n \in 1 .. b : gone[n] = i
      /\ \A m, n \in 1 .. b : gone[m] = gone[n] => m = n
      /\ \A i \in Left : \E n \in 1 .. c : left[n] = i
      /\ \A m, n \in 1 .. c : left[m] = left[n] => m = n
  BY <1>6 DEF IsListing, a, b, c
<1>19. ASSUME NEW i \in 1 .. Len(as) PROVE OnlyOne(all, "a", i)
  <2>0. i # None
    BY DEF None
  <2>1. CASE pair[i] # None
    <3>1. PICK n \in 1 .. a : kept[n] = i
      BY <1>4, <1>l, <2>1
    <3>2. n \in 1 .. Len(all) /\ all[n].a = i
      BY <1>10, <1>13, <1>16, <3>1
    <3>3. ASSUME NEW m \in 1 .. Len(all), all[m].a = i PROVE m = n
      <4>1. CASE m \in 1 .. a /\ all[m] = x[m]
        BY <1>10, <1>l, <3>1, <3>3, <4>1
      <4>2. CASE m - a \in 1 .. b /\ all[m] = y[m - a]
        <5>1. gone[m - a] = i /\ gone[m - a] \in Gone
          BY <1>11, <1>17, <3>3, <4>2
        <5> QED BY <1>4, <2>1, <5>1
      <4>3. CASE m - a - b \in 1 .. c /\ all[m] = z[m - a - b]
        BY <1>12, <2>0, <3>3, <4>3
      <4> QED BY <1>15, <4>1, <4>2, <4>3
    <3> QED BY <3>2, <3>3 DEF OnlyOne
  <2>2. CASE pair[i] = None
    <3>1. PICK n \in 1 .. b : gone[n] = i
      BY <1>4, <1>l, <2>2
    <3>2. a + n \in 1 .. Len(all) /\ all[a + n].a = i
      BY <1>11, <1>13, <1>16, <3>1
    <3>3. ASSUME NEW m \in 1 .. Len(all), all[m].a = i PROVE m = a + n
      <4>1. CASE m \in 1 .. a /\ all[m] = x[m]
        <5>1. kept[m] = i /\ kept[m] \in Kept
          BY <1>10, <1>17, <3>3, <4>1
        <5> QED BY <1>4, <2>2, <5>1
      <4>2. CASE m - a \in 1 .. b /\ all[m] = y[m - a]
        <5>1. m - a = n
          BY <1>11, <1>l, <3>1, <3>3, <4>2
        <5>2. m \in Int /\ a \in Int /\ b \in Int
          BY <1>7, <1>14
        <5> QED BY <5>1, <5>2
      <4>3. CASE m - a - b \in 1 .. c /\ all[m] = z[m - a - b]
        BY <1>12, <2>0, <3>3, <4>3
      <4> QED BY <1>15, <4>1, <4>2, <4>3
    <3> QED BY <3>2, <3>3 DEF OnlyOne
  <2> QED BY <2>1, <2>2
<1>20. ASSUME NEW j \in 1 .. Len(bs) PROVE OnlyOne(all, "b", j)
  <2>0. j # None
    BY DEF None
  <2>1. ASSUME NEW i \in 1 .. Len(as), pair[i] = j PROVE OnlyOne(all, "b", j)
    <3>1. PICK n \in 1 .. a : kept[n] = i
      BY <1>4, <1>l, <2>0, <2>1
    <3>2. n \in 1 .. Len(all) /\ all[n].b = j
      BY <1>10, <1>13, <1>16, <2>1, <3>1
    <3>3. ASSUME NEW m \in 1 .. Len(all), all[m].b = j PROVE m = n
      <4>1. CASE m \in 1 .. a /\ all[m] = x[m]
        <5>1. pair[kept[m]] = j /\ kept[m] \in Kept
          BY <1>10, <1>17, <3>3, <4>1
        <5>2. kept[m] \in 1 .. Len(as)
          BY <1>4, <5>1
        <5>3. \A k, l \in 1 .. Len(as) : k < l /\ pair[k] # None => pair[k] # pair[l]
          BY <1>2 DEF IsPaired
        <5>4. ~(kept[m] < i) /\ ~(i < kept[m])
          BY <2>0, <2>1, <5>1, <5>2, <5>3
        <5>5. kept[m] = i
          <6>1. kept[m] \in Int /\ i \in Int
            <7>1. \A k \in 1 .. Len(as) : k \in Int
              BY <1>3
            <7> QED BY <2>1, <5>2, <7>1
          <6> QED BY <5>4, <6>1
        <5> QED BY <1>l, <3>1, <4>1, <5>5
      <4>2. CASE m - a \in 1 .. b /\ all[m] = y[m - a]
        BY <1>11, <2>0, <3>3, <4>2
      <4>3. CASE m - a - b \in 1 .. c /\ all[m] = z[m - a - b]
        <5>1. left[m - a - b] = j /\ left[m - a - b] \in Left
          BY <1>12, <1>17, <3>3, <4>3
        <5> QED BY <1>4, <2>1, <5>1
      <4> QED BY <1>15, <4>1, <4>2, <4>3
    <3> QED BY <3>2, <3>3 DEF OnlyOne
  <2>2. CASE \A i \in 1 .. Len(as) : pair[i] # j
    <3>1. PICK n \in 1 .. c : left[n] = j
      BY <1>4, <1>l, <2>2
    <3>2. a + b + n \in 1 .. Len(all) /\ all[a + b + n].b = j
      BY <1>12, <1>13, <1>16, <3>1
    <3>3. ASSUME NEW m \in 1 .. Len(all), all[m].b = j PROVE m = a + b + n
      <4>1. CASE m \in 1 .. a /\ all[m] = x[m]
        <5>1. pair[kept[m]] = j /\ kept[m] \in Kept
          BY <1>10, <1>17, <3>3, <4>1
        <5> QED BY <1>4, <2>2, <5>1
      <4>2. CASE m - a \in 1 .. b /\ all[m] = y[m - a]
        BY <1>11, <2>0, <3>3, <4>2
      <4>3. CASE m - a - b \in 1 .. c /\ all[m] = z[m - a - b]
        <5>1. m - a - b = n
          BY <1>12, <1>l, <3>1, <3>3, <4>3
        <5>2. m \in Int /\ a \in Int /\ b \in Int
          BY <1>7, <1>14
        <5> QED BY <5>1, <5>2
      <4> QED BY <1>15, <4>1, <4>2, <4>3
    <3> QED BY <3>2, <3>3 DEF OnlyOne
  <2> QED BY <2>1, <2>2
<1>21. TellsAll(all, pair, as, bs)
  BY <1>14, <1>18, <1>19, <1>20 DEF TellsAll
<1> QED BY <1>1, <1>21 DEF pair

Kinds == {"escalated", "emerged", "anomaly_spike", "volume_surge", "resolved",
          "de_escalated", "volume_drop", "stable"}
LEMMA EventOfKind ==
    ASSUME NEW e, NEW pair, NEW as, NEW bs, IsEvent(e, pair, as, bs)
    PROVE  e.kind \in Kinds /\ e.severity \in 0 .. 3
<1>1. \A k, r : EventSeverity(k, r) \in 0 .. 3
  BY DEF EventSeverity
<1>2. \A a, b : Kind(a, b) \in Kinds
  BY DEF Kind, Kinds
<1>3. ASSUME NEW k \in Kinds, NEW i, NEW j, NEW r, e = Event(k, i, j, r)
      PROVE  e.kind \in Kinds /\ e.severity \in 0 .. 3
  <2> DEFINE v == EventSeverity(k, r)
  <2>1. v \in 0 .. 3 /\ e = [kind |-> k, a |-> i, b |-> j, severity |-> v]
    BY <1>1, <1>3 DEF Event
  <2> HIDE DEF v
  <2> QED BY <2>1
<1>4. "resolved" \in Kinds /\ "emerged" \in Kinds
  BY DEF Kinds
<1>5. CASE \E i \in 1 .. Len(as) : pair[i] # None /\ e = PairEvent(pair, as, bs, i)
  <2>1. PICK i \in 1 .. Len(as) : e = PairEvent(pair, as, bs, i)
    BY <1>5
  <2> DEFINE k == Kind(as[i], bs[pair[i]])
  <2>2. k \in Kinds /\ e = Event(k, i, pair[i], bs[pair[i]].rank)
    BY <1>2, <2>1 DEF PairEvent
  <2> HIDE DEF k
  <2> QED BY <1>3, <2>2
<1>6. CASE \E i \in 1 .. Len(as) : pair[i] = None /\ e = GoneEvent(i)
  <2>1. PICK i \in 1 .. Len(as) : e = Event("resolved", i, None, 4)
    BY <1>6 DEF GoneEvent
  <2> QED BY <1>3, <1>4, <2>1
<1>7. CASE \E j \in 1 .. Len(bs) : (\A k \in 1 .. Len(as) : pair[k] # j) /\ e = NewEvent(bs, j)
  <2>1. PICK j \in 1 .. Len(bs) : e = Event("emerged", None, j, bs[j].rank)
    BY <1>7 DEF NewEvent
  <2> QED BY <1>3, <1>4, <2>1
<1> QED BY <1>5, <1>6, <1>7 DEF IsEvent

LEMMA RankOfKind == \A k \in Kinds : KindRank[k] \in 0 .. 7
  BY DEF Kinds, KindRank

\* The sorting only moves events.
LEMMA EventOrderMoves ==
    ASSUME NEW all, NEW n \in Nat, n = Len(all),
           \A k \in 1 .. n : all[k].kind \in Kinds /\ all[k].severity \in 0 .. 3
    PROVE  /\ EventOrder(all) \in [1 .. n -> 1 .. n]
           /\ \A k \in 1 .. n : \E i \in 1 .. n : EventOrder(all)[i] = k
           /\ \A i, j \in 1 .. n : EventOrder(all)[i] = EventOrder(all)[j] => i = j
<1> DEFINE sev == [k \in 1 .. n |-> all[k].severity]
           rank == [k \in 1 .. n |-> KindRank[all[k].kind]]
           N == 1 .. n
           R == {p \in N \X N : Before(all, p[1], p[2])}
<1>1. \A k \in 1 .. n : sev[k] \in 0 .. 3
  OBVIOUS
<1>2. \A k \in 1 .. n : rank[k] \in 0 .. 7
  BY RankOfKind
<1>3. \A i, j \in 1 .. n :
        Before(all, i, j) <=>
          \/ sev[i] < sev[j]
          \/ sev[i] = sev[j] /\ (rank[i] < rank[j] \/ (rank[i] = rank[j] /\ i < j))
  BY DEF Before
<1> HIDE DEF sev, rank
<1>4. /\ \A i \in 1 .. n : ~Before(all, i, i)
      /\ \A i, j \in 1 .. n : i # j => Before(all, i, j) \/ Before(all, j, i)
      /\ \A i, j, k \in 1 .. n : Before(all, i, j) /\ Before(all, j, k) => Before(all, i, k)
  <2>1. \A i \in 1 .. n : sev[i] \in Int /\ rank[i] \in Int /\ i \in Int
    BY <1>1, <1>2
  <2>2. \A i \in 1 .. n : ~Before(all, i, i)
    BY <1>3, <2>1
  <2>3. \A i, j \in 1 .. n : i # j => Before(all, i, j) \/ Before(all, j, i)
    BY <1>3, <2>1
  <2>4. ASSUME NEW i \in 1 .. n, NEW j \in 1 .. n, NEW k \in 1 .. n,
               Before(all, i, j), Before(all, j, k)
        PROVE  Before(all, i, k)
    <3>1. /\ sev[i] < sev[j] \/ (sev[i] = sev[j] /\ (rank[i] < rank[j] \/ (rank[i] = rank[j] /\ i < j)))
          /\ sev[j] < sev[k] \/ (sev[j] = sev[k] /\ (rank[j] < rank[k] \/ (rank[j] = rank[k] /\ j < k)))
      BY <1>3, <2>4
    <3>2. sev[i] < sev[k] \/ (sev[i] = sev[k] /\ (rank[i] < rank[k] \/ (rank[i] = rank[k] /\ i < k)))
      BY <2>1, <3>1
    <3> QED BY <1>3, <3>2
  <2> QED BY <2>2, <2>3, <2>4
<1>5. IsFiniteSet(N) /\ Cardinality(N) = n
  BY UpToIsFinite
<1>6. \A i, j \in N : (<<i, j>> \in R) <=> Before(all, i, j)
  OBVIOUS
<1> HIDE DEF R
<1>7. Orders(R, N)
  BY <1>4, <1>6 DEF Orders
<1>8. PICK o : o \in ListOf(R, N)
  <2> HIDE DEF N
  <2> QED BY <1>5, <1>7, ListExists
<1> DEFINE Up(s) == \A i, j \in N : i < j => Before(all, s[i], s[j])
<1>9. o \in [N -> N] /\ Up(o)
  BY <1>5, <1>6, <1>8 DEF ListOf
<1>10. EventOrder(all) = CHOOSE s \in [N -> N] : Up(s)
  BY DEF EventOrder, IndexOf
<1> DEFINE order == EventOrder(all)
<1>11. order \in [N -> N] /\ Up(order)
  BY <1>9, <1>10
<1> HIDE DEF order
<1>12. \A i, j \in 1 .. n : i < j => order[i] # order[j]
  BY <1>4, <1>11
<1>13. /\ \A k \in N : \E i \in 1 .. Cardinality(N) : order[i] = k
       /\ \A i, j \in 1 .. Cardinality(N) : order[i] = order[j] => i = j
  <2>1. order \in [1 .. Cardinality(N) -> N] /\ \A i, j \in 1 .. Cardinality(N) : i < j => order[i] # order[j]
    BY <1>5, <1>11, <1>12
  <2> HIDE DEF N
  <2> QED BY <1>5, <2>1, ListHasAll
<1> QED BY <1>5, <1>11, <1>13 DEF order

LEMMA EventsTellAll ==
    ASSUME NEW as \in Seq(ClusterRows), NEW bs \in Seq(ClusterRows)
    PROVE  TellsAll(Events(as, bs), Pairing(as, bs), as, bs)
<1> DEFINE pair == Pairing(as, bs)
           all == AllEvents(as, bs)
           n == Len(all)
           order == EventOrder(all)
           ev == [k \in IndexOf(all) |-> all[order[k]]]
<1>1. TellsAll(all, pair, as, bs)
  BY AllEventsTellAll
<1>2. Events(as, bs) = ev /\ IndexOf(all) = 1 .. n
  BY DEF Events, IndexOf
<1> HIDE DEF pair, all
<1>3. n \in Nat
  BY <1>1 DEF TellsAll
<1>4. \A k \in 1 .. n : all[k].kind \in Kinds /\ all[k].severity \in 0 .. 3
  BY <1>1, EventOfKind DEF TellsAll
<1>5. /\ order \in [1 .. n -> 1 .. n]
      /\ \A k \in 1 .. n : \E i \in 1 .. n : order[i] = k
      /\ \A i, j \in 1 .. n : order[i] = order[j] => i = j
  BY <1>3, <1>4, EventOrderMoves
<1> HIDE DEF order
<1>6. ev \in [1 .. n -> {all[k] : k \in 1 .. n}] /\ \A k \in 1 .. n : ev[k] = all[order[k]]
  BY <1>2, <1>5
<1>7. Len(ev) = n /\ DOMAIN ev = 1 .. n
  BY <1>3, <1>6
<1> HIDE DEF ev
<1>8. ASSUME NEW f, NEW v, OnlyOne(all, f, v) PROVE OnlyOne(ev, f, v)
  <2>1. PICK k \in 1 .. n : all[k][f] = v /\ \A m \in 1 .. n : all[m][f] = v => m = k
    BY <1>8 DEF OnlyOne
  <2>2. PICK i \in 1 .. n : order[i] = k
    BY <1>5
  <2>3. ev[i][f] = v
    BY <1>6, <2>1, <2>2
  <2>4. ASSUME NEW m \in 1 .. n, ev[m][f] = v PROVE m = i
    <3>1. order[m] \in 1 .. n /\ all[order[m]][f] = v
      BY <1>5, <1>6, <2>4
    <3>2. order[m] = order[i]
      BY <2>1, <2>2, <3>1
    <3> QED BY <1>5, <3>2
  <2> QED BY <1>7, <2>3, <2>4 DEF OnlyOne
<1>9. \A k \in 1 .. n : IsEvent(ev[k], pair, as, bs)
  <2>1. TAKE k \in 1 .. n
  <2>2. order[k] \in 1 .. n /\ ev[k] = all[order[k]]
    BY <1>5, <1>6
  <2>3. IsEvent(all[order[k]], pair, as, bs)
    BY <1>1, <2>2 DEF TellsAll
  <2> QED BY <2>2, <2>3
<1>10. /\ \A i \in 1 .. Len(as) : OnlyOne(ev, "a", i)
       /\ \A j \in 1 .. Len(bs) : OnlyOne(ev, "b", j)
  BY <1>1, <1>8 DEF TellsAll
<1>11. TellsAll(ev, pair, as, bs)
  BY <1>3, <1>7, <1>9, <1>10 DEF TellsAll
<1> QED BY <1>2, <1>11 DEF pair

\* A kind is that of a pair, unless a cluster is without a match.
Explained(kind, pair, as, bs) ==
    \/ \E i \in 1 .. Len(as) : kind = Kind(as[i], bs[pair[i]])
    \/ \E i \in 1 .. Len(as) : pair[i] = None
    \/ \E j \in 1 .. Len(bs) : \A k \in 1 .. Len(as) : pair[k] # j

\* What each sort of event says.
LEMMA WhatEventsSay ==
    ASSUME NEW e, NEW pair, NEW as, NEW bs, IsEvent(e, pair, as, bs)
    PROVE  /\ e.kind = "resolved" => e.a \in 1 .. Len(as) /\ pair[e.a] = None
           /\ e.kind = "emerged" => e.b \in 1 .. Len(bs) /\ \A k \in 1 .. Len(as) : pair[k] # e.b
           /\ Explained(e.kind, pair, as, bs)
<1>1. CASE \E i \in 1 .. Len(as) : pair[i] # None /\ e = PairEvent(pair, as, bs, i)
  <2>1. PICK i \in 1 .. Len(as) : e = PairEvent(pair, as, bs, i)
    BY <1>1
  <2> DEFINE k == Kind(as[i], bs[pair[i]])
             v == EventSeverity(k, bs[pair[i]].rank)
  <2>2. e = [kind |-> k, a |-> i, b |-> pair[i], severity |-> v]
    BY <2>1 DEF PairEvent, Event
  <2>3. k # "resolved" /\ k # "emerged"
    BY DEF Kind
  <2> HIDE DEF k, v
  <2>4. e.kind = k
    BY <2>2
  <2>5. Explained(e.kind, pair, as, bs)
    BY <2>4 DEF k, Explained
  <2> QED BY <2>3, <2>4, <2>5
<1>2. CASE \E i \in 1 .. Len(as) : pair[i] = None /\ e = GoneEvent(i)
  <2>1. PICK i \in 1 .. Len(as) : pair[i] = None /\ e = GoneEvent(i)
    BY <1>2
  <2>2. e.kind = "resolved" /\ e.a = i
    BY <2>1 DEF GoneEvent, Event
  <2> QED BY <2>1, <2>2 DEF Explained
<1>3. CASE \E j \in 1 .. Len(bs) : (\A k \in 1 .. Len(as) : pair[k] # j) /\ e = NewEvent(bs, j)
  <2>1. PICK j \in 1 .. Len(bs) : (\A k \in 1 .. Len(as) : pair[k] # j) /\ e = NewEvent(bs, j)
    BY <1>3
  <2>2. e.kind = "emerged" /\ e.b = j
    BY <2>1 DEF NewEvent, Event
  <2> QED BY <2>1, <2>2 DEF Explained
<1> QED BY <1>1, <1>2, <1>3 DEF IsEvent

LEMMA SameKind == ASSUME NEW c \in ClusterRows PROVE Kind(c, c) = "stable"
<1>1. c.size \in Nat /\ c.anomaly \in 0 .. 100 /\ c.rank \in 0 .. 3
  BY DriftAssumption
<1> DEFINE base == IF c.size > 1 THEN c.size ELSE 1
<1>2. base \in Nat /\ base >= 1 /\ c.size - c.size = 0 /\ c.anomaly - c.anomaly = 0
      /\ ~(c.rank < c.rank) /\ ~(c.rank > c.rank)
  BY <1>1
<1>3. Kind(c, c) = IF 2 * (c.size - c.size) >= base THEN "volume_surge"
                   ELSE IF 2 * (c.size - c.size) <= -base THEN "volume_drop"
                   ELSE IF c.anomaly - c.anomaly >= 15 THEN "anomaly_spike" ELSE "stable"
  BY <1>2 DEF Kind
<1> HIDE DEF base
<1> QED BY <1>2, <1>3

-----------------------------------------------------------------------------
\* The health of a run is a fraction.
Weighed(sum, c) == sum + 100 * c.rank + 3 * (100 - c.anomaly)
HealthSum(run) == FoldLeft(LAMBDA sum, c : sum + 100 * c.rank + 3 * (100 - c.anomaly), 0, run)
IsHealth(it, run) ==
    it = [s \in SUBSET DOMAIN run |->
            IF s = {} THEN 0 ELSE Weighed(it[s \ {Max(s)}], run[Max(s)])]
LEMMA HealthUnfolds ==
    ASSUME NEW run
    PROVE  HealthSum(run) = (CHOOSE it : IsHealth(it, run))[DOMAIN run]
  BY DEF HealthSum, FoldLeft, MapThenFoldSet, IsHealth, Weighed

LEMMA HealthSumType == ASSUME NEW run \in Seq(ClusterRows) PROVE HealthSum(run) \in Int
<1> DEFINE n == Len(run)
<1>1. n \in Nat /\ DOMAIN run = 1 .. n /\ \A k \in 1 .. n : run[k] \in ClusterRows
  BY LenProperties
<1> HIDE DEF n
<1> DEFINE step == [p \in (1 .. n) \X Int |-> Weighed(p[2], run[p[1]])]
<1>2. \A k \in 1 .. n, h \in Int : step[<<k, h>>] = Weighed(h, run[k]) /\ Weighed(h, run[k]) \in Int
  <2>1. \A c \in ClusterRows, h \in Int : Weighed(h, c) \in Int
    <3> SUFFICES ASSUME NEW c \in ClusterRows, NEW h \in Int PROVE Weighed(h, c) \in Int
      OBVIOUS
    <3>1. c.anomaly \in 0 .. 100 /\ c.rank \in 0 .. 3
      BY DriftAssumption
    <3> DEFINE u == c.anomaly
               v == c.rank
    <3>2. Weighed(h, c) = h + 100 * v + 3 * (100 - u)
      BY DEF Weighed
    <3>3. u \in 0 .. 100 /\ v \in 0 .. 3
      BY <3>1
    <3> HIDE DEF u, v
    <3>4. h + 100 * v + 3 * (100 - u) \in Int
      BY <3>3
    <3> QED BY <3>2, <3>4
  <2> QED BY <1>1, <2>1
<1> HIDE DEF step
<1> DEFINE H == Int
<1>3. 0 \in H /\ \A k \in 1 .. n, h \in H : step[<<k, h>>] \in H
  BY <1>2
<1> HIDE DEF H
<1>4. PICK it0 : /\ IsFoldBy(it0, 1 .. n, 0, step, LatestOf(n))
                 /\ \A s \in SUBSET (1 .. n) : it0[s] \in H
  BY <1>1, <1>3, LeftFoldExists
<1>5. IsHealth(it0, run)
  <2>1. \A s \in SUBSET (1 .. n) : s # {} =>
          /\ LatestOf(n)[s] = Max(s) /\ Max(s) \in 1 .. n /\ it0[s \ {Max(s)}] \in Int
    BY <1>1, <1>4, LatestPicks DEF Picks, LatestOf, H
  <2>2. \A s \in SUBSET (1 .. n) : s # {} =>
          step[<<LatestOf(n)[s], it0[s \ {LatestOf(n)[s]}]>>] = Weighed(it0[s \ {Max(s)}], run[Max(s)])
    BY <1>2, <2>1
  <2> QED BY <1>1, <1>4, <2>2 DEF IsFoldBy, IsHealth
<1> DEFINE it == CHOOSE f : IsHealth(f, run)
<1>6. IsHealth(it, run)
  BY <1>5
<1>7. HealthSum(run) = it[1 .. n]
  BY <1>1, HealthUnfolds
<1> HIDE DEF it
<1> DEFINE I == {k \in 0 .. n : it[1 .. k] \in Int}
<1>8. 0 \in I
  <2>1. 0 \in 0 .. n /\ 1 .. 0 = {} /\ {} \in SUBSET DOMAIN run
    BY <1>1
  <2> QED BY <1>6, <2>1 DEF IsHealth
<1>9. ASSUME NEW k \in 1 .. n, k - 1 \in I PROVE k \in I
  <2>1. it[1 .. k] = Weighed(it[(1 .. k) \ {Max(1 .. k)}], run[Max(1 .. k)])
    BY <1>1, <1>6, LatestOfPrefix DEF IsHealth
  <2>2. it[1 .. k] = Weighed(it[1 .. (k - 1)], run[k])
    BY <1>1, <2>1, LatestOfPrefix
  <2>3. it[1 .. (k - 1)] \in Int
    BY <1>9
  <2> DEFINE h == it[1 .. (k - 1)]
  <2>a. h \in Int
    BY <2>3
  <2>b. it[1 .. k] = Weighed(h, run[k])
    BY <2>2
  <2> HIDE DEF h
  <2>4. Weighed(h, run[k]) \in Int
    BY <1>2, <2>a
  <2>5. k \in 0 .. n
    BY <1>1
  <2>6. it[1 .. k] \in Int
    BY <2>b, <2>4
  <2> QED BY <2>5, <2>6
<1> HIDE DEF I
<1>10. n \in I
  BY <1>1, <1>8, <1>9, UpTo
<1> QED BY <1>7, <1>10 DEF I

\* Two equal runs have the same health.
LEMMA SameHealth == ASSUME NEW as \in Seq(ClusterRows) PROVE Verdict(as, as) = "stable"
<1> DEFINE p == Health(as)[1]
           q == Health(as)[2]
<1>1. p \in Int /\ q \in Nat
  <2>0. Health(as) = IF as = <<>> THEN <<1, 1>> ELSE <<HealthSum(as), 600 * Len(as)>>
    BY DEF Health, HealthSum
  <2>1. CASE as = <<>>
    <3>1. Health(as) = <<1, 1>>
      BY <2>0, <2>1
    <3> QED BY <3>1
  <2>2. CASE as # <<>>
    <3>1. Health(as) = <<HealthSum(as), 600 * Len(as)>>
      BY <2>0, <2>2
    <3>2. HealthSum(as) \in Int
      BY HealthSumType
    <3>3. Len(as) \in Nat
      BY LenProperties
    <3> DEFINE n == Len(as)
    <3> HIDE DEF n
    <3>n. n \in Nat
      BY <3>3 DEF n
    <3>4. 600 * n \in Nat
      BY <3>n
    <3>5. p = HealthSum(as) /\ q = 600 * n
      BY <3>1 DEF n
    <3> HIDE DEF p, q
    <3> QED BY <3>2, <3>4, <3>5
  <2> QED BY <2>1, <2>2
<1>2. Verdict(as, as) =
        IF 20 * (p * q - p * q) > q * q THEN "improved"
        ELSE IF 20 * (p * q - p * q) < -(q * q) THEN "degraded" ELSE "stable"
  BY DEF Verdict
<1> HIDE DEF p, q
<1>3. p * q \in Int /\ q * q \in Nat
  BY <1>1, SMT
<1> DEFINE r == p * q
           s == q * q
<1> HIDE DEF r, s
<1>4. r \in Int /\ s \in Nat
  BY <1>3 DEF r, s
<1>5. ~(20 * (r - r) > s) /\ ~(20 * (r - r) < -s)
  BY <1>4
<1> QED BY <1>2, <1>5 DEF r, s

-----------------------------------------------------------------------------
\* The report, once made, is the comparison of the two runs.
DriftInv ==
    /\ runA \in Seq(ClusterRows) /\ runB \in Seq(ClusterRows)
    /\ report = <<>> \/ report = <<[events |-> Events(runA, runB), health |-> Verdict(runA, runB)]>>

LEMMA DriftInvHolds == DriftSpec => []DriftInv
<1>1. DriftInit => DriftInv
  BY DEF DriftInit, DriftInv
<1>2. DriftInv /\ [DriftNext]_driftVars => DriftInv'
  <2> SUFFICES ASSUME DriftInv, [DriftNext]_driftVars PROVE DriftInv'
    OBVIOUS
  <2>1. CASE CompareRuns
    BY <2>1 DEF DriftInv, CompareRuns
  <2>2. ASSUME NEW c \in ClusterRows, Record(c) PROVE DriftInv'
    BY <2>2 DEF DriftInv, Record
  <2>3. CASE UNCHANGED driftVars
    BY <2>3 DEF DriftInv, driftVars
  <2> QED BY <2>1, <2>2, <2>3 DEF DriftNext
<1> QED BY <1>1, <1>2, PTL DEF DriftSpec

LEMMA OnlyOneCounts ==
    ASSUME NEW all, NEW f, NEW v, OnlyOne(all, f, v)
    PROVE  Cardinality({n \in IndexOf(all) : all[n][f] = v}) = 1
<1> DEFINE S == {n \in IndexOf(all) : all[n][f] = v}
<1>1. PICK n : S = {n}
  BY DEF OnlyOne, IndexOf
<1> HIDE DEF S
<1>2. Cardinality(S) = 1
  BY <1>1, FS_Singleton
<1> QED BY <1>2 DEF S

\* Every cluster of the two runs is told of once, the matching misses no match, and equal
\* runs are told to be equal, whatever the clusters and however many.
THEOREM DriftIsTold == DriftSpec => []DriftIsReal
<1>1. DriftInv => DriftIsReal
  <2> SUFFICES ASSUME DriftInv PROVE DriftIsReal
    OBVIOUS
  <2>1. CASE report = <<>>
    <3>1. Reported = <<>> /\ IndexOf(Reported) = {}
      BY <2>1 DEF Reported, IndexOf
    <3> QED BY <2>1, <3>1 DEF DriftIsReal, EveryClusterOnce, NoMatchMissed, SameRunIsStable
  <2>2. CASE report # <<>>
    <3> DEFINE ev == Events(runA, runB)
               pair == Pairing(runA, runB)
               health == Verdict(runA, runB)
    <3>1. TellsAll(ev, pair, runA, runB) /\ IsPaired(pair, runA, runB)
      BY EventsTellAll, PairingPairs DEF DriftInv
    <3>2. report = <<[events |-> ev, health |-> health]>>
      BY <2>2 DEF DriftInv
    <3>3. runA = runB => health = "stable" /\ \A i \in 1 .. Len(runA) : pair[i] = i
      BY SameHealth, SamePairing DEF DriftInv
    <3>4. /\ \A i \in 1 .. Len(runA) : runA[i] \in ClusterRows
          /\ Len(runA) \in Nat
      BY LenProperties DEF DriftInv
    <3> HIDE DEF ev, pair, health
    <3>5. Reported = ev /\ report[1].health = health /\ IndexOf(ev) = 1 .. Len(ev)
      BY <2>2, <3>2 DEF Reported, IndexOf
    <3>6. EveryClusterOnce
      <4>1. \A i \in IndexOf(runA) : Cardinality({n \in IndexOf(ev) : ev[n].a = i}) = 1
        BY <3>1, OnlyOneCounts DEF TellsAll, IndexOf
      <4>2. \A j \in IndexOf(runB) : Cardinality({n \in IndexOf(ev) : ev[n].b = j}) = 1
        BY <3>1, OnlyOneCounts DEF TellsAll, IndexOf
      <4> QED BY <3>5, <4>1, <4>2 DEF EveryClusterOnce
    <3>7. NoMatchMissed
      <4> SUFFICES ASSUME NEW m \in 1 .. Len(ev), NEW n \in 1 .. Len(ev),
                          ev[m].kind = "resolved", ev[n].kind = "emerged"
                   PROVE  ~Above(Similarity(runA[ev[m].a], runB[ev[n].b]), MatchThreshold)
        BY <3>5 DEF NoMatchMissed
      <4>1. IsEvent(ev[m], pair, runA, runB) /\ IsEvent(ev[n], pair, runA, runB)
        BY <3>1 DEF TellsAll
      <4>2. ev[m].a \in 1 .. Len(runA) /\ pair[ev[m].a] = None
        BY <4>1, WhatEventsSay
      <4>3. ev[n].b \in 1 .. Len(runB) /\ \A k \in 1 .. Len(runA) : pair[k] # ev[n].b
        BY <4>1, WhatEventsSay
      <4> QED BY <3>1, <4>2, <4>3 DEF IsPaired
    <3>8. SameRunIsStable
      <4> SUFFICES ASSUME runA = runB, NEW n \in 1 .. Len(ev) PROVE ev[n].kind = "stable"
        BY <3>3, <3>5 DEF SameRunIsStable
      <4>1. IsEvent(ev[n], pair, runA, runB)
        BY <3>1 DEF TellsAll
      <4>2. ~\E i \in 1 .. Len(runA) : pair[i] = None
        BY <3>3, <3>4 DEF None
      <4>3. ~\E j \in 1 .. Len(runB) : \A k \in 1 .. Len(runA) : pair[k] # j
        BY <3>3
      <4>4. PICK i \in 1 .. Len(runA) : ev[n].kind = Kind(runA[i], runB[pair[i]])
        <5>1. Explained(ev[n].kind, pair, runA, runB)
          BY <4>1, WhatEventsSay
        <5> QED BY <4>2, <4>3, <5>1 DEF Explained
      <4>5. ev[n].kind = Kind(runA[i], runA[i])
        BY <3>3, <4>4
      <4> QED BY <3>4, <4>5, SameKind
    <3> QED BY <3>6, <3>7, <3>8 DEF DriftIsReal
  <2> QED BY <2>1, <2>2
<1> QED BY <1>1, DriftInvHolds, PTL
-----------------------------------------------------------------------------
Tokens == Terms \cup Operators
TreeLeaves == Terms \cup {Everything}
Nodes == [op : {"AND", "OR"}, leaf : TreeLeaves]
LeavesIn(tree) == [i \in 1 .. Len(tree) |-> tree[i].leaf]

LEMMA JoinIsNode ==
    ASSUME NEW op \in {"AND", "OR"}, NEW leaf \in TreeLeaves
    PROVE  Join(op, leaf) \in Nodes /\ Join(op, leaf).op = op /\ Join(op, leaf).leaf = leaf
  BY DEF Join, Nodes

LEMMA TokenIs ==
    ASSUME NEW t \in Tokens
    PROVE  /\ IsOp(t) => t.field \in {"AND", "OR"}
           /\ ~IsOp(t) => t \in TreeLeaves /\ t \in Terms
  BY DEF Tokens, IsOp, Operators, TreeLeaves

-----------------------------------------------------------------------------
\* The loop of the parser from a token on.
After(tokens, i, g, h) ==
    IF ~IsOp(tokens[i]) THEN <<Join("AND", tokens[i])>> \o g
    ELSE IF i + 1 > Len(tokens) THEN <<>>
    ELSE IF IsOp(tokens[i + 1]) THEN g
    ELSE <<Join(tokens[i].field, tokens[i + 1])>> \o h
IsTree(tree, tokens) ==
    tree = [i \in 1 .. Len(tokens) + 2 |->
              IF i > Len(tokens) THEN <<>> ELSE After(tokens, i, tree[i + 1], tree[i + 2])]

LEMMA TreeUnfolds == ASSUME NEW tokens PROVE TreeFrom(tokens) = CHOOSE tree : IsTree(tree, tokens)
  BY DEF TreeFrom, IsTree, After

LEMMA AfterType ==
    ASSUME NEW tokens \in Seq(Tokens), NEW i \in 1 .. Len(tokens),
           NEW g \in Seq(Nodes), NEW h \in Seq(Nodes)
    PROVE  After(tokens, i, g, h) \in Seq(Nodes)
<1>1. tokens[i] \in Tokens /\ Len(tokens) \in Nat /\ (i + 1 <= Len(tokens) => tokens[i + 1] \in Tokens)
  OBVIOUS
<1>2. \A x \in Nodes, s \in Seq(Nodes) : <<x>> \o s \in Seq(Nodes)
  BY ConcatProperties
<1>3. ASSUME ~IsOp(tokens[i]) PROVE <<Join("AND", tokens[i])>> \o g \in Seq(Nodes)
  BY <1>1, <1>2, <1>3, TokenIs, JoinIsNode
<1>4. ASSUME IsOp(tokens[i]), ~(i + 1 > Len(tokens)), ~IsOp(tokens[i + 1])
      PROVE  <<Join(tokens[i].field, tokens[i + 1])>> \o h \in Seq(Nodes)
  BY <1>1, <1>2, <1>4, TokenIs, JoinIsNode
<1> QED BY <1>3, <1>4 DEF After

LEMMA TreeIs ==
    ASSUME NEW tokens \in Seq(Tokens)
    PROVE  /\ TreeFrom(tokens) \in [1 .. Len(tokens) + 2 -> Seq(Nodes)]
           /\ \A i \in 1 .. Len(tokens) + 2 :
                TreeFrom(tokens)[i] =
                  IF i > Len(tokens) THEN <<>>
                  ELSE After(tokens, i, TreeFrom(tokens)[i + 1], TreeFrom(tokens)[i + 2])
<1> DEFINE n == Len(tokens)
           H == Seq(Nodes)
           step == [p \in (1 .. n) \X H \X H |-> After(tokens, p[1], p[2], p[3])]
<1>1. n \in Nat /\ <<>> \in H
  BY LenProperties
<1>2. \A i \in 1 .. n, g, h \in H : After(tokens, i, g, h) \in H
  BY AfterType
<1>n. n = Len(tokens)
  OBVIOUS
<1> HIDE DEF n, H
<1>3. \A i \in 1 .. n, g, h \in H : step[<<i, g, h>>] = After(tokens, i, g, h) /\ step[<<i, g, h>>] \in H
  BY <1>2
<1> HIDE DEF step
<1>4. PICK f \in [1 .. n + 2 -> H] : IsFromEnd(f, n, <<>>, step)
  BY <1>1, <1>3, FromEndExists
<1>i. \A i \in 1 .. n + 2 : ~(i > n) => i \in 1 .. n /\ i + 1 \in 1 .. n + 2 /\ i + 2 \in 1 .. n + 2
  BY <1>1
<1>5. IsTree(f, tokens)
  <2>1. ASSUME NEW i \in 1 .. n + 2
        PROVE  f[i] = IF i > n THEN <<>> ELSE After(tokens, i, f[i + 1], f[i + 2])
    <3>1. CASE i > n
      BY <1>4, <3>1 DEF IsFromEnd
    <3>2. CASE ~(i > n)
      <4>1. f[i] = step[<<i, f[i + 1], f[i + 2]>>] /\ i \in 1 .. n /\ f[i + 1] \in H /\ f[i + 2] \in H
        BY <1>4, <1>i, <3>2 DEF IsFromEnd
      <4> QED BY <1>3, <3>2, <4>1
    <3> QED BY <3>1, <3>2
  <2> QED BY <1>4, <1>n, <2>1 DEF IsTree
<1> DEFINE tree == TreeFrom(tokens)
<1>6. IsTree(tree, tokens)
  BY <1>5, TreeUnfolds
<1> HIDE DEF tree
<1>7. \A i \in 1 .. n + 2 : tree[i] = IF i > n THEN <<>> ELSE After(tokens, i, tree[i + 1], tree[i + 2])
  BY <1>6, <1>n DEF IsTree
<1> DEFINE I == {i \in 1 .. n + 2 : tree[i] \in H}
<1>8. n + 1 \in I /\ n + 2 \in I
  <2>1. n + 1 \in 1 .. n + 2 /\ n + 2 \in 1 .. n + 2 /\ n + 1 > n /\ n + 2 > n
    BY <1>1
  <2> QED BY <1>1, <1>7, <2>1
<1>9. ASSUME NEW i \in 1 .. n, i + 1 \in I, i + 2 \in I PROVE i \in I
  <2>1. i \in 1 .. n + 2 /\ ~(i > n)
    BY <1>1
  <2>2. tree[i] = After(tokens, i, tree[i + 1], tree[i + 2]) /\ tree[i + 1] \in H /\ tree[i + 2] \in H
    BY <1>7, <1>9, <2>1
  <2> QED BY <1>2, <2>1, <2>2
<1> HIDE DEF I
<1>10. \A i \in 1 .. n + 2 : i \in I
  BY <1>1, <1>8, <1>9, FromEnd
<1>11. \A i \in 1 .. n + 2 : tree[i] \in H
  BY <1>10 DEF I
<1>12. tree \in [1 .. n + 2 -> H]
  BY <1>6, <1>11, <1>n DEF IsTree
<1> QED BY <1>7, <1>12, <1>n DEF tree, H

LEMMA ParseType ==
    ASSUME NEW tokens \in Seq(Tokens) PROVE Parse(tokens) \in Seq(Nodes)
<1> DEFINE n == Len(tokens)
           tree == TreeFrom(tokens)
<1>1. n \in Nat /\ (tokens # <<>> => n >= 1 /\ tokens[1] \in Tokens)
  BY LenProperties
<1>2. tree \in [1 .. n + 2 -> Seq(Nodes)]
  BY TreeIs
<1> HIDE DEF n, tree
<1>3. tree[1] \in Seq(Nodes) /\ tree[2] \in Seq(Nodes)
  BY <1>1, <1>2
<1>4. \A x \in Nodes, s \in Seq(Nodes) : <<x>> \o s \in Seq(Nodes)
  BY ConcatProperties
<1>5. Join("AND", Everything) \in Nodes
  BY JoinIsNode DEF TreeLeaves
<1>6. tokens # <<>> /\ ~IsOp(tokens[1]) => Join("AND", tokens[1]) \in Nodes
  BY <1>1, TokenIs, JoinIsNode
<1> QED BY <1>3, <1>4, <1>5, <1>6 DEF Parse, tree
-----------------------------------------------------------------------------
\* The terms typed so far.
IsTyped(it, tokens) ==
    it = [s \in SUBSET DOMAIN tokens |->
            IF s = {} THEN <<>> ELSE AddTerm(it[s \ {Max(s)}], tokens[Max(s)])]
LEMMA TypedUnfolds ==
    ASSUME NEW tokens PROVE TermsOf(tokens) = (CHOOSE it : IsTyped(it, tokens))[DOMAIN tokens]
  BY DEF TermsOf, FoldLeft, MapThenFoldSet, IsTyped

TypedUpTo(up, tokens) ==
    /\ up \in [0 .. Len(tokens) -> Seq(TreeLeaves)]
    /\ up[0] = <<>> /\ up[Len(tokens)] = TermsOf(tokens)
    /\ \A k \in 1 .. Len(tokens) : up[k] = AddTerm(up[k - 1], tokens[k])
LEMMA TermsByPrefix ==
    ASSUME NEW tokens \in Seq(Tokens) PROVE \E up : TypedUpTo(up, tokens)
<1> DEFINE n == Len(tokens)
           H == Seq(TreeLeaves)
           step == [p \in (1 .. n) \X H |-> AddTerm(p[2], tokens[p[1]])]
<1>1. n \in Nat /\ DOMAIN tokens = 1 .. n /\ <<>> \in H
  BY LenProperties
<1>2. ASSUME NEW k \in 1 .. n, NEW h \in H PROVE AddTerm(h, tokens[k]) \in H
  <2>1. tokens[k] \in Tokens
    BY <1>1, LenProperties
  <2>2. ~IsOp(tokens[k]) => Append(h, tokens[k]) \in H
    BY <2>1, TokenIs, AppendProperties
  <2> QED BY <2>2 DEF AddTerm
<1>n. n = Len(tokens)
  OBVIOUS
<1> HIDE DEF n, H
<1>3. \A k \in 1 .. n, h \in H : step[<<k, h>>] = AddTerm(h, tokens[k]) /\ step[<<k, h>>] \in H
  BY <1>2
<1> HIDE DEF step
<1>4. PICK it0 : /\ IsFoldBy(it0, 1 .. n, <<>>, step, LatestOf(n))
                 /\ \A s \in SUBSET (1 .. n) : it0[s] \in H
  BY <1>1, <1>3, LeftFoldExists
<1>5. IsTyped(it0, tokens)
  <2>1. \A s \in SUBSET (1 .. n) : s # {} =>
          /\ LatestOf(n)[s] = Max(s) /\ Max(s) \in 1 .. n /\ it0[s \ {Max(s)}] \in H
    BY <1>1, <1>4, LatestPicks DEF Picks, LatestOf
  <2>2. \A s \in SUBSET (1 .. n) : s # {} =>
          step[<<LatestOf(n)[s], it0[s \ {LatestOf(n)[s]}]>>] = AddTerm(it0[s \ {Max(s)}], tokens[Max(s)])
    BY <1>3, <2>1
  <2> QED BY <1>1, <1>4, <2>2 DEF IsFoldBy, IsTyped
<1> DEFINE it == CHOOSE f : IsTyped(f, tokens)
<1>6. IsTyped(it, tokens)
  BY <1>5
<1>7. TermsOf(tokens) = it[1 .. n]
  BY <1>1, TypedUnfolds
<1> HIDE DEF it
<1>8. it[{}] = <<>>
  BY <1>1, <1>6 DEF IsTyped
<1>9. \A k \in 1 .. n : it[1 .. k] = AddTerm(it[1 .. (k - 1)], tokens[k])
  <2>1. TAKE k \in 1 .. n
  <2>2. it[1 .. k] = AddTerm(it[(1 .. k) \ {Max(1 .. k)}], tokens[Max(1 .. k)])
    BY <1>1, <1>6, LatestOfPrefix DEF IsTyped
  <2> QED BY <1>1, <2>2, LatestOfPrefix
<1>10. Follows(it, n, H, <<>>, step)
  BY <1>3, <1>8, <1>9 DEF Follows
<1>11. PICK up : Trace(up, n, H, <<>>, step) /\ up[n] = it[1 .. n]
  <2>1. n \in Nat /\ <<>> \in H
    BY <1>1
  <2>2. Closed(n, H, step)
    BY <1>3 DEF Closed
  <2> QED BY <1>10, <2>1, <2>2, PrefixFold
<1>12. \A k \in 1 .. n : up[k] = AddTerm(up[k - 1], tokens[k])
  <2>1. TAKE k \in 1 .. n
  <2>2. k - 1 \in 0 .. n
    BY <1>1
  <2>3. up[k - 1] \in H
    BY <1>11, <2>2 DEF Trace
  <2> QED BY <1>3, <1>11, <2>3 DEF Trace
<1> QED BY <1>7, <1>11, <1>12, <1>n DEF TypedUpTo, Trace, H

\* The leaves of a node before a tree.
LEMMA LeavesOfNode ==
    ASSUME NEW op \in {"AND", "OR"}, NEW leaf \in TreeLeaves, NEW s \in Seq(Nodes)
    PROVE  /\ LeavesIn(s) \in Seq(TreeLeaves)
           /\ LeavesIn(<<Join(op, leaf)>> \o s) = <<leaf>> \o LeavesIn(s)
<1> DEFINE x == Join(op, leaf)
           n == Len(s)
           t == <<x>> \o s
           u == <<leaf>> \o LeavesIn(s)
<1>1. x \in Nodes /\ x.leaf = leaf
  BY JoinIsNode
<1> HIDE DEF x
<1>2. n \in Nat /\ \A i \in 1 .. n : s[i] \in Nodes /\ s[i].leaf \in TreeLeaves
  <2>1. n \in Nat /\ \A i \in 1 .. n : s[i] \in Nodes
    BY LenProperties
  <2> QED BY <2>1 DEF Nodes
<1>3. LeavesIn(s) \in Seq(TreeLeaves) /\ Len(LeavesIn(s)) = n /\ \A i \in 1 .. n : LeavesIn(s)[i] = s[i].leaf
  BY <1>2 DEF LeavesIn
<1>4. /\ t \in Seq(Nodes) /\ Len(t) = 1 + n
      /\ \A i \in 1 .. 1 + n : t[i] = IF i <= 1 THEN x ELSE s[i - 1]
  <2>1. <<x>> \in Seq(Nodes) /\ Len(<<x>>) = 1 /\ <<x>>[1] = x
    BY <1>1
  <2> DEFINE w == <<x>>
  <2> HIDE DEF w
  <2>2. /\ w \o s \in Seq(Nodes) /\ Len(w \o s) = 1 + n
        /\ \A i \in 1 .. 1 + n : (w \o s)[i] = IF i <= 1 THEN w[i] ELSE s[i - 1]
    BY <2>1, ConcatProperties DEF w
  <2>3. \A i \in 1 .. 1 + n : i <= 1 => i = 1
    OBVIOUS
  <2> QED BY <2>1, <2>2, <2>3 DEF w
<1>5. /\ u \in Seq(TreeLeaves) /\ Len(u) = 1 + n
      /\ \A i \in 1 .. 1 + n : u[i] = IF i <= 1 THEN leaf ELSE LeavesIn(s)[i - 1]
  <2>1. <<leaf>> \in Seq(TreeLeaves) /\ Len(<<leaf>>) = 1 /\ <<leaf>>[1] = leaf
    OBVIOUS
  <2> DEFINE w == <<leaf>>
             v == LeavesIn(s)
  <2> HIDE DEF w, v
  <2>2. /\ w \o v \in Seq(TreeLeaves) /\ Len(w \o v) = 1 + n
        /\ \A i \in 1 .. 1 + n : (w \o v)[i] = IF i <= 1 THEN w[i] ELSE v[i - 1]
    BY <1>3, <2>1, ConcatProperties DEF w, v
  <2>3. \A i \in 1 .. 1 + n : i <= 1 => i = 1
    OBVIOUS
  <2> QED BY <2>1, <2>2, <2>3 DEF w, v
<1> HIDE DEF t, u
<1>6. LeavesIn(t) \in Seq(TreeLeaves) /\ Len(LeavesIn(t)) = 1 + n /\ \A i \in 1 .. 1 + n : LeavesIn(t)[i] = t[i].leaf
  <2>1. \A i \in 1 .. 1 + n : t[i].leaf \in TreeLeaves
    <3>1. \A i \in 1 .. 1 + n : t[i] \in Nodes
      BY <1>4, LenProperties
    <3> QED BY <3>1 DEF Nodes
  <2> QED BY <1>2, <1>4, <2>1 DEF LeavesIn
<1>7. ASSUME NEW i \in 1 .. 1 + n PROVE LeavesIn(t)[i] = u[i]
  <2>1. CASE i <= 1
    BY <1>1, <1>4, <1>5, <1>6, <2>1
  <2>2. CASE ~(i <= 1)
    <3>1. i - 1 \in 1 .. n
      BY <1>2, <2>2
    <3>2. LeavesIn(t)[i] = s[i - 1].leaf
      BY <1>4, <1>6, <2>2
    <3>3. u[i] = LeavesIn(s)[i - 1]
      BY <1>5, <2>2
    <3> QED BY <1>3, <3>1, <3>2, <3>3
  <2> QED BY <2>1, <2>2
<1>8. LeavesIn(t) = u
  BY <1>5, <1>6, <1>7, SeqEqual
<1> QED BY <1>3, <1>8 DEF t, u, x

\* No token but an operator is left out.
LEMMA ParseKeepsTerms ==
    ASSUME NEW tokens \in Seq(Tokens)
    PROVE  LeavesIn(Parse(tokens)) \in {TermsOf(tokens), <<Everything>> \o TermsOf(tokens)}
<1> DEFINE n == Len(tokens)
           tree == TreeFrom(tokens)
           all == TermsOf(tokens)
<1>1. n \in Nat /\ \A i \in 1 .. n : tokens[i] \in Tokens
  BY LenProperties
<1>2. /\ tree \in [1 .. n + 2 -> Seq(Nodes)]
      /\ \A i \in 1 .. n + 2 :
           tree[i] = IF i > n THEN <<>> ELSE After(tokens, i, tree[i + 1], tree[i + 2])
  BY TreeIs
<1>3. PICK up : TypedUpTo(up, tokens)
  BY TermsByPrefix
<1>4. /\ up \in [0 .. n -> Seq(TreeLeaves)] /\ up[0] = <<>> /\ up[n] = all
      /\ \A k \in 1 .. n : up[k] = AddTerm(up[k - 1], tokens[k])
  BY <1>3 DEF TypedUpTo
<1>n. n = Len(tokens)
  OBVIOUS
<1> HIDE DEF n, tree, all
<1> DEFINE L(i) == LeavesIn(tree[i])
           P(i) == i \in 1 .. n + 1 => up[i - 1] \o L(i) = all
           I == {i \in 1 .. n + 2 : P(i)}
<1>5. ASSUME NEW i \in 1 .. n + 2 PROVE L(i) \in Seq(TreeLeaves)
  <2>1. tree[i] \in Seq(Nodes)
    BY <1>2
  <2>2. "AND" \in {"AND", "OR"} /\ Everything \in TreeLeaves
    BY DEF TreeLeaves
  <2> HIDE DEF tree
  <2> QED BY <2>1, <2>2, LeavesOfNode
<1>6. L(n + 1) = <<>>
  <2>1. tree[n + 1] = <<>>
    <3>1. n + 1 \in 1 .. n + 2 /\ n + 1 > n
      BY <1>1
    <3> QED BY <1>2, <3>1
  <2> QED BY <2>1 DEF LeavesIn
<1>7. n + 1 \in I /\ n + 2 \in I
  <2>1. n + 1 \in 1 .. n + 2 /\ n + 2 \in 1 .. n + 2 /\ n + 2 \notin 1 .. n + 1 /\ (n + 1) - 1 = n /\ n \in 0 .. n
    BY <1>1
  <2>2. up[n] \in Seq(TreeLeaves)
    BY <1>4, <2>1
  <2>3. up[n] \o L(n + 1) = all
    BY <1>4, <1>6, <2>2, ConcatEmptySeq
  <2> HIDE DEF L
  <2> QED BY <2>1, <2>3
\* A term moves from the tree to the terms typed before.
<1>8. ASSUME NEW a \in Seq(TreeLeaves), NEW leaf \in TreeLeaves, NEW s \in Seq(Nodes), NEW op \in {"AND", "OR"}
      PROVE  a \o LeavesIn(<<Join(op, leaf)>> \o s) = Append(a, leaf) \o LeavesIn(s)
  <2>1. LeavesIn(s) \in Seq(TreeLeaves) /\ LeavesIn(<<Join(op, leaf)>> \o s) = <<leaf>> \o LeavesIn(s)
    BY LeavesOfNode
  <2>2. <<leaf>> \in Seq(TreeLeaves)
    OBVIOUS
  <2>3. (a \o <<leaf>>) \o LeavesIn(s) = a \o (<<leaf>> \o LeavesIn(s))
    BY <2>1, <2>2, ConcatAssociative
  <2>4. Append(a, leaf) = a \o <<leaf>>
    BY AppendIsConcat
  <2> QED BY <2>1, <2>3, <2>4
<1>9. ASSUME NEW i \in 1 .. n, i + 1 \in I, i + 2 \in I PROVE i \in I
  <2>0. /\ i \in 1 .. n + 2 /\ i + 1 \in 1 .. n + 1 /\ i + 1 \in 1 .. n + 2 /\ i + 2 \in 1 .. n + 2
        /\ i - 1 \in 0 .. n /\ i \in 0 .. n /\ (i + 1) - 1 = i /\ (i + 2) - 1 = i + 1 /\ ~(i > n)
        /\ (i + 1 <= n => i + 2 \in 1 .. n + 1 /\ i + 1 \in 1 .. n /\ (i + 1) - 1 = i)
        /\ (~(i + 1 <= n) => i = n /\ i + 1 > n) /\ (i + 1 <= n => ~(i + 1 > n))
    BY <1>1
  <2>1. up[i] \o L(i + 1) = all
    BY <1>9, <2>0
  <2>2. tree[i + 1] \in Seq(Nodes) /\ tree[i + 2] \in Seq(Nodes) /\ up[i - 1] \in Seq(TreeLeaves)
    BY <1>2, <1>4, <2>0
  <2>3. tree[i] = After(tokens, i, tree[i + 1], tree[i + 2]) /\ up[i] = AddTerm(up[i - 1], tokens[i])
    BY <1>2, <1>4, <2>0
  <2>4. CASE ~IsOp(tokens[i])
    <3>1. tokens[i] \in TreeLeaves
      BY <1>1, <2>4, TokenIs
    <3>2. L(i) = LeavesIn(<<Join("AND", tokens[i])>> \o tree[i + 1]) /\ up[i] = Append(up[i - 1], tokens[i])
      BY <2>3, <2>4 DEF After, AddTerm
    <3>3. up[i - 1] \o L(i) = up[i] \o L(i + 1)
      BY <1>8, <2>2, <3>1, <3>2
    <3> HIDE DEF L
    <3> QED BY <2>0, <2>1, <3>3
  <2>5. CASE IsOp(tokens[i]) /\ ~(i + 1 <= n)
    <3>1. tree[i] = <<>> /\ up[i] = up[i - 1]
      BY <2>0, <2>3, <2>5, <1>n DEF After, AddTerm
    <3>2. L(i) = <<>>
      BY <3>1 DEF LeavesIn
    <3>3. up[i - 1] \o L(i) = up[i - 1]
      BY <2>2, <3>2, ConcatEmptySeq
    <3>4. up[i] = all
      <4>1. i = n
        BY <2>0, <2>5
      <4> QED BY <1>4, <4>1
    <3> HIDE DEF L
    <3> QED BY <2>0, <3>1, <3>3, <3>4
  <2>6. CASE IsOp(tokens[i]) /\ i + 1 <= n /\ IsOp(tokens[i + 1])
    <3>1. tree[i] = tree[i + 1] /\ up[i] = up[i - 1]
      BY <2>0, <2>3, <2>6, <1>n DEF After, AddTerm
    <3> QED BY <2>0, <2>1, <3>1
  <2>7. CASE IsOp(tokens[i]) /\ i + 1 <= n /\ ~IsOp(tokens[i + 1])
    <3>1. tokens[i + 1] \in TreeLeaves /\ tokens[i].field \in {"AND", "OR"}
      BY <1>1, <2>0, <2>7, TokenIs
    <3>2. tree[i] = <<Join(tokens[i].field, tokens[i + 1])>> \o tree[i + 2] /\ up[i] = up[i - 1]
      BY <2>0, <2>3, <2>7, <1>n DEF After, AddTerm
    <3>3. up[i + 1] = Append(up[i], tokens[i + 1])
      BY <1>4, <2>0, <2>7 DEF AddTerm
    <3>4. up[i + 1] \o L(i + 2) = all
      BY <1>9, <2>0, <2>7
    <3>5. up[i - 1] \o L(i) = up[i + 1] \o L(i + 2)
      <4> DEFINE op == tokens[i].field
                 leaf == tokens[i + 1]
                 a == up[i - 1]
                 t == tree[i + 2]
      <4>1. a \in Seq(TreeLeaves) /\ leaf \in TreeLeaves /\ t \in Seq(Nodes) /\ op \in {"AND", "OR"}
        BY <2>2, <3>1
      <4>2. tree[i] = <<Join(op, leaf)>> \o t /\ up[i + 1] = Append(a, leaf)
        BY <3>2, <3>3
      <4> HIDE DEF op, leaf, a, t
      <4>3. a \o LeavesIn(<<Join(op, leaf)>> \o t) = Append(a, leaf) \o LeavesIn(t)
        BY <1>8, <4>1
      <4> QED BY <4>2, <4>3 DEF a, t
    <3> HIDE DEF L
    <3> QED BY <2>0, <3>4, <3>5
  <2> QED BY <2>4, <2>5, <2>6, <2>7
<1> HIDE DEF I
<1>10. \A i \in 1 .. n + 2 : i \in I
  BY <1>1, <1>7, <1>9, FromEnd
<1>11. \A i \in 1 .. n + 1 : up[i - 1] \o L(i) = all
  <2>1. \A i \in 1 .. n + 1 : i \in 1 .. n + 2
    BY <1>1
  <2> HIDE DEF L
  <2> QED BY <1>10, <2>1 DEF I
<1>12. CASE tokens = <<>> \/ IsOp(tokens[1])
  <2>1. Parse(tokens) = <<Join("AND", Everything)>> \o tree[1]
    BY <1>12 DEF Parse, tree
  <2>2. 1 \in 1 .. n + 1 /\ 1 \in 1 .. n + 2 /\ 1 - 1 = 0
    BY <1>1
  <2>3. up[0] \o L(1) = all /\ L(1) \in Seq(TreeLeaves) /\ tree[1] \in Seq(Nodes)
    BY <1>2, <1>5, <1>11, <2>2
  <2>4. L(1) = all
    BY <1>4, <2>3, ConcatEmptySeq
  <2>5. LeavesIn(Parse(tokens)) = <<Everything>> \o L(1)
    BY <2>1, <2>3, LeavesOfNode DEF TreeLeaves
  <2> QED BY <2>4, <2>5 DEF all
<1>13. CASE tokens # <<>> /\ ~IsOp(tokens[1])
  <2>1. Parse(tokens) = <<Join("AND", tokens[1])>> \o tree[2]
    BY <1>13 DEF Parse, tree
  <2>2. n >= 1
    BY <1>13, EmptySeq DEF n
  <2>3. 2 \in 1 .. n + 1 /\ 2 \in 1 .. n + 2 /\ 2 - 1 = 1 /\ 1 \in 1 .. n /\ 1 - 1 = 0
    BY <1>1, <2>2
  <2>4. up[1] \o L(2) = all /\ tree[2] \in Seq(Nodes) /\ tokens[1] \in TreeLeaves /\ <<>> \in Seq(TreeLeaves)
    <3>1. tokens[1] \in TreeLeaves
      BY <1>1, <1>13, <2>3, TokenIs
    <3>2. tree[2] \in Seq(Nodes)
      BY <1>2, <2>3
    <3>3. up[1] \o L(2) = all
      BY <1>11, <2>3
    <3> QED BY <3>1, <3>2, <3>3
  <2>5. up[1] = Append(<<>>, tokens[1])
    BY <1>4, <1>13, <2>3 DEF AddTerm
  <2>6. <<>> \o LeavesIn(Parse(tokens)) = all
    BY <1>8, <2>1, <2>4, <2>5
  <2>7. LeavesIn(Parse(tokens)) \in Seq(TreeLeaves)
    <3>1. LeavesIn(Parse(tokens)) = <<tokens[1]>> \o LeavesIn(tree[2]) /\ LeavesIn(tree[2]) \in Seq(TreeLeaves)
      BY <2>1, <2>4, LeavesOfNode
    <3>2. <<tokens[1]>> \in Seq(TreeLeaves)
      BY <2>4
    <3> QED BY <3>1, <3>2, ConcatProperties
  <2>8. LeavesIn(Parse(tokens)) = all
    BY <2>6, <2>7, ConcatEmptySeq
  <2> QED BY <2>8 DEF all
<1> QED BY <1>12, <1>13
-----------------------------------------------------------------------------
\* The evaluation of a tree, leaf by leaf.
ReadLeaf(sofar, node, holding) ==
    IF node.op = "AND" THEN sofar /\ node.leaf \in holding ELSE sofar \/ node.leaf \in holding
IsReading(it, tree, holding) ==
    it = [s \in SUBSET DOMAIN tree |->
            IF s = {} THEN TRUE ELSE ReadLeaf(it[s \ {Max(s)}], tree[Max(s)], holding)]
LEMMA ReadingUnfolds ==
    ASSUME NEW tree, NEW holding
    PROVE  Evaluate(tree, holding) = (CHOOSE it : IsReading(it, tree, holding))[DOMAIN tree]
  BY DEF Evaluate, FoldLeft, MapThenFoldSet, IsReading, ReadLeaf

ReadUpTo(up, tree, holding) ==
    /\ up \in [0 .. Len(tree) -> BOOLEAN]
    /\ up[0] = TRUE /\ up[Len(tree)] = Evaluate(tree, holding)
    /\ \A k \in 1 .. Len(tree) : up[k] = ReadLeaf(up[k - 1], tree[k], holding)
LEMMA EvaluateByPrefix ==
    ASSUME NEW V, NEW tree \in Seq(V), NEW holding PROVE \E up : ReadUpTo(up, tree, holding)
<1> DEFINE n == Len(tree)
           H == BOOLEAN
           step == [p \in (1 .. n) \X H |-> ReadLeaf(p[2], tree[p[1]], holding)]
<1>1. n \in Nat /\ DOMAIN tree = 1 .. n /\ TRUE \in H
  BY LenProperties
<1>2. ASSUME NEW k \in 1 .. n, NEW h \in H PROVE ReadLeaf(h, tree[k], holding) \in H
  BY DEF ReadLeaf
<1>n. n = Len(tree)
  OBVIOUS
<1> HIDE DEF n, H
<1>3. \A k \in 1 .. n, h \in H : step[<<k, h>>] = ReadLeaf(h, tree[k], holding) /\ step[<<k, h>>] \in H
  BY <1>2
<1> HIDE DEF step
<1>4. PICK it0 : /\ IsFoldBy(it0, 1 .. n, TRUE, step, LatestOf(n))
                 /\ \A s \in SUBSET (1 .. n) : it0[s] \in H
  BY <1>1, <1>3, LeftFoldExists
<1>5. IsReading(it0, tree, holding)
  <2>1. \A s \in SUBSET (1 .. n) : s # {} =>
          /\ LatestOf(n)[s] = Max(s) /\ Max(s) \in 1 .. n /\ it0[s \ {Max(s)}] \in H
    BY <1>1, <1>4, LatestPicks DEF Picks, LatestOf
  <2>2. \A s \in SUBSET (1 .. n) : s # {} =>
          step[<<LatestOf(n)[s], it0[s \ {LatestOf(n)[s]}]>>] = ReadLeaf(it0[s \ {Max(s)}], tree[Max(s)], holding)
    BY <1>3, <2>1
  <2> QED BY <1>1, <1>4, <2>2 DEF IsFoldBy, IsReading
<1> DEFINE it == CHOOSE f : IsReading(f, tree, holding)
<1>6. IsReading(it, tree, holding)
  BY <1>5
<1>7. Evaluate(tree, holding) = it[1 .. n]
  BY <1>1, ReadingUnfolds
<1> HIDE DEF it
<1>8. it[{}] = TRUE
  BY <1>1, <1>6 DEF IsReading
<1>9. \A k \in 1 .. n : it[1 .. k] = ReadLeaf(it[1 .. (k - 1)], tree[k], holding)
  <2>1. TAKE k \in 1 .. n
  <2>2. it[1 .. k] = ReadLeaf(it[(1 .. k) \ {Max(1 .. k)}], tree[Max(1 .. k)], holding)
    BY <1>1, <1>6, LatestOfPrefix DEF IsReading
  <2> QED BY <1>1, <2>2, LatestOfPrefix
<1> DEFINE yes == TRUE
<1>10. Follows(it, n, H, yes, step)
  BY <1>3, <1>8, <1>9 DEF Follows
<1>11. PICK up : Trace(up, n, H, yes, step) /\ up[n] = it[1 .. n]
  <2>1. n \in Nat /\ yes \in H
    BY <1>1
  <2> HIDE DEF yes
  <2>2. Closed(n, H, step)
    BY <1>3 DEF Closed
  <2> QED BY <1>10, <2>1, <2>2, PrefixFold
<1>12. \A k \in 1 .. n : up[k] = ReadLeaf(up[k - 1], tree[k], holding)
  <2>1. TAKE k \in 1 .. n
  <2>2. k - 1 \in 0 .. n
    BY <1>1
  <2>3. up[k - 1] \in H
    BY <1>11, <2>2 DEF Trace
  <2> QED BY <1>3, <1>11, <2>3 DEF Trace
<1> QED BY <1>7, <1>11, <1>12, <1>n DEF ReadUpTo, Trace, H

\* A tree holds where one of the same operators does, whose leaves hold less often.
Weaker(t, P, u, Q) ==
    /\ Len(t) = Len(u)
    /\ \A k \in 1 .. Len(t) : t[k].op = u[k].op /\ (t[k].leaf \in P => u[k].leaf \in Q)
LEMMA EvaluateGrows ==
    ASSUME NEW V, NEW t \in Seq(V), NEW W, NEW u \in Seq(W), NEW P, NEW Q, Weaker(t, P, u, Q),
           Evaluate(t, P)
    PROVE  Evaluate(u, Q)
<1> DEFINE n == Len(t)
<1>1. n \in Nat /\ n = Len(u)
  BY LenProperties DEF Weaker
<1>2. PICK a : ReadUpTo(a, t, P)
  BY EvaluateByPrefix
<1>3. PICK b : ReadUpTo(b, u, Q)
  BY EvaluateByPrefix
<1>4. /\ a[n] = Evaluate(t, P) /\ b[n] = Evaluate(u, Q) /\ b[0] = TRUE
      /\ \A k \in 1 .. n : a[k] = ReadLeaf(a[k - 1], t[k], P) /\ b[k] = ReadLeaf(b[k - 1], u[k], Q)
      /\ \A k \in 0 .. n : a[k] \in BOOLEAN /\ b[k] \in BOOLEAN
  BY <1>1, <1>2, <1>3 DEF ReadUpTo
<1>5. \A k \in 1 .. n : t[k].op = u[k].op /\ (t[k].leaf \in P => u[k].leaf \in Q)
  BY DEF Weaker
<1> HIDE DEF n
<1> DEFINE I == {k \in 0 .. n : a[k] => b[k]}
<1>6. 0 \in I
  BY <1>1, <1>4
<1>7. ASSUME NEW k \in 1 .. n, k - 1 \in I PROVE k \in I
  <2>1. k \in 0 .. n /\ k - 1 \in 0 .. n
    BY <1>1
  <2> SUFFICES ASSUME a[k] PROVE b[k]
    BY <2>1
  <2>2. ReadLeaf(a[k - 1], t[k], P) /\ (a[k - 1] => b[k - 1])
    BY <1>4, <1>7
  <2>3. ReadLeaf(b[k - 1], u[k], Q)
    BY <1>5, <2>2 DEF ReadLeaf
  <2> QED BY <1>4, <2>3
<1> HIDE DEF I
<1>8. n \in I
  <2>1. n \in Nat /\ n \in 0 .. n
    BY <1>1
  <2>2. \A k \in 0 .. n : k \in I
    BY <1>6, <1>7, <2>1, UpTo
  <2> QED BY <2>1, <2>2
<1>9. n \in 0 .. n
  BY <1>1
<1> QED BY <1>4, <1>8, <1>9 DEF I
-----------------------------------------------------------------------------
\* What the compiler has made of the first leaves.
Clauses == {Everything} \cup {[field |-> l.field, id |-> k] : l \in TreeLeaves, k \in Nat}
Values == {l.value : l \in TreeLeaves}
NothingYet == [where |-> <<>>, params |-> <<>>]
IsCompiling(it, tree) ==
    it = [s \in SUBSET DOMAIN tree |->
            IF s = {} THEN NothingYet ELSE AddClause(it[s \ {Max(s)}], tree[Max(s)])]
LEMMA CompileUnfolds ==
    ASSUME NEW tree PROVE Compile(tree) = (CHOOSE it : IsCompiling(it, tree))[DOMAIN tree]
  BY DEF Compile, FoldLeft, MapThenFoldSet, IsCompiling, NothingYet

\* A clause says what its leaf says.
Renders(clause, params, leaf) ==
    IF leaf = Everything THEN clause = Everything
    ELSE \E m \in 1 .. Len(params) : clause = [field |-> leaf.field, id |-> m] /\ params[m] = leaf.value
Compiled(sql, k, tree) ==
    /\ sql.where \in Seq([op : {"AND", "OR"}, leaf : Clauses]) /\ sql.params \in Seq(Values)
    /\ Len(sql.where) = k
    /\ \A i \in 1 .. k : /\ sql.where[i].op = tree[i].op
                         /\ Renders(sql.where[i].leaf, sql.params, tree[i].leaf)

LEMMA AddCompiles ==
    ASSUME NEW tree \in Seq(Nodes), NEW k \in 1 .. Len(tree), NEW sql, Compiled(sql, k - 1, tree)
    PROVE  Compiled(AddClause(sql, tree[k]), k, tree)
<1> DEFINE W == [op : {"AND", "OR"}, leaf : Clauses]
           w == sql.where
           p == sql.params
           op == tree[k].op
           leaf == tree[k].leaf
           c == Clause(p, leaf)
           x == Join(op, c)
           w2 == Append(w, x)
           p2 == IF leaf = Everything THEN p ELSE Append(p, leaf.value)
<1>1. op \in {"AND", "OR"} /\ leaf \in TreeLeaves /\ k \in Nat /\ k >= 1
  <2>1. tree[k] \in Nodes /\ Len(tree) \in Nat
    BY LenProperties
  <2> QED BY <2>1 DEF Nodes
<1>2. /\ w \in Seq(W) /\ p \in Seq(Values) /\ Len(w) = k - 1
      /\ \A i \in 1 .. k - 1 : w[i].op = tree[i].op /\ Renders(w[i].leaf, p, tree[i].leaf)
  BY DEF Compiled
<1>3. AddClause(sql, tree[k]) = [where |-> w2, params |-> p2]
  BY DEF AddClause
<1>s. tree[k].op = op /\ tree[k].leaf = leaf
  OBVIOUS
<1> HIDE DEF w, p, op, leaf
<1>4. /\ Len(p) \in Nat /\ p2 \in Seq(Values) /\ Len(p2) \in Nat /\ Len(p2) >= Len(p)
      /\ \A m \in 1 .. Len(p) : p2[m] = p[m]
      /\ leaf # Everything => Len(p2) = Len(p) + 1 /\ p2[Len(p) + 1] = leaf.value
  <2>1. Len(p) \in Nat
    BY <1>2, LenProperties
  <2>2. CASE leaf = Everything
    BY <1>2, <2>1, <2>2
  <2>3. CASE leaf # Everything
    <3>1. leaf.value \in Values
      BY <1>1 DEF Values
    <3> DEFINE v == leaf.value
    <3>2. v \in Values /\ p2 = Append(p, v)
      BY <2>3, <3>1
    <3> HIDE DEF v
    <3>3. /\ Append(p, v) \in Seq(Values) /\ Len(Append(p, v)) = Len(p) + 1
          /\ \A i \in 1 .. Len(p) : Append(p, v)[i] = p[i]
          /\ Append(p, v)[Len(p) + 1] = v
      BY <1>2, <3>2, AppendProperties
    <3> HIDE DEF p2
    <3> QED BY <2>1, <3>2, <3>3 DEF v
  <2> QED BY <2>2, <2>3
<1> HIDE DEF p2
<1>5. c \in Clauses /\ Renders(c, p2, leaf)
  <2>1. CASE leaf = Everything
    BY <2>1 DEF Clause, Clauses, Renders
  <2>2. CASE leaf # Everything
    <3>1. c = [field |-> leaf.field, id |-> Len(p) + 1]
      BY <2>2 DEF Clause, ParameterId
    <3>2. Len(p) + 1 \in Nat /\ Len(p) + 1 \in 1 .. Len(p2)
      BY <1>4, <2>2
    <3>3. c \in Clauses
      BY <1>1, <3>1, <3>2 DEF Clauses
    <3>4. Renders(c, p2, leaf)
      BY <1>4, <2>2, <3>1, <3>2 DEF Renders
    <3> QED BY <3>3, <3>4
  <2> QED BY <2>1, <2>2
<1> HIDE DEF c
<1>6. x \in W /\ x.op = op /\ x.leaf = c
  BY <1>1, <1>5 DEF Join
<1> HIDE DEF x
<1>7. /\ w2 \in Seq(W) /\ Len(w2) = k /\ w2[k] = x /\ \A i \in 1 .. k - 1 : w2[i] = w[i]
  <2> HIDE DEF W
  <2>1. /\ w2 \in Seq(W) /\ Len(w2) = (k - 1) + 1 /\ w2[(k - 1) + 1] = x
        /\ \A i \in 1 .. k - 1 : w2[i] = w[i]
    BY <1>2, <1>6, AppendProperties
  <2>2. (k - 1) + 1 = k
    BY <1>1
  <2> QED BY <2>1, <2>2
<1>8. ASSUME NEW i \in 1 .. k - 1 PROVE Renders(w[i].leaf, p2, tree[i].leaf)
  <2>1. Renders(w[i].leaf, p, tree[i].leaf)
    BY <1>2
  <2>2. \A m \in 1 .. Len(p) : m \in 1 .. Len(p2)
    BY <1>4
  <2> QED BY <1>4, <2>1, <2>2 DEF Renders
<1>9. \A i \in 1 .. k : w2[i].op = tree[i].op /\ Renders(w2[i].leaf, p2, tree[i].leaf)
  <2>1. TAKE i \in 1 .. k
  <2>2. i = k \/ i \in 1 .. k - 1
    BY <1>1
  <2> QED BY <1>s, <1>2, <1>5, <1>6, <1>7, <1>8, <2>2
<1> HIDE DEF w2
<1> DEFINE new == [where |-> w2, params |-> p2]
<1>10. new.where = w2 /\ new.params = p2
  OBVIOUS
<1> HIDE DEF new
<1>11. Compiled(new, k, tree)
  BY <1>4, <1>7, <1>9, <1>10 DEF Compiled
<1> QED BY <1>3, <1>11 DEF new, w2

Compilations == [where : Seq([op : {"AND", "OR"}, leaf : Clauses]), params : Seq(Values)]
LEMMA AddType ==
    ASSUME NEW sql \in Compilations, NEW node \in Nodes PROVE AddClause(sql, node) \in Compilations
<1> DEFINE W == [op : {"AND", "OR"}, leaf : Clauses]
           w == sql.where
           p == sql.params
           op == node.op
           leaf == node.leaf
           c == Clause(p, leaf)
           x == Join(op, c)
           p2 == IF leaf = Everything THEN p ELSE Append(p, leaf.value)
<1>1. op \in {"AND", "OR"} /\ leaf \in TreeLeaves
  BY DEF Nodes
<1>2. w \in Seq(W) /\ p \in Seq(Values)
  BY DEF Compilations
<1>3. AddClause(sql, node) = [where |-> Append(w, x), params |-> p2]
  BY DEF AddClause
<1> HIDE DEF w, p, op, leaf
<1>4. Len(p) + 1 \in Nat
  <2>1. Len(p) \in Nat
    BY <1>2, LenProperties
  <2> QED BY <2>1
<1>5. c \in Clauses
  BY <1>1, <1>4 DEF Clauses, Clause, ParameterId
<1> HIDE DEF c
<1>6. x \in W
  BY <1>1, <1>5 DEF Join
<1>7. Append(w, x) \in Seq(W)
  <2> HIDE DEF W, x
  <2> QED BY <1>2, <1>6, AppendProperties
<1>8. p2 \in Seq(Values)
  <2>1. leaf.value \in Values
    BY <1>1 DEF Values
  <2> DEFINE v == leaf.value
  <2>2. v \in Values
    BY <2>1
  <2> HIDE DEF v
  <2>3. Append(p, v) \in Seq(Values)
    BY <1>2, <2>2, AppendProperties
  <2> QED BY <1>2, <2>3 DEF v
<1> HIDE DEF p2, x
<1> DEFINE w2 == Append(w, x)
<1>9. w2 \in Seq(W)
  BY <1>7
<1> HIDE DEF w2
<1>10. [where |-> w2, params |-> p2] \in Compilations
  BY <1>8, <1>9 DEF Compilations
<1> QED BY <1>3, <1>10 DEF w2

LEMMA CompileIs == ASSUME NEW tree \in Seq(Nodes) PROVE Compiled(Compile(tree), Len(tree), tree)
<1> DEFINE n == Len(tree)
           H == Compilations
           step == [p \in (1 .. n) \X H |-> AddClause(p[2], tree[p[1]])]
<1>1. n \in Nat /\ DOMAIN tree = 1 .. n /\ \A k \in 1 .. n : tree[k] \in Nodes
  BY LenProperties
<1>a. NothingYet \in H
  BY DEF NothingYet, Compilations
<1>2. \A k \in 1 .. n, h \in H : AddClause(h, tree[k]) \in H
  BY <1>1, AddType
<1>n. n = Len(tree)
  OBVIOUS
<1> HIDE DEF n, H
<1>3. \A k \in 1 .. n, h \in H : step[<<k, h>>] = AddClause(h, tree[k]) /\ step[<<k, h>>] \in H
  BY <1>2
<1> HIDE DEF step
<1>4. PICK it0 : /\ IsFoldBy(it0, 1 .. n, NothingYet, step, LatestOf(n))
                 /\ \A s \in SUBSET (1 .. n) : it0[s] \in H
  BY <1>1, <1>a, <1>3, LeftFoldExists
<1>5. IsCompiling(it0, tree)
  <2>1. \A s \in SUBSET (1 .. n) : s # {} =>
          /\ LatestOf(n)[s] = Max(s) /\ Max(s) \in 1 .. n /\ it0[s \ {Max(s)}] \in H
    BY <1>1, <1>4, LatestPicks DEF Picks, LatestOf
  <2>2. \A s \in SUBSET (1 .. n) : s # {} =>
          step[<<LatestOf(n)[s], it0[s \ {LatestOf(n)[s]}]>>] = AddClause(it0[s \ {Max(s)}], tree[Max(s)])
    BY <1>3, <2>1
  <2> QED BY <1>1, <1>4, <2>2 DEF IsFoldBy, IsCompiling
<1> DEFINE it == CHOOSE f : IsCompiling(f, tree)
<1>6. IsCompiling(it, tree)
  BY <1>5
<1>7. Compile(tree) = it[1 .. n]
  BY <1>1, CompileUnfolds
<1> HIDE DEF it
<1>8. it[{}] = NothingYet
  BY <1>1, <1>6 DEF IsCompiling
<1>9. \A k \in 1 .. n : it[1 .. k] = AddClause(it[1 .. (k - 1)], tree[k])
  <2>1. TAKE k \in 1 .. n
  <2>2. it[1 .. k] = AddClause(it[(1 .. k) \ {Max(1 .. k)}], tree[Max(1 .. k)])
    BY <1>1, <1>6, LatestOfPrefix DEF IsCompiling
  <2> QED BY <1>1, <2>2, LatestOfPrefix
<1> DEFINE I == {k \in 0 .. n : Compiled(it[1 .. k], k, tree)}
<1>10. 0 \in I
  <2>1. 0 \in 0 .. n /\ 1 .. 0 = {} /\ it[1 .. 0] = NothingYet
    BY <1>1, <1>8
  <2>2. NothingYet.where = <<>> /\ NothingYet.params = <<>>
    BY DEF NothingYet
  <2>3. Compiled(NothingYet, 0, tree)
    BY <2>2, EmptySeq DEF Compiled
  <2> QED BY <2>1, <2>3
<1>11. ASSUME NEW k \in 1 .. n, k - 1 \in I PROVE k \in I
  <2>1. Compiled(it[1 .. (k - 1)], k - 1, tree)
    BY <1>11
  <2>2. k \in 1 .. Len(tree) /\ k \in 0 .. n
    BY <1>1, <1>n
  <2>3. Compiled(AddClause(it[1 .. (k - 1)], tree[k]), k, tree)
    BY <2>1, <2>2, AddCompiles
  <2> QED BY <1>9, <2>2, <2>3
<1> HIDE DEF I
<1>12. n \in I
  <2>1. n \in 0 .. n
    BY <1>1
  <2>2. \A k \in 0 .. n : k \in I
    BY <1>1, <1>10, <1>11, UpTo
  <2> QED BY <2>1, <2>2
<1> QED BY <1>7, <1>12, <1>n DEF I

\* What the SQL finds, the scan finds: the database compares case, the scan does not.
LEMMA SqlMeansMemory ==
    ASSUME NEW leaf \in TreeLeaves, NEW clause, NEW params, NEW line,
           Renders(clause, params, leaf), MatchesInSql(clause, params, line)
    PROVE  MatchesInMemory(leaf, line)
<1>1. CASE leaf = Everything
  <2>1. leaf.field = "text" /\ leaf.value[1] = ""
    BY <1>1 DEF Everything
  <2> QED BY <2>1 DEF MatchesInMemory, HasWord
<1>2. CASE leaf # Everything
  <2>1. PICK m : clause = [field |-> leaf.field, id |-> m] /\ params[m] = leaf.value
    BY <1>2 DEF Renders
  <2>2. clause.field = leaf.field /\ clause.id = m /\ clause # Everything
    BY <2>1 DEF Everything
  <2>3. CASE leaf.field = "text"
    BY <2>1, <2>2, <2>3 DEF MatchesInSql, MatchesInMemory
  <2>4. CASE leaf.field # "text"
    <3>1. line[leaf.field] = leaf.value
      BY <2>1, <2>2, <2>4 DEF MatchesInSql
    <3> QED BY <2>4, <3>1 DEF MatchesInMemory
  <2> QED BY <2>3, <2>4
<1> QED BY <1>1, <1>2
-----------------------------------------------------------------------------
\* The histogram of ClickHouse: a row per bucket and level.
LevelOf(p) == files[p[1]][p[2]].level
PartOf(S, b, l) == {p \in S : Bucket(TimeOf(p)) = b /\ LevelOf(p) = l}
Row(S, b, l) == [bucket |-> b, level |-> l, count |-> Cardinality(PartOf(S, b, l))]
RowsOf(S) == {Row(S, b, l) : b \in Buckets(S), l \in {LevelOf(p) : p \in S}}
FullRows(S) == {r \in RowsOf(S) : r.count > 0}
LEMMA RowsAddUp == ASSUME NEW S PROVE SqlHistogram(S) = [b \in Buckets(S) |-> AddRows(FullRows(S), b)]
  BY DEF SqlHistogram, FullRows, RowsOf, Row, PartOf, LevelOf

\* The rows of a bucket, added up, count its lines.
LEMMA RowsOfBucket ==
    ASSUME NEW S, IsFiniteSet(S), NEW b \in Buckets(S)
    PROVE  AddRows(FullRows(S), b) = Cardinality({p \in S : Bucket(TimeOf(p)) = b})
<1> DEFINE P == {p \in S : Bucket(TimeOf(p)) = b}
           full == FullRows(S)
           R == {r \in full : r.bucket = b}
           label == [p \in P |-> Row(S, b, LevelOf(p))]
           f == [r \in full |-> r.count]
           g == [r \in R |-> Cardinality(PartsOf(P, label, r))]
<1>1. IsFiniteSet(P)
  BY FS_Subset
<1>2. \A c, l : IsFiniteSet(PartOf(S, c, l)) /\ Cardinality(PartOf(S, c, l)) \in Nat
  BY FS_Subset, FS_CardinalityType DEF PartOf
<1>3. \A c, l : (Cardinality(PartOf(S, c, l)) > 0) <=> (PartOf(S, c, l) # {})
  BY <1>2, FS_EmptySet
<1>4. \A c, l : Row(S, c, l).bucket = c /\ Row(S, c, l).level = l /\ Row(S, c, l).count = Cardinality(PartOf(S, c, l))
  BY DEF Row
<1>5. \A p \in P : label[p] = Row(S, b, LevelOf(p))
  OBVIOUS
<1>6. \A p \in P : label[p] \in R
  <2>1. TAKE p \in P
  <2>2. p \in PartOf(S, b, LevelOf(p))
    BY DEF PartOf
  <2>3. Row(S, b, LevelOf(p)) \in RowsOf(S)
    BY DEF RowsOf
  <2>4. Row(S, b, LevelOf(p)).count > 0
    BY <1>3, <1>4, <2>2
  <2>5. Row(S, b, LevelOf(p)) \in FullRows(S)
    BY <2>3, <2>4 DEF FullRows
  <2> QED BY <1>4, <1>5, <2>5
<1>7. ASSUME NEW r \in R
      PROVE  \E l : r = Row(S, b, l) /\ PartOf(S, b, l) # {} /\ r.count = Cardinality(PartOf(S, b, l))
  <2>1. r \in RowsOf(S) /\ r.count > 0 /\ r.bucket = b
    BY <1>7 DEF FullRows
  <2>2. PICK c, l : r = Row(S, c, l)
    BY <2>1 DEF RowsOf
  <2> QED BY <1>3, <1>4, <2>1, <2>2
<1>8. \A r \in R : \E p \in P : label[p] = r
  <2>1. TAKE r \in R
  <2>2. PICK l : r = Row(S, b, l) /\ PartOf(S, b, l) # {}
    BY <1>7
  <2>3. PICK p : p \in PartOf(S, b, l)
    BY <2>2
  <2>4. p \in P /\ LevelOf(p) = l
    BY <2>3 DEF PartOf
  <2> QED BY <1>5, <2>2, <2>4
<1>9. \A r \in R : r.count = Cardinality(PartsOf(P, label, r)) /\ r.count \in Nat
  <2>1. TAKE r \in R
  <2>2. PICK l : r = Row(S, b, l) /\ r.count = Cardinality(PartOf(S, b, l))
    BY <1>7
  <2>3. PartsOf(P, label, r) = PartOf(S, b, l)
    <3>1. \A p \in P : label[p] = r <=> LevelOf(p) = l
      BY <1>4, <1>5, <2>2
    <3>2. PartsOf(P, label, r) = {p \in P : LevelOf(p) = l}
      BY <3>1 DEF PartsOf
    <3> QED BY <3>2 DEF PartOf
  <2> QED BY <1>2, <2>2, <2>3
<1>10. R = {label[p] : p \in P}
  BY <1>6, <1>8
<1>i. \A r \in R : f[r] = r.count
  OBVIOUS
<1>j. \A r \in R : g[r] = Cardinality(PartsOf(P, label, r))
  OBVIOUS
<1>k. AddRows(FullRows(S), b) = SumFunctionOnSet(f, R)
  BY DEF AddRows
<1>l. g = [r \in R |-> Cardinality(PartsOf(P, label, r))]
  OBVIOUS
<1> HIDE DEF label, f, g, P, R
<1>11. IsFiniteSet(R)
  BY <1>1, <1>10, ImageIsFinite
<1>12. \A r \in R : f[r] \in Nat /\ f[r] = g[r]
  BY <1>9, <1>i, <1>j
<1>13. SumFunctionOnSet(f, R) = SumFunctionOnSet(g, R)
  BY <1>11, <1>12, SumSame
<1>14. SumFunctionOnSet(g, R) = Cardinality(P)
  BY <1>1, <1>6, <1>11, <1>l, CountByLabel
<1> QED BY <1>k, <1>13, <1>14 DEF P

LEMMA HistogramsOf == ASSUME NEW S, IsFiniteSet(S) PROVE FileHistogram(S) = SqlHistogram(S)
  BY RowsAddUp, RowsOfBucket DEF FileHistogram

-----------------------------------------------------------------------------
QueryInv == query \in Seq(Tokens) /\ files \in [LogFiles -> Seq(Lines)]
LEMMA QueryInductive == QuerySpec => []QueryInv
<1>1. QueryInit => QueryInv
  <2>1. <<>> \in Seq(Tokens) /\ <<>> \in Seq(Lines)
    BY EmptySeq
  <2> QED BY <2>1 DEF QueryInit, QueryInv
<1>2. QueryInv /\ [QueryNext]_queryVars => QueryInv'
  <2>1. SUFFICES ASSUME QueryInv, [QueryNext]_queryVars PROVE QueryInv'
    OBVIOUS
  <2>2. ASSUME NEW f \in LogFiles, NEW l \in Lines, WriteLine(f, l) PROVE QueryInv'
    <3>1. files[f] \in Seq(Lines)
      BY <2>1 DEF QueryInv
    <3>2. Append(files[f], l) \in Seq(Lines)
      BY <3>1, AppendProperties
    <3>3. query' = query /\ files' = [files EXCEPT ![f] = Append(files[f], l)]
      BY <2>2 DEF WriteLine
    <3> QED BY <2>1, <3>2, <3>3 DEF QueryInv
  <2>3. ASSUME NEW t \in Terms \cup Operators, TypeToken(t) PROVE QueryInv'
    <3>1. query' = Append(query, t) /\ files' = files
      BY <2>3 DEF TypeToken
    <3>2. t \in Tokens
      BY DEF Tokens
    <3>3. Append(query, t) \in Seq(Tokens)
      BY <2>1, <3>2, AppendProperties DEF QueryInv
    <3> QED BY <2>1, <3>1, <3>3 DEF QueryInv
  <2>4. CASE UNCHANGED queryVars
    BY <2>1, <2>4 DEF QueryInv, queryVars
  <2> QED BY <2>1, <2>2, <2>3, <2>4 DEF QueryNext
<1> QED BY <1>1, <1>2, PTL DEF QuerySpec

LEMMA FoundAreFinite ==
    ASSUME NEW w PROVE IsFiniteSet(FileSearch(w)) /\ IsFiniteSet({p \in FileSearch(w) : Has(p, "number")})
<1>1. IsFiniteSet(LogFiles) /\ IsFiniteSet(1 .. MaxLines)
  BY QueryAssumption, UpToIsFinite
<1>2. IsFiniteSet(LogFiles \X (1 .. MaxLines))
  BY <1>1, FS_Product
<1> DEFINE Z == LogFiles \X (1 .. MaxLines)
<1>3. FileSearch(w) \subseteq Z
  BY DEF FileSearch, Scanned, Positions
<1>4. IsFiniteSet(Z)
  BY <1>2
<1> HIDE DEF Z
<1>5. IsFiniteSet(FileSearch(w))
  BY <1>3, <1>4, FS_Subset
<1>6. {p \in FileSearch(w) : Has(p, "number")} \subseteq FileSearch(w)
  OBVIOUS
<1> QED BY <1>5, <1>6, FS_Subset
-----------------------------------------------------------------------------
\* What a line gets from the SQL's tree it gets from the scan's.
LEMMA TreesAgree ==
    ASSUME NEW tree \in Seq(Nodes), NEW line,
           Evaluate(Compile(tree).where,
                    {c \in LeavesOf(Compile(tree).where) : MatchesInSql(c, Compile(tree).params, line)})
    PROVE  Evaluate(tree, {l \in LeavesOf(tree) : MatchesInMemory(l, line)})
<1> DEFINE sql == Compile(tree)
           w == sql.where
           p == sql.params
           n == Len(tree)
           W == [op : {"AND", "OR"}, leaf : Clauses]
           P == {c \in LeavesOf(w) : MatchesInSql(c, p, line)}
           Q == {l \in LeavesOf(tree) : MatchesInMemory(l, line)}
<1>1. Compiled(sql, n, tree)
  BY CompileIs
<1>2. /\ w \in Seq(W) /\ Len(w) = n
      /\ \A i \in 1 .. n : w[i].op = tree[i].op /\ Renders(w[i].leaf, p, tree[i].leaf)
  BY <1>1 DEF Compiled
<1>3. Evaluate(w, P)
  OBVIOUS
<1>4. ASSUME NEW k \in 1 .. Len(w), w[k].leaf \in P PROVE tree[k].leaf \in Q
  <2>1. k \in 1 .. n /\ DOMAIN tree = 1 .. n /\ tree[k] \in Nodes
    BY <1>2, LenProperties
  <2>2. tree[k].leaf \in TreeLeaves /\ tree[k].leaf \in LeavesOf(tree)
    BY <2>1 DEF Nodes, LeavesOf
  <2>3. Renders(w[k].leaf, p, tree[k].leaf) /\ MatchesInSql(w[k].leaf, p, line)
    BY <1>2, <1>4, <2>1
  <2> HIDE DEF w, p
  <2>4. MatchesInMemory(tree[k].leaf, line)
    BY <2>2, <2>3, SqlMeansMemory
  <2> QED BY <2>2, <2>4
<1>5. Weaker(w, P, tree, Q)
  BY <1>2, <1>4 DEF Weaker
<1> HIDE DEF w, p, P, Q, W, n
<1>6. Evaluate(tree, Q)
  BY <1>2, <1>3, <1>5, EvaluateGrows
<1> QED BY <1>6 DEF Q

LEMMA SqlIsFound ==
    ASSUME QueryInv, NEW w \in Windows, NEW p \in SqlSearch(w),
           \A n \in 1 .. p[2] : ~Has(<<p[1], n>>, "iso")
    PROVE  p \in FileSearch(w)
<1> DEFINE tree == Parse(query)
           sql == Compile(tree)
           line == files[p[1]][p[2]]
<1>1. /\ p \in Positions /\ line.tenant = Reader /\ Within(line.time.at, w)
      /\ Evaluate(sql.where, {c \in LeavesOf(sql.where) : MatchesInSql(c, sql.params, line)})
  BY DEF SqlSearch
<1>2. tree \in Seq(Nodes)
  BY ParseType DEF QueryInv
<1>3. Evaluate(tree, {l \in LeavesOf(tree) : MatchesInMemory(l, line)})
  <2> HIDE DEF tree, line
  <2> QED BY <1>1, <1>2, TreesAgree
<1>4. p[1] \in LogFiles /\ p[2] \in 1 .. MaxLines /\ p[2] \in Nat
  BY <1>1, QueryAssumption DEF Positions
<1>5. \A n \in Broken(p[1], w) : n > p[2]
  <2>1. TAKE n \in Broken(p[1], w)
  <2>2. n \in 1 .. Len(files[p[1]]) /\ Has(<<p[1], n>>, "iso")
    BY DEF Broken
  <2>3. n \in Nat /\ n >= 1
    <3>1. Len(files[p[1]]) \in Nat
      BY <1>4, LenProperties DEF QueryInv
    <3> QED BY <2>2, <3>1
  <2> QED BY <1>4, <2>2, <2>3
<1>6. p \in Scanned(w)
  BY <1>1, <1>5 DEF Scanned, BelongsTo
<1> QED BY <1>3, <1>6 DEF FileSearch

\* A search of the logs gets the same answer from ClickHouse and, when it is away, from
\* the files: for any terms, lines and files, however long the query and whatever the order
\* of its terms and operators.  No term is dropped by the parser, no numbered parameter
\* of the SQL gets the value of another term, the files give all that ClickHouse gives up
\* to their first ISO time, nobody sees a line of another tenant, and the rows that
\* ClickHouse counts per level add up to the counts of the scan (query/parser.py,
\* clickhouse_store.py, api/query.py).
THEOREM SearchesAlwaysAgree == QuerySpec => []SearchesAgree
<1>1. QueryInv => SearchesAgree
  <2>1. SUFFICES ASSUME QueryInv PROVE SearchesAgree
    OBVIOUS
  <2>2. NoTermDropped
    <3>1. query \in Seq(Tokens)
      BY <2>1 DEF QueryInv
    <3>2. LeavesIn(Parse(query)) \in {TermsOf(query), <<Everything>> \o TermsOf(query)}
      BY <3>1, ParseKeepsTerms
    <3> QED BY <3>2 DEF NoTermDropped, LeavesIn
  <2>3. FallbackFindsWhatSqlFinds
    BY <2>1, SqlIsFound DEF FallbackFindsWhatSqlFinds
  <2>4. OwnLinesOnly
    <3>1. \A w, p : p \in SqlSearch(w) => files[p[1]][p[2]].tenant = Reader
      BY DEF SqlSearch
    <3>2. \A w, p : p \in FileSearch(w) => files[p[1]][p[2]].tenant = Reader
      BY DEF FileSearch, Scanned, BelongsTo
    <3> QED BY <3>1, <3>2 DEF OwnLinesOnly
  <2>5. HistogramsAgree
    BY FoundAreFinite, HistogramsOf DEF HistogramsAgree
  <2> QED BY <2>2, <2>3, <2>4, <2>5 DEF SearchesAgree
<1> QED BY <1>1, QueryInductive, PTL
=============================================================================
