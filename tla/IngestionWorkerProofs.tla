------------------------ MODULE IngestionWorkerProofs ------------------------
(***************************************************************************)
(* Proofs about IngestionWorker, for every number of workers, partitions   *)
(* and records: type correctness, that no record is lost, that the worker  *)
(* implements AtLeastOnceLog, that nothing is stored twice without a       *)
(* doubtful fault (OInv), and that the batch of a topic stays bounded      *)
(* (BInv: what is above the ceiling when the worker polls is paused).      *)
(***************************************************************************)
EXTENDS IngestionWorker, FoldLemmas

USE ConstantsAssumption

LEMMA TypeInit == Init => TypeOK
  BY DEF Init, TypeOK, Recs, Topics, Labels, FaultTallies

\* A step that ends the process keeps the types of what it resets.
LEMMA ExitType ==
  ASSUME TypeOK, NEW w \in Workers, Exit(w)
  PROVE  /\ pc' \in [Workers -> Labels] /\ turn' \in [Workers -> 1 .. 2]
         /\ member' \in [Workers -> BOOLEAN]
         /\ view' \in [Workers -> SUBSET Partitions]
         /\ pos' \in [Workers -> [Partitions -> 0 .. MaxLog]]
         /\ paused' \in [Workers -> SUBSET Partitions]
         /\ batch' \in [Workers -> [Recs -> Nat]]
         /\ pending' \in [Workers -> [Partitions -> 0 .. MaxLog]]
         /\ failing' \in [Workers -> [Topics -> BOOLEAN]]
         /\ lingered' \in [Workers -> [Topics -> BOOLEAN]]
  BY DEF TypeOK, Exit, Goto, Labels

LEMMA TwoTopics == Len(TopicOrder) = 2
  BY DEF TopicOrder

LEMMA AdvanceType ==
  ASSUME TypeOK, NEW w \in Workers, Advance(w)
  PROVE  pc' \in [Workers -> Labels] /\ turn' \in [Workers -> 1 .. 2]
  <1>1. turn[w] \in 1 .. 2 /\ pc \in [Workers -> Labels] /\ turn \in [Workers -> 1 .. 2]
    BY DEF TypeOK
  <1>2. CASE turn[w] < 2
    <2>1. turn' = [turn EXCEPT ![w] = turn[w] + 1] /\ pc' = [pc EXCEPT ![w] = "flush"]
      BY <1>2, TwoTopics DEF Advance, Goto
    <2> QED
      BY <1>1, <1>2, <2>1 DEF Labels
  <1>3. CASE ~(turn[w] < 2)
    <2>1. turn' = [turn EXCEPT ![w] = 1] /\ pc' = [pc EXCEPT ![w] = "resume"]
      BY <1>3, TwoTopics DEF Advance, Goto
    <2> QED
      BY <1>1, <2>1 DEF Labels
  <1> QED
    BY <1>2, <1>3

LEMMA LandType ==
  ASSUME TypeOK, NEW w \in Workers, NEW S, Land(w, S)
  PROVE  rows' \in [Recs -> 0 .. 2]
  BY DEF TypeOK, Land

LEMMA SpendType ==
  ASSUME TypeOK, NEW k, Spend(k)
  PROVE  faults' \in FaultTallies
  <1>1. faults.count \in 0 .. MaxFaults /\ faults.clean \in BOOLEAN
    BY DEF TypeOK, FaultTallies
  <1>2. faults.count + 1 \in 0 .. MaxFaults
    BY <1>1, ConstantsAssumption DEF Spend
  <1>3. (faults.clean /\ k \in CleanFaults) \in BOOLEAN
    OBVIOUS
  <1> QED BY <1>2, <1>3 DEF Spend, FaultTallies

LEMMA TopicType ==
  ASSUME TypeOK, NEW w \in Workers
  PROVE  Topic(w) \in Topics
  <1>1. turn[w] = 1 \/ turn[w] = 2
    BY DEF TypeOK
  <1> QED
    BY <1>1 DEF Topic, TopicOrder, Topics

LEMMA SomeFailType ==
  ASSUME TypeOK, NEW w \in Workers, NEW t, SomeFail(w, t)
  PROVE  rows' \in [Recs -> 0 .. 2] /\ faults' \in FaultTallies
  <1>1. CASE Land(w, Landable(w, t)) /\ UNCHANGED faults
    BY <1>1, LandType DEF TypeOK
  <1>2. CASE Spend("reject") /\ UNCHANGED rows
    BY <1>2, SpendType DEF TypeOK
  <1>3. CASE Spend("partial") /\ \E S \in SUBSET Landable(w, t) : Land(w, S)
    BY <1>3, SpendType, LandType
  <1> QED
    BY <1>1, <1>2, <1>3 DEF SomeFail

LEMMA ApplyCommitType ==
  ASSUME TypeOK, NEW w \in Workers, NEW t, ApplyCommit(w, t)
  PROVE  committed' \in [Partitions -> 0 .. MaxLog]
  BY DEF TypeOK, ApplyCommit

LEMMA NextCloseType ==
  ASSUME TypeOK, NEW w \in Workers, NextClose(w)
  PROVE  /\ pc' \in [Workers -> Labels] /\ turn' \in [Workers -> 1 .. 2]
         /\ member' \in [Workers -> BOOLEAN]
         /\ view' \in [Workers -> SUBSET Partitions]
         /\ pos' \in [Workers -> [Partitions -> 0 .. MaxLog]]
         /\ paused' \in [Workers -> SUBSET Partitions]
         /\ batch' \in [Workers -> [Recs -> Nat]]
         /\ pending' \in [Workers -> [Partitions -> 0 .. MaxLog]]
         /\ failing' \in [Workers -> [Topics -> BOOLEAN]]
         /\ lingered' \in [Workers -> [Topics -> BOOLEAN]]
  <1>1. CASE Exit(w)
    BY <1>1, ExitType
  <1>2. CASE ~Exit(w)
    <2>1. turn[w] < 2 /\ turn' = [turn EXCEPT ![w] = turn[w] + 1]
      BY <1>2, TwoTopics DEF NextClose
    <2>2. pc' = [pc EXCEPT ![w] = "close_flush"]
      BY <1>2 DEF NextClose, Goto
    <2>3. UNCHANGED <<member, view, pos, paused, batch, pending, failing, lingered>>
      BY <1>2 DEF NextClose, consumer, memory
    <2>4. turn[w] + 1 \in 1 .. 2 /\ turn \in [Workers -> 1 .. 2]
      <3>1. turn \in [Workers -> 1 .. 2]
        BY DEF TypeOK
      <3> QED
        BY <2>1, <3>1
    <2>5. turn' \in [Workers -> 1 .. 2]
      BY <2>1, <2>4
    <2>6. pc' \in [Workers -> Labels]
      BY <2>2 DEF TypeOK, Labels
    <2> QED
      BY <2>3, <2>5, <2>6 DEF TypeOK
  <1> QED
    BY <1>1, <1>2

LEMMA TypeStep == TypeOK /\ [Next]_vars => TypeOK'
  <1> SUFFICES ASSUME TypeOK, [Next]_vars PROVE TypeOK'
    OBVIOUS
  <1> USE DEF broker, group, consumer, memory
  <1>1. ASSUME NEW p \in Partitions, NEW m \in Messages, Produce(p, m) PROVE TypeOK'
    <2>1. content' \in [Recs -> Messages \cup {NoMessage}]
      BY <1>1 DEF Produce, TypeOK
    <2>2. end' \in [Partitions -> 0 .. MaxLog]
      <3>1. end \in [Partitions -> 0 .. MaxLog] /\ end[p] < MaxLog
        BY <1>1 DEF Produce, TypeOK
      <3>2. end[p] + 1 \in 0 .. MaxLog
        BY <3>1
      <3> QED
        BY <1>1, <3>1, <3>2 DEF Produce
    <2> QED
      BY <1>1, <2>1, <2>2 DEF Produce, TypeOK
  <1>2. ASSUME NEW w \in Workers, NEW t \in Topics, Linger(w, t) PROVE TypeOK'
    BY <1>2 DEF Linger, TypeOK
  <1>3. CASE Rebalance
    <2>1. faults' \in FaultTallies
      <3>1. CASE Spend("rebalance")
        BY <3>1, SpendType
      <3>2. CASE faults' = [faults EXCEPT !.clean = @ /\ \A w \in Alive : view[w] = {}]
        <4>1. (faults.clean /\ \A w \in Alive : view[w] = {}) \in BOOLEAN
          OBVIOUS
        <4> QED
          BY <3>2, <4>1 DEF TypeOK, FaultTallies
      <3> QED
        BY <1>3, <3>1, <3>2 DEF Rebalance
    <2>2. owner' \in [Partitions -> Workers]
      BY <1>3 DEF Rebalance, Alive
    <2> QED
      BY <1>3, <2>1, <2>2 DEF Rebalance, TypeOK
  <1>4. ASSUME NEW w \in Workers, Rejoin(w) PROVE TypeOK'
    BY <1>4 DEF Rejoin, TypeOK
  <1>5. ASSUME NEW w \in Workers, Start(w) PROVE TypeOK'
    <2>1. faults' \in FaultTallies
      BY <1>5, SpendType DEF Start, TypeOK
    <2>2. client' \in [Workers -> BOOLEAN]
      BY <1>5 DEF Start, TypeOK
    <2> QED
      BY <1>5, <2>1, <2>2 DEF Start, TypeOK, Goto, Labels
  <1>6. ASSUME NEW w \in Workers, Crash(w) PROVE TypeOK'
    BY <1>6, ExitType, SpendType DEF Crash, TypeOK
  <1>7. ASSUME NEW w \in Workers, Cancel(w) PROVE TypeOK'
    BY <1>7, SpendType DEF Cancel, TypeOK, Goto, Labels
  <1>8. ASSUME NEW w \in Workers, Poll(w) PROVE TypeOK'
    <2>1. PICK n \in Fetches(w) :
             /\ pos' = [pos EXCEPT ![w] = [p \in Partitions |-> pos[w][p] + n[p]]]
             /\ pending' = [pending EXCEPT ![w] = [p \in Partitions |->
                    IF n[p] > 0 THEN Larger(pending[w][p], pos[w][p] + n[p])
                    ELSE pending[w][p]]]
      BY <1>8 DEF Poll
    <2>2. \A p \in Partitions : pos[w][p] + n[p] \in 0 .. MaxLog
      BY <2>1 DEF Fetches, TypeOK
    <2>3. pos' \in [Workers -> [Partitions -> 0 .. MaxLog]]
      BY <2>1, <2>2 DEF TypeOK
    <2>4. pending' \in [Workers -> [Partitions -> 0 .. MaxLog]]
      BY <2>1, <2>2 DEF TypeOK, Larger
    <2>5. batch' \in [Workers -> [Recs -> Nat]]
      BY <1>8 DEF Poll, TypeOK
    <2> QED
      BY <1>8, <2>3, <2>4, <2>5 DEF Poll, TypeOK, Goto, Labels
  <1>9. ASSUME NEW w \in Workers, Skip(w) PROVE TypeOK'
    BY <1>9, AdvanceType DEF Skip, TypeOK
  <1>10. ASSUME NEW w \in Workers, FlushOk(w) PROVE TypeOK'
    BY <1>10, LandType DEF FlushOk, AllLand, TypeOK, Goto, Labels
  <1>11. ASSUME NEW w \in Workers, FlushFail(w) PROVE TypeOK'
    <2>1. rows' \in [Recs -> 0 .. 2] /\ faults' \in FaultTallies
      BY <1>11, SomeFailType DEF FlushFail
    <2>2. failing' \in [Workers -> [Topics -> BOOLEAN]]
      BY <1>11 DEF FlushFail, TypeOK
    <2>3. paused' \in [Workers -> SUBSET Partitions]
      BY <1>11 DEF FlushFail, TypeOK, Pending, PartitionsOf
    <2>4. pc' \in [Workers -> Labels] /\ turn' \in [Workers -> 1 .. 2]
      BY <1>11 DEF FlushFail, TypeOK, Goto, Labels
    <2> QED
      BY <1>11, <2>1, <2>2, <2>3, <2>4 DEF FlushFail, TypeOK
  <1>12. ASSUME NEW w \in Workers, BackoffDone(w) PROVE TypeOK'
    BY <1>12, AdvanceType DEF BackoffDone, TypeOK
  <1>13. ASSUME NEW w \in Workers, CommitOk(w) PROVE TypeOK'
    <2>1. committed' \in [Partitions -> 0 .. MaxLog]
      BY <1>13, ApplyCommitType DEF CommitOk
    <2>2. pc' \in [Workers -> Labels] /\ turn' \in [Workers -> 1 .. 2]
      BY <1>13, AdvanceType DEF CommitOk
    <2>3. batch' \in [Workers -> [Recs -> Nat]]
      BY <1>13 DEF CommitOk, TypeOK
    <2>4. pending' \in [Workers -> [Partitions -> 0 .. MaxLog]]
      BY <1>13 DEF CommitOk, TypeOK
    <2>5. /\ failing' \in [Workers -> [Topics -> BOOLEAN]]
          /\ lingered' \in [Workers -> [Topics -> BOOLEAN]]
      BY <1>13 DEF CommitOk, TypeOK
    <2> QED
      BY <1>13, <2>1, <2>2, <2>3, <2>4, <2>5 DEF CommitOk, TypeOK
  <1>14. ASSUME NEW w \in Workers, CommitRaises(w) PROVE TypeOK'
    <2>1. committed' \in [Partitions -> 0 .. MaxLog]
      BY <1>14, ApplyCommitType DEF CommitRaises, TypeOK
    <2>2. faults' \in FaultTallies
      BY <1>14, SpendType DEF CommitRaises, TypeOK
    <2> QED
      BY <1>14, <2>1, <2>2 DEF CommitRaises, TypeOK, Goto, Labels
  <1>15. ASSUME NEW w \in Workers, Resume(w) PROVE TypeOK'
    BY <1>15 DEF Resume, TypeOK, Goto, Labels
  <1>16. ASSUME NEW w \in Workers, CloseFlush(w) PROVE TypeOK'
    <2>1. CASE Batch(w, Topic(w)) # {} /\ AllLand(w, Topic(w)) /\ Goto(w, "close_commit")
               /\ UNCHANGED <<turn, member, consumer, memory>>
      BY <1>16, <2>1, LandType DEF CloseFlush, AllLand, TypeOK, Goto, Labels
    <2>2. CASE NextClose(w) /\ (UNCHANGED <<rows, faults>> \/ SomeFail(w, Topic(w)))
      <3>1. rows' \in [Recs -> 0 .. 2] /\ faults' \in FaultTallies
        BY <2>2, SomeFailType DEF TypeOK
      <3> QED
        BY <1>16, <2>2, <3>1, NextCloseType DEF CloseFlush, TypeOK
    <2> QED
      BY <1>16, <2>1, <2>2 DEF CloseFlush
  <1>17. ASSUME NEW w \in Workers, CloseCommit(w) PROVE TypeOK'
    <2>1. committed' \in [Partitions -> 0 .. MaxLog]
      BY <1>17, ApplyCommitType DEF CloseCommit, TypeOK
    <2>2. faults' \in FaultTallies
      BY <1>17, SpendType DEF CloseCommit, TypeOK
    <2>3. NextClose(w) \/ Exit(w)
      BY <1>17 DEF CloseCommit
    <2> QED
      BY <1>17, <2>1, <2>2, <2>3, NextCloseType, ExitType DEF CloseCommit, TypeOK
  <1>18. CASE UNCHANGED vars
    BY <1>18 DEF vars, TypeOK
  <1> QED
    BY <1>1, <1>2, <1>3, <1>4, <1>5, <1>6, <1>7, <1>8, <1>9, <1>10, <1>11, <1>12,
       <1>13, <1>14, <1>15, <1>16, <1>17, <1>18 DEF Next, Step

\* The broker, the consumer and the worker's state keep their types: no queue,
\* offset or label leaves its range on any interleaving.
THEOREM TypeCorrect == Spec => []TypeOK
  BY TypeInit, TypeStep, PTL DEF Spec

-----------------------------------------------------------------------------
(* No loss.  The inductive invariant joins what holds of the broker and of *)
(* ClickHouse (Global) with what holds of each worker's memory (Local): an *)
(* offset the worker may yet commit covers only records that are stored or *)
(* in its batch, and at the commit itself only stored ones.                *)

Global ==
    /\ \A p \in Partitions : committed[p] <= end[p]
    /\ \A r \in WellFormed : r[2] < committed[r[1]] => Stored(r)
    /\ \A r \in Recs : Stored(r) => r \in WellFormed

Local(w) ==
    /\ \A p \in Partitions : pos[w][p] <= end[p] /\ pending[w][p] <= end[p]
    /\ \A r \in WellFormed :
           (r[1] \in view[w] /\ r[2] < pos[w][r[1]]) \/ r[2] < pending[w][r[1]]
               => Stored(r) \/ batch[w][r] > 0
    /\ pc[w] \in {"commit", "close_commit"} => \A r \in Batch(w, Topic(w)) : Stored(r)
    /\ \A r \in Recs : batch[w][r] > 0 => r \in WellFormed

IInv == TypeOK /\ Global /\ \A w \in Workers : Local(w)

LEMMA IInvInit == Init => IInv
  <1> SUFFICES ASSUME Init PROVE IInv
    OBVIOUS
  <1>1. TypeOK
    BY TypeInit
  <1>2. Global
    BY DEF Init, Global, Stored, WellFormed, Produced, Recs
  <1>3. \A w \in Workers : Local(w)
    BY DEF Init, Local, WellFormed, Produced, Recs
  <1> QED
    BY <1>1, <1>2, <1>3 DEF IInv

LEMMA IInvImplies ==
  IInv => NoLoss /\ ReadIsKept
  BY DEF IInv, Global, Local, NoLoss, ReadIsKept

\* What an insert does to ClickHouse: rows only appear, and only for the batch.
LEMMA LandStores ==
  ASSUME TypeOK, NEW w \in Workers, NEW S, Land(w, S), \A r \in S : r \in Recs => batch[w][r] > 0
  PROVE  \A r \in Recs : /\ Stored(r) => Stored(r)'
                         /\ r \in S => Stored(r)'
                         /\ Stored(r)' => Stored(r) \/ batch[w][r] > 0
  BY DEF TypeOK, Land, Stored

LEMMA SomeFailStores ==
  ASSUME TypeOK, NEW w \in Workers, NEW t, SomeFail(w, t)
  PROVE  \A r \in Recs : /\ Stored(r) => Stored(r)'
                         /\ Stored(r)' => Stored(r) \/ batch[w][r] > 0
  <1>1. \A S \in SUBSET Landable(w, t) : \A r \in S : r \in Recs => batch[w][r] > 0
    BY DEF Landable, Batch
  <1>2. CASE Land(w, Landable(w, t))
    BY <1>1, <1>2, LandStores
  <1>3. CASE UNCHANGED rows
    BY <1>3 DEF Stored
  <1>4. CASE \E S \in SUBSET Landable(w, t) : Land(w, S)
    BY <1>1, <1>4, LandStores
  <1> QED
    BY <1>2, <1>3, <1>4 DEF SomeFail

LEMMA AllLandStores ==
  ASSUME TypeOK, NEW w \in Workers, NEW t, AllLand(w, t)
  PROVE  \A r \in Recs : /\ Stored(r) => Stored(r)'
                         /\ r \in Batch(w, t) => Stored(r)'
                         /\ Stored(r)' => Stored(r) \/ batch[w][r] > 0
  <1>1. \A r \in Batch(w, t) : r \in Recs => batch[w][r] > 0
    BY DEF Batch
  <1> QED
    BY <1>1, LandStores DEF AllLand

\* What a worker's memory promises survives any step that leaves that memory,
\* the log and the stored rows alone.
LEMMA LocalFrame ==
  ASSUME NEW w \in Workers, Local(w), UNCHANGED broker,
         \A r \in Recs : Stored(r) => Stored(r)',
         view'[w] = view[w], pos'[w] = pos[w], pending'[w] = pending[w],
         batch'[w] = batch[w],
         pc'[w] \in {"commit", "close_commit"} =>
             pc[w] \in {"commit", "close_commit"} /\ turn'[w] = turn[w]
  PROVE  Local(w)'
  <1>1. WellFormed' = WellFormed
    BY DEF WellFormed, Produced, broker
  <1>2. Topic(w)' = Topic(w) \/ pc'[w] \notin {"commit", "close_commit"}
    BY DEF Topic
  <1>3. \A t : Batch(w, t)' = Batch(w, t)
    BY DEF Batch, RecsOf
  <1>4. \A t : Batch(w, t) \subseteq Recs
    BY DEF Batch, RecsOf
  <1> QED
    BY <1>1, <1>2, <1>3, <1>4 DEF Local, broker, WellFormed, Produced

\* The same for the broker and ClickHouse, when nothing is committed.
LEMMA GlobalFrame ==
  ASSUME Global, NEW w \in Workers, Local(w), UNCHANGED <<broker, committed>>,
         \A r \in Recs : /\ Stored(r) => Stored(r)'
                         /\ Stored(r)' => Stored(r) \/ batch[w][r] > 0
  PROVE  Global'
  <1>1. WellFormed' = WellFormed /\ WellFormed \subseteq Recs
    BY DEF WellFormed, Produced, broker
  <1> QED
    BY <1>1 DEF Global, Local, broker

\* A worker that ends promises nothing.
LEMMA ExitLocal ==
  ASSUME TypeOK, NEW w \in Workers, Exit(w), UNCHANGED broker
  PROVE  Local(w)'
  <1>1. /\ view'[w] = {} /\ pos'[w] = [p \in Partitions |-> 0]
        /\ pending'[w] = [p \in Partitions |-> 0]
        /\ batch'[w] = [r \in Recs |-> 0] /\ pc'[w] = "down"
    BY DEF Exit, Goto, TypeOK
  <1>2. \A p \in Partitions : end'[p] \in Nat
    BY DEF TypeOK, broker
  <1>3. WellFormed' \subseteq Recs /\ \A r \in Recs : r[1] \in Partitions /\ r[2] \in Nat
    BY DEF WellFormed, Produced, Recs
  <1> QED
    BY <1>1, <1>2, <1>3 DEF Local

LEMMA ExitOthers ==
  ASSUME TypeOK, NEW w \in Workers, Exit(w), NEW v \in Workers, v # w
  PROVE  /\ view'[v] = view[v] /\ pos'[v] = pos[v] /\ pending'[v] = pending[v]
         /\ batch'[v] = batch[v] /\ pc'[v] = pc[v] /\ turn'[v] = turn[v]
  BY DEF Exit, Goto, TypeOK

\* A commit moves the offset only to where the worker's own batch, which has
\* landed in full, covers everything below it.
LEMMA ApplyCommitGlobal ==
  ASSUME IInv, NEW w \in Workers, pc[w] \in {"commit", "close_commit"},
         ApplyCommit(w, Topic(w)) \/ UNCHANGED committed, UNCHANGED <<broker, rows>>
  PROVE  Global'
  <1>1. WellFormed' = WellFormed /\ \A r \in Recs : Stored(r)' = Stored(r)
    BY DEF WellFormed, Produced, Stored, broker
  <1>2. WellFormed \subseteq Recs /\ \A r \in Recs : r[1] \in Partitions /\ r[2] \in Nat
    BY DEF WellFormed, Produced, Recs
  <1>3. CASE UNCHANGED committed
    BY <1>1, <1>2, <1>3 DEF IInv, Global, broker
  <1>4. CASE ApplyCommit(w, Topic(w))
    <2>1. \A p \in Partitions : committed'[p] = IF p \in Pending(w, Topic(w))
                                               THEN pending[w][p] ELSE committed[p]
      BY <1>4 DEF ApplyCommit
    <2>2. \A p \in Partitions : committed'[p] <= end'[p]
      BY <2>1 DEF IInv, Global, Local, broker
    <2>3. ASSUME NEW r \in WellFormed, r[2] < committed'[r[1]] PROVE Stored(r)
      <3>1. r \in Recs /\ r[1] \in Partitions
        BY <1>2
      <3>2. CASE r[1] \in Pending(w, Topic(w))
        <4>1. r[2] < pending[w][r[1]]
          BY <2>1, <2>3, <3>1, <3>2
        <4>2. Stored(r) \/ batch[w][r] > 0
          BY <4>1 DEF IInv, Local
        <4>3. batch[w][r] > 0 => r \in Batch(w, Topic(w))
          BY <3>1, <3>2 DEF Batch, RecsOf, Pending, PartitionsOf
        <4> QED
          BY <4>2, <4>3 DEF IInv, Local
      <3>3. CASE r[1] \notin Pending(w, Topic(w))
        BY <2>1, <2>3, <3>1, <3>3 DEF IInv, Global
      <3> QED
        BY <3>2, <3>3
    <2> QED
      BY <1>1, <1>2, <2>2, <2>3 DEF Global, IInv
  <1> QED
    BY <1>3, <1>4

LEMMA ProduceStep ==
  ASSUME IInv, TypeOK', NEW p \in Partitions, NEW m \in Messages, Produce(p, m)
  PROVE  IInv'
  <1> DEFINE q == <<p, end[p]>>
  <1>1. end[p] \in 0 .. MaxLog - 1 /\ q \in Recs
    BY DEF IInv, TypeOK, Produce, Recs
  <1>2. /\ \A r \in Recs : r # q => content'[r] = content[r]
        /\ \A x \in Partitions : end'[x] = IF x = p THEN end[p] + 1 ELSE end[x]
    BY <1>1 DEF Produce, IInv, TypeOK
  <1>3. \A r \in Recs : r = <<r[1], r[2]>> /\ r[1] \in Partitions /\ r[2] \in Nat
    BY DEF Recs
  <1>4. \A x \in Partitions : end[x] \in Nat
    BY DEF IInv, TypeOK
  <1>5. WellFormed' \subseteq WellFormed \cup {q}
    BY <1>1, <1>2, <1>3, <1>4 DEF WellFormed, Produced
  <1>6. WellFormed \subseteq WellFormed'
    <2>1. q \notin WellFormed
      BY <1>1, <1>4 DEF WellFormed, Produced
    <2> QED
      BY <1>2, <1>3, <1>4, <2>1 DEF WellFormed, Produced
  <1>7. \A x \in Partitions : end[x] <= end'[x]
    BY <1>2, <1>4
  <1>8. \A r \in Recs : Stored(r)' = Stored(r)
    BY DEF Produce, Stored
  <1>9. Global'
    <2>1. ~(q[2] < committed[q[1]])
      BY <1>1, <1>4 DEF IInv, Global, TypeOK
    <2>2. UNCHANGED committed
      BY DEF Produce
    <2>3. \A x \in Partitions : committed[x] \in Nat /\ end'[x] \in Nat
      BY DEF IInv, TypeOK
    <2>4. \A r \in WellFormed' : r \in Recs
      BY DEF WellFormed, Produced
    <2> QED
      BY <1>4, <1>5, <1>6, <1>7, <1>8, <2>1, <2>2, <2>3, <2>4 DEF IInv, Global
  <1>10. ASSUME NEW w \in Workers PROVE Local(w)'
    <2>1. UNCHANGED <<view, pos, pending, batch, pc, turn>>
      BY DEF Produce, group, consumer, memory
    <2>2. ~(q[2] < pos[w][q[1]]) /\ ~(q[2] < pending[w][q[1]])
      BY <1>1, <1>4 DEF IInv, Local, TypeOK
    <2>3. \A x \in Partitions : pos[w][x] \in Nat /\ pending[w][x] \in Nat /\ end'[x] \in Nat
      BY DEF IInv, TypeOK
    <2>4. \A x \in Partitions : pos'[w][x] <= end'[x] /\ pending'[w][x] <= end'[x]
      BY <1>4, <1>7, <2>1, <2>3 DEF IInv, Local
    <2>5. Topic(w)' = Topic(w) /\ \A t : Batch(w, t)' = Batch(w, t) /\ Batch(w, t) \subseteq Recs
      BY <2>1 DEF Topic, Batch, RecsOf
    <2>6. \A r \in WellFormed' : r \in Recs
      BY DEF WellFormed, Produced
    <2>7. \A r \in WellFormed' :
             (r[1] \in view'[w] /\ r[2] < pos'[w][r[1]]) \/ r[2] < pending'[w][r[1]]
                 => Stored(r)' \/ batch'[w][r] > 0
      BY <1>5, <1>8, <2>1, <2>2, <2>6 DEF IInv, Local
    <2>8. pc'[w] \in {"commit", "close_commit"} => \A r \in Batch(w, Topic(w))' : Stored(r)'
      BY <1>8, <2>1, <2>5 DEF IInv, Local
    <2>9. \A r \in Recs : batch'[w][r] > 0 => r \in WellFormed'
      BY <1>6, <2>1 DEF IInv, Local
    <2> QED
      BY <2>4, <2>7, <2>8, <2>9 DEF Local
  <1> QED
    BY <1>9, <1>10 DEF IInv

LEMMA RejoinStep ==
  ASSUME IInv, TypeOK', NEW w \in Workers, Rejoin(w)
  PROVE  IInv'
  <1> USE DEF broker
  <1>1. \A r \in Recs : Stored(r)' = Stored(r)
    BY DEF Rejoin, Stored
  <1>2. Global'
    BY <1>1, GlobalFrame DEF Rejoin, IInv
  <1>3. ASSUME NEW v \in Workers, v # w PROVE Local(v)'
    <2>1. view'[v] = view[v] /\ pos'[v] = pos[v]
      BY <1>3 DEF Rejoin, IInv, TypeOK
    <2> QED
      BY <1>1, <2>1, LocalFrame DEF Rejoin, IInv, memory
  <1>4. Local(w)'
    <2> DEFINE mine == {p \in Partitions : owner[p] = w}
    <2>1. /\ view'[w] = mine
          /\ \A p \in Partitions : pos'[w][p] = IF p \in mine THEN committed[p] ELSE pos[w][p]
      BY DEF Rejoin, IInv, TypeOK
    <2>2. UNCHANGED <<content, end, pending, batch, pc, turn, committed, rows>>
      BY DEF Rejoin, memory
    <2>3. WellFormed' = WellFormed /\ Topic(w)' = Topic(w) /\ \A t : Batch(w, t)' = Batch(w, t)
      BY <2>2 DEF WellFormed, Produced, Topic, Batch, RecsOf
    <2>4. \A r \in WellFormed : r \in Recs /\ r[1] \in Partitions
      BY DEF WellFormed, Produced, Recs
    <2>5. \A t : Batch(w, t) \subseteq Recs
      BY DEF Batch, RecsOf
    <2>6. \A p \in Partitions : pos'[w][p] <= end'[p] /\ pending'[w][p] <= end'[p]
      BY <2>1, <2>2 DEF IInv, Global, Local
    <2>7. \A r \in WellFormed :
             (r[1] \in view'[w] /\ r[2] < pos'[w][r[1]]) \/ r[2] < pending'[w][r[1]]
                 => Stored(r)' \/ batch'[w][r] > 0
      BY <1>1, <2>1, <2>2, <2>4 DEF IInv, Global, Local
    <2> QED
      BY <1>1, <2>2, <2>3, <2>5, <2>6, <2>7 DEF IInv, Local
  <1> QED
    BY <1>2, <1>3, <1>4 DEF IInv

LEMMA PollStep ==
  ASSUME IInv, TypeOK', NEW w \in Workers, Poll(w)
  PROVE  IInv'
  <1> USE DEF broker
  <1> DEFINE taken(n) == {r \in Recs : /\ pos[w][r[1]] <= r[2]
                                       /\ r[2] < pos[w][r[1]] + n[r[1]]}
  <1>1. PICK n \in Fetches(w) :
          /\ pos' = [pos EXCEPT ![w] = [p \in Partitions |-> pos[w][p] + n[p]]]
          /\ batch' = [batch EXCEPT ![w] = [r \in Recs |->
                 IF r \in taken(n) /\ content[r] \notin Malformed
                 THEN batch[w][r] + 1 ELSE batch[w][r]]]
          /\ pending' = [pending EXCEPT ![w] = [p \in Partitions |->
                 IF n[p] > 0 THEN Larger(pending[w][p], pos[w][p] + n[p])
                 ELSE pending[w][p]]]
    BY DEF Poll
  <1>2. UNCHANGED <<content, end, committed, rows, view>>
    BY DEF Poll
  <1>3. \A r \in Recs : Stored(r)' = Stored(r)
    BY <1>2 DEF Stored
  <1>4. Global'
    BY <1>2, <1>3, GlobalFrame DEF IInv
  <1>5. ASSUME NEW v \in Workers, v # w PROVE Local(v)'
    <2>1. pos'[v] = pos[v] /\ pending'[v] = pending[v] /\ batch'[v] = batch[v]
      BY <1>1, <1>5 DEF IInv, TypeOK
    <2>2. pc'[v] = pc[v] /\ turn'[v] = turn[v]
      BY <1>5 DEF Poll, Goto, IInv, TypeOK
    <2> QED
      BY <1>2, <1>3, <2>1, <2>2, LocalFrame DEF IInv
  <1>6. Local(w)'
    <2>1. \A p \in Partitions : /\ n[p] \in Nat
                                /\ n[p] > 0 => p \in view[w] /\ n[p] <= end[p] - pos[w][p]
      BY <1>1 DEF Fetches
    <2>2. \A p \in Partitions : /\ end[p] \in Nat /\ pos[w][p] \in Nat /\ pending[w][p] \in Nat
                                /\ pos[w][p] <= end[p] /\ pending[w][p] <= end[p]
      BY DEF IInv, TypeOK, Local
    <2>3. \A p \in Partitions :
             /\ pos'[w][p] = pos[w][p] + n[p]
             /\ pending'[w][p] = IF n[p] > 0 THEN Larger(pending[w][p], pos[w][p] + n[p])
                                 ELSE pending[w][p]
      BY <1>1 DEF IInv, TypeOK
    <2>4. \A r \in Recs : batch'[w][r] = IF r \in taken(n) /\ content[r] \notin Malformed
                                        THEN batch[w][r] + 1 ELSE batch[w][r]
      BY <1>1 DEF IInv, TypeOK
    <2>5. pc'[w] = "flush"
      BY DEF Poll, Goto, IInv, TypeOK
    <2>6. WellFormed' = WellFormed
      BY <1>2 DEF WellFormed, Produced
    <2>7. \A r \in Recs : r[1] \in Partitions /\ r[2] \in Nat
      BY DEF Recs
    <2>8. \A p \in Partitions : pos'[w][p] <= end'[p] /\ pending'[w][p] <= end'[p]
      BY <1>2, <2>1, <2>2, <2>3 DEF Larger
    <2>9. ASSUME NEW r \in WellFormed,
                 (r[1] \in view'[w] /\ r[2] < pos'[w][r[1]]) \/ r[2] < pending'[w][r[1]]
          PROVE  Stored(r)' \/ batch'[w][r] > 0
      <3>1. r \in Recs /\ content[r] \notin Malformed
        BY DEF WellFormed, Produced
      <3>2. batch[w][r] \in Nat
        BY <3>1 DEF IInv, TypeOK
      <3>3. CASE r \in taken(n)
        BY <2>4, <3>1, <3>2, <3>3
      <3>4. CASE r \notin taken(n)
        <4>1. (r[1] \in view[w] /\ r[2] < pos[w][r[1]]) \/ r[2] < pending[w][r[1]]
          <5>1. CASE n[r[1]] = 0
            BY <1>2, <2>2, <2>3, <2>7, <2>9, <3>1, <5>1
          <5>2. CASE n[r[1]] > 0
            <6>1. r[1] \in view[w]
              BY <2>1, <2>7, <3>1, <5>2
            <6>2. r[2] < pos[w][r[1]] + n[r[1]] \/ r[2] < pending[w][r[1]]
              BY <2>1, <2>2, <2>3, <2>7, <2>9, <3>1, <5>2 DEF Larger
            <6>3. r[2] < pos[w][r[1]] + n[r[1]] => r[2] < pos[w][r[1]]
              BY <2>1, <2>2, <2>7, <3>1, <3>4
            <6> QED
              BY <6>1, <6>2, <6>3
          <5> QED
            BY <2>1, <2>7, <3>1, <5>1, <5>2
        <4>2. Stored(r) \/ batch[w][r] > 0
          BY <4>1 DEF IInv, Local
        <4> QED
          BY <1>3, <2>4, <3>1, <3>4, <4>2
      <3> QED
        BY <3>3, <3>4
    <2>10. ASSUME NEW r \in Recs, batch'[w][r] > 0 PROVE r \in WellFormed
      <3>1. CASE r \in taken(n) /\ content[r] \notin Malformed
        <4>1. r[2] < end[r[1]]
          BY <2>1, <2>2, <2>7, <3>1
        <4> QED
          BY <3>1, <4>1 DEF WellFormed, Produced
      <3>2. CASE ~(r \in taken(n) /\ content[r] \notin Malformed)
        BY <2>4, <2>10, <3>2 DEF IInv, Local
      <3> QED
        BY <3>1, <3>2
    <2> QED
      BY <2>5, <2>6, <2>8, <2>9, <2>10 DEF Local
  <1> QED
    BY <1>4, <1>5, <1>6 DEF IInv

\* The steps that touch neither the log, the memory of offsets and batches, nor
\* the commit: they write at most rows of the batch.
LEMMA QuietStep ==
  ASSUME IInv, TypeOK', NEW w \in Workers,
         UNCHANGED <<broker, committed, view, pos, pending, batch>>,
         \A r \in Recs : /\ Stored(r) => Stored(r)'
                         /\ Stored(r)' => Stored(r) \/ batch[w][r] > 0,
         \A v \in Workers : pc'[v] \in {"commit", "close_commit"} =>
             pc[v] \in {"commit", "close_commit"} /\ turn'[v] = turn[v]
  PROVE  IInv'
  <1>1. Global'
    BY GlobalFrame DEF IInv
  <1>2. ASSUME NEW v \in Workers PROVE Local(v)'
    BY LocalFrame DEF IInv
  <1> QED
    BY <1>1, <1>2 DEF IInv

\* A flush that lands in full is what entitles the worker to commit.
LEMMA FlushedStep ==
  ASSUME IInv, TypeOK', NEW w \in Workers, NEW label, AllLand(w, Topic(w)),
         UNCHANGED <<broker, committed, view, pos, pending, batch, turn>>, Goto(w, label)
  PROVE  IInv'
  <1>1. \A r \in Recs : /\ Stored(r) => Stored(r)'
                        /\ r \in Batch(w, Topic(w)) => Stored(r)'
                        /\ Stored(r)' => Stored(r) \/ batch[w][r] > 0
    BY AllLandStores DEF IInv
  <1>2. Global'
    BY <1>1, GlobalFrame DEF IInv
  <1>3. ASSUME NEW v \in Workers, v # w PROVE Local(v)'
    <2>1. pc'[v] = pc[v]
      BY <1>3 DEF Goto, IInv, TypeOK
    <2> QED
      BY <1>1, <2>1, LocalFrame DEF IInv
  <1>4. Local(w)'
    <2>1. /\ Topic(w)' = Topic(w)
          /\ \A t : Batch(w, t)' = Batch(w, t) /\ Batch(w, t) \subseteq Recs
      BY DEF Topic, Batch, RecsOf
    <2>2. WellFormed' = WellFormed /\ WellFormed \subseteq Recs
      BY DEF WellFormed, Produced, broker
    <2>3. \A r \in Batch(w, Topic(w))' : Stored(r)'
      BY <1>1, <2>1
    <2> QED
      BY <1>1, <2>2, <2>3 DEF IInv, Local, broker
  <1> QED
    BY <1>2, <1>3, <1>4 DEF IInv

\* The process ends, having at most committed what it was entitled to.
LEMMA ExitStep ==
  ASSUME IInv, TypeOK', Global', NEW w \in Workers, Exit(w), UNCHANGED broker,
         \A r \in Recs : Stored(r) => Stored(r)'
  PROVE  IInv'
  <1>1. Local(w)'
    BY ExitLocal DEF IInv
  <1>2. ASSUME NEW v \in Workers, v # w PROVE Local(v)'
    BY <1>2, ExitOthers, LocalFrame DEF IInv
  <1> QED
    BY <1>1, <1>2 DEF IInv

LEMMA AdvanceMoves ==
  ASSUME TypeOK, NEW w \in Workers, Advance(w)
  PROVE  /\ pc'[w] \in {"flush", "resume"}
         /\ \A v \in Workers : v # w => pc'[v] = pc[v] /\ turn'[v] = turn[v]
  BY DEF Advance, Goto, TypeOK

LEMMA CommitOkStep ==
  ASSUME IInv, TypeOK', NEW w \in Workers, CommitOk(w)
  PROVE  IInv'
  <1> DEFINE t == Topic(w)
  <1>1. UNCHANGED <<broker, rows, view, pos>> /\ pc[w] = "commit"
    BY DEF CommitOk, consumer
  <1>2. Global'
    BY <1>1, ApplyCommitGlobal DEF CommitOk
  <1>3. \A r \in Recs : Stored(r)' = Stored(r)
    BY <1>1 DEF Stored
  <1>4. pc'[w] \notin {"commit", "close_commit"}
    BY AdvanceMoves DEF CommitOk, IInv
  <1>5. ASSUME NEW v \in Workers, v # w PROVE Local(v)'
    <2>1. pc'[v] = pc[v] /\ turn'[v] = turn[v]
      BY <1>5, AdvanceMoves DEF CommitOk, IInv
    <2>2. batch'[v] = batch[v] /\ pending'[v] = pending[v]
      BY <1>5 DEF CommitOk, IInv, TypeOK
    <2> QED
      BY <1>1, <1>3, <2>1, <2>2, LocalFrame DEF IInv
  <1>6. Local(w)'
    <2>1. /\ \A r \in Recs : batch'[w][r] = IF r \in RecsOf(t) THEN 0 ELSE batch[w][r]
          /\ \A p \in Partitions :
                 pending'[w][p] = IF p \in PartitionsOf(t) THEN 0 ELSE pending[w][p]
      BY DEF CommitOk, IInv, TypeOK
    <2>2. WellFormed' = WellFormed
      BY <1>1 DEF WellFormed, Produced, broker
    <2>3. \A r \in WellFormed : r \in Recs /\ r[1] \in Partitions /\ r[2] \in Nat
      BY DEF WellFormed, Produced, Recs
    <2>4. \A p \in Partitions : end[p] \in Nat /\ end'[p] = end[p]
      BY <1>1 DEF IInv, TypeOK, broker
    <2>5. \A p \in Partitions : pos'[w][p] <= end'[p] /\ pending'[w][p] <= end'[p]
      BY <1>1, <2>1, <2>4 DEF IInv, Local
    <2>6. \A r \in WellFormed :
             (r[1] \in view'[w] /\ r[2] < pos'[w][r[1]]) \/ r[2] < pending'[w][r[1]]
                 => Stored(r)' \/ batch'[w][r] > 0
      <3> SUFFICES ASSUME NEW r \in WellFormed,
                          (r[1] \in view'[w] /\ r[2] < pos'[w][r[1]]) \/ r[2] < pending'[w][r[1]]
                   PROVE  Stored(r)' \/ batch'[w][r] > 0
        OBVIOUS
      <3>1. (r[1] \in view[w] /\ r[2] < pos[w][r[1]]) \/ r[2] < pending[w][r[1]]
        BY <1>1, <2>1, <2>3
      <3>2. Stored(r) \/ batch[w][r] > 0
        BY <3>1 DEF IInv, Local
      <3>3. batch[w][r] > 0 /\ r \in RecsOf(t) => Stored(r)
        BY <1>1 DEF IInv, Local, Batch
      <3> QED
        BY <1>3, <2>1, <2>3, <3>2, <3>3
    <2>7. \A r \in Recs : batch'[w][r] > 0 => r \in WellFormed'
      BY <2>1, <2>2 DEF IInv, Local
    <2> QED
      BY <1>4, <2>2, <2>5, <2>6, <2>7 DEF Local
  <1> QED
    BY <1>2, <1>5, <1>6 DEF IInv

LEMMA NextCloseStep ==
  ASSUME IInv, TypeOK', Global', NEW w \in Workers, NextClose(w), UNCHANGED broker,
         \A r \in Recs : Stored(r) => Stored(r)'
  PROVE  IInv'
  <1>1. CASE Exit(w)
    BY <1>1, ExitStep
  <1>2. CASE ~Exit(w)
    <2>1. Goto(w, "close_flush") /\ UNCHANGED <<view, pos, pending, batch>>
      BY <1>2 DEF NextClose, consumer, memory
    <2>2. \A v \in Workers : v # w => turn'[v] = turn[v]
      BY <1>2 DEF NextClose, IInv, TypeOK
    <2>3. pc'[w] = "close_flush" /\ \A v \in Workers : v # w => pc'[v] = pc[v]
      BY <2>1 DEF Goto, IInv, TypeOK
    <2>4. ASSUME NEW v \in Workers PROVE Local(v)'
      BY <2>1, <2>2, <2>3, LocalFrame DEF IInv
    <2> QED
      BY <2>4 DEF IInv
  <1> QED
    BY <1>1, <1>2

LEMMA FlushFailStep ==
  ASSUME IInv, TypeOK', NEW w \in Workers, FlushFail(w)
  PROVE  IInv'
  <1>1. \A r \in Recs : /\ Stored(r) => Stored(r)'
                        /\ Stored(r)' => Stored(r) \/ batch[w][r] > 0
    BY SomeFailStores DEF FlushFail, IInv
  <1>2. /\ pc'[w] \in {"close_flush", "backoff"}
        /\ \A v \in Workers : v # w => pc'[v] = pc[v] /\ turn'[v] = turn[v]
    BY DEF FlushFail, Goto, IInv, TypeOK
  <1>3. UNCHANGED <<broker, committed, view, pos, pending, batch>>
    BY DEF FlushFail
  <1> QED
    BY <1>1, <1>2, <1>3, QuietStep

LEMMA CloseStep ==
  ASSUME IInv, TypeOK', NEW w \in Workers, CloseFlush(w) \/ CloseCommit(w)
  PROVE  IInv'
  <1>1. UNCHANGED broker
    BY DEF CloseFlush, CloseCommit
  <1>2. CASE CloseFlush(w)
    <2>1. UNCHANGED committed
      BY <1>2 DEF CloseFlush
    <2>2. CASE NextClose(w) /\ (UNCHANGED rows \/ SomeFail(w, Topic(w)))
      <3>1. \A r \in Recs : /\ Stored(r) => Stored(r)'
                            /\ Stored(r)' => Stored(r) \/ batch[w][r] > 0
        BY <2>2, SomeFailStores DEF IInv, Stored
      <3>2. Global'
        BY <1>1, <2>1, <3>1, GlobalFrame DEF IInv
      <3> QED
        BY <1>1, <2>2, <3>1, <3>2, NextCloseStep
    <2>3. CASE /\ AllLand(w, Topic(w)) /\ Goto(w, "close_commit")
               /\ UNCHANGED <<turn, member, consumer, memory>>
      <3>1. UNCHANGED <<view, pos, pending, batch, turn>>
        BY <2>3 DEF consumer, memory
      <3> QED
        BY <1>1, <2>1, <2>3, <3>1, FlushedStep
    <2> QED
      BY <1>2, <2>2, <2>3 DEF CloseFlush
  <1>3. CASE CloseCommit(w)
    <2>1. UNCHANGED rows /\ pc[w] = "close_commit"
      BY <1>3 DEF CloseCommit
    <2>2. ApplyCommit(w, Topic(w)) \/ UNCHANGED committed
      BY <1>3 DEF CloseCommit
    <2>3. Global'
      BY <1>1, <2>1, <2>2, ApplyCommitGlobal
    <2>4. \A r \in Recs : Stored(r) => Stored(r)'
      BY <2>1 DEF Stored
    <2>5. NextClose(w) \/ Exit(w)
      BY <1>3 DEF CloseCommit
    <2> QED
      BY <1>1, <2>3, <2>4, <2>5, NextCloseStep, ExitStep
  <1> QED
    BY <1>2, <1>3

LEMMA CommitRaisesStep ==
  ASSUME IInv, TypeOK', NEW w \in Workers, CommitRaises(w)
  PROVE  IInv'
  <1>1. UNCHANGED <<broker, rows, view, pos, pending, batch>> /\ pc[w] = "commit"
    BY DEF CommitRaises, consumer, memory
  <1>2. Global'
    BY <1>1, ApplyCommitGlobal DEF CommitRaises
  <1>3. \A r \in Recs : Stored(r) => Stored(r)'
    BY <1>1 DEF Stored
  <1>4. /\ pc'[w] = "close_flush"
        /\ \A v \in Workers : v # w => pc'[v] = pc[v] /\ turn'[v] = turn[v]
    BY DEF CommitRaises, Goto, IInv, TypeOK
  <1>5. ASSUME NEW v \in Workers PROVE Local(v)'
    BY <1>1, <1>3, <1>4, LocalFrame DEF IInv
  <1> QED
    BY <1>2, <1>5 DEF IInv

LEMMA IInvStep == IInv /\ [Next]_vars => IInv'
  <1> SUFFICES ASSUME IInv, [Next]_vars PROVE IInv'
    OBVIOUS
  <1>1. TypeOK'
    BY TypeStep DEF IInv
  <1> DEFINE keeps == UNCHANGED <<broker, committed, view, pos, pending, batch>>
             quiet(w) == /\ UNCHANGED rows
                         /\ \A v \in Workers : pc'[v] \in {"commit", "close_commit"} =>
                              pc[v] \in {"commit", "close_commit"} /\ turn'[v] = turn[v]
  <1>2. ASSUME NEW w \in Workers, keeps, quiet(w) PROVE IInv'
    BY <1>1, <1>2, QuietStep DEF Stored
  <1>3. ASSUME NEW p \in Partitions, NEW m \in Messages, Produce(p, m) PROVE IInv'
    BY <1>1, <1>3, ProduceStep
  <1>4. ASSUME NEW w \in Workers, NEW t \in Topics, Linger(w, t) PROVE IInv'
    BY <1>2, <1>4 DEF Linger, consumer
  <1>5. CASE Rebalance
    <2>1. PICK w \in Workers : TRUE
      BY <1>5 DEF Rebalance, Alive
    <2> QED
      BY <1>2, <1>5, <2>1 DEF Rebalance, consumer, memory
  <1>6. ASSUME NEW w \in Workers, Step(w) PROVE IInv'
    <2>1. CASE Start(w)
      BY <1>2, <2>1 DEF Start, Goto, consumer, memory, IInv, TypeOK
    <2>2. CASE Poll(w)
      BY <1>1, <2>2, PollStep
    <2>3. CASE Skip(w)
      BY <1>2, <2>3, AdvanceMoves DEF Skip, consumer, memory, IInv
    <2>4. CASE FlushOk(w)
      BY <1>1, <2>4, FlushedStep DEF FlushOk, consumer, memory
    <2>5. CASE FlushFail(w)
      BY <1>1, <2>5, FlushFailStep
    <2>6. CASE BackoffDone(w)
      BY <1>2, <2>6, AdvanceMoves DEF BackoffDone, consumer, IInv
    <2>7. CASE CommitOk(w)
      BY <1>1, <2>7, CommitOkStep
    <2>8. CASE CommitRaises(w)
      BY <1>1, <2>8, CommitRaisesStep
    <2>9. CASE Resume(w)
      BY <1>2, <2>9 DEF Resume, Goto, memory, IInv, TypeOK
    <2>10. CASE CloseFlush(w) \/ CloseCommit(w)
      BY <1>1, <2>10, CloseStep
    <2> QED
      BY <1>6, <2>1, <2>2, <2>3, <2>4, <2>5, <2>6, <2>7, <2>8, <2>9, <2>10 DEF Step
  <1>7. ASSUME NEW w \in Workers, Rejoin(w) PROVE IInv'
    BY <1>1, <1>7, RejoinStep
  <1>8. ASSUME NEW w \in Workers, Crash(w) PROVE IInv'
    <2>1. UNCHANGED <<broker, committed, rows>>
      BY <1>8 DEF Crash
    <2>2. Global'
      BY <2>1, GlobalFrame, <1>8 DEF IInv, Stored
    <2> QED
      BY <1>1, <1>8, <2>1, <2>2, ExitStep DEF Crash, Stored
  <1>9. ASSUME NEW w \in Workers, Cancel(w) PROVE IInv'
    BY <1>2, <1>9 DEF Cancel, Goto, consumer, memory, IInv, TypeOK
  <1>10. CASE UNCHANGED vars
    <2>1. UNCHANGED <<broker, committed, rows, view, pos, pending, batch, pc, turn>>
      BY <1>10 DEF vars, consumer, memory
    <2>2. \A r \in Recs : Stored(r)' = Stored(r)
      BY <2>1 DEF Stored
    <2>3. Global'
      BY <2>1, <2>2 DEF IInv, Global, WellFormed, Produced, broker
    <2>4. \A w \in Workers : Local(w)'
      BY <2>1, <2>2, LocalFrame DEF IInv
    <2> QED
      BY <1>1, <2>3, <2>4 DEF IInv
  <1> QED
    BY <1>3, <1>4, <1>5, <1>6, <1>7, <1>8, <1>9, <1>10 DEF Next

THEOREM Inductive == Spec => []IInv
  BY IInvInit, IInvStep, PTL DEF Spec

\* At-least-once delivery: for any number of workers, partitions and records,
\* and through any crashes, rejected or half-landed writes, lost commit replies
\* and rebalances, a committed offset has every well-formed record below it in
\* ClickHouse.
THEOREM NoRecordIsLost == Spec => []NoLoss
  BY Inductive, IInvImplies, PTL

\* Every record a live consumer has moved past, or is about to commit, is in
\* ClickHouse or still in that worker's batch: no interleaving of polls, failed
\* flushes, rebalances and restarts drops one in between.
THEOREM NothingReadIsDropped == Spec => []ReadIsKept
  BY Inductive, IInvImplies, PTL

-----------------------------------------------------------------------------
(* Refinement: every step appends to the log, adds stored records or moves *)
(* acknowledged offsets over stored ones.                                  *)

LEMMA StepShape ==
  ASSUME TypeOK, [Next]_vars
  PROVE  \/ \E p \in Partitions, m \in Messages : Produce(p, m)
         \/ /\ UNCHANGED broker
            /\ UNCHANGED committed \/ UNCHANGED rows
            /\ \A r \in Recs : Stored(r) => Stored(r)'
  <1> SUFFICES ASSUME ~ \E p \in Partitions, m \in Messages : Produce(p, m)
               PROVE  /\ UNCHANGED broker
                      /\ UNCHANGED committed \/ UNCHANGED rows
                      /\ \A r \in Recs : Stored(r) => Stored(r)'
    OBVIOUS
  <1>1. UNCHANGED rows => \A r \in Recs : Stored(r) => Stored(r)'
    BY DEF Stored
  <1>2. ASSUME NEW w \in Workers, NEW t \in Topics, Linger(w, t) PROVE UNCHANGED <<broker, rows>>
    BY <1>2 DEF Linger
  <1>3. CASE Rebalance \/ UNCHANGED vars
    BY <1>1, <1>3 DEF Rebalance, vars
  <1>4. ASSUME NEW w \in Workers, Rejoin(w) \/ Crash(w) \/ Cancel(w)
        PROVE  UNCHANGED <<broker, rows>>
    BY <1>4 DEF Rejoin, Crash, Cancel
  <1>5. ASSUME NEW w \in Workers, Step(w)
        PROVE  /\ UNCHANGED broker
               /\ UNCHANGED committed \/ UNCHANGED rows
               /\ \A r \in Recs : Stored(r) => Stored(r)'
    <2>1. CASE Start(w) \/ Poll(w) \/ Skip(w) \/ BackoffDone(w) \/ CommitOk(w)
               \/ CommitRaises(w) \/ Resume(w) \/ CloseCommit(w)
      BY <1>1, <2>1 DEF Start, Poll, Skip, BackoffDone, CommitOk, CommitRaises, Resume,
                        CloseCommit
    <2>2. CASE FlushOk(w)
      BY <2>2, AllLandStores DEF FlushOk
    <2>3. CASE FlushFail(w)
      BY <2>3, SomeFailStores DEF FlushFail
    <2>4. CASE CloseFlush(w)
      BY <1>1, <2>4, AllLandStores, SomeFailStores DEF CloseFlush
    <2> QED
      BY <1>5, <2>1, <2>2, <2>3, <2>4 DEF Step
  <1> QED
    BY <1>1, <1>2, <1>3, <1>4, <1>5 DEF Next

LEMMA RefinementInit == Init => Log!AInit
  BY DEF Init, Log!AInit, Stored, Recs, Log!Recs

LEMMA RefinementStep == IInv /\ IInv' /\ [Next]_vars => [Log!ANext]_(Log!avars)
  <1> SUFFICES ASSUME IInv, IInv', [Next]_vars PROVE Log!ANext
    OBVIOUS
  <1> USE DEF broker
  <1>1. /\ Log!Recs = Recs /\ Log!WellFormed = WellFormed
        /\ \A r \in WellFormed' : r \in Recs
        /\ \A r \in WellFormed : r[1] \in Partitions
    BY DEF Recs, Log!Recs, WellFormed, Log!WellFormed, Produced, Log!Produced
  <1>2. CASE \E p \in Partitions, m \in Messages : Produce(p, m)
    BY <1>2 DEF Produce, Log!ANext, Log!AProduce, Stored
  <1>3. CASE UNCHANGED broker /\ \A r \in Recs : Stored(r) => Stored(r)'
    <2>1. UNCHANGED committed => Log!AStore
      BY <1>1, <1>3 DEF Log!AStore, IInv, Global, WellFormed, Produced
    <2>2. UNCHANGED rows => Log!AAcknowledge
      <3> SUFFICES ASSUME UNCHANGED rows PROVE Log!AAcknowledge
        OBVIOUS
      <3>1. \A r \in Recs : Stored(r)' = Stored(r)
        BY DEF Stored
      <3>2. WellFormed' = WellFormed
        BY <1>3 DEF WellFormed, Produced
      <3>3. \A p \in Partitions : Log!StoredBelow(p, committed'[p])
        BY <1>1, <3>1, <3>2 DEF Log!StoredBelow, IInv, Global
      <3>4. committed' \in [Partitions -> 0 .. MaxLog]
        BY DEF IInv, TypeOK
      <3> QED
        BY <1>3, <3>1, <3>3, <3>4 DEF Log!AAcknowledge
    <2> QED
      BY <2>1, <2>2, <1>3, StepShape, <1>2 DEF IInv, Log!ANext
  <1> QED
    BY <1>2, <1>3, StepShape DEF IInv

\* The worker implements the at-least-once log: whatever its batching, retries
\* and restarts do, seen from the broker and ClickHouse it only ever stores
\* records and acknowledges offsets below which everything is stored.
THEOREM ImplementsAtLeastOnce == Spec => AtLeastOnce
  BY Inductive, RefinementInit, RefinementStep, PTL DEF Spec, AtLeastOnce, Log!ASpec

-----------------------------------------------------------------------------
(***************************************************************************)
(* No duplicates.  As long as no fault leaves a write or a commit in doubt *)
(* a partition has one reader at a time, which has each record once: its   *)
(* batch holds what it fetched since the committed offset.  A stored       *)
(* record is committed, or about to be by the one worker that has it; what *)
(* is still to be flushed is not stored.                                   *)
(***************************************************************************)
Sound(r) == Healthy(TopicOf[r[1]])

\* A record that w holds has landed: its topic is being committed, or was drained
\* before the topic that is being drained now.
Committing(w, r) == pc[w] \in {"commit", "close_commit"} /\ TopicOf[r[1]] = Topic(w)
Drained(w, r) ==
    pc[w] \in {"close_flush", "close_commit"} /\ turn[w] = 2 /\ TopicOf[r[1]] = "logs_topic"

OneReader(w) ==
    /\ pc[w] = "down" => view[w] = {}
    /\ view[w] # {} => member[w] /\ \A p \in Partitions : p \in view[w] <=> owner[p] = w
    /\ \A p \in Partitions : p \in view[w] => committed[p] <= pos[w][p]
    /\ \A p \in Partitions : pending[w][p] > 0 =>
         p \in view[w] /\ committed[p] <= pending[w][p] /\ pending[w][p] <= pos[w][p]

HeldOnce(w) ==
    \A r \in Recs : batch[w][r] > 0 =>
        /\ batch[w][r] = 1 /\ r[2] < pending[w][r[1]]
        /\ Stored(r) /\ Sound(r) => Committing(w, r) \/ Drained(w, r)

StoredOnce ==
    \A r \in Recs : Sound(r) =>
        /\ rows[r] <= 1
        /\ Stored(r) => \/ r[2] < committed[r[1]]
                        \/ \E w \in Workers : batch[w][r] > 0 /\ Committing(w, r)

Once == StoredOnce /\ \A w \in Workers : OneReader(w) /\ HeldOnce(w)
Unpoisoned == \A r \in Recs : r[2] >= end[r[1]] => content[r] \notin Poison

OInv == TypeOK /\ Unpoisoned /\ (faults.clean => Once)

LEMMA RecsArePairs == \A r \in Recs : r[1] \in Partitions /\ r[2] \in Nat
  BY DEF Recs

LEMMA OnceInit == Init => OInv
  <1> SUFFICES ASSUME Init PROVE OInv
    OBVIOUS
  <1>1. Unpoisoned
    BY DEF Init, Unpoisoned
  <1>2. StoredOnce
    BY DEF Init, StoredOnce, Stored
  <1>3. \A w \in Workers : OneReader(w) /\ HeldOnce(w)
    BY RecsArePairs DEF Init, OneReader, HeldOnce
  <1> QED BY TypeInit, <1>1, <1>2, <1>3 DEF OInv, Once

\* Doubt, once there, stays.
LEMMA CleanBefore == ASSUME TypeOK, [Next]_vars, faults'.clean PROVE faults.clean
  <1>1. ASSUME NEW k, Spend(k) PROVE faults.clean /\ k \in CleanFaults
    BY <1>1 DEF Spend
  <1>2. CASE UNCHANGED faults
    BY <1>2
  <1>3. CASE Rebalance
    BY <1>1, <1>3 DEF Rebalance, TypeOK, FaultTallies
  <1>4. CASE \E w \in Workers : SomeFail(w, Topic(w))
    BY <1>1, <1>2, <1>4 DEF SomeFail
  <1> QED
    BY <1>1, <1>2, <1>3, <1>4
    DEF Next, Step, Produce, Linger, Rejoin, Crash, Cancel, Start, Poll, Skip, FlushOk, FlushFail,
        BackoffDone, CommitOk, CommitRaises, Resume, CloseFlush, CloseCommit, AllLand, vars

LEMMA DoubtfulFaults ==
  ASSUME TypeOK, NEW k \in Faults \ CleanFaults, Spend(k) PROVE ~faults'.clean
  BY DEF Spend, TypeOK, FaultTallies, CleanFaults

\* A topic that is healthy after a step was healthy before it.
LEMMA SoundBefore ==
  ASSUME OInv, [Next]_vars
  PROVE  Unpoisoned' /\ \A r \in Recs : Sound(r)' => Sound(r)
  <1>1. CASE UNCHANGED broker
    BY <1>1 DEF OInv, Unpoisoned, Sound, Healthy, RecsOf, broker
  <1>2. ASSUME NEW p \in Partitions, NEW m \in Messages, Produce(p, m)
        PROVE  Unpoisoned' /\ \A r \in Recs : Sound(r)' => Sound(r)
    <2>1. end[p] \in 0 .. MaxLog - 1 /\ <<p, end[p]>> \in Recs
      BY <1>2 DEF OInv, TypeOK, Produce, Recs
    <2>2. /\ \A r \in Recs : r # <<p, end[p]>> => content'[r] = content[r]
          /\ \A x \in Partitions : end'[x] = IF x = p THEN end[p] + 1 ELSE end[x]
          /\ \A x \in Partitions : end[x] \in Nat
      BY <1>2, <2>1 DEF Produce, OInv, TypeOK
    <2>3. content[<<p, end[p]>>] \notin Poison
      BY <2>1 DEF OInv, Unpoisoned
    <2>4. \A r \in Recs : r = <<r[1], r[2]>> /\ r[1] \in Partitions /\ r[2] \in Nat
      BY DEF Recs
    <2>5. Unpoisoned'
      <3> SUFFICES ASSUME NEW r \in Recs, r[2] >= end'[r[1]] PROVE content'[r] \notin Poison
        BY DEF Unpoisoned
      <3>1. r # <<p, end[p]>> /\ r[2] >= end[r[1]]
        BY <2>2, <2>4
      <3> QED BY <2>2, <3>1 DEF OInv, Unpoisoned
    <2>6. \A r \in Recs : content'[r] \notin Poison => content[r] \notin Poison
      BY <2>2, <2>3
    <2> QED BY <2>5, <2>6 DEF Sound, Healthy, RecsOf
  <1>3. CASE ~ \E p \in Partitions, m \in Messages : Produce(p, m)
    BY <1>1, <1>3
    DEF Next, Step, Linger, Rebalance, Rejoin, Crash, Cancel, Start, Poll, Skip, FlushOk,
        FlushFail, BackoffDone, CommitOk, CommitRaises, Resume, CloseFlush, CloseCommit, vars
  <1> QED BY <1>2, <1>3

\* What a worker holds it has fetched from a partition of its own.
LEMMA HeldIsOwn ==
  ASSUME TypeOK, NEW w \in Workers, OneReader(w), HeldOnce(w), NEW r \in Recs, batch[w][r] > 0
  PROVE  r[1] \in view[w] /\ pending[w][r[1]] > 0 /\ r[2] < pending[w][r[1]]
  <1>1. r[2] < pending[w][r[1]] /\ r[1] \in Partitions /\ r[2] \in Nat
    BY RecsArePairs DEF HeldOnce
  <1>2. pending[w][r[1]] \in Nat
    BY <1>1 DEF TypeOK
  <1> QED BY <1>1, <1>2 DEF OneReader

LEMMA OwnIsNobodyElses ==
  ASSUME Once, NEW v \in Workers, NEW w \in Workers, v # w, NEW p \in Partitions, p \in view[v]
  PROVE  p \notin view[w]
  BY DEF Once, OneReader

\* A worker that a step of another one leaves alone.
LEMMA BystanderKeeps ==
  ASSUME NEW v \in Workers, OneReader(v), HeldOnce(v), UNCHANGED owner,
         member'[v] = member[v], view'[v] = view[v], pos'[v] = pos[v],
         pending'[v] = pending[v], batch'[v] = batch[v], pc'[v] = pc[v], turn'[v] = turn[v],
         \A p \in Partitions : p \in view[v] => committed'[p] = committed[p],
         \A p \in Partitions : pending[v][p] > 0 => committed'[p] = committed[p],
         \A r \in Recs : Sound(r)' => Sound(r),
         \A r \in Recs : batch[v][r] > 0 /\ Sound(r) /\ Stored(r)' => Stored(r)
  PROVE  OneReader(v)' /\ HeldOnce(v)'
  <1>1. \A r \in Recs : /\ Committing(v, r)' = Committing(v, r)
                        /\ Drained(v, r)' = Drained(v, r)
    BY DEF Committing, Drained, Topic
  <1>2. OneReader(v)'
    BY DEF OneReader
  <1>3. HeldOnce(v)'
    BY <1>1 DEF HeldOnce
  <1> QED BY <1>2, <1>3

\* Steps that change neither what workers hold nor the rows of sound records, by a
\* worker that has nothing stored in its batch.
LEMMA OnceQuiet ==
  ASSUME TypeOK, Once, NEW w \in Workers,
         UNCHANGED <<committed, owner, member, view, pos, pending, batch>>,
         \A r \in Recs : Sound(r)' => Sound(r) /\ rows'[r] = rows[r],
         \A v \in Workers : v # w => pc'[v] = pc[v] /\ turn'[v] = turn[v],
         pc[w] \notin {"commit", "close_commit"},
         pc[w] = "close_flush" => turn[w] = 1,
         pc'[w] = "down" => pc[w] = "down"
  PROVE  Once'
  <1>1. \A r \in Recs : Sound(r)' => (Stored(r)' <=> Stored(r))
    BY DEF Stored
  <1>2. \A r \in Recs : ~Committing(w, r) /\ ~Drained(w, r)
    BY DEF Committing, Drained
  <1>3. ASSUME NEW v \in Workers, v # w PROVE OneReader(v)' /\ HeldOnce(v)'
    <2>1. \A r \in Recs : Committing(v, r)' = Committing(v, r) /\ Drained(v, r)' = Drained(v, r)
      BY <1>3 DEF Committing, Drained, Topic
    <2>2. OneReader(v) /\ HeldOnce(v)
      BY DEF Once
    <2>3. OneReader(v)'
      BY <1>3, <2>2 DEF OneReader
    <2>4. HeldOnce(v)'
      BY <1>1, <2>1, <2>2 DEF HeldOnce
    <2> QED BY <2>3, <2>4
  <1>4. OneReader(w)' /\ HeldOnce(w)'
    <2>1. OneReader(w) /\ HeldOnce(w)
      BY DEF Once
    <2>2. OneReader(w)'
      BY <2>1 DEF OneReader
    <2>3. HeldOnce(w)'
      BY <1>1, <1>2, <2>1 DEF HeldOnce
    <2> QED BY <2>2, <2>3
  <1>5. StoredOnce'
    <2> SUFFICES ASSUME NEW r \in Recs, Sound(r)'
                 PROVE  /\ rows'[r] <= 1
                        /\ Stored(r)' => \/ r[2] < committed[r[1]]
                                         \/ \E v \in Workers : batch'[v][r] > 0 /\ Committing(v, r)'
      BY DEF StoredOnce
    <2>1. /\ rows[r] <= 1 /\ rows'[r] = rows[r]
          /\ Stored(r) => \/ r[2] < committed[r[1]]
                          \/ \E v \in Workers : batch[v][r] > 0 /\ Committing(v, r)
      BY DEF Once, StoredOnce
    <2>2. \A v \in Workers : Committing(v, r) => Committing(v, r)'
      BY <1>2 DEF Committing, Topic
    <2> QED BY <1>1, <2>1, <2>2
  <1> QED BY <1>3, <1>4, <1>5 DEF Once

\* Nothing that is still to be flushed is stored.
LEMMA FlushedIsNew ==
  ASSUME TypeOK, NEW w \in Workers, HeldOnce(w), pc[w] \in {"flush", "close_flush"},
         NEW r \in Batch(w, Topic(w)), Sound(r)
  PROVE  r \in Recs /\ batch[w][r] = 1 /\ rows[r] = 0
  <1>1. r \in Recs /\ batch[w][r] > 0 /\ TopicOf[r[1]] = Topic(w)
    BY DEF Batch, RecsOf
  <1>2. ~Committing(w, r)
    BY DEF Committing
  <1>3. turn[w] = 2 => Topic(w) = "traces_topic"
    BY DEF Topic, TopicOrder
  <1>4. ~Drained(w, r)
    BY <1>1, <1>3 DEF Drained
  <1>5. ~Stored(r) /\ batch[w][r] = 1
    BY <1>1, <1>2, <1>4 DEF HeldOnce
  <1>6. rows[r] \in 0 .. 2
    BY <1>1 DEF TypeOK
  <1> QED BY <1>1, <1>5, <1>6 DEF Stored

\* A topic's whole batch lands; its commit comes next.
LEMMA OnceLanded ==
  ASSUME TypeOK, Once, NEW w \in Workers, AllLand(w, Topic(w)),
         UNCHANGED <<broker, committed, owner, member, view, pos, pending, batch, turn>>,
         \/ pc[w] = "flush" /\ Goto(w, "commit")
         \/ pc[w] = "close_flush" /\ Goto(w, "close_commit"),
         \A r \in Recs : Sound(r)' => Sound(r)
  PROVE  Once'
  <1> DEFINE B == Batch(w, Topic(w))
  <1>1. /\ pc'[w] \in {"commit", "close_commit"} /\ (pc[w] = "close_flush" => pc'[w] = "close_commit")
        /\ \A v \in Workers : v # w => pc'[v] = pc[v]
    BY DEF Goto, TypeOK
  <1>2. \A r \in Recs : rows'[r] = IF r \in B THEN IF rows[r] + batch[w][r] > 1 THEN 2 ELSE 1
                                            ELSE rows[r]
    BY DEF AllLand, Land
  <1>3. \A r \in B : r \in Recs /\ batch[w][r] > 0 /\ TopicOf[r[1]] = Topic(w)
    BY DEF Batch, RecsOf
  <1>4. \A r \in B : Sound(r) => rows'[r] = 1
    BY <1>2, <1>3, FlushedIsNew DEF Once
  <1>5. \A r \in Recs : r \notin B => (Stored(r)' <=> Stored(r))
    BY <1>2 DEF Stored
  <1>6. \A r \in B : Committing(w, r)'
    BY <1>1, <1>3 DEF Committing, Topic
  <1>7. \A v \in Workers, r \in Recs : Committing(v, r) => v # w /\ Committing(v, r)'
    BY <1>1 DEF Committing, Topic
  <1>8. StoredOnce'
    <2> SUFFICES ASSUME NEW r \in Recs, Sound(r)
                 PROVE  /\ rows'[r] <= 1
                        /\ Stored(r)' => \/ r[2] < committed[r[1]]
                                         \/ \E v \in Workers : batch[v][r] > 0 /\ Committing(v, r)'
      BY DEF StoredOnce
    <2>1. CASE r \in B
      BY <1>3, <1>4, <1>6, <2>1
    <2>2. CASE r \notin B
      BY <1>2, <1>5, <1>7, <2>2 DEF Once, StoredOnce
    <2> QED BY <2>1, <2>2
  <1>9. ASSUME NEW v \in Workers, v # w PROVE OneReader(v)' /\ HeldOnce(v)'
    <2>1. \A r \in Recs : batch[v][r] > 0 => r \notin B
      <3> SUFFICES ASSUME NEW r \in Recs, batch[v][r] > 0, r \in B PROVE FALSE
        OBVIOUS
      <3>1. r[1] \in view[v] /\ r[1] \in view[w] /\ r[1] \in Partitions
        BY <1>3, HeldIsOwn, RecsArePairs DEF Once
      <3> QED BY <1>9, <3>1, OwnIsNobodyElses
    <2> QED BY <1>1, <1>5, <1>9, <2>1, BystanderKeeps DEF Once
  <1>10. HeldOnce(w)'
    <2> SUFFICES ASSUME NEW r \in Recs, batch[w][r] > 0
                 PROVE  /\ batch[w][r] = 1 /\ r[2] < pending[w][r[1]]
                        /\ Stored(r)' /\ Sound(r) => Committing(w, r)' \/ Drained(w, r)'
      BY DEF HeldOnce
    <2>1. /\ batch[w][r] = 1 /\ r[2] < pending[w][r[1]]
          /\ Stored(r) /\ Sound(r) => Committing(w, r) \/ Drained(w, r)
      BY DEF Once, HeldOnce
    <2>2. CASE r \in B
      BY <1>6, <2>1, <2>2
    <2>3. CASE r \notin B
      <3>1. ~Committing(w, r)
        BY <1>7
      <3>2. Drained(w, r) => Drained(w, r)'
        BY <1>1 DEF Drained
      <3> QED BY <1>5, <2>1, <2>3, <3>1, <3>2
    <2> QED BY <2>2, <2>3
  <1>11. OneReader(w)'
    BY <1>1 DEF Once, OneReader
  <1> QED BY <1>8, <1>9, <1>10, <1>11 DEF Once

\* A clean commit is never refused, covers what has landed and moves no one else's
\* partitions.
LEMMA CleanCommit ==
  ASSUME TypeOK, Once, NEW w \in Workers
  PROVE  /\ MayCommit(w, Topic(w))
         /\ ApplyCommit(w, Topic(w)) =>
              /\ \A p \in Partitions : committed'[p] = IF p \in Pending(w, Topic(w))
                                                      THEN pending[w][p] ELSE committed[p]
              /\ \A p \in Partitions : committed[p] <= committed'[p]
              /\ \A v \in Workers, p \in Partitions : v # w /\ p \in view[v] =>
                     committed'[p] = committed[p]
  <1>1. \A p \in Pending(w, Topic(w)) : p \in Partitions /\ pending[w][p] > 0
    BY DEF Pending, PartitionsOf
  <1>2. \A p \in Pending(w, Topic(w)) :
            member[w] /\ p \in view[w] /\ committed[p] <= pending[w][p]
    BY <1>1 DEF Once, OneReader
  <1>3. MayCommit(w, Topic(w))
    BY <1>2 DEF MayCommit
  <1>4. ASSUME ApplyCommit(w, Topic(w))
        PROVE  /\ \A p \in Partitions : committed'[p] = IF p \in Pending(w, Topic(w))
                                                       THEN pending[w][p] ELSE committed[p]
               /\ \A p \in Partitions : committed[p] <= committed'[p]
    <2>1. \A p \in Partitions : committed'[p] = IF p \in Pending(w, Topic(w))
                                               THEN pending[w][p] ELSE committed[p]
      BY <1>4 DEF ApplyCommit
    <2>2. \A p \in Partitions : committed[p] \in Nat
      BY DEF TypeOK
    <2> QED BY <1>2, <2>1, <2>2
  <1>5. ApplyCommit(w, Topic(w)) => \A v \in Workers, p \in Partitions :
            v # w /\ p \in view[v] => committed'[p] = committed[p]
    BY <1>2, <1>4, OwnIsNobodyElses
  <1> QED BY <1>3, <1>4, <1>5

LEMMA OnceCommitted ==
  ASSUME TypeOK, Once, NEW w \in Workers, pc[w] \in {"commit", "close_commit"},
         ApplyCommit(w, Topic(w)), UNCHANGED <<rows, owner>>,
         \A v \in Workers : v # w =>
             /\ member'[v] = member[v] /\ view'[v] = view[v] /\ pos'[v] = pos[v]
             /\ pending'[v] = pending[v] /\ batch'[v] = batch[v]
             /\ pc'[v] = pc[v] /\ turn'[v] = turn[v],
         \A r \in Recs : Sound(r)' => Sound(r),
         OneReader(w)', HeldOnce(w)'
  PROVE  Once'
  <1>1. /\ \A p \in Partitions : committed'[p] = IF p \in Pending(w, Topic(w))
                                                THEN pending[w][p] ELSE committed[p]
        /\ \A p \in Partitions : committed[p] <= committed'[p]
        /\ \A v \in Workers, p \in Partitions : v # w /\ p \in view[v] =>
               committed'[p] = committed[p]
    BY CleanCommit
  <1>2. \A r \in Recs : Stored(r)' = Stored(r)
    BY DEF Stored
  <1>3. ASSUME NEW v \in Workers, v # w PROVE OneReader(v)' /\ HeldOnce(v)'
    <2>1. \A p \in Partitions : pending[v][p] > 0 => p \in view[v]
      BY DEF Once, OneReader
    <2> QED BY <1>1, <1>2, <1>3, <2>1, BystanderKeeps DEF Once
  <1>4. StoredOnce'
    <2> SUFFICES ASSUME NEW r \in Recs, Sound(r), Stored(r)
                 PROVE  \/ r[2] < committed'[r[1]]
                        \/ \E v \in Workers : batch'[v][r] > 0 /\ Committing(v, r)'
      BY <1>2 DEF StoredOnce, Once
    <2>1. r[1] \in Partitions /\ r[2] \in Nat
      BY RecsArePairs
    <2>2. committed[r[1]] \in Nat /\ committed'[r[1]] \in Nat /\ pending[w][r[1]] \in Nat
      <3>1. committed[r[1]] \in Nat /\ pending[w][r[1]] \in Nat
        BY <2>1 DEF TypeOK
      <3> QED BY <1>1, <2>1, <3>1
    <2>3. CASE r[2] < committed[r[1]]
      BY <1>1, <2>1, <2>2, <2>3
    <2>4. ASSUME NEW v \in Workers, v # w, batch[v][r] > 0, Committing(v, r)
          PROVE  batch'[v][r] > 0 /\ Committing(v, r)'
      BY <2>4 DEF Committing, Topic
    <2>5. CASE batch[w][r] > 0 /\ Committing(w, r)
      <3>1. r[2] < pending[w][r[1]] /\ pending[w][r[1]] > 0
        BY <2>5, HeldIsOwn DEF Once
      <3>2. r[1] \in Pending(w, Topic(w))
        BY <2>1, <2>5, <3>1 DEF Pending, PartitionsOf, Committing
      <3> QED BY <1>1, <2>1, <3>1, <3>2
    <2> QED BY <2>3, <2>4, <2>5 DEF Once, StoredOnce
  <1> QED BY <1>3, <1>4 DEF Once

LEMMA OnceCommitOk ==
  ASSUME TypeOK, Once, NEW w \in Workers, CommitOk(w), \A r \in Recs : Sound(r)' => Sound(r)
  PROVE  Once'
  <1> DEFINE t == Topic(w)
  <1>1. /\ pc[w] = "commit" /\ ApplyCommit(w, t) /\ UNCHANGED <<rows, owner, member, view, pos>>
    BY DEF CommitOk, group, consumer
  <1>2. /\ pc'[w] \in {"flush", "resume"}
        /\ \A v \in Workers : v # w => pc'[v] = pc[v] /\ turn'[v] = turn[v]
    BY AdvanceMoves DEF CommitOk
  <1>3. /\ \A r \in Recs : batch'[w][r] = IF r \in RecsOf(t) THEN 0 ELSE batch[w][r]
        /\ \A p \in Partitions :
               pending'[w][p] = IF p \in PartitionsOf(t) THEN 0 ELSE pending[w][p]
        /\ \A v \in Workers : v # w => batch'[v] = batch[v] /\ pending'[v] = pending[v]
    BY DEF CommitOk, TypeOK
  <1>4. /\ \A p \in Partitions : committed'[p] = IF p \in Pending(w, t)
                                                THEN pending[w][p] ELSE committed[p]
    BY <1>1, CleanCommit
  <1>5. OneReader(w)'
    <2>1. OneReader(w)
      BY DEF Once
    <2>2. \A p \in Partitions : p \in Pending(w, t) <=> p \in PartitionsOf(t) /\ pending[w][p] > 0
      BY DEF Pending, PartitionsOf
    <2>3. \A p \in Partitions : p \in view[w] => committed'[p] <= pos[w][p]
      BY <1>4, <2>1, <2>2 DEF OneReader
    <2>4. ASSUME NEW p \in Partitions, pending'[w][p] > 0
          PROVE  p \in view[w] /\ committed'[p] <= pending'[w][p] /\ pending'[w][p] <= pos[w][p]
      <3>1. p \notin PartitionsOf(t) /\ pending'[w][p] = pending[w][p]
        BY <1>3, <2>4
      <3>2. p \notin Pending(w, t) /\ committed'[p] = committed[p]
        BY <1>4, <2>2, <3>1
      <3> QED BY <2>1, <2>4, <3>1, <3>2 DEF OneReader
    <2> QED BY <1>1, <1>2, <2>1, <2>3, <2>4 DEF OneReader
  <1>6. HeldOnce(w)'
    <2> SUFFICES ASSUME NEW r \in Recs, batch'[w][r] > 0
                 PROVE  /\ batch'[w][r] = 1 /\ r[2] < pending'[w][r[1]]
                        /\ ~(Stored(r)' /\ Sound(r))
      BY DEF HeldOnce
    <2>1. r \notin RecsOf(t) /\ batch[w][r] > 0 /\ batch'[w][r] = batch[w][r]
      BY <1>3
    <2>2. TopicOf[r[1]] # t /\ r[1] \in Partitions
      BY <2>1, RecsArePairs DEF RecsOf
    <2>3. r[1] \notin PartitionsOf(t)
      BY <2>2 DEF PartitionsOf
    <2>4. pending'[w][r[1]] = pending[w][r[1]]
      BY <1>3, <2>2, <2>3
    <2>5. ~Committing(w, r) /\ ~Drained(w, r)
      BY <1>1, <2>2 DEF Committing, Drained
    <2>6. batch[w][r] = 1 /\ r[2] < pending[w][r[1]] /\ ~(Stored(r) /\ Sound(r))
      BY <2>1, <2>5 DEF Once, HeldOnce
    <2>7. Stored(r)' = Stored(r)
      BY <1>1 DEF Stored
    <2> QED BY <2>1, <2>4, <2>6, <2>7
  <1> QED BY <1>1, <1>2, <1>3, <1>5, <1>6, OnceCommitted

\* A worker that ends holds nothing.
LEMMA ExitHoldsNothing ==
  ASSUME TypeOK, NEW w \in Workers, Exit(w)
  PROVE  /\ OneReader(w)' /\ HeldOnce(w)'
         /\ \A v \in Workers : v # w =>
              /\ member'[v] = member[v] /\ view'[v] = view[v] /\ pos'[v] = pos[v]
              /\ pending'[v] = pending[v] /\ batch'[v] = batch[v]
              /\ pc'[v] = pc[v] /\ turn'[v] = turn[v]
  <1>1. /\ view'[w] = {} /\ pending'[w] = [p \in Partitions |-> 0]
        /\ batch'[w] = [r \in Recs |-> 0]
    BY DEF Exit, TypeOK
  <1>2. OneReader(w)' /\ HeldOnce(w)'
    BY <1>1 DEF OneReader, HeldOnce
  <1> QED BY <1>2 DEF Exit, Goto, TypeOK

\* The drain in `finally`: after the first topic the second, then the end.
LEMMA NextCloseCases ==
  ASSUME TypeOK, NEW w \in Workers, NextClose(w)
  PROVE  \/ turn[w] = 2 /\ Exit(w)
         \/ /\ turn[w] = 1 /\ turn'[w] = 2 /\ pc'[w] = "close_flush"
            /\ \A v \in Workers : v # w => pc'[v] = pc[v] /\ turn'[v] = turn[v]
            /\ UNCHANGED <<member, view, pos, pending, batch>>
  <1>1. turn[w] \in 1 .. 2
    BY DEF TypeOK
  <1>2. CASE turn[w] = 2
    BY <1>2, TwoTopics DEF NextClose
  <1>3. CASE turn[w] = 1
    <2>1. /\ turn' = [turn EXCEPT ![w] = turn[w] + 1] /\ pc' = [pc EXCEPT ![w] = "close_flush"]
          /\ UNCHANGED <<member, view, pos, pending, batch>>
      BY <1>3, TwoTopics DEF NextClose, Goto, consumer, memory
    <2> QED BY <1>3, <2>1 DEF TypeOK
  <1> QED BY <1>1, <1>2, <1>3

LEMMA OnceCloseCommit ==
  ASSUME TypeOK, Once, NEW w \in Workers, CloseCommit(w), faults'.clean,
         \A r \in Recs : Sound(r)' => Sound(r)
  PROVE  Once'
  <1>1. ~Spend("commit_error")
    BY DoubtfulFaults DEF Faults, CleanFaults
  <1>2. /\ pc[w] = "close_commit" /\ ApplyCommit(w, Topic(w)) /\ NextClose(w)
        /\ UNCHANGED <<rows, owner>>
    BY <1>1, CleanCommit DEF CloseCommit
  <1>3. CASE Exit(w)
    BY <1>2, <1>3, ExitHoldsNothing, OnceCommitted
  <1>4. CASE ~Exit(w)
    <2>1. /\ turn[w] = 1 /\ turn'[w] = 2 /\ pc'[w] = "close_flush"
          /\ \A v \in Workers : v # w => pc'[v] = pc[v] /\ turn'[v] = turn[v]
          /\ UNCHANGED <<member, view, pos, pending, batch>>
      BY <1>2, <1>4, NextCloseCases
    <2>2. \A p \in Partitions : committed'[p] = IF p \in Pending(w, Topic(w))
                                               THEN pending[w][p] ELSE committed[p]
      BY <1>2, CleanCommit
    <2>3. OneReader(w)'
      <3>1. OneReader(w) /\ \A p \in Partitions : pending[w][p] \in Nat
        BY DEF Once, TypeOK
      <3>2. \A p \in Pending(w, Topic(w)) : p \in Partitions /\ pending[w][p] > 0
        BY DEF Pending, PartitionsOf
      <3> QED BY <1>2, <2>1, <2>2, <3>1, <3>2 DEF OneReader
    <2>4. HeldOnce(w)'
      <3>1. \A r \in Recs : Committing(w, r) => Drained(w, r)'
        BY <2>1 DEF Committing, Drained, Topic, TopicOrder
      <3>2. \A r \in Recs : ~Drained(w, r)
        BY <2>1 DEF Drained
      <3>3. \A r \in Recs : Stored(r)' = Stored(r)
        BY <1>2 DEF Stored
      <3> QED BY <2>1, <3>1, <3>2, <3>3 DEF Once, HeldOnce
    <2> QED BY <1>2, <2>1, <2>3, <2>4, OnceCommitted
  <1> QED BY <1>3, <1>4

\* A flush that fails cleanly stores nothing of a topic without poison.
LEMMA CleanFailure ==
  ASSUME TypeOK, NEW w \in Workers, NEW t \in Topics, SomeFail(w, t), faults'.clean
  PROVE  \A r \in Recs : Sound(r) => rows'[r] = rows[r]
  <1>1. ~Spend("partial")
    BY DoubtfulFaults DEF Faults, CleanFaults
  <1>2. CASE UNCHANGED rows
    BY <1>2
  <1>3. CASE Landable(w, t) # Batch(w, t) /\ Land(w, Landable(w, t))
    <2>1. ASSUME NEW r \in Landable(w, t) PROVE ~Sound(r)
      <3> SUFFICES ASSUME Sound(r) PROVE FALSE
        OBVIOUS
      <3>1. TopicOf[r[1]] = t /\ (t = "logs_topic" => client[w])
        BY DEF Landable, Batch, RecsOf
      <3>2. \A s \in Batch(w, t) : content[s] \notin Poison
        BY <3>1 DEF Sound, Healthy, Batch, RecsOf
      <3>3. Landable(w, t) = Batch(w, t)
        BY <3>1, <3>2 DEF Landable
      <3> QED BY <1>3, <3>3
    <2> QED BY <1>3, <2>1 DEF Land
  <1> QED BY <1>1, <1>2, <1>3 DEF SomeFail

LEMMA OnceCloseFlush ==
  ASSUME TypeOK, Once, NEW w \in Workers, CloseFlush(w), faults'.clean,
         \A r \in Recs : Sound(r)' => Sound(r)
  PROVE  Once'
  <1> DEFINE t == Topic(w)
  <1>1. pc[w] = "close_flush" /\ UNCHANGED <<broker, committed, owner>> /\ t \in Topics
    BY TopicType DEF CloseFlush
  <1>2. CASE AllLand(w, t) /\ Goto(w, "close_commit") /\ UNCHANGED <<turn, member, consumer, memory>>
    BY <1>1, <1>2, OnceLanded DEF consumer, memory
  <1>3. CASE NextClose(w) /\ (UNCHANGED rows \/ SomeFail(w, t))
    <2>1. \A r \in Recs : Sound(r) => rows'[r] = rows[r]
      BY <1>1, <1>3, CleanFailure
    <2>2. CASE turn[w] = 1
      <3>1. /\ pc'[w] = "close_flush"
            /\ \A v \in Workers : v # w => pc'[v] = pc[v] /\ turn'[v] = turn[v]
            /\ UNCHANGED <<member, view, pos, pending, batch>>
        BY <1>3, <2>2, NextCloseCases
      <3> QED BY <1>1, <2>1, <2>2, <3>1, OnceQuiet
    <2>3. CASE Exit(w)
      <3>1. /\ OneReader(w)' /\ HeldOnce(w)'
            /\ \A v \in Workers : v # w =>
                 /\ member'[v] = member[v] /\ view'[v] = view[v] /\ pos'[v] = pos[v]
                 /\ pending'[v] = pending[v] /\ batch'[v] = batch[v]
                 /\ pc'[v] = pc[v] /\ turn'[v] = turn[v]
        BY <2>3, ExitHoldsNothing
      <3>2. \A r \in Recs : Sound(r) => (Stored(r)' <=> Stored(r))
        BY <2>1 DEF Stored
      <3>3. ASSUME NEW v \in Workers, v # w PROVE OneReader(v)' /\ HeldOnce(v)'
        BY <1>1, <3>1, <3>2, <3>3, BystanderKeeps DEF Once
      <3>4. \A v \in Workers, r \in Recs :
                Committing(v, r) => v # w /\ batch'[v] = batch[v] /\ Committing(v, r)'
        BY <1>1, <3>1 DEF Committing, Topic
      <3>5. StoredOnce'
        BY <1>1, <2>1, <3>2, <3>4 DEF Once, StoredOnce
      <3> QED BY <3>1, <3>3, <3>5 DEF Once
    <2> QED BY <1>3, <2>2, <2>3, NextCloseCases
  <1> QED BY <1>2, <1>3 DEF CloseFlush

\* A new assignment: nobody else has these partitions, and they are read from the
\* committed offset.
LEMMA OnceRejoin ==
  ASSUME TypeOK, Once, NEW w \in Workers, Rejoin(w)
  PROVE  Once'
  <1>1. /\ pc[w] # "down" /\ ~member[w] /\ member'[w] = TRUE
        /\ view'[w] = {p \in Partitions : owner[p] = w}
        /\ \A p \in Partitions : p \in view'[w] => pos'[w][p] = committed[p]
        /\ \A v \in Workers : v # w =>
             member'[v] = member[v] /\ view'[v] = view[v] /\ pos'[v] = pos[v]
        /\ UNCHANGED <<broker, committed, owner, pending, batch, pc, turn, rows>>
    BY DEF Rejoin, AwaitPoints, TypeOK, memory
  <1>2. \A r \in Recs : Stored(r)' = Stored(r) /\ Sound(r)' = Sound(r)
    BY <1>1 DEF Stored, Sound, Healthy, RecsOf, broker
  <1>3. \A v \in Workers, r \in Recs :
            Committing(v, r)' = Committing(v, r) /\ Drained(v, r)' = Drained(v, r)
    BY <1>1 DEF Committing, Drained, Topic
  <1>4. \A p \in Partitions : ~(pending[w][p] > 0)
    BY <1>1 DEF Once, OneReader
  <1>5. \A v \in Workers : HeldOnce(v)'
    BY <1>1, <1>2, <1>3 DEF Once, HeldOnce
  <1>6. OneReader(w)'
    <2>1. \A p \in Partitions : committed[p] \in Nat
      BY DEF TypeOK
    <2> QED BY <1>1, <1>4, <2>1 DEF OneReader
  <1>7. \A v \in Workers : v # w => OneReader(v)'
    BY <1>1 DEF Once, OneReader
  <1>8. StoredOnce'
    BY <1>1, <1>2, <1>3 DEF Once, StoredOnce
  <1> QED BY <1>5, <1>6, <1>7, <1>8 DEF Once

\* Partitions change hands in the clear only when nobody alive has any.
LEMMA OnceRebalance ==
  ASSUME TypeOK, Once, Rebalance, faults'.clean
  PROVE  Once'
  <1>1. ~Spend("rebalance")
    BY DoubtfulFaults DEF Faults, CleanFaults
  <1>2. /\ \A w \in Alive : view[w] = {}
        /\ UNCHANGED <<broker, committed, view, pos, pending, batch, pc, turn, rows>>
    BY <1>1 DEF Rebalance, TypeOK, FaultTallies, consumer, memory
  <1>3. \A w \in Workers : view[w] = {}
    BY <1>2 DEF Alive, Once, OneReader
  <1>4. \A r \in Recs : Stored(r)' = Stored(r) /\ Sound(r)' = Sound(r)
    BY <1>2 DEF Stored, Sound, Healthy, RecsOf, broker
  <1>5. \A v \in Workers, r \in Recs :
            Committing(v, r)' = Committing(v, r) /\ Drained(v, r)' = Drained(v, r)
    BY <1>2 DEF Committing, Drained, Topic
  <1>6. \A w \in Workers : OneReader(w)'
    BY <1>2, <1>3 DEF Once, OneReader
  <1>7. \A w \in Workers : HeldOnce(w)'
    BY <1>2, <1>4, <1>5 DEF Once, HeldOnce
  <1>8. StoredOnce'
    BY <1>2, <1>4, <1>5 DEF Once, StoredOnce
  <1> QED BY <1>6, <1>7, <1>8 DEF Once

LEMMA Offsets ==
  ASSUME TypeOK, NEW w \in Workers, NEW p \in Partitions
  PROVE  committed[p] \in Nat /\ pos[w][p] \in Nat /\ pending[w][p] \in Nat
  <1>1. committed[p] \in 0 .. MaxLog /\ pos[w][p] \in 0 .. MaxLog /\ pending[w][p] \in 0 .. MaxLog
    BY DEF TypeOK
  <1> QED BY <1>1, ConstantsAssumption

\* What is fetched is new: at or above the position nothing is held or stored.
LEMMA FetchedIsNew ==
  ASSUME TypeOK, Once, NEW w \in Workers, NEW r \in Recs, r[1] \in view[w],
         pos[w][r[1]] <= r[2]
  PROVE  batch[w][r] = 0 /\ ~(Stored(r) /\ Sound(r))
  <1>1. r[1] \in Partitions /\ r[2] \in Nat
    BY RecsArePairs
  <1>2. /\ committed[r[1]] \in Nat /\ pos[w][r[1]] \in Nat /\ pending[w][r[1]] \in Nat
        /\ batch[w][r] \in Nat
    BY <1>1 DEF TypeOK
  <1>3. /\ committed[r[1]] <= pos[w][r[1]]
        /\ pending[w][r[1]] > 0 => pending[w][r[1]] <= pos[w][r[1]]
    BY <1>1 DEF Once, OneReader
  <1>4. ~(batch[w][r] > 0)
    BY <1>1, <1>2, <1>3, HeldIsOwn DEF Once
  <1>5. \A v \in Workers : v # w => ~(batch[v][r] > 0)
    BY <1>1, HeldIsOwn, OwnIsNobodyElses DEF Once
  <1>6. ~(r[2] < committed[r[1]])
    BY <1>1, <1>2, <1>3
  <1>7. ASSUME Stored(r), Sound(r) PROVE FALSE
    BY <1>4, <1>5, <1>6, <1>7 DEF Once, StoredOnce
  <1> QED BY <1>2, <1>4, <1>7

LEMMA OncePoll ==
  ASSUME TypeOK, Once, NEW w \in Workers, Poll(w)
  PROVE  Once'
  <1>1. PICK n \in Fetches(w) :
          LET taken == {r \in Recs : /\ pos[w][r[1]] <= r[2]
                                     /\ r[2] < pos[w][r[1]] + n[r[1]]}
          IN  /\ pos' = [pos EXCEPT ![w] = [p \in Partitions |-> pos[w][p] + n[p]]]
              /\ batch' = [batch EXCEPT ![w] = [r \in Recs |->
                     IF r \in taken /\ content[r] \notin Malformed
                     THEN batch[w][r] + 1 ELSE batch[w][r]]]
              /\ pending' = [pending EXCEPT ![w] = [p \in Partitions |->
                     IF n[p] > 0 THEN Larger(pending[w][p], pos[w][p] + n[p])
                     ELSE pending[w][p]]]
    BY DEF Poll
  <1>2. /\ pc[w] = "poll" /\ pc'[w] = "flush"
        /\ \A v \in Workers : v # w => pc'[v] = pc[v] /\ turn'[v] = turn[v]
        /\ UNCHANGED <<broker, committed, owner, member, view, rows>>
    BY DEF Poll, Goto, TypeOK, group
  <1>3. \A v \in Workers : v # w =>
             pos'[v] = pos[v] /\ batch'[v] = batch[v] /\ pending'[v] = pending[v]
    BY <1>1 DEF TypeOK
  <1>fetch. ASSUME NEW p \in Partitions
         PROVE  /\ n[p] \in Nat /\ (n[p] > 0 => p \in view[w])
                /\ pos'[w][p] = pos[w][p] + n[p]
                /\ pending'[w][p] = IF n[p] > 0 THEN Larger(pending[w][p], pos[w][p] + n[p])
                                               ELSE pending[w][p]
    <2>1. n \in [Partitions -> 0 .. PollMax] /\ (n[p] > 0 => p \in view[w])
      BY DEF Fetches
    <2>2. n[p] \in 0 .. PollMax
      BY <2>1
    <2>3. n[p] \in Nat
      BY <2>2, ConstantsAssumption
    <2>4. pos'[w][p] = pos[w][p] + n[p]
      BY <1>1 DEF TypeOK
    <2>5. pending'[w][p] = IF n[p] > 0 THEN Larger(pending[w][p], pos[w][p] + n[p])
                                       ELSE pending[w][p]
      BY <1>1 DEF TypeOK
    <2> QED BY <2>1, <2>3, <2>4, <2>5
  <1>4. \A r \in Recs :
          batch'[w][r] = IF /\ pos[w][r[1]] <= r[2] /\ r[2] < pos[w][r[1]] + n[r[1]]
                            /\ content[r] \notin Malformed
                         THEN batch[w][r] + 1 ELSE batch[w][r]
    BY <1>1 DEF TypeOK
  <1>5. \A r \in Recs : Stored(r)' = Stored(r) /\ Sound(r)' = Sound(r)
    BY <1>2 DEF Stored, Sound, Healthy, RecsOf, broker
  <1>6. \A v \in Workers, r \in Recs :
            Committing(v, r) => v # w /\ batch'[v] = batch[v] /\ Committing(v, r)'
    BY <1>2, <1>3 DEF Committing, Topic
  <1>7. StoredOnce'
    BY <1>2, <1>5, <1>6 DEF Once, StoredOnce
  <1>8. ASSUME NEW v \in Workers, v # w PROVE OneReader(v)' /\ HeldOnce(v)'
    BY <1>2, <1>3, <1>5, <1>8, BystanderKeeps DEF Once
  <1>9. ASSUME NEW p \in Partitions
        PROVE  /\ pos[w][p] <= pos'[w][p]
               /\ n[p] > 0 => pending'[w][p] = pos'[w][p] /\ p \in view[w]
               /\ ~(n[p] > 0) => pending'[w][p] = pending[w][p]
    <2>0. pos[w][p] \in Nat /\ pending[w][p] \in Nat
      BY Offsets
    <2>1. pos[w][p] \in Nat /\ pending[w][p] \in Nat /\ n[p] \in Nat
      BY <1>fetch, <2>0
    <2>2. pending[w][p] > 0 => pending[w][p] <= pos[w][p]
      BY DEF Once, OneReader
    <2>3. pos'[w][p] = pos[w][p] + n[p]
      BY <1>fetch
    <2>4. n[p] > 0 => Larger(pending[w][p], pos[w][p] + n[p]) = pos[w][p] + n[p]
      BY <2>1, <2>2 DEF Larger
    <2> QED BY <1>fetch, <2>1, <2>3, <2>4
  <1>10. OneReader(w)'
    <2>1. OneReader(w)
      BY DEF Once
    <2>2. \A p \in Partitions : pos[w][p] \in Nat /\ pos'[w][p] \in Nat /\ committed[p] \in Nat
      <3>1. \A p \in Partitions : pos[w][p] \in Nat /\ committed[p] \in Nat
        BY Offsets
      <3> QED BY <1>fetch, <3>1
    <2>3. \A p \in Partitions : p \in view[w] => committed[p] <= pos'[w][p]
      BY <1>9, <2>1, <2>2 DEF OneReader
    <2>4. ASSUME NEW p \in Partitions, pending'[w][p] > 0
          PROVE  /\ p \in view[w] /\ committed[p] <= pending'[w][p]
                 /\ pending'[w][p] <= pos'[w][p]
      <3>1. CASE n[p] > 0
        BY <1>9, <2>2, <2>3, <3>1
      <3>2. CASE ~(n[p] > 0)
        <4>1. pending'[w][p] = pending[w][p]
          BY <1>9, <3>2
        <4>2. /\ p \in view[w] /\ committed[p] <= pending[w][p]
              /\ pending[w][p] <= pos[w][p]
          BY <2>1, <2>4, <4>1 DEF OneReader
        <4>3. pos[w][p] <= pos'[w][p] /\ pending[w][p] \in Nat
          BY <1>9, Offsets
        <4> QED BY <2>2, <4>1, <4>2, <4>3
      <3> QED BY <3>1, <3>2
    <2> QED BY <1>2, <2>1, <2>3, <2>4 DEF OneReader
  <1>11. HeldOnce(w)'
    <2> SUFFICES ASSUME NEW r \in Recs, batch'[w][r] > 0
                 PROVE  /\ batch'[w][r] = 1 /\ r[2] < pending'[w][r[1]]
                        /\ ~(Stored(r) /\ Sound(r))
      BY <1>5 DEF HeldOnce
    <2>1. /\ r[1] \in Partitions /\ r[2] \in Nat /\ n[r[1]] \in Nat
          /\ pos[w][r[1]] \in Nat /\ pending[w][r[1]] \in Nat
      BY <1>fetch, RecsArePairs, Offsets
    <2>2. CASE pos[w][r[1]] <= r[2] /\ r[2] < pos[w][r[1]] + n[r[1]]
      <3>1. n[r[1]] > 0
        BY <2>1, <2>2
      <3>2. batch[w][r] = 0 /\ ~(Stored(r) /\ Sound(r))
        BY <1>9, <2>1, <2>2, <3>1, FetchedIsNew
      <3>3. batch'[w][r] = 1
        BY <1>4, <3>2
      <3>4. pending'[w][r[1]] = pos[w][r[1]] + n[r[1]]
        BY <1>fetch, <1>9, <2>1, <3>1
      <3> QED BY <2>2, <3>2, <3>3, <3>4
    <2>3. CASE ~(pos[w][r[1]] <= r[2] /\ r[2] < pos[w][r[1]] + n[r[1]])
      <3>1. batch'[w][r] = batch[w][r]
        BY <1>4, <2>3
      <3>2. ~Committing(w, r) /\ ~Drained(w, r)
        BY <1>2 DEF Committing, Drained
      <3>3. batch[w][r] = 1 /\ r[2] < pending[w][r[1]] /\ ~(Stored(r) /\ Sound(r))
        BY <3>1, <3>2 DEF Once, HeldOnce
      <3>4. r[2] < pending'[w][r[1]]
        <4>1. CASE n[r[1]] > 0
          <5>1. pending[w][r[1]] > 0 => pending[w][r[1]] <= pos[w][r[1]]
            BY <2>1 DEF Once, OneReader
          <5>2. pending'[w][r[1]] = pos[w][r[1]] + n[r[1]]
            BY <1>fetch, <1>9, <2>1, <4>1
          <5> QED BY <2>1, <3>3, <5>1, <5>2
        <4>2. CASE ~(n[r[1]] > 0)
          BY <1>9, <2>1, <3>3, <4>2
        <4> QED BY <4>1, <4>2
      <3> QED BY <3>1, <3>3, <3>4
    <2> QED BY <2>2, <2>3
  <1> QED BY <1>7, <1>8, <1>10, <1>11 DEF Once

LEMMA OnceStep == OInv /\ [Next]_vars => OInv'
  <1> SUFFICES ASSUME OInv, [Next]_vars PROVE OInv'
    OBVIOUS
  <1>1. TypeOK /\ TypeOK' /\ Unpoisoned' /\ \A r \in Recs : Sound(r)' => Sound(r)
    BY TypeStep, SoundBefore DEF OInv
  <1>2. SUFFICES ASSUME faults'.clean PROVE Once'
    BY <1>1 DEF OInv
  <1>3. Once
    BY <1>1, <1>2, CleanBefore DEF OInv
  <1>4. CASE UNCHANGED <<content, committed, owner, member, view, pos, pending, batch, pc, turn, rows>>
    <2>1. /\ \A r \in Recs : Stored(r)' = Stored(r) /\ Sound(r)' = Sound(r)
          /\ \A v \in Workers, r \in Recs :
               Committing(v, r)' = Committing(v, r) /\ Drained(v, r)' = Drained(v, r)
      BY <1>4 DEF Stored, Sound, Healthy, RecsOf, Committing, Drained, Topic
    <2>2. StoredOnce'
      BY <1>3, <1>4, <2>1 DEF Once, StoredOnce
    <2>3. \A v \in Workers : OneReader(v)' /\ HeldOnce(v)'
      BY <1>3, <1>4, <2>1 DEF Once, OneReader, HeldOnce
    <2> QED BY <2>2, <2>3 DEF Once
  <1>5. ASSUME NEW p \in Partitions, NEW m \in Messages, Produce(p, m)
        PROVE  Once'
    <2>1. UNCHANGED <<committed, owner, member, view, pos, pending, batch, pc, turn, rows>>
      BY <1>5 DEF Produce, group, consumer, memory
    <2>2. /\ \A r \in Recs : Stored(r)' = Stored(r)
          /\ \A v \in Workers, r \in Recs :
               Committing(v, r)' = Committing(v, r) /\ Drained(v, r)' = Drained(v, r)
      BY <2>1 DEF Stored, Committing, Drained, Topic
    <2>3. StoredOnce'
      BY <1>1, <1>3, <2>1, <2>2 DEF Once, StoredOnce
    <2>4. \A v \in Workers : OneReader(v)'
      BY <1>3, <2>1 DEF Once, OneReader
    <2>5. \A v \in Workers : HeldOnce(v)'
      BY <1>1, <1>3, <2>1, <2>2 DEF Once, HeldOnce
    <2> QED BY <2>3, <2>4, <2>5 DEF Once
  <1>6. ASSUME NEW w \in Workers, Step(w)
        PROVE  Once'
    <2>1. CASE Start(w)
      <3>1. /\ pc[w] = "down" /\ pc'[w] = "poll"
            /\ \A v \in Workers : v # w => pc'[v] = pc[v] /\ turn'[v] = turn[v]
            /\ UNCHANGED <<committed, owner, member, view, pos, pending, batch, rows>>
        BY <1>1, <2>1 DEF Start, Goto, TypeOK, group, consumer, memory
      <3> QED BY <1>1, <1>3, <3>1, OnceQuiet
    <2>2. CASE Poll(w)
      BY <1>1, <1>3, <2>2, OncePoll
    <2>3. CASE Skip(w)
      <3>1. /\ pc[w] = "flush" /\ pc'[w] \in {"flush", "resume"}
            /\ \A v \in Workers : v # w => pc'[v] = pc[v] /\ turn'[v] = turn[v]
            /\ UNCHANGED <<committed, owner, member, view, pos, pending, batch, rows>>
        BY <1>1, <2>3, AdvanceMoves DEF Skip, group, consumer, memory
      <3> QED BY <1>1, <1>3, <3>1, OnceQuiet
    <2>4. CASE FlushOk(w)
      <3>1. /\ pc[w] = "flush" /\ AllLand(w, Topic(w)) /\ Goto(w, "commit")
            /\ UNCHANGED <<broker, committed, owner, member, view, pos, pending, batch, turn>>
        BY <2>4 DEF FlushOk, group, consumer, memory
      <3> QED BY <1>1, <1>3, <3>1, OnceLanded
    <2>5. CASE FlushFail(w)
      <3>1. /\ pc[w] = "flush" /\ pc'[w] \in {"close_flush", "backoff"}
            /\ \A v \in Workers : v # w => pc'[v] = pc[v] /\ turn'[v] = turn[v]
            /\ UNCHANGED <<committed, owner, member, view, pos, pending, batch>>
            /\ SomeFail(w, Topic(w))
        BY <1>1, <2>5 DEF FlushFail, Goto, TypeOK, group
      <3>2. \A r \in Recs : Sound(r) => rows'[r] = rows[r]
        BY <1>1, <1>2, <3>1, CleanFailure, TopicType
      <3> QED BY <1>1, <1>3, <3>1, <3>2, OnceQuiet
    <2>6. CASE BackoffDone(w)
      <3>1. /\ pc[w] = "backoff" /\ pc'[w] \in {"flush", "resume"}
            /\ \A v \in Workers : v # w => pc'[v] = pc[v] /\ turn'[v] = turn[v]
            /\ UNCHANGED <<committed, owner, member, view, pos, pending, batch, rows>>
        BY <1>1, <2>6, AdvanceMoves DEF BackoffDone, group, consumer
      <3> QED BY <1>1, <1>3, <3>1, OnceQuiet
    <2>7. CASE CommitOk(w)
      BY <1>1, <1>3, <2>7, OnceCommitOk
    <2>8. CASE CommitRaises(w)
      <3>1. ~Spend("commit_error") /\ ~Spend("cancel_commit")
        BY <1>1, <1>2, DoubtfulFaults DEF Faults, CleanFaults
      <3> QED BY <1>1, <1>3, <2>8, <3>1, CleanCommit DEF CommitRaises
    <2>9. CASE Resume(w)
      <3>1. /\ pc[w] = "resume" /\ pc'[w] = "poll"
            /\ \A v \in Workers : v # w => pc'[v] = pc[v] /\ turn'[v] = turn[v]
            /\ UNCHANGED <<committed, owner, member, view, pos, pending, batch, rows>>
        BY <1>1, <2>9 DEF Resume, Goto, TypeOK, group, memory
      <3> QED BY <1>1, <1>3, <3>1, OnceQuiet
    <2>10. CASE CloseFlush(w)
      BY <1>1, <1>2, <1>3, <2>10, OnceCloseFlush
    <2>11. CASE CloseCommit(w)
      BY <1>1, <1>2, <1>3, <2>11, OnceCloseCommit
    <2> QED
      BY <1>6, <2>1, <2>2, <2>3, <2>4, <2>5, <2>6, <2>7, <2>8, <2>9, <2>10, <2>11 DEF Step
  <1>7. ASSUME NEW w \in Workers, Cancel(w)
        PROVE  Once'
    <2>1. /\ pc[w] \in {"poll", "backoff"} /\ pc'[w] = "close_flush" /\ turn'[w] = 1
          /\ \A v \in Workers : v # w => pc'[v] = pc[v] /\ turn'[v] = turn[v]
          /\ UNCHANGED <<committed, owner, member, view, pos, pending, batch, rows>>
      BY <1>1, <1>7 DEF Cancel, Goto, TypeOK, group, consumer, memory
    <2> QED BY <1>1, <1>3, <2>1, OnceQuiet
  <1>8. ASSUME NEW w \in Workers, Crash(w)
        PROVE  FALSE
    BY <1>1, <1>2, <1>8, DoubtfulFaults DEF Crash, Faults, CleanFaults
  <1>9. ASSUME NEW w \in Workers, NEW t \in Topics, Linger(w, t)
        PROVE  Once'
    BY <1>4, <1>9 DEF Linger, broker, group, consumer
  <1>10. CASE UNCHANGED vars
    BY <1>4, <1>10 DEF vars, broker, group, consumer, memory
  <1> QED
    BY <1>1, <1>2, <1>3, <1>5, <1>6, <1>7, <1>8, <1>9, <1>10, OnceRejoin, OnceRebalance DEF Next

\* No record gets a second row while no fault leaves a write or a commit in doubt
\* and its topic holds nothing that cannot be written: whatever number of workers
\* share the partitions, retry wholly rejected batches, drain on SIGINT and
\* start again.
THEOREM NoRecordTwice == Spec => []NoDuplicates
  <1>1. OInv => NoDuplicates
    BY DEF OInv, Once, StoredOnce, NoDuplicates, Sound
  <1> QED BY <1>1, OnceInit, OnceStep, PTL DEF Spec
-----------------------------------------------------------------------------
\* Back-pressure.  A topic whose batch is above the ceiling when the worker polls again
\* has every partition that contributed to it paused.
Index(t) == IF t = "logs_topic" THEN 1 ELSE 2
Settled(w, t) ==
    \/ pc[w] \in {"down", "poll", "resume"}
    \/ pc[w] \in {"flush", "commit"} /\ Index(t) < turn[w]
    \/ pc[w] = "backoff" /\ Index(t) <= turn[w]
Backlog(w) ==
    /\ ~member[w] => view[w] = {}
    /\ view[w] = {} => \A r \in Recs : batch[w][r] = 0
    /\ \A t \in Topics :
         /\ Size(w, t) <= MaxBatch + PollMax * Cardinality(Pending(w, t))
         /\ Settled(w, t) /\ Size(w, t) > MaxBatch => Pending(w, t) \subseteq paused[w]
BInv == TypeOK /\ \A w \in Workers : Backlog(w)

LEMMA TopicIndex ==
  ASSUME TypeOK, NEW w \in Workers
  PROVE  /\ turn[w] \in {1, 2} /\ Topic(w) \in Topics /\ Index(Topic(w)) = turn[w]
         /\ \A t \in Topics : Index(t) \in {1, 2} /\ (Index(t) = turn[w] => t = Topic(w))
  BY DEF TypeOK, Topic, TopicOrder, Topics, Index

\* What is counted is finite.
LEMMA TopicIsFinite ==
  ASSUME IsFiniteSet(Partitions), NEW t PROVE IsFiniteSet(RecsOf(t)) /\ IsFiniteSet(PartitionsOf(t))
  <1> DEFINE O == 0 .. MaxLog - 1
             Z == Partitions \X O
  <1>1. IsFiniteSet(O)
    <2>1. 0 \in Int /\ MaxLog - 1 \in Int
      BY ConstantsAssumption
    <2> QED BY <2>1, FS_Interval
  <1>2. RecsOf(t) \subseteq Z
    BY DEF RecsOf, Recs
  <1> HIDE DEF O
  <1>3. IsFiniteSet(Z)
    BY <1>1, FS_Product
  <1> HIDE DEF Z
  <1>4. IsFiniteSet(RecsOf(t))
    BY <1>2, <1>3, FS_Subset
  <1>5. PartitionsOf(t) \subseteq Partitions
    BY DEF PartitionsOf
  <1> QED BY <1>4, <1>5, FS_Subset

LEMMA SizeFacts ==
  ASSUME IsFiniteSet(Partitions), TypeOK, NEW w \in Workers, NEW t \in Topics
  PROVE  /\ \A r \in RecsOf(t) : batch[w][r] \in Nat
         /\ Size(w, t) \in Nat /\ IsFiniteSet(Pending(w, t))
         /\ Cardinality(Pending(w, t)) \in Nat /\ Cardinality(PartitionsOf(t)) \in Nat
         /\ Cardinality(Pending(w, t)) <= Cardinality(PartitionsOf(t))
         /\ (\A r \in RecsOf(t) : batch[w][r] = 0) => Size(w, t) = 0
  <1>1. IsFiniteSet(RecsOf(t)) /\ IsFiniteSet(PartitionsOf(t))
    BY TopicIsFinite
  <1>2. \A r \in RecsOf(t) : batch[w][r] \in Nat
    BY DEF TypeOK, RecsOf
  <1>3. Size(w, t) \in Nat
    BY <1>1, <1>2, SumFacts DEF Size
  <1>4. Pending(w, t) \subseteq PartitionsOf(t)
    BY DEF Pending
  <1>5. IsFiniteSet(Pending(w, t)) /\ Cardinality(Pending(w, t)) <= Cardinality(PartitionsOf(t))
    BY <1>1, <1>4, FS_Subset
  <1>6. (\A r \in RecsOf(t) : batch[w][r] = 0) => Size(w, t) = 0
    BY <1>1, SumOfNothing DEF Size
  <1> QED BY <1>1, <1>2, <1>3, <1>5, <1>6, FS_CardinalityType

\* The same of the next state.
LEMMA SizeFactsNext ==
  ASSUME IsFiniteSet(Partitions), TypeOK', NEW w \in Workers, NEW t \in Topics
  PROVE  /\ Cardinality(Pending(w, t)') \in Nat
         /\ (\A r \in RecsOf(t)' : batch'[w][r] = 0) => Size(w, t)' = 0
  <1>1. /\ IsFiniteSet(RecsOf(t)) /\ IsFiniteSet(PartitionsOf(t))
    BY TopicIsFinite
  <1>2. IsFiniteSet(Pending(w, t)') /\ Cardinality(Pending(w, t)') \in Nat
    <2>1. Pending(w, t)' \subseteq PartitionsOf(t)
      BY DEF Pending, PartitionsOf
    <2> QED BY <1>1, <2>1, FS_Subset, FS_CardinalityType
  <1>3. RecsOf(t)' = RecsOf(t) /\ Size(w, t)' = SumFunctionOnSet(batch'[w], RecsOf(t))
    BY DEF RecsOf, Recs, Size
  <1>4. ASSUME \A r \in RecsOf(t) : batch'[w][r] = 0 PROVE SumFunctionOnSet(batch'[w], RecsOf(t)) = 0
    BY <1>1, <1>4, SumOfNothing
  <1> QED BY <1>2, <1>3, <1>4

\* What a worker's backlog is read off, but for where the worker stands.
Held(w) == <<member[w], view[w], batch[w], pending[w]>>

LEMMA BacklogFrame ==
  ASSUME NEW w \in Workers, Backlog(w), UNCHANGED Held(w), paused'[w] = paused[w],
         \A t \in Topics : Settled(w, t)' => Settled(w, t) \/ Size(w, t) <= MaxBatch,
         \A t \in Topics : Size(w, t) \in Nat
  PROVE  Backlog(w)'
  <1>1. member'[w] = member[w] /\ view'[w] = view[w] /\ batch'[w] = batch[w] /\ pending'[w] = pending[w]
    BY DEF Held
  <1>2. \A t \in Topics : Size(w, t)' = Size(w, t) /\ Pending(w, t)' = Pending(w, t)
    BY <1>1 DEF Size, Pending, RecsOf, PartitionsOf, Recs
  <1>3. ASSUME NEW t \in Topics
        PROVE  /\ Size(w, t)' <= MaxBatch + PollMax * Cardinality(Pending(w, t)')
               /\ Settled(w, t)' /\ Size(w, t)' > MaxBatch => Pending(w, t)' \subseteq paused'[w]
    <2>1. Size(w, t) <= MaxBatch + PollMax * Cardinality(Pending(w, t))
      BY DEF Backlog
    <2>2. ASSUME Settled(w, t)', Size(w, t) > MaxBatch PROVE Settled(w, t)
      BY <2>2, ConstantsAssumption
    <2>3. Settled(w, t) /\ Size(w, t) > MaxBatch => Pending(w, t) \subseteq paused[w]
      BY DEF Backlog
    <2> QED BY <1>2, <2>1, <2>2, <2>3
  <1>4. /\ ~member[w] => view[w] = {}
        /\ view[w] = {} => \A r \in Recs : batch[w][r] = 0
    BY DEF Backlog
  <1>5. Recs' = Recs
    BY DEF Recs
  <1> QED BY <1>1, <1>3, <1>4, <1>5 DEF Backlog

\* Nothing is read, nothing is held.
LEMMA BacklogEmpty ==
  ASSUME IsFiniteSet(Partitions), TypeOK', NEW w \in Workers,
         ~member'[w] => view'[w] = {}, \A r \in Recs : batch'[w][r] = 0
  PROVE  Backlog(w)'
  <1>1. ASSUME NEW t \in Topics PROVE Size(w, t)' = 0 /\ Cardinality(Pending(w, t)') \in Nat
    <2>1. \A r \in RecsOf(t)' : batch'[w][r] = 0
      BY DEF RecsOf, Recs
    <2>2. /\ Cardinality(Pending(w, t)') \in Nat
          /\ (\A r \in RecsOf(t)' : batch'[w][r] = 0) => Size(w, t)' = 0
      BY SizeFactsNext
    <2> QED BY <2>1, <2>2
  <1>2. ASSUME NEW t \in Topics
        PROVE  /\ Size(w, t)' <= MaxBatch + PollMax * Cardinality(Pending(w, t)')
               /\ ~(Size(w, t)' > MaxBatch)
    <2> DEFINE c == Cardinality(Pending(w, t)')
    <2>1. c \in Nat /\ Size(w, t)' = 0
      BY <1>1
    <2> HIDE DEF c
    <2>2. PollMax * c \in Nat
      BY <2>1, ConstantsAssumption
    <2>3. 0 <= MaxBatch + PollMax * c /\ ~(0 > MaxBatch)
      BY <2>2, ConstantsAssumption
    <2> QED BY <2>1, <2>3 DEF c
  <1>3. Recs' = Recs
    BY DEF Recs
  <1> QED BY <1>2, <1>3 DEF Backlog

\* A poll adds at most PollMax records of each partition that is not paused.
LEMMA BacklogPoll ==
  ASSUME IsFiniteSet(Partitions), TypeOK, TypeOK', NEW w \in Workers, Backlog(w), Poll(w)
  PROVE  Backlog(w)'
  <1> DEFINE taken(n) == {r \in Recs : /\ pos[w][r[1]] <= r[2]
                                       /\ r[2] < pos[w][r[1]] + n[r[1]]}
             Added(n) == {r \in Recs : r \in taken(n) /\ content[r] \notin Malformed}
             Read(n, t) == {p \in PartitionsOf(t) : n[p] > 0}
  <1>1. PICK n \in Fetches(w) :
          /\ batch' = [batch EXCEPT ![w] = [r \in Recs |->
                 IF r \in taken(n) /\ content[r] \notin Malformed
                 THEN batch[w][r] + 1 ELSE batch[w][r]]]
          /\ pending' = [pending EXCEPT ![w] = [p \in Partitions |->
                 IF n[p] > 0 THEN Larger(pending[w][p], pos[w][p] + n[p])
                 ELSE pending[w][p]]]
    BY DEF Poll
  <1>2. /\ UNCHANGED <<view, member, paused>> /\ pc[w] = "poll" /\ pc'[w] = "flush" /\ turn'[w] = 1
    BY DEF Poll, Goto, TypeOK, group
  <1>3. \A p \in Partitions : /\ n[p] \in Nat /\ n[p] <= PollMax /\ pos[w][p] \in Nat /\ pending[w][p] \in Nat
                              /\ n[p] > 0 => p \in view[w] /\ p \notin paused[w]
    <2>1. \A p \in Partitions : n[p] \in 0 .. PollMax /\ (n[p] > 0 => p \in view[w] \ paused[w])
      BY DEF Fetches
    <2>2. \A p \in Partitions : pos[w][p] \in 0 .. MaxLog /\ pending[w][p] \in 0 .. MaxLog
      BY DEF TypeOK
    <2> QED BY <2>1, <2>2, ConstantsAssumption
  <1>4. \A r \in Recs : batch'[w][r] = IF r \in Added(n) THEN batch[w][r] + 1 ELSE batch[w][r]
    BY <1>1 DEF TypeOK
  <1>5. \A p \in Partitions : (pending'[w][p] > 0) <=> (pending[w][p] > 0 \/ n[p] > 0)
    <2>1. \A p \in Partitions :
            pending'[w][p] = IF n[p] > 0 THEN Larger(pending[w][p], pos[w][p] + n[p]) ELSE pending[w][p]
      BY <1>1 DEF TypeOK
    <2> QED BY <1>3, <2>1 DEF Larger
  <1>6. ASSUME NEW t \in Topics
        PROVE  Size(w, t)' <= MaxBatch + PollMax * Cardinality(Pending(w, t)')
    <2> DEFINE S == RecsOf(t) \cap Added(n)
               K == Read(n, t)
               g == [r \in RecsOf(t) |-> IF r \in Added(n) THEN 1 ELSE 0]
    <2>1. IsFiniteSet(RecsOf(t)) /\ IsFiniteSet(PartitionsOf(t))
      BY TopicIsFinite
    <2>2. IsFiniteSet(K) /\ K \subseteq PartitionsOf(t)
      BY <2>1, FS_Subset
    <2>3. IsFiniteSet(S) /\ Cardinality(S) <= PollMax * Cardinality(K)
      <3> DEFINE from == pos[w]
      <3>1. \A k \in K : from[k] \in Nat /\ n[k] \in Nat /\ n[k] <= PollMax
        BY <1>3 DEF PartitionsOf
      <3>2. \A r \in S : /\ r = <<r[1], r[2]>> /\ r[1] \in K /\ r[2] \in Nat
                         /\ from[r[1]] <= r[2] /\ r[2] < from[r[1]] + n[r[1]]
        <4>1. TAKE r \in S
        <4>2. r \in Recs /\ TopicOf[r[1]] = t /\ from[r[1]] <= r[2] /\ r[2] < from[r[1]] + n[r[1]]
          BY DEF RecsOf
        <4>3. r[1] \in Partitions /\ r[2] \in Nat
          BY <4>2, RecsArePairs
        <4>4. r = <<r[1], r[2]>>
          BY <4>2 DEF Recs
        <4>5. n[r[1]] > 0
          BY <1>3, <4>2, <4>3
        <4> QED BY <4>2, <4>3, <4>4, <4>5 DEF PartitionsOf
      <3> HIDE DEF from, S, K
      <3> QED BY <2>2, <3>1, <3>2, PairsAtMost, ConstantsAssumption
    <2>4. Size(w, t)' = Size(w, t) + Cardinality(S)
      <3>1. \A r \in RecsOf(t) : g[r] = IF r \in Added(n) THEN 1 ELSE 0
        OBVIOUS
      <3>2. \A r \in RecsOf(t) : r \in Recs /\ batch[w][r] \in Nat
        BY SizeFacts DEF RecsOf
      <3>3. \A r \in RecsOf(t) : batch[w][r] \in Nat /\ g[r] \in Nat /\ batch'[w][r] = batch[w][r] + g[r]
        BY <1>4, <3>1, <3>2
      <3>4. Size(w, t)' = SumFunctionOnSet(batch'[w], RecsOf(t))
        BY DEF Size, RecsOf, Recs
      <3> HIDE DEF g
      <3>5. SumFunctionOnSet(g, RecsOf(t)) = Cardinality(S)
        <4> DEFINE C == Added(n)
        <4>1. \A r \in RecsOf(t) : g[r] = IF r \in C THEN 1 ELSE 0
          BY <3>1
        <4> HIDE DEF C
        <4>2. SumFunctionOnSet(g, RecsOf(t)) = Cardinality(RecsOf(t) \cap C)
          BY <2>1, <4>1, SumCounts
        <4> QED BY <4>2 DEF C
      <3> DEFINE f == batch[w]
                 h == batch'[w]
      <3>6. \A r \in RecsOf(t) : f[r] \in Nat /\ g[r] \in Nat /\ h[r] = f[r] + g[r]
        BY <3>3
      <3> HIDE DEF f, h
      <3>7. SumFunctionOnSet(h, RecsOf(t)) = SumFunctionOnSet(f, RecsOf(t)) + SumFunctionOnSet(g, RecsOf(t))
        BY <2>1, <3>6, SumOfSum
      <3> QED BY <3>4, <3>5, <3>7 DEF f, h, Size
    <2>5. Pending(w, t)' = Pending(w, t) \cup K
      BY <1>5 DEF Pending, PartitionsOf
    <2>6. /\ Size(w, t) \in Nat /\ IsFiniteSet(Pending(w, t)) /\ Cardinality(Pending(w, t)) \in Nat
      BY SizeFacts
    <2>7. IsFiniteSet(Pending(w, t) \cup K) /\ Cardinality(K) <= Cardinality(Pending(w, t) \cup K)
      <3>1. IsFiniteSet(Pending(w, t) \cup K)
        BY <2>2, <2>6, FS_Union
      <3>2. K \subseteq Pending(w, t) \cup K
        OBVIOUS
      <3> HIDE DEF K
      <3> QED BY <3>1, <3>2, FS_Subset
    <2>8. Cardinality(S) \in Nat /\ Cardinality(K) \in Nat /\ Cardinality(Pending(w, t) \cup K) \in Nat
      BY <2>2, <2>3, <2>7, FS_CardinalityType
    <2>9. Settled(w, t)
      BY <1>2 DEF Settled
    <2>10. Size(w, t) > MaxBatch => Pending(w, t) \cap K = {}
      <3>1. Size(w, t) > MaxBatch => Pending(w, t) \subseteq paused[w]
        BY <2>9 DEF Backlog
      <3> QED BY <1>3, <3>1 DEF PartitionsOf
    <2>11. Pending(w, t) \cap K = {} =>
              Cardinality(Pending(w, t) \cup K) = Cardinality(Pending(w, t)) + Cardinality(K)
      <3> HIDE DEF K
      <3>1. ASSUME Pending(w, t) \cap K = {} PROVE Cardinality(Pending(w, t) \cap K) = 0
        BY <3>1, FS_EmptySet
      <3>2. Cardinality(Pending(w, t) \cup K)
              = Cardinality(Pending(w, t)) + Cardinality(K) - Cardinality(Pending(w, t) \cap K)
        BY <2>2, <2>6, FS_Union
      <3> QED BY <2>6, <2>8, <3>1, <3>2
    <2>12. Size(w, t) <= MaxBatch + PollMax * Cardinality(Pending(w, t))
      BY DEF Backlog
    <2> DEFINE s == Size(w, t)
               a == Cardinality(S)
               k == Cardinality(K)
               q == Cardinality(Pending(w, t))
               u == Cardinality(Pending(w, t) \cup K)
    <2>13. /\ s \in Nat /\ a \in Nat /\ k \in Nat /\ q \in Nat /\ u \in Nat /\ a <= PollMax * k
           /\ k <= u /\ s <= MaxBatch + PollMax * q /\ (s > MaxBatch => u = q + k)
           /\ PollMax \in Nat /\ MaxBatch \in Nat
      BY <2>3, <2>6, <2>7, <2>8, <2>10, <2>11, <2>12, ConstantsAssumption
    <2>14. Size(w, t)' = s + a /\ Cardinality(Pending(w, t)') = u
      BY <2>4, <2>5
    <2> HIDE DEF s, a, k, q, u
    <2>15. s + a <= MaxBatch + PollMax * u
      <3>1. PollMax * k \in Nat /\ PollMax * u \in Nat /\ PollMax * k <= PollMax * u
        BY <2>13, ProductGrows
      <3>2. PollMax * q \in Nat /\ PollMax * (q + k) = PollMax * q + PollMax * k
        BY <2>13
      <3> DEFINE pk == PollMax * k
                 pu == PollMax * u
                 pq == PollMax * q
      <3>3. /\ pk \in Nat /\ pu \in Nat /\ pq \in Nat /\ pk <= pu /\ (s > MaxBatch => pu = pq + pk)
            /\ a <= pk /\ s <= MaxBatch + pq
        BY <2>13, <3>1, <3>2
      <3> HIDE DEF pk, pu, pq
      <3>4. s + a <= MaxBatch + pu
        BY <2>13, <3>3
      <3> QED BY <3>4 DEF pu
    <2> QED BY <2>14, <2>15
  <1>7. \A t \in Topics : ~Settled(w, t)'
    BY <1>2 DEF Settled, Index
  <1>8. view'[w] = {} => \A r \in Recs : batch'[w][r] = 0
    <2>1. SUFFICES ASSUME view[w] = {}, NEW r \in Recs PROVE batch'[w][r] = 0
      BY <1>2
    <2>2. batch[w][r] = 0
      BY <2>1 DEF Backlog
    <2>3. r \notin Added(n)
      <3>1. r[1] \in Partitions /\ r[2] \in Nat
        BY RecsArePairs
      <3>2. n[r[1]] = 0 /\ pos[w][r[1]] \in Nat
        BY <1>3, <2>1, <3>1
      <3> QED BY <3>1, <3>2
    <2> QED BY <1>4, <2>2, <2>3
  <1>9. ~member'[w] => view'[w] = {}
    BY <1>2 DEF Backlog
  <1>10. Recs' = Recs /\ Topics' = Topics
    BY DEF Recs
  <1> QED BY <1>6, <1>7, <1>8, <1>9, <1>10 DEF Backlog

\* A worker that does not move keeps what it holds.
LEMMA BacklogBystander ==
  ASSUME IsFiniteSet(Partitions), TypeOK, NEW v \in Workers, Backlog(v), UNCHANGED Held(v),
         UNCHANGED <<paused[v], pc[v], turn[v]>>
  PROVE  Backlog(v)'
  <1>1. \A t \in Topics : Settled(v, t)' => Settled(v, t)
    BY DEF Settled, Index
  <1>2. \A t \in Topics : Size(v, t) \in Nat
    BY SizeFacts
  <1> QED BY <1>1, <1>2, BacklogFrame

\* A step of a worker that leaves its memory alone, and pauses and resumes nothing.
Stays(w) == UNCHANGED Held(w) /\ paused'[w] = paused[w]
LEMMA BacklogMoves ==
  ASSUME IsFiniteSet(Partitions), TypeOK, NEW w \in Workers, Backlog(w), Stays(w),
         \/ pc[w] = "down" /\ pc'[w] = "poll"
         \/ pc[w] = "flush" /\ ~Due(w, Topic(w)) /\ Advance(w)
         \/ pc[w] = "flush" /\ pc'[w] = "commit" /\ turn'[w] = turn[w]
         \/ pc[w] = "backoff" /\ Advance(w)
         \/ pc'[w] \in {"close_flush", "close_commit"}
  PROVE  Backlog(w)'
  <1>1. \A t \in Topics : Size(w, t) \in Nat
    BY SizeFacts
  <1>2. turn[w] \in {1, 2} /\ Index(Topic(w)) = turn[w]
        /\ \A t \in Topics : Index(t) \in {1, 2} /\ (Index(t) = turn[w] => t = Topic(w))
    BY TopicIndex
  <1>3. Advance(w) => \/ pc'[w] = "flush" /\ turn[w] = 1 /\ turn'[w] = 2
                      \/ pc'[w] = "resume" /\ turn[w] = 2
    <2>1. CASE turn[w] = 1
      BY <2>1, TwoTopics DEF Advance, Goto, TypeOK
    <2>2. CASE turn[w] = 2
      BY <2>2, TwoTopics DEF Advance, Goto, TypeOK
    <2> QED BY <1>2, <2>1, <2>2
  <1>4. ~Due(w, Topic(w)) => Size(w, Topic(w)) <= MaxBatch
    <2>1. CASE Batch(w, Topic(w)) = {}
      <3>1. Topic(w) \in Topics
        BY TopicIndex
      <3>2. \A r \in RecsOf(Topic(w)) : batch[w][r] \in Nat /\ ~(batch[w][r] > 0)
        BY <2>1, <3>1, SizeFacts DEF Batch
      <3>3. \A r \in RecsOf(Topic(w)) : batch[w][r] = 0
        BY <3>2
      <3>4. Size(w, Topic(w)) = 0
        BY <3>1, <3>3, SizeFacts
      <3> QED BY <3>4, ConstantsAssumption
    <2>2. CASE Batch(w, Topic(w)) # {}
      <3>1. ~Due(w, Topic(w)) => ~(Size(w, Topic(w)) >= BatchSize)
        BY <2>2 DEF Due
      <3>2. Size(w, Topic(w)) \in Nat
        BY <1>1, TopicIndex
      <3> QED BY <3>1, <3>2, ConstantsAssumption
    <2> QED BY <2>1, <2>2
  <1>5. ASSUME NEW t \in Topics, Settled(w, t)'
        PROVE  Settled(w, t) \/ Size(w, t) <= MaxBatch
    <2>1. Index(t)' = Index(t)
      BY DEF Index
    <2>2. \/ pc'[w] \in {"down", "poll", "resume"}
          \/ pc'[w] \in {"flush", "commit"} /\ Index(t) < turn'[w]
          \/ pc'[w] = "backoff" /\ Index(t) <= turn'[w]
      BY <1>5, <2>1 DEF Settled
    <2>3. CASE pc[w] = "down"
      BY <2>3 DEF Settled
    <2>4. CASE pc[w] = "flush" /\ ~Due(w, Topic(w)) /\ Advance(w)
      <3>1. Index(t) < turn[w] \/ t = Topic(w)
        BY <1>2, <1>3, <2>2, <2>4
      <3> QED BY <1>4, <2>4, <3>1 DEF Settled
    <2>5. CASE pc[w] = "flush" /\ pc'[w] = "commit" /\ turn'[w] = turn[w]
      BY <2>2, <2>5 DEF Settled
    <2>6. CASE pc[w] = "backoff" /\ Advance(w)
      <3>1. Index(t) <= turn[w]
        BY <1>2, <1>3, <2>2, <2>6
      <3> QED BY <2>6, <3>1 DEF Settled
    <2> QED BY <2>2, <2>3, <2>4, <2>5, <2>6
  <1> QED BY <1>1, <1>5, BacklogFrame DEF Stays

\* After a failed flush, what contributed to a topic above the ceiling is paused.
LEMMA BacklogFlushFail ==
  ASSUME IsFiniteSet(Partitions), TypeOK, NEW w \in Workers, Backlog(w), FlushFail(w)
  PROVE  Backlog(w)'
  <1> DEFINE u == Topic(w)
             raises == ~(ToPause(w, u) \subseteq view[w])
  <1>1. /\ pc[w] = "flush" /\ UNCHANGED <<member, view, batch, pending>>
        /\ paused'[w] = IF raises THEN paused[w] ELSE paused[w] \cup ToPause(w, u)
        /\ pc'[w] = IF raises THEN "close_flush" ELSE "backoff"
        /\ turn'[w] = IF raises THEN 1 ELSE turn[w]
    BY DEF FlushFail, Goto, TypeOK, group
  <1>2. CASE raises
    <2>1. Stays(w) /\ pc'[w] = "close_flush"
      BY <1>1, <1>2 DEF Stays, Held
    <2> QED BY <2>1, BacklogMoves
  <1>3. CASE ~raises
    <2>1. turn[w] \in {1, 2} /\ \A t \in Topics : Index(t) \in {1, 2} /\ (Index(t) = turn[w] => t = u)
      BY TopicIndex
    <2>2. \A t \in Topics : Size(w, t)' = Size(w, t) /\ Pending(w, t)' = Pending(w, t)
      BY <1>1 DEF Size, Pending, RecsOf, PartitionsOf, Recs
    <2>3. ASSUME NEW t \in Topics, Settled(w, t)', Size(w, t) > MaxBatch
          PROVE  Pending(w, t) \subseteq paused'[w]
      <3>1. Index(t) <= turn[w]
        BY <1>1, <1>3, <2>3 DEF Settled, Index
      <3>2. CASE t = u
        BY <1>1, <1>3, <2>3, <3>2 DEF ToPause
      <3>3. CASE t # u
        <4>1. Index(t) < turn[w]
          BY <2>1, <3>1, <3>3
        <4>2. Settled(w, t)
          BY <1>1, <4>1 DEF Settled
        <4>3. Pending(w, t) \subseteq paused[w]
          BY <2>3, <4>2 DEF Backlog
        <4> QED BY <1>1, <1>3, <4>3
      <3> QED BY <3>2, <3>3
    <2>4. \A t \in Topics : Size(w, t) <= MaxBatch + PollMax * Cardinality(Pending(w, t))
      BY DEF Backlog
    <2>5. /\ ~member'[w] => view'[w] = {}
          /\ view'[w] = {} => \A r \in Recs : batch'[w][r] = 0
      BY <1>1 DEF Backlog
    <2>6. Recs' = Recs
      BY DEF Recs
    <2> QED BY <2>2, <2>3, <2>4, <2>5, <2>6 DEF Backlog
  <1> QED BY <1>2, <1>3

\* A partition is resumed only when nothing of its topic is held.
LEMMA BacklogResume ==
  ASSUME IsFiniteSet(Partitions), TypeOK, NEW w \in Workers, Backlog(w), Resume(w)
  PROVE  Backlog(w)'
  <1>1. /\ pc[w] = "resume" /\ UNCHANGED <<member, view, batch, pending>>
        /\ paused'[w] = {p \in paused[w] : failing[w][TopicOf[p]] \/ Batch(w, TopicOf[p]) # {}}
    BY DEF Resume, TypeOK, group, memory
  <1>2. \A t \in Topics : Size(w, t)' = Size(w, t) /\ Pending(w, t)' = Pending(w, t)
    BY <1>1 DEF Size, Pending, RecsOf, PartitionsOf, Recs
  <1>3. ASSUME NEW t \in Topics, Size(w, t) > MaxBatch PROVE Pending(w, t) \subseteq paused'[w]
    <2>1. Settled(w, t)
      BY <1>1 DEF Settled
    <2>2. Pending(w, t) \subseteq paused[w]
      BY <1>3, <2>1 DEF Backlog
    <2>3. Batch(w, t) # {}
      <3>1. SUFFICES ASSUME Batch(w, t) = {} PROVE FALSE
        OBVIOUS
      <3>2. \A r \in RecsOf(t) : batch[w][r] \in Nat /\ ~(batch[w][r] > 0)
        BY <3>1, SizeFacts DEF Batch
      <3>3. \A r \in RecsOf(t) : batch[w][r] = 0
        BY <3>2
      <3>4. Size(w, t) = 0
        BY <3>3, SizeFacts
      <3> QED BY <1>3, <3>4, ConstantsAssumption
    <2>4. \A p \in Pending(w, t) : TopicOf[p] = t
      BY DEF Pending, PartitionsOf
    <2> QED BY <1>1, <2>2, <2>3, <2>4
  <1>4. \A t \in Topics : Size(w, t) <= MaxBatch + PollMax * Cardinality(Pending(w, t))
    BY DEF Backlog
  <1>5. /\ ~member'[w] => view'[w] = {}
        /\ view'[w] = {} => \A r \in Recs : batch'[w][r] = 0
    BY <1>1 DEF Backlog
  <1>6. Recs' = Recs
    BY DEF Recs
  <1> QED BY <1>2, <1>3, <1>4, <1>5, <1>6 DEF Backlog

\* A commit empties its topic and leaves the other one alone.
LEMMA BacklogCommitOk ==
  ASSUME IsFiniteSet(Partitions), TypeOK, TypeOK', NEW w \in Workers, Backlog(w), CommitOk(w)
  PROVE  Backlog(w)'
  <1> DEFINE u == Topic(w)
  <1>1. /\ pc[w] = "commit" /\ UNCHANGED <<member, view, paused>> /\ Advance(w)
        /\ \A r \in Recs : batch'[w][r] = IF r \in RecsOf(u) THEN 0 ELSE batch[w][r]
        /\ \A p \in Partitions : pending'[w][p] = IF p \in PartitionsOf(u) THEN 0 ELSE pending[w][p]
    BY DEF CommitOk, TypeOK, group, consumer
  <1>2. turn[w] \in {1, 2} /\ Index(u) = turn[w]
        /\ \A t \in Topics : Index(t) \in {1, 2} /\ (Index(t) = turn[w] => t = u)
    BY TopicIndex
  <1>3. \/ pc'[w] = "flush" /\ turn[w] = 1 /\ turn'[w] = 2
        \/ pc'[w] = "resume" /\ turn[w] = 2
    <2>1. CASE turn[w] = 1
      BY <1>1, <2>1, TwoTopics DEF Advance, Goto, TypeOK
    <2>2. CASE turn[w] = 2
      BY <1>1, <2>2, TwoTopics DEF Advance, Goto, TypeOK
    <2> QED BY <1>2, <2>1, <2>2
  <1>4. ASSUME NEW t \in Topics, t # u
        PROVE  /\ Size(w, t)' <= MaxBatch + PollMax * Cardinality(Pending(w, t)')
               /\ Settled(w, t)' /\ Size(w, t)' > MaxBatch => Pending(w, t)' \subseteq paused'[w]
    <2>1. RecsOf(t)' = RecsOf(t) /\ PartitionsOf(t)' = PartitionsOf(t)
      BY DEF RecsOf, Recs, PartitionsOf
    <2>2. \A r \in RecsOf(t) : batch'[w][r] = batch[w][r]
      BY <1>1, <1>4 DEF RecsOf
    <2>3. Pending(w, t)' = Pending(w, t)
      BY <1>1, <1>4 DEF Pending, PartitionsOf
    <2>4. Size(w, t)' = Size(w, t)
      <3>1. IsFiniteSet(RecsOf(t)) /\ \A r \in RecsOf(t) : batch[w][r] \in Nat
        BY TopicIsFinite, SizeFacts
      <3> DEFINE f == batch[w]
                 g == batch'[w]
      <3>2. \A r \in RecsOf(t) : f[r] \in Nat /\ f[r] = g[r]
        BY <2>2, <3>1
      <3> HIDE DEF f, g
      <3>3. SumFunctionOnSet(f, RecsOf(t)) = SumFunctionOnSet(g, RecsOf(t))
        BY <3>1, <3>2, SumSame
      <3> QED BY <2>1, <3>3 DEF f, g, Size
    <2>5. Settled(w, t)' => Settled(w, t)
      BY <1>1, <1>2, <1>3, <1>4 DEF Settled, Index, Topics
    <2> QED BY <1>1, <2>3, <2>4, <2>5 DEF Backlog
  <1>5. ASSUME NEW t \in Topics, t = u
        PROVE  /\ Size(w, t)' <= MaxBatch + PollMax * Cardinality(Pending(w, t)')
               /\ ~(Size(w, t)' > MaxBatch)
    <2>1. \A r \in RecsOf(t)' : batch'[w][r] = 0
      BY <1>1, <1>5 DEF RecsOf, Recs
    <2> DEFINE c == Cardinality(Pending(w, t)')
    <2>2. c \in Nat /\ Size(w, t)' = 0
      BY <2>1, SizeFactsNext
    <2> HIDE DEF c
    <2>3. PollMax * c \in Nat
      BY <2>2, ConstantsAssumption
    <2>4. 0 <= MaxBatch + PollMax * c /\ ~(0 > MaxBatch)
      BY <2>3, ConstantsAssumption
    <2> QED BY <2>2, <2>4 DEF c
  <1>6. /\ ~member'[w] => view'[w] = {}
        /\ view'[w] = {} => \A r \in Recs : batch'[w][r] = 0
    BY <1>1 DEF Backlog
  <1>7. Recs' = Recs
    BY DEF Recs
  <1> QED BY <1>4, <1>5, <1>6, <1>7 DEF Backlog

LEMMA BacklogExit ==
  ASSUME IsFiniteSet(Partitions), TypeOK, TypeOK', NEW w \in Workers, Exit(w)
  PROVE  /\ Backlog(w)'
         /\ \A v \in Workers : v # w => UNCHANGED Held(v) /\ UNCHANGED <<paused[v], pc[v], turn[v]>>
  <1>1. view'[w] = {} /\ \A r \in Recs : batch'[w][r] = 0
    BY DEF Exit, TypeOK
  <1>2. Backlog(w)'
    BY <1>1, BacklogEmpty
  <1> QED BY <1>2 DEF Exit, Goto, TypeOK, Held

LEMMA BacklogNextClose ==
  ASSUME IsFiniteSet(Partitions), TypeOK, TypeOK', NEW w \in Workers, Backlog(w), NextClose(w)
  PROVE  /\ Backlog(w)'
         /\ \A v \in Workers : v # w => UNCHANGED Held(v) /\ UNCHANGED <<paused[v], pc[v], turn[v]>>
  <1>1. CASE Exit(w)
    BY <1>1, BacklogExit
  <1>2. CASE ~Exit(w)
    <2>1. /\ turn' = [turn EXCEPT ![w] = turn[w] + 1] /\ pc' = [pc EXCEPT ![w] = "close_flush"]
          /\ UNCHANGED <<member, view, paused, pending, batch>>
      BY <1>2 DEF NextClose, Goto, consumer, memory
    <2>2. pc'[w] = "close_flush" /\ Stays(w)
      BY <2>1 DEF TypeOK, Stays, Held
    <2>3. Backlog(w)'
      BY <2>2, BacklogMoves
    <2> QED BY <2>1, <2>3 DEF TypeOK, Held
  <1> QED BY <1>1, <1>2

\* Partitions change hands only while no worker has any: when all workers have gone.
RebalancedIdle == Rebalance => \A w \in Workers : view[w] = {}

LEMMA BacklogStep ==
  ASSUME IsFiniteSet(Partitions), BInv, [Next]_vars, RebalancedIdle \/ UNCHANGED vars
  PROVE  BInv'
  <1>1. TypeOK /\ TypeOK' /\ \A w \in Workers : Backlog(w)
    BY TypeStep DEF BInv
  <1> SUFFICES ASSUME NEW v \in Workers PROVE Backlog(v)'
    BY <1>1 DEF BInv
  <1>2. Backlog(v) /\ (UNCHANGED Held(v) /\ UNCHANGED <<paused[v], pc[v], turn[v]>> => Backlog(v)')
    BY <1>1, BacklogBystander
  <1>3. CASE UNCHANGED <<member, view, paused, batch, pending, pc, turn>>
    BY <1>2, <1>3 DEF Held
  <1>4. ASSUME NEW p \in Partitions, NEW m \in Messages, Produce(p, m) PROVE Backlog(v)'
    BY <1>3, <1>4 DEF Produce, group, consumer, memory
  <1>5. ASSUME NEW w \in Workers, NEW t \in Topics, Linger(w, t) PROVE Backlog(v)'
    BY <1>3, <1>5 DEF Linger, group, consumer
  <1>6. CASE UNCHANGED vars
    BY <1>3, <1>6 DEF vars, group, consumer, memory
  <1>7. CASE Rebalance
    <2>1. CASE UNCHANGED vars
      BY <1>6, <2>1
    <2>2. CASE RebalancedIdle
      <3>1. view[v] = {} /\ UNCHANGED <<view, batch>>
        BY <1>7, <2>2 DEF RebalancedIdle, Rebalance, consumer, memory
      <3>2. \A r \in Recs : batch[v][r] = 0
        BY <1>2, <3>1 DEF Backlog
      <3> QED BY <1>1, <3>1, <3>2, BacklogEmpty
    <2> QED BY <2>1, <2>2
  <1>8. ASSUME NEW w \in Workers, Rejoin(w) PROVE Backlog(v)'
    <2>1. CASE v = w
      <3>1. ~member[w] /\ member'[w] = TRUE /\ UNCHANGED <<batch, pending>>
        BY <1>1, <1>8 DEF Rejoin, TypeOK, memory
      <3>2. \A r \in Recs : batch[w][r] = 0
        BY <1>2, <2>1, <3>1 DEF Backlog
      <3> QED BY <1>1, <2>1, <3>1, <3>2, BacklogEmpty
    <2>2. CASE v # w
      <3>1. UNCHANGED Held(v) /\ UNCHANGED <<paused[v], pc[v], turn[v]>>
        BY <1>1, <1>8, <2>2 DEF Rejoin, TypeOK, Held, memory
      <3> QED BY <1>2, <3>1
    <2> QED BY <2>1, <2>2
  <1>9. ASSUME NEW w \in Workers, Crash(w) PROVE Backlog(v)'
    <2>1. Exit(w)
      BY <1>9 DEF Crash
    <2> QED BY <1>1, <1>2, <2>1, BacklogExit
  <1>10. ASSUME NEW w \in Workers, Cancel(w) PROVE Backlog(v)'
    <2>1. /\ pc'[w] = "close_flush" /\ UNCHANGED <<member, view, paused, batch, pending>>
          /\ \A x \in Workers : x # w => pc'[x] = pc[x] /\ turn'[x] = turn[x]
      BY <1>1, <1>10 DEF Cancel, Goto, TypeOK, group, consumer, memory
    <2>2. Stays(w)
      BY <2>1 DEF Stays, Held
    <2>3. Backlog(w)'
      BY <1>1, <2>1, <2>2, BacklogMoves
    <2> QED BY <1>2, <2>1, <2>3 DEF Held
  <1>11. ASSUME NEW w \in Workers, Step(w) PROVE Backlog(v)'
    <2>1. CASE Start(w)
      <3>1. /\ pc[w] = "down" /\ pc'[w] = "poll" /\ UNCHANGED <<member, view, paused, batch, pending, turn>>
            /\ \A x \in Workers : x # w => pc'[x] = pc[x]
        BY <1>1, <2>1 DEF Start, Goto, TypeOK, group, consumer, memory
      <3>2. Backlog(w)'
        BY <1>1, <3>1, BacklogMoves DEF Stays, Held
      <3> QED BY <1>2, <3>1, <3>2 DEF Held
    <2>2. CASE Poll(w)
      <3>1. Backlog(w)'
        BY <1>1, <2>2, BacklogPoll
      <3>2. v # w => UNCHANGED Held(v) /\ UNCHANGED <<paused[v], pc[v], turn[v]>>
        BY <1>1, <2>2 DEF Poll, Goto, TypeOK, Held, group
      <3> QED BY <1>2, <3>1, <3>2
    <2>3. CASE Skip(w)
      <3>1. /\ pc[w] = "flush" /\ ~Due(w, Topic(w)) /\ Advance(w)
            /\ UNCHANGED <<member, view, paused, batch, pending>>
        BY <2>3 DEF Skip, group, consumer, memory
      <3>2. Backlog(w)'
        BY <1>1, <3>1, BacklogMoves DEF Stays, Held
      <3>3. \A x \in Workers : x # w => pc'[x] = pc[x] /\ turn'[x] = turn[x]
        BY <1>1, <3>1, AdvanceMoves
      <3> QED BY <1>2, <3>1, <3>2, <3>3 DEF Held
    <2>4. CASE FlushOk(w)
      <3>1. /\ pc[w] = "flush" /\ pc'[w] = "commit" /\ UNCHANGED <<member, view, paused, batch, pending, turn>>
            /\ \A x \in Workers : x # w => pc'[x] = pc[x]
        BY <1>1, <2>4 DEF FlushOk, Goto, TypeOK, group, consumer, memory
      <3>2. Backlog(w)'
        BY <1>1, <3>1, BacklogMoves DEF Stays, Held
      <3> QED BY <1>2, <3>1, <3>2 DEF Held
    <2>5. CASE FlushFail(w)
      <3>1. Backlog(w)'
        BY <1>1, <2>5, BacklogFlushFail
      <3>2. v # w => UNCHANGED Held(v) /\ UNCHANGED <<paused[v], pc[v], turn[v]>>
        BY <1>1, <2>5 DEF FlushFail, Goto, TypeOK, Held, group
      <3> QED BY <1>2, <3>1, <3>2
    <2>6. CASE BackoffDone(w)
      <3>1. /\ pc[w] = "backoff" /\ Advance(w) /\ UNCHANGED <<member, view, paused, batch, pending>>
        BY <2>6 DEF BackoffDone, group, consumer
      <3>2. Backlog(w)'
        BY <1>1, <3>1, BacklogMoves DEF Stays, Held
      <3>3. \A x \in Workers : x # w => pc'[x] = pc[x] /\ turn'[x] = turn[x]
        BY <1>1, <3>1, AdvanceMoves
      <3> QED BY <1>2, <3>1, <3>2, <3>3 DEF Held
    <2>7. CASE CommitOk(w)
      <3>1. Backlog(w)'
        BY <1>1, <2>7, BacklogCommitOk
      <3>2. \A x \in Workers : x # w => pc'[x] = pc[x] /\ turn'[x] = turn[x]
        BY <1>1, <2>7, AdvanceMoves DEF CommitOk
      <3>3. v # w => UNCHANGED Held(v) /\ paused'[v] = paused[v]
        BY <1>1, <2>7 DEF CommitOk, TypeOK, Held, group, consumer
      <3> QED BY <1>2, <3>1, <3>2, <3>3
    <2>8. CASE CommitRaises(w)
      <3>1. /\ pc'[w] = "close_flush" /\ UNCHANGED <<member, view, paused, batch, pending>>
            /\ \A x \in Workers : x # w => pc'[x] = pc[x] /\ turn'[x] = turn[x]
        BY <1>1, <2>8 DEF CommitRaises, Goto, TypeOK, group, consumer, memory
      <3>2. Backlog(w)'
        BY <1>1, <3>1, BacklogMoves DEF Stays, Held
      <3> QED BY <1>2, <3>1, <3>2 DEF Held
    <2>9. CASE Resume(w)
      <3>1. Backlog(w)'
        BY <1>1, <2>9, BacklogResume
      <3>2. v # w => UNCHANGED Held(v) /\ UNCHANGED <<paused[v], pc[v], turn[v]>>
        BY <1>1, <2>9 DEF Resume, Goto, TypeOK, Held, group, memory
      <3> QED BY <1>2, <3>1, <3>2
    <2>10. CASE CloseFlush(w)
      <3>1. CASE NextClose(w)
        BY <1>1, <1>2, <3>1, BacklogNextClose
      <3>2. CASE ~NextClose(w)
        <4>1. /\ pc' = [pc EXCEPT ![w] = "close_commit"]
              /\ UNCHANGED <<member, view, paused, batch, pending, turn>>
          BY <2>10, <3>2 DEF CloseFlush, Goto, consumer, memory
        <4>2. pc'[w] = "close_commit" /\ Stays(w)
          BY <1>1, <4>1 DEF TypeOK, Stays, Held
        <4>3. Backlog(w)'
          BY <1>1, <4>2, BacklogMoves
        <4> QED BY <1>1, <1>2, <4>1, <4>3 DEF TypeOK, Held
      <3> QED BY <3>1, <3>2
    <2>11. CASE CloseCommit(w)
      <3>1. NextClose(w) \/ Exit(w)
        BY <2>11 DEF CloseCommit
      <3> QED BY <1>1, <1>2, <3>1, BacklogNextClose, BacklogExit
    <2> QED
      BY <1>11, <2>1, <2>2, <2>3, <2>4, <2>5, <2>6, <2>7, <2>8, <2>9, <2>10, <2>11 DEF Step
  <1> QED BY <1>4, <1>5, <1>6, <1>7, <1>8, <1>9, <1>10, <1>11 DEF Next

LEMMA BacklogInit == ASSUME IsFiniteSet(Partitions), Init PROVE BInv
  <1>1. TypeOK
    BY TypeInit
  <1>2. ASSUME NEW w \in Workers PROVE Backlog(w)
    <2>1. view[w] = {} /\ \A r \in Recs : batch[w][r] = 0
      BY DEF Init
    <2>2. ASSUME NEW t \in Topics
          PROVE  /\ Size(w, t) <= MaxBatch + PollMax * Cardinality(Pending(w, t))
                 /\ ~(Size(w, t) > MaxBatch)
      <3> DEFINE c == Cardinality(Pending(w, t))
      <3>1. c \in Nat /\ Size(w, t) = 0
        BY <1>1, <2>1, SizeFacts DEF RecsOf
      <3> HIDE DEF c
      <3>2. PollMax * c \in Nat
        BY <3>1, ConstantsAssumption
      <3>3. 0 <= MaxBatch + PollMax * c /\ ~(0 > MaxBatch)
        BY <3>2, ConstantsAssumption
      <3> QED BY <3>1, <3>3 DEF c
    <2> QED BY <2>1, <2>2 DEF Backlog
  <1> QED BY <1>1, <1>2 DEF BInv

\* While ClickHouse rejects writes a worker's batch of a topic stays at the ceiling plus
\* one poll of each of its partitions, for any number of workers, partitions, crashes and
\* commits that fail, as long as no worker that reads partitions has them handed out anew:
\* what contributed to a topic above the ceiling is paused until the topic has drained
\* (ingestion_worker.py 103-113).
THEOREM BacklogStaysBounded ==
  ASSUME IsFiniteSet(Partitions) PROVE Spec /\ [][RebalancedIdle]_vars => []BacklogBounded
  <1>1. Init => BInv
    BY BacklogInit
  <1>2. BInv /\ [Next]_vars /\ [RebalancedIdle]_vars => BInv'
    BY BacklogStep
  <1>3. BInv => BacklogBounded
    <2>1. SUFFICES ASSUME BInv, NEW w \in Workers, NEW t \in Topics
                   PROVE  Size(w, t) <= MaxBatch + PollMax * Cardinality(PartitionsOf(t))
      BY DEF BacklogBounded
    <2>2. /\ Size(w, t) \in Nat
          /\ Cardinality(Pending(w, t)) \in Nat /\ Cardinality(PartitionsOf(t)) \in Nat
          /\ Cardinality(Pending(w, t)) <= Cardinality(PartitionsOf(t))
      BY <2>1, SizeFacts DEF BInv
    <2>3. Size(w, t) <= MaxBatch + PollMax * Cardinality(Pending(w, t))
      BY <2>1 DEF BInv, Backlog
    <2> DEFINE s == Size(w, t)
               a == PollMax * Cardinality(Pending(w, t))
               b == PollMax * Cardinality(PartitionsOf(t))
    <2>4. a \in Nat /\ b \in Nat /\ a <= b
      BY <2>2, ProductGrows, ConstantsAssumption
    <2>5. s \in Nat /\ s <= MaxBatch + a
      BY <2>2, <2>3
    <2> HIDE DEF s, a, b
    <2>6. s <= MaxBatch + b
      BY <2>4, <2>5, ConstantsAssumption
    <2> QED BY <2>6 DEF s, b
  <1> QED BY <1>1, <1>2, <1>3, PTL DEF Spec
=============================================================================
