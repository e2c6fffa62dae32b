--------------------------- MODULE IngestionWorker ---------------------------
(***************************************************************************)
(* The Kafka -> ClickHouse ingestion worker,                               *)
(* src/denoiser/workers/ingestion_worker.py: the poll / flush / commit     *)
(* loop with its per-topic state, retries, back-pressure and shutdown,     *)
(* for any number of worker processes of one consumer group.               *)
(*                                                                         *)
(* The broker (log, committed offsets, group membership) and ClickHouse    *)
(* are outside the repository and are modelled from how the worker uses    *)
(* them.  A step of a worker is the code between two awaits, except that   *)
(* the flush of each topic is a step of its own, so that a crash can fall  *)
(* between a write and the commit that follows it.                         *)
(*                                                                         *)
(* A definition named X_Y is X with a plausible mistake Y; no              *)
(* specification uses it.  It shows that the properties can tell.          *)
(***************************************************************************)
EXTENDS Naturals, Sequences, FiniteSets, Functions

CONSTANTS
    Workers,      \* worker processes sharing group_id "semanticos-ingestion-group"
    Partitions,   \* topic-partitions
    TopicOf,      \* TopicOf[p]: the topic a partition belongs to
    MaxLog,       \* bound: records produced per partition
    Messages,     \* contents producers send
    Malformed,    \* contents that raise in json.loads or payload.pop
    Poison,       \* well-formed contents whose insert always fails
    NoMessage,    \* content of an offset that is not produced yet
    TenantOf,     \* TenantOf[m]: the _tenant_id inside a message
    PollMax,      \* bound: records of one partition returned by one getmany
    BatchSize,    \* BATCH_SIZE
    MaxBatch,     \* MAX_BATCH
    FaultKinds,   \* which environment faults may happen
    MaxFaults     \* bound: how many of them happen

\* The order of the keys of the dict `state`, hence of the flush loop.
TopicOrder == <<"logs_topic", "traces_topic">>
Topics == {"logs_topic", "traces_topic"}
Faults == {"reject",         \* ClickHouse is down: nothing of a flush lands
           "partial",        \* some inserts fail, or land and lose their reply
           "commit_error",   \* a commit is refused, or its reply is lost
           "cancel",         \* SIGINT during getmany or a back-off sleep
           "cancel_commit",  \* SIGINT while a commit is in flight
           "crash",          \* SIGKILL, out of memory, an unhandled SIGTERM
           "rebalance",      \* partitions change hands between live workers
           "no_client"}      \* ClickHouse is unreachable when a worker starts

ASSUME ConstantsAssumption ==
    /\ TopicOf \in [Partitions -> Topics]
    /\ MaxLog \in Nat /\ PollMax \in Nat /\ MaxFaults \in Nat
    /\ BatchSize \in Nat \ {0} /\ MaxBatch \in Nat /\ BatchSize <= MaxBatch
    /\ Malformed \subseteq Messages /\ Poison \subseteq Messages \ Malformed
    /\ NoMessage \notin Messages
    /\ FaultKinds \subseteq Faults

VARIABLES
    content,    \* broker: content[r] of record r = <<partition, offset>>
    end,        \* broker: end[p], the number of records of p
    committed,  \* broker: committed offset of the group for p
    owner,      \* broker: worker that p is assigned to
    member,     \* member[w]: w holds the group's current generation
    view,       \* view[w]: the partitions w's consumer believes it has
    pos,        \* pos[w][p]: fetch position
    paused,     \* paused[w]: consumer.paused()
    batch,      \* batch[w][r]: copies of r in the st["batch"] of its topic
    pending,    \* pending[w][p]: st["offsets"][p] + 1, and 0 when p is no key
    failing,    \* failing[w][t]: st["fails"] > 0
    lingered,   \* lingered[w][t]: LINGER_SECONDS have passed since st["last"]
    client,     \* client[w]: ch_store.client is not None
    pc, turn,   \* where w stands, and the index of the topic it serves
    rows,       \* ClickHouse: rows of r, counted up to 2
    faults      \* how many faults have happened; clean while none of them
                \* leaves a write or a commit in doubt

broker == <<content, end>>
group == <<owner, member>>
consumer == <<view, pos, paused>>
memory == <<batch, pending, failing, lingered>>
vars == <<broker, committed, group, consumer, memory, client, pc, turn, rows, faults>>

Recs == Partitions \X (0 .. MaxLog - 1)
RecsOf(t) == {r \in Recs : TopicOf[r[1]] = t}
PartitionsOf(t) == {p \in Partitions : TopicOf[p] = t}
Produced == {r \in Recs : r[2] < end[r[1]]}
WellFormed == {r \in Produced : content[r] \notin Malformed}

Topic(w) == TopicOrder[turn[w]]
Batch(w, t) == {r \in RecsOf(t) : batch[w][r] > 0}
Size(w, t) == SumFunctionOnSet(batch[w], RecsOf(t))
Pending(w, t) == {p \in PartitionsOf(t) : pending[w][p] > 0}
Alive == {w \in Workers : pc[w] # "down"}

CleanFaults == {"reject", "cancel", "no_client"}
Spend(kind) ==
    /\ kind \in FaultKinds /\ faults.count < MaxFaults
    /\ faults' = [count |-> faults.count + 1, clean |-> faults.clean /\ kind \in CleanFaults]
Goto(w, label) == pc' = [pc EXCEPT ![w] = label]

Larger_PlusOne(m, n) == IF m >= n THEN m + 1 ELSE n + 1
Larger_Sum(m, n) == m + n
Larger(m, n) == IF m >= n THEN m ELSE n

-----------------------------------------------------------------------------
(* The broker and the clock.                                               *)

Produce(p, m) ==
    /\ end[p] < MaxLog
    /\ content' = [content EXCEPT ![<<p, end[p]>>] = m]
    /\ end' = [end EXCEPT ![p] = @ + 1]
    /\ UNCHANGED <<committed, group, consumer, memory, client, pc, turn, rows, faults>>

\* LINGER_SECONDS have passed since the last flush attempt of topic t; that is
\* observed, and so stepped, only while the topic has a batch.
Linger(w, t) ==
    /\ Batch(w, t) # {} /\ ~lingered[w][t]
    /\ lingered' = [lingered EXCEPT ![w][t] = TRUE]
    /\ UNCHANGED <<broker, committed, group, consumer, batch, pending, failing,
                   client, pc, turn, rows, faults>>

\* The coordinator hands the partitions out again: because an owner is gone,
\* or spontaneously (a session timeout, a new member).
Rebalance ==
    /\ Alive # {}
    /\ \/ /\ \E p \in Partitions : owner[p] \notin Alive
          /\ faults' = [faults EXCEPT !.clean = @ /\ \A w \in Alive : view[w] = {}]
       \/ (\A p \in Partitions : owner[p] \in Alive) /\ Spend("rebalance")
    /\ owner' \in [Partitions -> Alive]
    /\ member' = [w \in Workers |-> FALSE]
    /\ UNCHANGED <<broker, committed, consumer, memory, client, pc, turn, rows>>

AwaitPoints == {"poll", "commit", "backoff", "close_commit"}

\* The consumer's background task joins the new generation while the worker
\* awaits: a fresh assignment, so positions come from the committed offsets
\* and nothing is paused any more.
Rejoin(w) ==
    /\ pc[w] \in AwaitPoints /\ ~member[w]
    /\ LET mine == {p \in Partitions : owner[p] = w} IN
       /\ view' = [view EXCEPT ![w] = mine]
       /\ pos' = [pos EXCEPT ![w] = [p \in Partitions |->
                      IF p \in mine THEN committed[p] ELSE pos[w][p]]]
    /\ paused' = [paused EXCEPT ![w] = {}]
    /\ member' = [member EXCEPT ![w] = TRUE]
    /\ UNCHANGED <<broker, committed, owner, memory, client, pc, turn, rows, faults>>

-----------------------------------------------------------------------------
(* The worker process.                                                     *)

\* Process start: a new consumer, a new ClickHouseStore (whose client stays
\* None for the life of the process when the connection fails) and empty state.
Start(w) ==
    /\ pc[w] = "down"
    /\ \/ client' = [client EXCEPT ![w] = TRUE] /\ UNCHANGED faults
       \/ client' = [client EXCEPT ![w] = FALSE] /\ Spend("no_client")
    /\ Goto(w, "poll")
    /\ UNCHANGED <<broker, committed, group, consumer, memory, turn, rows>>

\* The process is gone: everything it held in memory goes with it.
Exit(w) ==
    /\ Goto(w, "down")
    /\ turn' = [turn EXCEPT ![w] = 1]
    /\ member' = [member EXCEPT ![w] = FALSE]
    /\ view' = [view EXCEPT ![w] = {}]
    /\ pos' = [pos EXCEPT ![w] = [p \in Partitions |-> 0]]
    /\ paused' = [paused EXCEPT ![w] = {}]
    /\ batch' = [batch EXCEPT ![w] = [r \in Recs |-> 0]]
    /\ pending' = [pending EXCEPT ![w] = [p \in Partitions |-> 0]]
    /\ failing' = [failing EXCEPT ![w] = [t \in Topics |-> FALSE]]
    /\ lingered' = [lingered EXCEPT ![w] = [t \in Topics |-> FALSE]]

\* SIGKILL, an OOM kill, or SIGTERM (the process installs no handler for it).
Crash(w) ==
    /\ pc[w] # "down" /\ Spend("crash")
    /\ Exit(w)
    /\ UNCHANGED <<broker, committed, owner, client, rows>>

\* The main task is cancelled (SIGINT) at an await: control goes to `finally`.
Cancel(w) ==
    /\ pc[w] \in {"poll", "backoff"} /\ Spend("cancel")
    /\ Goto(w, "close_flush")
    /\ turn' = [turn EXCEPT ![w] = 1]
    /\ UNCHANGED <<broker, committed, group, consumer, memory, client, rows>>

\* What one getmany may return: the next n[p] records of each partition that is
\* not paused, and nothing at all only when there is nothing to return.
Fetches(w) ==
    LET open == view[w] \ paused[w]
        left(p) == end[p] - pos[w][p]
    IN  {n \in [Partitions -> 0 .. PollMax] :
            /\ \A p \in Partitions : n[p] > 0 => p \in open /\ n[p] <= left(p)
            /\ (\A p \in Partitions : n[p] = 0) =>
                   \A p \in open : left(p) = 0}

\* getmany, then the parse loop: a well-formed record joins its topic's batch,
\* a malformed one is skipped, and the offsets of both are tracked.
Poll(w) ==
    /\ pc[w] = "poll"
    /\ \E n \in Fetches(w) :
        LET taken == {r \in Recs : /\ pos[w][r[1]] <= r[2]
                                   /\ r[2] < pos[w][r[1]] + n[r[1]]}
        IN  /\ pos' = [pos EXCEPT ![w] = [p \in Partitions |-> pos[w][p] + n[p]]]
            /\ batch' = [batch EXCEPT ![w] = [r \in Recs |->
                   IF r \in taken /\ content[r] \notin Malformed
                   THEN batch[w][r] + 1 ELSE batch[w][r]]]
            /\ pending' = [pending EXCEPT ![w] = [p \in Partitions |->
                   IF n[p] > 0 THEN Larger(pending[w][p], pos[w][p] + n[p])
                   ELSE pending[w][p]]]
    /\ Goto(w, "flush")
    /\ turn' = [turn EXCEPT ![w] = 1]
    /\ UNCHANGED <<broker, committed, group, view, paused, failing, lingered,
                   client, rows, faults>>

Due(w, t) == /\ Batch(w, t) # {}
             /\ Size(w, t) >= BatchSize \/ lingered[w][t]

\* The flush loop moves on to the next topic, and after the last one to the
\* resume loop.
Advance_StopAtFailing(w) ==
    IF turn[w] < Len(TopicOrder) /\ ~failing[w][Topic(w)]
    THEN turn' = [turn EXCEPT ![w] = @ + 1] /\ Goto(w, "flush")
    ELSE turn' = [turn EXCEPT ![w] = 1] /\ Goto(w, "resume")
Advance(w) ==
    IF turn[w] < Len(TopicOrder)
    THEN turn' = [turn EXCEPT ![w] = @ + 1] /\ Goto(w, "flush")
    ELSE turn' = [turn EXCEPT ![w] = 1] /\ Goto(w, "resume")

\* Nothing batched, or neither full nor lingered: `continue`.
Skip(w) ==
    /\ pc[w] = "flush" /\ ~Due(w, Topic(w))
    /\ Advance(w)
    /\ UNCHANGED <<broker, committed, group, consumer, memory, client, rows, faults>>

(* One insert covers the records of one tenant for logs and one trace for  *)
(* traces; it lands as a whole or not at all.  Logs go through the client  *)
(* created at start, traces through a new connection each.                 *)

SameInsert(r, s) == \/ r = s
                    \/ /\ TopicOf[r[1]] = "logs_topic" /\ TopicOf[s[1]] = "logs_topic"
                       /\ TenantOf[content[r]] = TenantOf[content[s]]

Landable_AllOrNothing(w, t) ==
    IF \E r \in Batch(w, t) : content[r] \in Poison THEN {} ELSE Batch(w, t)
Landable(w, t) ==
    {r \in Batch(w, t) :
        /\ t = "logs_topic" => client[w]
        /\ \A s \in Batch(w, t) : SameInsert(r, s) => content[s] \notin Poison}

Land(w, landed) ==
    rows' = [r \in Recs |-> IF r \in landed
                            THEN IF rows[r] + batch[w][r] > 1 THEN 2 ELSE 1
                            ELSE rows[r]]

AllLand_Unchecked(w, t) ==
    (Land(w, Landable(w, t)) \/ UNCHANGED rows) /\ UNCHANGED faults

\* Every insert of the batch lands and reports it.
AllLand(w, t) ==
    /\ Landable(w, t) = Batch(w, t)
    /\ Land(w, Batch(w, t))
    /\ UNCHANGED faults

\* Some insert reports failure.  Without a fault exactly the inserts that can
\* land do; with one, none of them or any of them, with or without its reply.
SomeFail(w, t) ==
    \/ /\ Landable(w, t) # Batch(w, t)
       /\ Land(w, Landable(w, t))
       /\ UNCHANGED faults
    \/ Spend("reject") /\ UNCHANGED rows
    \/ /\ Spend("partial")
       /\ \E landed \in SUBSET Landable(w, t) :
              /\ \A r \in landed, s \in Landable(w, t) : SameInsert(r, s) => s \in landed
              /\ Land(w, landed)

FlushOk(w) ==
    /\ pc[w] = "flush" /\ Due(w, Topic(w))
    /\ AllLand(w, Topic(w))
    /\ Goto(w, "commit")
    /\ UNCHANGED <<broker, committed, group, consumer, memory, client, turn>>

ToPause_None(w, t) == {}
ToPause(w, t) == IF Size(w, t) > MaxBatch THEN Pending(w, t) ELSE {}

\* The batch and its offsets are kept.  Above MAX_BATCH the partitions that
\* contributed are paused; pausing one that is no longer assigned raises.
FlushFail(w) ==
    LET t == Topic(w)
        raises == ~(ToPause(w, t) \subseteq view[w])
    IN  /\ pc[w] = "flush" /\ Due(w, t)
        /\ SomeFail(w, t)
        /\ failing' = [failing EXCEPT ![w][t] = TRUE]
        /\ paused' = [paused EXCEPT ![w] =
                          IF raises THEN @ ELSE @ \cup ToPause(w, t)]
        /\ Goto(w, IF raises THEN "close_flush" ELSE "backoff")
        /\ turn' = [turn EXCEPT ![w] = IF raises THEN 1 ELSE @]
        /\ UNCHANGED <<broker, committed, group, view, pos, batch, pending, lingered, client>>

\* asyncio.sleep ends and st["last"] is set.
BackoffDone(w) ==
    /\ pc[w] = "backoff"
    /\ lingered' = [lingered EXCEPT ![w][Topic(w)] = FALSE]
    /\ Advance(w)
    /\ UNCHANGED <<broker, committed, group, consumer, batch, pending, failing,
                   client, rows, faults>>

\* The broker accepts an offset commit only from a current member, and the
\* consumer only sends one for partitions it has.
MayCommit(w, t) == Pending(w, t) # {} => member[w] /\ Pending(w, t) \subseteq view[w]

ApplyCommit_Last(w, t) ==
    committed' = [p \in Partitions |->
                     IF p \in Pending(w, t) THEN pending[w][p] - 1 ELSE committed[p]]
ApplyCommit(w, t) ==
    committed' = [p \in Partitions |->
                     IF p \in Pending(w, t) THEN pending[w][p] ELSE committed[p]]

CommitOk(w) ==
    LET t == Topic(w) IN
    /\ pc[w] = "commit" /\ MayCommit(w, t)
    /\ ApplyCommit(w, t)
    /\ batch' = [batch EXCEPT ![w] = [r \in Recs |->
                     IF r \in RecsOf(t) THEN 0 ELSE batch[w][r]]]
    /\ pending' = [pending EXCEPT ![w] = [p \in Partitions |->
                     IF p \in PartitionsOf(t) THEN 0 ELSE pending[w][p]]]
    /\ failing' = [failing EXCEPT ![w][t] = FALSE]
    /\ lingered' = [lingered EXCEPT ![w][t] = FALSE]
    /\ Advance(w)
    /\ UNCHANGED <<broker, group, consumer, client, rows, faults>>

\* The commit raises (it was refused, or its reply is lost after it took
\* effect) or the task is cancelled while it waits: `finally`, batch intact.
CommitRaises(w) ==
    LET t == Topic(w) IN
    /\ pc[w] = "commit"
    /\ \/ ~MayCommit(w, t) /\ UNCHANGED <<committed, faults>>
       \/ /\ MayCommit(w, t)
          /\ Spend("commit_error") \/ Spend("cancel_commit")
          /\ ApplyCommit(w, t) \/ UNCHANGED committed
    /\ Goto(w, "close_flush")
    /\ turn' = [turn EXCEPT ![w] = 1]
    /\ UNCHANGED <<broker, group, consumer, memory, client, rows>>

Resume_Never(w) ==
    /\ pc[w] = "resume"
    /\ Goto(w, "poll")
    /\ UNCHANGED <<broker, committed, group, consumer, memory, client, turn, rows, faults>>

\* Partitions whose topic has drained are resumed.
Resume(w) ==
    /\ pc[w] = "resume"
    /\ paused' = [paused EXCEPT ![w] =
           {p \in @ : failing[w][TopicOf[p]] \/ Batch(w, TopicOf[p]) # {}}]
    /\ Goto(w, "poll")
    /\ UNCHANGED <<broker, committed, group, view, pos, memory, client, turn, rows, faults>>

\* `finally`: flush and commit what is left of each topic, then stop.
NextClose(w) ==
    IF turn[w] < Len(TopicOrder)
    THEN /\ turn' = [turn EXCEPT ![w] = @ + 1]
         /\ Goto(w, "close_flush")
         /\ UNCHANGED <<member, consumer, memory>>
    ELSE Exit(w)

CloseFlush(w) ==
    LET t == Topic(w) IN
    /\ pc[w] = "close_flush"
    /\ \/ /\ Batch(w, t) = {}
          /\ NextClose(w)
          /\ UNCHANGED <<rows, faults>>
       \/ /\ Batch(w, t) # {} /\ SomeFail(w, t)
          /\ NextClose(w)
       \/ /\ Batch(w, t) # {} /\ AllLand(w, t)
          /\ Goto(w, "close_commit")
          /\ UNCHANGED <<turn, member, consumer, memory>>
    /\ UNCHANGED <<broker, committed, owner, client>>

CloseCommit(w) ==
    LET t == Topic(w) IN
    /\ pc[w] = "close_commit"
    /\ \/ /\ MayCommit(w, t)
          /\ ApplyCommit(w, t)
          /\ NextClose(w)
          /\ UNCHANGED faults
       \/ /\ ~MayCommit(w, t)
          /\ Exit(w)
          /\ UNCHANGED <<committed, faults>>
       \/ /\ MayCommit(w, t) /\ Spend("commit_error")
          /\ ApplyCommit(w, t) \/ UNCHANGED committed
          /\ Exit(w)
    /\ UNCHANGED <<broker, owner, client, rows>>
-----------------------------------------------------------------------------
Init ==
    /\ content = [r \in Recs |-> NoMessage]
    /\ end = [p \in Partitions |-> 0]
    /\ committed = [p \in Partitions |-> 0]
    /\ owner \in [Partitions -> Workers]
    /\ member = [w \in Workers |-> FALSE]
    /\ view = [w \in Workers |-> {}]
    /\ pos = [w \in Workers |-> [p \in Partitions |-> 0]]
    /\ paused = [w \in Workers |-> {}]
    /\ batch = [w \in Workers |-> [r \in Recs |-> 0]]
    /\ pending = [w \in Workers |-> [p \in Partitions |-> 0]]
    /\ failing = [w \in Workers |-> [t \in Topics |-> FALSE]]
    /\ lingered = [w \in Workers |-> [t \in Topics |-> FALSE]]
    /\ client = [w \in Workers |-> FALSE]
    /\ pc = [w \in Workers |-> "down"]
    /\ turn = [w \in Workers |-> 1]
    /\ rows = [r \in Recs |-> 0]
    /\ faults = [count |-> 0, clean |-> TRUE]

\* What the event loop and the container's restart policy keep going.
Step(w) == \/ Start(w) \/ Poll(w) \/ Skip(w) \/ FlushOk(w) \/ FlushFail(w)
           \/ BackoffDone(w) \/ CommitOk(w) \/ CommitRaises(w) \/ Resume(w)
           \/ CloseFlush(w) \/ CloseCommit(w)

Next ==
    \/ \E p \in Partitions, m \in Messages : Produce(p, m)
    \/ \E w \in Workers, t \in Topics : Linger(w, t)
    \/ Rebalance
    \/ \E w \in Workers : Step(w) \/ Rejoin(w) \/ Crash(w) \/ Cancel(w)

Spec == Init /\ [][Next]_vars

Fairness ==
    /\ WF_vars(Rebalance /\ UNCHANGED faults)
    /\ \A w \in Workers : WF_vars(Step(w)) /\ SF_vars(Rejoin(w))
    /\ \A w \in Workers, t \in Topics : WF_vars(Linger(w, t))

FairSpec == Spec /\ Fairness
-----------------------------------------------------------------------------
(* Invariants.                                                             *)

Labels == {"down", "poll", "flush", "commit", "backoff", "resume",
           "close_flush", "close_commit"}

FaultTallies == [count : 0 .. MaxFaults, clean : BOOLEAN]

\* The type invariant of the broker, the consumer and the worker's `state` dict.
TypeOK ==
    /\ content \in [Recs -> Messages \cup {NoMessage}]
    /\ end \in [Partitions -> 0 .. MaxLog]
    /\ committed \in [Partitions -> 0 .. MaxLog]
    /\ owner \in [Partitions -> Workers]
    /\ member \in [Workers -> BOOLEAN]
    /\ view \in [Workers -> SUBSET Partitions]
    /\ pos \in [Workers -> [Partitions -> 0 .. MaxLog]]
    /\ paused \in [Workers -> SUBSET Partitions]
    /\ batch \in [Workers -> [Recs -> Nat]]
    /\ pending \in [Workers -> [Partitions -> 0 .. MaxLog]]
    /\ failing \in [Workers -> [Topics -> BOOLEAN]]
    /\ lingered \in [Workers -> [Topics -> BOOLEAN]]
    /\ client \in [Workers -> BOOLEAN]
    /\ pc \in [Workers -> Labels]
    /\ turn \in [Workers -> 1 .. 2]
    /\ rows \in [Recs -> 0 .. 2]
    /\ faults \in FaultTallies

Stored(r) == rows[r] > 0

\* No record is lost (ingestion_worker.py 28-31, 39-48: "commit only after a
\* batch is durably written"): below a committed offset every well-formed
\* record has its row, whatever crashed, was rejected or moved in between.
NoLoss == \A r \in WellFormed : r[2] < committed[r[1]] => Stored(r)

\* No record falls between two chairs (46-48: "not committing does not rewind
\* the fetch position"): a record behind a live consumer's position, or below an
\* offset it is about to commit, is stored or still in that worker's batch.
ReadIsKept ==
    \A w \in Workers, r \in WellFormed :
        \/ r[1] \in view[w] /\ r[2] < pos[w][r[1]]
        \/ r[2] < pending[w][r[1]]
        => Stored(r) \/ batch[w][r] > 0

\* The worker's own memory stays bounded while ClickHouse rejects writes
\* (103-109: pausing "instead of growing the heap without bound"): the ceiling
\* plus what one getmany per partition may add before it is paused.
BacklogBounded ==
    \A w \in Workers, t \in Topics :
        Size(w, t) <= MaxBatch + PollMax * Cardinality(PartitionsOf(t))

\* No record of topic t is poison.
Healthy(t) == \A r \in RecsOf(t) : content[r] \notin Poison

\* Without a crash, a partial or unacknowledged write, a failed commit or a
\* rebalance under a live worker no record gets a second row: retries of a wholly
\* rejected batch, the drain in `finally` and a restart after it do not duplicate
\* (121-122: "otherwise a graceful restart replays (and duplicates)").  Poison has
\* the rest of its topic's batch inserted again on every retry.
NoDuplicates ==
    faults.clean => \A r \in Recs : Healthy(TopicOf[r[1]]) => rows[r] <= 1

-----------------------------------------------------------------------------
(* Liveness.                                                               *)

\* Again and again every well-formed record that has come, of a topic that holds no
\* poison, is stored and committed, even if the other topic's flush fails for ever
\* (40-42: a shared deadline "lets a hot topic ... starve a quiet one").
EventuallyCommitted ==
    []<>(\A r \in WellFormed :
            Healthy(TopicOf[r[1]]) => Stored(r) /\ committed[r[1]] > r[2])

\* Again and again no partition of a topic that can be written is paused (113).
EventuallyResumed ==
    []<>(\A w \in Workers : \A p \in paused[w] : ~Healthy(TopicOf[p]))

\* One tenant's unwritable record does not keep the others' records out: each
\* tenant is inserted by itself (134-153), so again and again what a worker still
\* holds is stored or of a tenant that sent poison.
TenantPoison(r) ==
    r \in Produced /\ \E s \in Produced : SameInsert(r, s) /\ content[s] \in Poison
TenantsIsolated ==
    []<>(\A w \in Workers : pc[w] # "down" =>
            \A r \in Recs : batch[w][r] > 0 => Stored(r) \/ TenantPoison(r))

\* "skip it but still acknowledge it so we don't spin on it forever" (73-74): a
\* malformed message is eventually below the committed offset.
MalformedAcknowledged ==
    \A r \in Recs : (r \in Produced /\ content[r] \in Malformed)
                        ~> committed[r[1]] > r[2]

-----------------------------------------------------------------------------
(* The worker implements the at-least-once log.                            *)

Log == INSTANCE AtLeastOnceLog
           WITH stored <- {r \in Recs : Stored(r)}, acked <- committed

AtLeastOnce == Log!ASpec

=============================================================================
