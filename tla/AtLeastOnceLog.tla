--------------------------- MODULE AtLeastOnceLog ---------------------------
(***************************************************************************)
(* What the ingestion path promises: records appended to partitioned       *)
(* topics are written to ClickHouse at least once.  An offset may be       *)
(* acknowledged only when every well-formed record below it is stored, and *)
(* a stored record is never taken back.  Nothing is said of how records    *)
(* are batched, retried, duplicated or re-read, nor that acknowledged      *)
(* offsets only grow.  IngestionWorker implements this module.             *)
(***************************************************************************)
EXTENDS Naturals

CONSTANTS Partitions,   \* topic-partitions of the two topics
          MaxLog,       \* bound on the number of records of a partition
          Messages,     \* message contents the producers can send
          Malformed,    \* the contents json.loads (or .pop) refuses
          NoMessage     \* content of an offset that is not produced yet

VARIABLES content,   \* content[r]: what was produced at record r = <<p, o>>
          end,       \* end[p]: number of records produced to p
          stored,    \* records that have at least one row in ClickHouse
          acked      \* acked[p]: all offsets below it are acknowledged

avars == <<content, end, stored, acked>>

Recs == Partitions \X (0 .. MaxLog - 1)
Produced == {r \in Recs : r[2] < end[r[1]]}
WellFormed == {r \in Produced : content[r] \notin Malformed}

\* Everything below offset n of p that can be stored has been stored.
StoredBelow(p, n) == \A r \in WellFormed : r[1] = p /\ r[2] < n => r \in stored

AInit == /\ content = [r \in Recs |-> NoMessage]
         /\ end = [p \in Partitions |-> 0]
         /\ stored = {}
         /\ acked = [p \in Partitions |-> 0]

AProduce(p, m) ==
    /\ end[p] < MaxLog
    /\ content' = [content EXCEPT ![<<p, end[p]>>] = m]
    /\ end' = [end EXCEPT ![p] = @ + 1]
    /\ UNCHANGED <<stored, acked>>

AStore ==
    /\ stored \subseteq stored'
    /\ stored' \subseteq WellFormed
    /\ UNCHANGED <<content, end, acked>>

AAcknowledge ==
    /\ acked' \in [Partitions -> 0 .. MaxLog]
    /\ \A p \in Partitions : acked'[p] # acked[p] => StoredBelow(p, acked'[p])
    /\ UNCHANGED <<content, end, stored>>

ANext == \/ \E p \in Partitions, m \in Messages : AProduce(p, m)
         \/ AStore
         \/ AAcknowledge

ASpec == AInit /\ [][ANext]_avars
=============================================================================
