------------------------- MODULE MCIngestionWorker -------------------------
(* Small instances of IngestionWorker for TLC.                             *)
EXTENDS IngestionWorker, TLC

CONSTANTS w1, w2, l1, t1, good, other, bad, sick, none

\* Tenant of each content: "other" belongs to a second tenant.
MCTenantOf == [m \in Messages |-> IF m = other THEN "B" ELSE "A"]

\* One partition per topic.
OnePerTopic == l1 :> "logs_topic" @@ t1 :> "traces_topic"

\* A single partition.
OneLog == l1 :> "logs_topic"

AllFaults == Faults

\* The traces topic is the quiet one, with one record at most.
QuietTraces == t1 \in Partitions => end'[t1] <= 1
QuietSpec == Init /\ [][Next /\ QuietTraces]_vars /\ Fairness
=============================================================================
