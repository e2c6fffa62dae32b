--------------------------------- MODULE Triage ---------------------------------
(***************************************************************************)
(* What ranks the clusters of an analysis: the causal links between them   *)
(* (src/denoiser/detection/causal_scorer.py), the label of a template      *)
(* against a baseline (detection/scorer.py) and the priority they add up   *)
(* to (detection/severity.py).                                             *)
(*                                                                         *)
(* Signals are in hundredths, scores in ten-thousandths.  The confidence   *)
(* of a link only orders the links and is left out.  A template has as     *)
(* many records as the deduplicator keeps, a hundred, or fewer.            *)
(* A definition X_Y is X with a plausible mistake Y; nothing uses it.      *)
(***************************************************************************)
EXTENDS Integers, Sequences, FiniteSets

CONSTANTS
    RecordRows,     \* records [cluster, service, time]; time 0 when none was found
    MaxRecords,     \* bound: records of an analysis
    CausalWindow,   \* window_size_ms
    Scores,         \* distances to the baseline; NoScore without a baseline
    NoScore,
    Keywords,       \* keyword classes of the representatives: of "P0", "P1", "none"
    Thresholds,     \* anomaly thresholds [low, medium, high] of the configuration
    CausalFloor     \* least normaliser of the blast radius; 10 in the code

ASSUME TriageAssumption ==
    /\ \A r \in RecordRows : r.cluster \in Nat \cup {-1} /\ r.time \in Nat
    /\ CausalWindow \in Nat /\ CausalFloor \in Nat \ {0}
    /\ Scores \subseteq Int /\ NoScore \notin Scores
    /\ Thresholds.low \in Int /\ Thresholds.medium \in Int /\ Thresholds.high \in Int
    /\ Thresholds.low < Thresholds.medium /\ Thresholds.medium < Thresholds.high

VARIABLES
    records,    \* the records, in the order they are read: file by file
    links,      \* the causal links; unset before the analysis
    score,      \* distance of every template, or NoScore
    keyword     \* the worst keyword of the representatives
triageVars == <<records, links, score, keyword>>

Noise == -1
Unset == {[source |-> Noise]}
ClusterIds == {records[n].cluster : n \in 1 .. Len(records)}
Size_(c) == Cardinality({n \in 1 .. Len(records) : records[n].cluster = c})
-----------------------------------------------------------------------------
\* Records that take part: of a real cluster and with a timestamp, sorted by it.  How
\* records of one time are ordered makes no difference: their delay is 0 either way.
Relevant(r) == r.cluster # Noise /\ r.time > 0
Taking == {n \in 1 .. Len(records) : Relevant(records[n])}
Sorted(order) ==
    \A i, j \in DOMAIN order :
        i < j => order[i] # order[j] /\ records[order[i]].time <= records[order[j]].time
TimeOrders == {order \in [1 .. Cardinality(Taking) -> Taking] : Sorted(order)}
TimeOrder == CHOOSE order \in TimeOrders : TRUE
Timeline == [n \in 1 .. Cardinality(Taking) |-> records[TimeOrder[n]]]

\* A pair of events counts for its two clusters, the smaller id first, with the delay
\* signed by that order.
InWindow_Strict(e, f) == f.time - e.time < CausalWindow
InWindow(e, f) == f.time - e.time <= CausalWindow
Interactions(line) ==
    {p \in (1 .. Len(line)) \X (1 .. Len(line)) :
        LET e == line[p[1]]  f == line[p[2]] IN
        /\ p[1] < p[2] /\ InWindow(e, f)
        /\ e.cluster # f.cluster /\ e.service # f.service}
SignedDelay(e, f) == IF e.cluster < f.cluster THEN f.time - e.time ELSE e.time - f.time

\* The service a cluster is reported under is that of its first record.
ServiceOf(c) ==
    LET n == CHOOSE k \in 1 .. Len(records) : /\ records[k].cluster = c
                                             /\ \A j \in 1 .. k - 1 : records[j].cluster # c
    IN records[n].service

Link(c, d, delays) ==
    LET forward == Cardinality({p \in DOMAIN delays : delays[p] > 0})
                       >= Cardinality({p \in DOMAIN delays : delays[p] < 0}) IN
    [source |-> IF forward THEN c ELSE d, target |-> IF forward THEN d ELSE c,
     service |-> ServiceOf(IF forward THEN d ELSE c),
     occurrences |-> Cardinality(DOMAIN delays)]
LinksOf(line, found) ==
    LET Of(q) == {p \in found : {line[p[1]].cluster, line[p[2]].cluster} = {q[1], q[2]}} IN
    {Link(q[1], q[2], [p \in Of(q) |-> SignedDelay(line[p[1]], line[p[2]])]) :
        q \in {r \in ClusterIds \X ClusterIds : r[1] < r[2] /\ Cardinality(Of(r)) >= 2}}
CausalLinks ==
    LET line == Timeline IN
    IF Cardinality(ClusterIds) < 2 THEN {} ELSE LinksOf(line, Interactions(line))
-----------------------------------------------------------------------------
Label(d) ==
    IF d >= Thresholds.high THEN "high_risk_anomaly"
    ELSE IF d >= Thresholds.medium THEN "new_pattern"
    ELSE IF d >= Thresholds.low THEN "rare_known" ELSE "known"
Boost(d) ==
    CASE Label(d) = "high_risk_anomaly" -> 15 [] Label(d) = "new_pattern" -> 5
      [] Label(d) = "known" -> -10 [] OTHER -> 0
Clamp(n) == IF n < 0 THEN 0 ELSE IF n > 100 THEN 100 ELSE n
AnomalySignal(d) == IF d = NoScore THEN 50 ELSE Clamp(d + Boost(d))

\* log1p of the percentage, normalised, for n of total lines.
VolumeSignal(n, total) ==
    LET twelfth == (12 * n) \div total IN
    CASE twelfth = 0 -> 0 [] twelfth \in 1 .. 3 -> 71 [] twelfth \in 4 .. 5 -> 77
      [] twelfth \in 6 .. 7 -> 85 [] twelfth = 8 -> 91 [] twelfth \in 9 .. 11 -> 94
      [] OTHER -> 100

\* Distinct downstream services over the number of clusters.
BlastRadius(c) == Cardinality({l.service : l \in {k \in links : k.source = c}})
CausalSignal(n, clusters) ==
    Clamp((100 * n) \div (IF clusters > CausalFloor THEN clusters ELSE CausalFloor))
KeywordSignal(k) == CASE k = "P0" -> 100 [] k = "P1" -> 50 [] OTHER -> 0

Composite(d, volume, causal, noise, k) ==
    LET sum == 35 * AnomalySignal(d) + 20 * volume + 25 * causal
               + (IF noise THEN 1000 ELSE 0) + 10 * KeywordSignal(k) IN
    IF k = "P0" /\ sum < 8000 THEN 8000 ELSE sum

\* 0 is P0.
Priority(composite) ==
    IF composite >= 8000 THEN 0 ELSE IF composite >= 5500 THEN 1
    ELSE IF composite >= 3000 THEN 2 ELSE 3

PriorityOf(c) ==
    Priority(Composite(score, VolumeSignal(Size_(c), Len(records)),
                       CausalSignal(BlastRadius(c), Cardinality(ClusterIds)), c = Noise, keyword))
-----------------------------------------------------------------------------
TriageInit == records = <<>> /\ links = Unset /\ score = NoScore /\ keyword = "none"

\* The files of the request are read one after the other; a file is a service.
ReadRecord(r) ==
    /\ links = Unset /\ Len(records) < MaxRecords
    /\ \A n \in 1 .. Len(records) :
         records[n].service = r.service =>
             \A m \in n .. Len(records) : records[m].service = r.service
    /\ records' = Append(records, r)
    /\ UNCHANGED <<links, score, keyword>>

ScoreClusters(d, k) ==
    /\ links = Unset /\ records # <<>>
    /\ links' = CausalLinks /\ score' = d /\ keyword' = k
    /\ UNCHANGED records

TriageNext ==
    \/ \E r \in RecordRows : ReadRecord(r)
    \/ \E d \in Scores \cup {NoScore}, k \in Keywords : ScoreClusters(d, k)
TriageSpec == TriageInit /\ [][TriageNext]_triageVars
-----------------------------------------------------------------------------
\* The sliding window over the sorted timeline finds, in whatever order the records
\* were read, the pairs of records of two clusters in two services at most a window
\* apart; two of them make a link, and it points from the cluster that leads in more.
Pairs(c, d) ==
    {p \in (1 .. Len(records)) \X (1 .. Len(records)) :
        LET e == records[p[1]]  f == records[p[2]] IN
        /\ e.cluster = c /\ f.cluster = d /\ e.time > 0 /\ f.time > 0
        /\ e.service # f.service
        /\ e.time - f.time <= CausalWindow /\ f.time - e.time <= CausalWindow}
Leads(c, d) ==
    Cardinality({p \in Pairs(c, d) : records[p[1]].time < records[p[2]].time})
LinksAreCoincidences ==
    links # Unset => \A c, d \in ClusterIds \ {Noise} : c < d =>
        LET between == {l \in links : {l.source, l.target} = {c, d}} IN
        IF Cardinality(Pairs(c, d)) < 2 THEN between = {}
        ELSE /\ Cardinality(between) = 1
             /\ \A l \in between :
                  /\ l.occurrences = Cardinality(Pairs(c, d))
                  /\ Leads(l.source, l.target) >= Leads(l.target, l.source)

\* Worse evidence never gives a milder priority: a larger distance, whose label changes
\* on the way, a larger cluster, more services downstream, a worse keyword.
Worse(j, k) == j = k \/ j = "none" \/ k = "P0"
TriageMonotone ==
    links # Unset =>
    \A c \in ClusterIds, e \in Scores, v \in {0, 50, 100}, k \in {"P0", "P1", "none"} :
        LET volume == VolumeSignal(Size_(c), Len(records))
            causal == CausalSignal(BlastRadius(c), Cardinality(ClusterIds)) IN
        /\ score # NoScore /\ e >= score /\ Worse(keyword, k)
        => Priority(Composite(e, IF v > volume THEN v ELSE volume, causal, c = Noise, k))
               <= PriorityOf(c)

\* A P0 pages somebody.  Without a keyword that demands it, it takes a baseline and a
\* real cluster: the links leave the noise bucket out, and what is left of the signals
\* does not add up.
PageNeedsEvidence ==
    links # Unset => \A c \in ClusterIds :
        PriorityOf(c) = 0 /\ keyword # "P0" => score # NoScore /\ c # Noise

\* A priority, and a link, follow from the evidence: the three together.
TriageIsJustified == LinksAreCoincidences /\ TriageMonotone /\ PageNeedsEvidence
=============================================================================
