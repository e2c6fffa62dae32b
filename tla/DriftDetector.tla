----------------------------- MODULE DriftDetector -----------------------------
(***************************************************************************)
(* The comparison of two analysis runs: DriftDetector.compare of           *)
(* src/denoiser/analysis/drift.py, and GET /analysis/compare of            *)
(* src/denoiser/api/main.py, which calls it on two stored snapshots.       *)
(*                                                                         *)
(* A cluster is [tokens, size, anomaly, rank]: the token set of its        *)
(* template, its anomaly score in hundredths and the rank of its priority. *)
(* Scores exactly 0.15 apart are left out: there the rounding of floats    *)
(* decides.  A definition X_Y is X with a plausible mistake Y; nothing     *)
(* uses it.                                                                *)
(***************************************************************************)
EXTENDS Naturals, Integers, Sequences, FiniteSets, SequencesExt

CONSTANTS
    ClusterRows,    \* clusters a stored run may have
    MaxRunClusters  \* bound: clusters of a run

ASSUME DriftAssumption ==
    /\ \A c \in ClusterRows : /\ IsFiniteSet(c.tokens) /\ c.size \in Nat
                              /\ c.anomaly \in 0 .. 100 /\ c.rank \in 0 .. 3
    /\ MaxRunClusters \in Nat

VARIABLES
    runA, runB,     \* the clusters of the two runs, in the stored order
    report          \* the events of the comparison; <<>> before it
driftVars == <<runA, runB, report>>

None == 0
IndexOf(run) == 1 .. Len(run)

\* Jaccard similarity as a fraction; two templates without a token are alike.
Similarity(a, b) ==
    LET all == Cardinality(a.tokens \cup b.tokens) IN
    IF all = 0 THEN <<1, 1>> ELSE <<Cardinality(a.tokens \cap b.tokens), all>>
Above(s, t) == s[1] * t[2] > t[1] * s[2]
MatchThreshold == <<2, 5>>

\* Of the clusters of run B not taken yet, the first of those most similar to a.
Nearest(a, free, b) ==
    CHOOSE j \in free : \A k \in free :
        /\ ~Above(Similarity(a, b[k]), Similarity(a, b[j]))
        /\ k < j => Above(Similarity(a, b[j]), Similarity(a, b[k]))

\* Greedy: the clusters of run A choose in their order.  pair[i] is the choice of i.
Candidates_OtherIds(a, b, pair) ==
    {j \in IndexOf(b) \ IndexOf(pair) : Above(Similarity(a, b[j]), MatchThreshold)}
Candidates(a, b, pair) ==
    {j \in IndexOf(b) \ Range(pair) : Above(Similarity(a, b[j]), MatchThreshold)}
ChoiceOf(a, bs, pair) ==
    LET free == Candidates(a, bs, pair) IN IF free = {} THEN None ELSE Nearest(a, free, bs)
Pairing(as, bs) == FoldLeft(LAMBDA pair, a : Append(pair, ChoiceOf(a, bs, pair)), <<>>, as)

\* The first of the five changes that applies.
Kind(a, b) ==
    LET grown == 2 * (b.size - a.size)
        base == IF a.size > 1 THEN a.size ELSE 1 IN
    IF b.rank < a.rank THEN "escalated"
    ELSE IF b.rank > a.rank THEN "de_escalated"
    ELSE IF grown >= base THEN "volume_surge"
    ELSE IF grown <= -base THEN "volume_drop"
    ELSE IF b.anomaly - a.anomaly >= 15 THEN "anomaly_spike" ELSE "stable"

\* 0 is CRITICAL, 3 is LOW.
EventSeverity(kind, rankAfter) ==
    IF kind = "escalated" /\ rankAfter = 0 THEN 0
    ELSE IF kind = "anomaly_spike" \/ (kind \in {"escalated", "emerged"} /\ rankAfter <= 1) THEN 1
    ELSE IF kind \in {"volume_surge", "escalated"} THEN 2 ELSE 3
KindRank ==
    [k \in {"escalated", "emerged", "anomaly_spike", "volume_surge", "resolved",
            "de_escalated", "volume_drop", "stable"} |->
        CASE k = "escalated" -> 0 [] k = "emerged" -> 1 [] k = "anomaly_spike" -> 2
          [] k = "volume_surge" -> 3 [] k = "resolved" -> 4 [] k = "de_escalated" -> 5
          [] k = "volume_drop" -> 6 [] OTHER -> 7]

Event(kind, i, j, rankAfter) ==
    [kind |-> kind, a |-> i, b |-> j, severity |-> EventSeverity(kind, rankAfter)]

\* Pairs, then what is left of A, then what is left of B.
InOrder(S) ==
    CHOOSE s \in [1 .. Cardinality(S) -> S] : \A m, n \in DOMAIN s : m < n => s[m] < s[n]
AllEvents(as, bs) ==
    LET pair == Pairing(as, bs)
        kept == InOrder({i \in IndexOf(as) : pair[i] # None})
        gone == InOrder({i \in IndexOf(as) : pair[i] = None})
        left == InOrder(IndexOf(bs) \ Range(pair))
    IN [n \in DOMAIN kept |->
           LET a == as[kept[n]]  b == bs[pair[kept[n]]] IN
           Event(Kind(a, b), kept[n], pair[kept[n]], b.rank)]
       \o [n \in DOMAIN gone |-> Event("resolved", gone[n], None, 4)]
       \o [n \in DOMAIN left |-> Event("emerged", None, left[n], bs[left[n]].rank)]

\* Sorted by severity and kind, the order of equals kept.
Before(all, m, n) ==
    LET e == all[m]  f == all[n] IN
    \/ e.severity < f.severity
    \/ /\ e.severity = f.severity
       /\ \/ KindRank[e.kind] < KindRank[f.kind]
          \/ KindRank[e.kind] = KindRank[f.kind] /\ m < n
EventOrder(all) ==
    CHOOSE order \in [IndexOf(all) -> IndexOf(all)] :
        \A m, n \in IndexOf(all) : m < n => Before(all, order[m], order[n])
Events(as, bs) ==
    LET all == AllEvents(as, bs)  order == EventOrder(all) IN [n \in IndexOf(all) |-> all[order[n]]]

\* Health of a run, in 600ths per cluster: rank over three and one less the score.
Health(run) ==
    IF run = <<>> THEN <<1, 1>>
    ELSE <<FoldLeft(LAMBDA sum, c : sum + 100 * c.rank + 3 * (100 - c.anomaly), 0, run),
           600 * Len(run)>>
-----------------------------------------------------------------------------
\* The clusters of the two stored runs, then the request that compares them.
DriftInit == runA = <<>> /\ runB = <<>> /\ report = <<>>

Record(c) ==
    /\ report = <<>>
    /\ \/ Len(runA) < MaxRunClusters /\ runA' = Append(runA, c) /\ UNCHANGED runB
       \/ Len(runB) < MaxRunClusters /\ runB' = Append(runB, c) /\ UNCHANGED runA
    /\ UNCHANGED report

Verdict(as, bs) ==
    LET a == Health(as)  b == Health(bs)
        delta == 20 * (b[1] * a[2] - a[1] * b[2])  one == a[2] * b[2] IN
    IF delta > one THEN "improved" ELSE IF delta < -one THEN "degraded" ELSE "stable"

CompareRuns ==
    /\ report = <<>>
    /\ report' = <<[events |-> Events(runA, runB), health |-> Verdict(runA, runB)]>>
    /\ UNCHANGED <<runA, runB>>

DriftNext == CompareRuns \/ \E c \in ClusterRows : Record(c)
DriftSpec == DriftInit /\ [][DriftNext]_driftVars
-----------------------------------------------------------------------------
\* The events of the report, none before the comparison.
Reported == IF report = <<>> THEN <<>> ELSE report[1].events

\* Nothing is lost and nothing told twice: each cluster of either run is in one event
\* of the report.
EveryClusterOnce ==
    report # <<>> =>
        /\ \A i \in IndexOf(runA) : Cardinality({n \in IndexOf(Reported) : Reported[n].a = i}) = 1
        /\ \A j \in IndexOf(runB) : Cardinality({n \in IndexOf(Reported) : Reported[n].b = j}) = 1

\* A pattern is not told as resolved beside a pattern told as new that resembles it
\* enough to be its match: the greedy choice leaves no such pair.
NoMatchMissed ==
    \A m, n \in IndexOf(Reported) :
        Reported[m].kind = "resolved" /\ Reported[n].kind = "emerged"
        => ~Above(Similarity(runA[Reported[m].a], runB[Reported[n].b]), MatchThreshold)

\* A run compared with one that stored the same clusters shows no drift, whatever the
\* order in which greedy matching makes its choices.
SameRunIsStable ==
    report # <<>> /\ runA = runB =>
        /\ \A n \in IndexOf(Reported) : Reported[n].kind = "stable"
        /\ report[1].health = "stable"

\* The report of a comparison tells every change once and no other: the three together.
DriftIsReal == EveryClusterOnce /\ NoMatchMissed /\ SameRunIsStable
=============================================================================
