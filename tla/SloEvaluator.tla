----------------------------- MODULE SloEvaluator -----------------------------
(***************************************************************************)
(* The minute tick that evaluates the service level objectives and opens   *)
(* incidents for them: evaluate_slos of                                    *)
(* src/denoiser/workers/analysis_worker.py, the incident endpoints that    *)
(* resolve and reopen, the SLO endpoints of src/denoiser/api/slo.py.       *)
(*                                                                         *)
(* Celery beat queues a tick every minute, whether or not the last one has *)
(* ended, so ticks overlap.  Each has a session; its uncommitted rows are  *)
(* invisible to the others, and its queries do not flush them.  Measured   *)
(* values are random in the code (458, 463): a choice here.                *)
(* A definition X_Y is X with a plausible mistake Y; nothing uses it.      *)
(***************************************************************************)
EXTENDS RunbookEngine

CONSTANTS
    Slos,          \* service level objectives, each with a name of its own
    Ticks,         \* calls of evaluate_slos
    SloIncidents,  \* incidents it may open
    NoIncident,    \* not an incident
    MinPoints,     \* data points from which a forecast is made; 10 in the code
    MaxSloFaults   \* bound: failed queries, failed commits, dead workers

ASSUME SloAssumption == 
    /\ SloIncidents \subseteq Incidents /\ NoIncident \notin Incidents
    /\ MinPoints \in Nat /\ MaxSloFaults \in Nat

VARIABLES
    slo,        \* slo[s]: "none", "live" or "deleted"
    about,      \* about[i]: [slo, kind] an incident was opened for
    tick,       \* tick[k]: [phase, rest, slo, kind, found, current, pending]
    points,     \* points[s]: committed data points
    evaluated,  \* history: evaluated[k]: objectives k has measured
    kept,       \* history: kept[k]: objectives whose point of tick k is committed
    overlapped, \* history: two ticks ran at once
    reopened,   \* history: a resolved incident was reopened
    sloFaults

sloVars == <<slo, about, tick, points, evaluated, kept, overlapped, reopened, sloFaults>>
sloAll == <<sloVars, runbookVars>>

Kinds == {"breach", "predictive"}
NoTick == [phase |-> "none", rest |-> {}, slo |-> CHOOSE s \in Slos : TRUE, kind |-> "breach",
           found |-> NoIncident, current |-> NoIncident, pending |-> {}]

\* Some objectives have been measured for a while.
SloInit ==
    /\ RunbookInit
    /\ \E old \in SUBSET Slos :
         /\ slo = [s \in Slos |-> IF s \in old THEN "live" ELSE "none"]
         /\ points = [s \in Slos |-> IF s \in old THEN MinPoints ELSE 0]
    /\ about = [i \in Incidents |-> [slo |-> CHOOSE s \in Slos : TRUE, kind |-> "breach"]]
    /\ tick = [k \in Ticks |-> NoTick]
    /\ evaluated = [k \in Ticks |-> {}]
    /\ kept = [k \in Ticks |-> {}]
    /\ overlapped = FALSE /\ reopened = FALSE
    /\ sloFaults = 0

OpenFor(s, kind) ==
    {i \in Incidents : incident[i] = "OPEN" /\ about[i] = [slo |-> s, kind |-> kind]}
Busy(k) == tick[k].phase \notin {"none", "done", "dead"}
SloFault == sloFaults < MaxSloFaults /\ sloFaults' = sloFaults + 1
In(k, p) == tick[k].phase = p
-----------------------------------------------------------------------------
StartTick(k) ==
    /\ In(k, "none")
    /\ tick' = [tick EXCEPT ![k].phase = "looping", ![k].rest = {s \in Slos : slo[s] = "live"}]
    /\ overlapped' = (overlapped \/ \E j \in Ticks : Busy(j))
    /\ UNCHANGED <<slo, about, points, evaluated, kept, reopened, sloFaults, runbookVars>>

\* One objective is measured.  Below its target, or forecast to fall below it, the
\* incident already open for it is looked up by title and status.
Lookup_OtherTitle(s, kind) ==
    {i \in Incidents : incident[i] = "OPEN" /\ about[i].slo = s /\ about[i].kind # kind}
Lookup(s, kind) == OpenFor(s, kind)
Measure(k, s, outcome) ==
    /\ In(k, "looping") /\ s \in tick[k].rest
    /\ outcome = "predictive" => points[s] >= MinPoints
    /\ \E i \in IF outcome = "good" \/ Lookup(s, outcome) = {}
                THEN {NoIncident} ELSE Lookup(s, outcome) :
         tick' = [tick EXCEPT ![k] =
             [tick[k] EXCEPT !.rest = @ \ {s}, !.pending = @ \cup {s},
                       !.phase = IF outcome = "good" THEN "looping" ELSE "found",
                       !.slo = s, !.kind = outcome, !.found = i]]
    /\ evaluated' = [evaluated EXCEPT ![k] = @ \cup {s}]
    /\ UNCHANGED <<slo, about, points, kept, overlapped, reopened, sloFaults, runbookVars>>

\* ClickHouse raises: logged, and on to the next objective.
FailMeasure(k, s) ==
    /\ In(k, "looping") /\ s \in tick[k].rest /\ SloFault
    /\ tick' = [tick EXCEPT ![k].rest = @ \ {s}]
    /\ UNCHANGED <<slo, about, points, evaluated, kept, overlapped, reopened, runbookVars>>

\* A commit makes the session's pending points visible.
CommitPoints(k) ==
    /\ points' = [s \in Slos |-> points[s] + (IF s \in tick[k].pending THEN 1 ELSE 0)]
    /\ kept' = [kept EXCEPT ![k] = @ \cup tick[k].pending]

\* An open breach incident is refreshed and committed; if its row is gone the
\* update matches nothing, which fails the commit.  An open warning is left alone.
Refresh(k) ==
    /\ In(k, "found") /\ tick[k].found # NoIncident
    /\ IF tick[k].kind = "breach"
       THEN /\ incident[tick[k].found] # "deleted"
            /\ CommitPoints(k)
            /\ tick' = [tick EXCEPT ![k].phase = "looping", ![k].pending = {}]
       ELSE /\ tick' = [tick EXCEPT ![k].phase = "looping"]
            /\ UNCHANGED <<points, kept>>
    /\ UNCHANGED <<slo, about, evaluated, overlapped, reopened, sloFaults, runbookVars>>

\* None was found: a new incident is inserted and committed.
OpenIncident(k, i) ==
    /\ In(k, "found") /\ tick[k].found = NoIncident
    /\ incident[i] = "none"
    /\ incident' = [incident EXCEPT ![i] = "OPEN"]
    /\ about' = [about EXCEPT ![i] = [slo |-> tick[k].slo, kind |-> tick[k].kind]]
    /\ CommitPoints(k)
    /\ tick' = [tick EXCEPT ![k].phase = "runbooks", ![k].current = i, ![k].pending = {}]
    /\ UNCHANGED <<slo, evaluated, overlapped, reopened, sloFaults,
                   runbook, engine, execution, stepsDone, removals>>

\* A commit that fails leaves the session unusable until it is rolled back, which
\* happens once, at the end: the other objectives of the tick fail too.
SpoilSession(k) ==
    /\ In(k, "found")
    /\ \/ /\ tick[k].found # NoIncident /\ tick[k].kind = "breach"
          /\ incident[tick[k].found] = "deleted" /\ UNCHANGED sloFaults
       \/ SloFault
    /\ tick' = [tick EXCEPT ![k].phase = "spoiled", ![k].rest = {}]
    /\ UNCHANGED <<slo, about, points, evaluated, kept, overlapped, reopened, runbookVars>>

\* The runbooks of the new incident, whose commits are the session's too.
RunbooksOfTick(k) ==
    /\ In(k, "runbooks")
    /\ BeginCall(tick[k].current) \/ EngineStep(tick[k].current)
    /\ UNCHANGED sloVars
AfterRunbooks(k) ==
    /\ In(k, "runbooks") /\ engine[tick[k].current].phase \in {"returned", "raised"}
    /\ tick' = [tick EXCEPT ![k].phase = "looping"]
    /\ UNCHANGED <<slo, about, points, evaluated, kept, overlapped, reopened, sloFaults,
                   runbookVars>>

\* The points of the objectives that were met are committed with the last commit.
FinishTick(k) ==
    /\ In(k, "looping") /\ tick[k].rest = {}
    /\ CommitPoints(k)
    /\ tick' = [tick EXCEPT ![k].phase = "done", ![k].pending = {}]
    /\ UNCHANGED <<slo, about, evaluated, overlapped, reopened, sloFaults, runbookVars>>
RollBack(k) ==
    /\ In(k, "spoiled")
    /\ tick' = [tick EXCEPT ![k].phase = "dead", ![k].pending = {}]
    /\ UNCHANGED <<slo, about, points, evaluated, kept, overlapped, reopened, sloFaults,
                   runbookVars>>

KillTick(k) ==
    /\ tick[k].phase \in {"looping", "found"} /\ SloFault
    /\ tick' = [tick EXCEPT ![k].phase = "dead", ![k].pending = {}]
    /\ UNCHANGED <<slo, about, points, evaluated, kept, overlapped, reopened, runbookVars>>
KillInRunbooks(k) ==
    /\ In(k, "runbooks") /\ EngineCrash(tick[k].current)
    /\ tick' = [tick EXCEPT ![k].phase = "dead"]
    /\ UNCHANGED <<slo, about, points, evaluated, kept, overlapped, reopened, sloFaults>>

-----------------------------------------------------------------------------
ResolveSloIncident(i, resolved) ==
    /\ incident[i] \in {"OPEN", "RESOLVED"}
    /\ incident' = [incident EXCEPT ![i] = IF resolved THEN "RESOLVED" ELSE "OPEN"]
    /\ reopened' = (reopened \/ ~resolved)
    /\ UNCHANGED <<slo, about, tick, points, evaluated, kept, overlapped, sloFaults,
                   runbook, engine, execution, stepsDone, removals>>

\* POST /slos.
CreateSlo(s) ==
    /\ slo[s] = "none"
    /\ slo' = [slo EXCEPT ![s] = "live"]
    /\ UNCHANGED <<about, tick, points, evaluated, kept, overlapped, reopened, sloFaults,
                   runbookVars>>

\* DELETE /slos/{id}: its points and incidents stay; a tick under way keeps its list.
DeleteSlo(s) ==
    /\ slo[s] = "live" /\ Remove
    /\ slo' = [slo EXCEPT ![s] = "deleted"]
    /\ UNCHANGED <<about, tick, points, evaluated, kept, overlapped, reopened, sloFaults,
                   runbook, incident, engine, execution, stepsDone>>

TickStep(k) ==
    \/ Refresh(k) \/ SpoilSession(k) \/ RunbooksOfTick(k) \/ AfterRunbooks(k)
    \/ FinishTick(k) \/ RollBack(k)
    \/ \E i \in SloIncidents : OpenIncident(k, i)
    \/ \E s \in Slos, o \in {"good"} \cup Kinds : Measure(k, s, o)
SloNext ==
    \/ \E k \in Ticks : StartTick(k) \/ TickStep(k) \/ KillTick(k) \/ KillInRunbooks(k)
    \/ \E k \in Ticks, s \in Slos : FailMeasure(k, s)
    \/ \E i \in Incidents, b \in BOOLEAN : ResolveSloIncident(i, b)
    \/ \E s \in Slos : CreateSlo(s) \/ DeleteSlo(s)
    \/ RunbookApi /\ UNCHANGED sloVars

SloSpec == SloInit /\ [][SloNext]_sloAll
-----------------------------------------------------------------------------
\* "Dedup: one OPEN breach incident per SLO" (analysis_worker.py 469): at most one
\* breach and one warning are OPEN for an objective, unless two ticks were at work
\* at once, or somebody reopened a resolved incident.
OneOpenUnlessRaced ==
    ~overlapped /\ ~reopened =>
        \A s \in Slos, kind \in Kinds : Cardinality(OpenFor(s, kind)) <= 1

\* Each tick that runs to its end has added one data point for every objective it
\* measured, whether or not the measure opened incidents, ran runbooks that failed,
\* or met an incident deleted meanwhile; error budgets are sums over these points.
EveryMeasureKept ==
    \A k \in Ticks : In(k, "done") => kept[k] = evaluated[k]

\* A breach is neither told twice nor forgotten: the two together.
BreachesAreRecorded == OneOpenUnlessRaced /\ EveryMeasureKept
=============================================================================
