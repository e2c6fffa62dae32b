---------------------------- MODULE TenantDocuments ----------------------------
(***************************************************************************)
(* What operators keep in the platform: dashboards, notebooks, monitors,   *)
(* metric rules, integrations, deployment markers, objectives and saved    *)
(* queries (src/denoiser/api/*.py), and the data of a dashboard's         *)
(* widgets, computed from the tenant's incidents.                          *)
(*                                                                         *)
(* Tenant 0 is none.  An update loads its row, sets the fields it was      *)
(* given and commits: the session writes the fields whose value changed.   *)
(* Time is counted in half days.                                           *)
(* A definition X_Y is X with a plausible mistake Y; nothing uses it.      *)
(***************************************************************************)
EXTENDS Integers, FiniteSets, FiniteSetsExt, Functions, Sequences

CONSTANTS
    Kinds, Owners,       \* kinds of documents there are; tenants, with 0
    Edits, Texts,        \* updates in flight; values of a field
    DefaultSpan, MaxDays,  \* of time_series: 14 and 90 days
    Bands, MaxScore,     \* lower ends of the severity bands, highest first; a score is a Nat
    MaxDocs, MaxUpdates, MaxIncidents   \* bounds

ASSUME DocAssumption ==
    /\ MaxDays \in Nat \ {0} /\ DefaultSpan \in Nat /\ MaxScore \in Nat
    /\ Bands \in Seq(Nat) /\ Bands # <<>> /\ Bands[Len(Bands)] = 0
    /\ \A m, n \in DOMAIN Bands : m < n => Bands[m] > Bands[n]

VARIABLES
    docs,      \* documents [id, kind, tenant, name, body]; body: layout, cells, muted_until, ...
    edit,      \* edit[x]: [on, who, id, seen, sets] of an update in flight
    incidents, \* [at, resolved, score] of the tenant that looks
    now_,      \* half days since the first
    shown,     \* the widget's answer
    made, updates,   \* history: documents made, updates begun
    last       \* history: last[d][f], the value last put into a field by a commit
docVars == <<docs, edit, incidents, now_, shown, made, updates, last>>

Fields == {"name", "body"}
\* Who sees a document is written twice, in the query of the list and in the test of
\* its detail, update and delete; saved queries are everybody's.
Scoped == {"dashboard", "integration", "deployment", "slo"}
ScopedList(d, u) == d.tenant = u
ScopedPass(d, u) == d.tenant = u
NotebookList(d, u) == u = 0 \/ d.tenant \in {u, 0}
NotebookPass(d, u) == ~ (u # 0 /\ d.tenant # 0 /\ d.tenant # u)
RuleList(d, u) == u = 0 \/ d.tenant \in {u, 0}
RulePass(d, u) == ~ (u # 0 /\ d.tenant # 0 /\ d.tenant # u)
MonitorList(d, u) == u = 0 \/ d.tenant = u
MonitorPass(d, u) == ~ (u # 0 /\ d.tenant # u)

Listed(kind, u) ==
    {d \in docs : d.kind = kind /\
        /\ kind \in Scoped => ScopedList(d, u)
        /\ kind = "notebook" => NotebookList(d, u)
        /\ kind = "metric rule" => RuleList(d, u)
        /\ kind = "monitor" => MonitorList(d, u)}
Passes(d, u) ==
    /\ d.kind \in Scoped => ScopedPass(d, u)
    /\ d.kind = "notebook" => NotebookPass(d, u)
    /\ d.kind = "metric rule" => RulePass(d, u)
    /\ d.kind = "monitor" => MonitorPass(d, u)
-----------------------------------------------------------------------------
\* The series of incidents a day: as many days as the span touches, at most MaxDays, and
\* the incidents since its start that fall into one of them.
Day(h) == h \div 2
DaysOf_Between(since) == Min({MaxDays, Max({1, Day(now_) - Day(since)})})
DaysOf(since) == Min({MaxDays, Max({1, Day(now_) - Day(since) + 1})})
Series(since) ==
    [d \in Day(now_) - DaysOf(since) + 1 .. Day(now_) |->
        Cardinality({i \in incidents : i.at >= since /\ Day(i.at) = d})]
\* The slices of the pie: from each lower end up to the one above it.
SliceOf(n) ==
    {i \in incidents : i.score >= Bands[n] /\ (n = 1 \/ i.score < Bands[n - 1])}
\* Weekdays from Monday, as the heat map wants them, of days counted from a Sunday.
Weekday(h) == ((Day(h) % 7) - 1) % 7
Cells == {<<Weekday(i.at), Cardinality({j \in incidents : Weekday(j.at) = Weekday(i.at)})>> :
             i \in incidents}
Pie == [n \in DOMAIN Bands |-> Cardinality(SliceOf(n))]
Nothing == [widget |-> "none", since |-> 0, series |-> <<>>, slices |-> <<>>, total |-> 0, resolved |-> 0]

DocInit ==
    /\ docs = {} /\ incidents = {} /\ now_ \in {0, 1} /\ shown = Nothing /\ made = 0 /\ updates = 0
    /\ edit = [x \in Edits |-> [on |-> FALSE]] /\ last = <<>>

CreateDocument(kind, u) ==
    /\ made < MaxDocs /\ incidents = {} /\ kind \in Kinds /\ made' = made + 1
    /\ LET d == [id |-> made + 1, kind |-> kind, tenant |-> u, name |-> 0, body |-> 0] IN
       /\ docs' = docs \cup {d} /\ last' = Append(last, [f \in Fields |-> 0])
    /\ UNCHANGED <<edit, incidents, now_, shown, updates>>
CreateDashboard(u) == CreateDocument("dashboard", u)
CreateNotebook(u) == CreateDocument("notebook", u)
CreateMonitor(u) == CreateDocument("monitor", u)
CreateMetricRule(u) == CreateDocument("metric rule", u)
CreateIntegration(u) == CreateDocument("integration", u)
CreateDeployment(u) == CreateDocument("deployment", u)
CreateSlo(u) == CreateDocument("slo", u)
CreateSavedQuery(u) == CreateDocument("saved query", u)
Create(u) ==
    \/ CreateDashboard(u) \/ CreateNotebook(u) \/ CreateMonitor(u) \/ CreateMetricRule(u)
    \/ CreateIntegration(u) \/ CreateDeployment(u) \/ CreateSlo(u) \/ CreateSavedQuery(u)

DeleteDocument(d, kind, u) ==
    /\ d \in docs /\ d.kind = kind /\ Passes(d, u) /\ docs' = docs \ {d}
    /\ UNCHANGED <<edit, incidents, now_, shown, made, updates, last>>
DeleteDashboard(d, u) == DeleteDocument(d, "dashboard", u)
DeleteNotebook(d, u) == DeleteDocument(d, "notebook", u)
DeleteMonitor(d, u) == DeleteDocument(d, "monitor", u)
DeleteMetricRule(d, u) == DeleteDocument(d, "metric rule", u)
DeleteIntegration(d, u) == DeleteDocument(d, "integration", u)
DeleteSlo(d, u) == DeleteDocument(d, "slo", u)
DeleteSavedQuery(d, u) == DeleteDocument(d, "saved query", u)
Delete(d, u) ==
    \/ DeleteDashboard(d, u) \/ DeleteNotebook(d, u) \/ DeleteMonitor(d, u)
    \/ DeleteMetricRule(d, u) \/ DeleteIntegration(d, u) \/ DeleteSlo(d, u)
    \/ DeleteSavedQuery(d, u)

\* sets: the fields given, and their values.
BeginUpdate(x, d, u, sets) ==
    /\ ~edit[x].on /\ updates < MaxUpdates /\ updates' = updates + 1
    /\ d \in docs /\ Passes(d, u)
    /\ edit' = [edit EXCEPT ![x] = [on |-> TRUE, seen |-> d, sets |-> sets]]
    /\ UNCHANGED <<docs, incidents, now_, shown, made, last>>
UpdateDashboard(x, d, u, sets) == d.kind = "dashboard" /\ BeginUpdate(x, d, u, sets)
UpdateNotebook(x, d, u, sets) == d.kind = "notebook" /\ BeginUpdate(x, d, u, sets)
UpdateMonitor(x, d, u, sets) == d.kind = "monitor" /\ BeginUpdate(x, d, u, sets)
\* Muting sets the end of it, or clears it.
MuteMonitor(x, d, u, until) ==
    d.kind = "monitor" /\ BeginUpdate(x, d, u, [f \in {"body"} |-> until])
\* A given field with the value it had is no change; a row that is gone is an error.
Changed(x) == {f \in DOMAIN edit[x].sets : edit[x].sets[f] # edit[x].seen[f]}
Written_WholeRow(x, d) ==
    [f \in DOMAIN d |-> IF f \in Changed(x) THEN edit[x].sets[f] ELSE edit[x].seen[f]]
Written_(x, d) == [f \in DOMAIN d |-> IF f \in Changed(x) THEN edit[x].sets[f] ELSE d[f]]
CommitUpdate(x) ==
    /\ edit[x].on /\ edit' = [edit EXCEPT ![x] = [on |-> FALSE]]
    /\ LET id == edit[x].seen.id
           present == {d \in docs : d.id = id} IN
       /\ docs' = (docs \ present) \cup {Written_(x, d) : d \in present}
       /\ last' = IF present = {} THEN last
                  ELSE [last EXCEPT ![id] =
                          [f \in Fields |-> IF f \in Changed(x) THEN edit[x].sets[f] ELSE last[id][f]]]
    /\ UNCHANGED <<incidents, now_, shown, made, updates>>

\* The widgets are looked at apart from the documents.
LaterDay == now_ < 2 * MaxDays + 1 /\ docs = {} /\ now_' = now_ + 1
            /\ UNCHANGED <<docs, edit, incidents, shown, made, updates, last>>
OpenOne(score) ==
    /\ Cardinality(incidents) < MaxIncidents /\ made = 0
    /\ incidents' = incidents \cup {[at |-> now_, resolved |-> FALSE, score |-> score]}
    /\ UNCHANGED <<docs, edit, now_, shown, made, updates, last>>
ResolveOne(i) ==
    /\ i \in incidents /\ incidents' = (incidents \ {i}) \cup {[i EXCEPT !.resolved = TRUE]}
    /\ UNCHANGED <<docs, edit, now_, shown, made, updates, last>>
\* The picker sends a start or not.
ShowSeries(picked) ==
    LET since == IF picked # {} THEN Min(picked) ELSE now_ - 2 * DefaultSpan IN
    /\ incidents # {}
    /\ shown' = [Nothing EXCEPT !.widget = "series", !.since = since, !.series = Series(since)]
    /\ UNCHANGED <<docs, edit, incidents, now_, made, updates, last>>
ShowPie ==
    /\ incidents # {} /\ shown' = [Nothing EXCEPT !.widget = "pie", !.slices = Pie]
    /\ UNCHANGED <<docs, edit, incidents, now_, made, updates, last>>
ShowHeatmap ==
    /\ incidents # {}
    /\ shown' = [Nothing EXCEPT !.widget = "heatmap", !.total = Max({c[2] : c \in Cells})]
    /\ UNCHANGED <<docs, edit, incidents, now_, made, updates, last>>
\* The gauge counts twice: all of them, then those that are resolved.
CountAll ==
    /\ shown' = [Nothing EXCEPT !.widget = "counting", !.total = Cardinality(incidents)]
    /\ UNCHANGED <<docs, edit, incidents, now_, made, updates, last>>
ShowGauge ==
    /\ shown.widget = "counting"
    /\ shown' = [shown EXCEPT !.widget = "gauge",
                              !.resolved = Cardinality({i \in incidents : i.resolved})]
    /\ UNCHANGED <<docs, edit, incidents, now_, made, updates, last>>

GivenFields == UNION {[fs -> Texts] : fs \in (SUBSET Fields) \ {{}}}
DocNext ==
    \/ \E u \in Owners : Create(u)
    \/ \E d \in docs, u \in Owners :
         \/ Delete(d, u)
         \/ \E x \in Edits, sets \in GivenFields :
              UpdateDashboard(x, d, u, sets) \/ UpdateNotebook(x, d, u, sets)
                \/ UpdateMonitor(x, d, u, sets)
         \/ \E x \in Edits, until \in Texts : MuteMonitor(x, d, u, until)
    \/ \E x \in Edits : CommitUpdate(x)
    \/ LaterDay \/ \E score \in 0 .. MaxScore : OpenOne(score)
    \/ \E i \in incidents : ResolveOne(i)
    \/ ShowSeries({}) \/ \E since \in 0 .. now_ : ShowSeries({since})
    \/ ShowPie \/ ShowHeatmap \/ CountAll \/ ShowGauge
DocSpec == DocInit /\ [][DocNext]_docVars
-----------------------------------------------------------------------------
\* Two operators who change different fields of a document do not undo each other, and
\* one who changes a field has the last word on it, however their requests overlap.
NoEditUndone ==
    \A d \in docs, f \in Fields : d[f] = last[d.id][f]

\* A user can open what the list shows and is shown what it can open: for each kind the
\* two are written down apart.
ListsWhatPasses ==
    \A kind \in Kinds, u \in Owners :
        Listed(kind, u) = {d \in docs : d.kind = kind /\ Passes(d, u)}

\* The series counts every incident since its start once, up to MaxDays days back, the
\* part of the first day included; the pie every incident.
WidgetsCountEach ==
    [][shown' # shown =>
        /\ shown'.widget = "series" =>
             SumFunctionOnSet(shown'.series, DOMAIN shown'.series)
               = Cardinality({i \in incidents : i.at >= shown'.since /\ Day(i.at) > Day(now_) - MaxDays})
        /\ shown'.widget = "pie" =>
             SumFunctionOnSet(shown'.slices, DOMAIN Bands) = Cardinality(incidents)]_docVars

\* A document says what its operators wrote last, to those who may read it: the two
\* together.
DocumentsAreTheirs == NoEditUndone /\ ListsWhatPasses
=============================================================================
