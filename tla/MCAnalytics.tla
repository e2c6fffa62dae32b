------------------------------ MODULE MCAnalytics ------------------------------
(* A small instance of what computes answers from stored logs, runs and       *)
(* events, with the schema they are stored in, for TLC.  The parts share no   *)
(* state: a behaviour is one of a single part.                                *)
EXTENDS AnalysisPipeline, Triage, DriftDetector, LogQuery, SloBudget, SchemaBootstrap, TLC

\* The pipeline's lines: blank, two that share a template, a plain one, a secret.
W(k, t) == [kind |-> k, text |-> t]
MCLogLines ==
    {<<>>, <<W("NUMBER", "1")>>, <<W("NUMBER", "2")>>, <<W("word", "a")>>, <<W("EMAIL", "b")>>}

\* Records of two clusters in two services, one of the noise, one without a time.
MCRecordRows ==
    [cluster : {0, 1}, service : {"s1", "s2"}, time : {1, 2, 4}]
      \cup {[cluster |-> -1, service |-> "s1", time |-> 1],
            [cluster |-> 0, service |-> "s1", time |-> 0]}
MCThresholds == [low |-> 55, medium |-> 70, high |-> 85]

\* Clusters whose templates overlap in part, each calm, worse, or in between.
MCClusterRows ==
    {[tokens |-> t, size |-> p[1], anomaly |-> p[2], rank |-> p[3]] :
        t \in {{}, {"x", "y"}, {"y", "z"}, {"x", "y", "z"}},
        p \in {<<1, 0, 2>>, <<3, 40, 2>>, <<3, 10, 0>>}}

\* Lines in upper and lower case, with the two forms of times, of two tenants and none.
Err == <<"error", "lower">>
ERR == <<"error", "upper">>
Disk == <<"disk", "lower">>
MCTerms ==
    {[field |-> "level", value |-> Err], [field |-> "level", value |-> ERR],
     [field |-> "text", value |-> Disk]}
Line_ == [level |-> Err, source |-> <<"app", "lower">>, message |-> Disk,
          time |-> [form |-> "number", at |-> 2], tenant |-> 1]
MCLines ==
    {Line_, [Line_ EXCEPT !.level = ERR, !.message = <<"net", "lower">>, !.time.at = 3],
     [Line_ EXCEPT !.time.form = "iso"], [Line_ EXCEPT !.tenant = 2],
     [Line_ EXCEPT !.tenant = 0, !.time.form = "none"]}

MCSloTargets == {[allowed |-> 1, short |-> TRUE], [allowed |-> 5, short |-> FALSE]}

\* A new database, and an old one with some of the tables and columns.
MCOldDatabases ==
    {[tables |-> {}, columns |-> {}],
     [tables |-> {"users", "tenants", "spans", "metric_rules"},
      columns |-> {<<"users", "is_active", FALSE>>, <<"metric_rules", "tenant_id", TRUE>>}]}

VARIABLE focus
analyticsVars ==
    <<pipelineVars, triageVars, driftVars, queryVars, budgetVars, schemaVars, focus>>

Init ==
    /\ focus \in {"pipeline", "triage", "drift", "query", "budget", "schema"}
    /\ PipelineInit /\ TriageInit /\ DriftInit /\ QueryInit
    /\ BudgetInit /\ (focus # "budget" => target.allowed = 1)
    /\ SchemaInit
    /\ focus # "schema" => dialect = "sqlite" /\ mode = "off" /\ tables = {}

NoPipeline == UNCHANGED pipelineVars
NoTriage == UNCHANGED triageVars
NoDrift == UNCHANGED driftVars
NoQuery == UNCHANGED queryVars
NoBudget == UNCHANGED budgetVars
NoSchema == UNCHANGED schemaVars
Only(part) == focus = part /\ UNCHANGED focus

PipelineFocus == Only("pipeline") /\ NoTriage /\ NoDrift /\ NoQuery /\ NoBudget /\ NoSchema
TriageFocus == Only("triage") /\ NoPipeline /\ NoDrift /\ NoQuery /\ NoBudget /\ NoSchema
DriftFocus == Only("drift") /\ NoPipeline /\ NoTriage /\ NoQuery /\ NoBudget /\ NoSchema
QueryFocus == Only("query") /\ NoPipeline /\ NoTriage /\ NoDrift /\ NoBudget /\ NoSchema
BudgetFocus == Only("budget") /\ NoPipeline /\ NoTriage /\ NoDrift /\ NoQuery /\ NoSchema
SchemaFocus == Only("schema") /\ NoPipeline /\ NoTriage /\ NoDrift /\ NoQuery /\ NoBudget

Next ==
    \/ PipelineFocus /\ PipelineNext
    \/ TriageFocus /\ TriageNext
    \/ DriftFocus /\ DriftNext
    \/ QueryFocus /\ QueryNext
    \/ BudgetFocus /\ BudgetNext
    \/ SchemaFocus /\ SchemaNext

Fairness ==
    /\ WF_analyticsVars(PipelineFocus /\ AgentStep)
    /\ \A i \in Instances : WF_analyticsVars(SchemaFocus /\ InstanceStep(i))
FairSpec == Init /\ [][Next]_analyticsVars /\ Fairness
================================================================================
