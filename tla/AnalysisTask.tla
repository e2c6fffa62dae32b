----------------------------- MODULE AnalysisTask -----------------------------
(***************************************************************************)
(* POST /analyze and the task behind it, from the reading of the sources to*)
(* the runbooks of the incident it opens: run_analysis and the /incidents  *)
(* and /runs endpoints of src/denoiser/api/main.py, run_analysis_task of   *)
(* src/denoiser/workers/analysis_worker.py, with AlertRouter and           *)
(* RunbookEngine.                                                          *)
(*                                                                         *)
(* A cluster is the rank of its label, 0 (P0) to 3, or NoLabel when the    *)
(* severity scorer has failed; its text and scores are left out.           *)
(* A definition X_Y is X with a plausible mistake Y; nothing uses it.      *)
(***************************************************************************)
EXTENDS AlertRouter, RunbookEngine

CONSTANTS
    Tasks,         \* requests; a task names its run, and the incident it may open
    PageHooks,     \* bound: destinations registered while a task runs
    Labels,        \* the ranks clusters are labelled with
    MaxClusters,   \* bound: clusters of an analysis
    MaxTaskFaults  \* bound: failed commits, failed tasks, crashes

ASSUME TaskAssumption == 
    Tasks \subseteq Incidents /\ PageHooks \subseteq Hooks /\ Labels \subseteq Ranks

NoLabel == 9
Analyses == UNION {[1 .. n -> Labels] \cup {[k \in 1 .. n |-> NoLabel]} : n \in 0 .. MaxClusters}

VARIABLES
    task,       \* task[t]: [phase, where, clusters, llm]
    run,        \* run[t]: TRUE when its AnalysisRun row exists
    mailed,     \* mailed[t]: what became of the e-mail: "no", "sent" or "failed"
    alertLog,   \* alertLog[t]: destinations with an AlertLog row
    expected,   \* history: destinations the API had for t's alert when it was sent
    committed,  \* history: the transaction of t was committed
    taskFaults

taskVars == <<task, run, mailed, alertLog, expected, committed, taskFaults>>
analysisVars == <<taskVars, routerVars, runbookVars>>

TaskInit ==
    /\ RouterInit /\ RunbookInit
    /\ task = [t \in Tasks |-> [phase |-> "none", where |-> "worker", clusters |-> <<>>,
                                llm |-> FALSE]]
    /\ run = [t \in Tasks |-> FALSE]
    /\ mailed = [t \in Tasks |-> "no"]
    /\ alertLog = [t \in Tasks |-> {}]
    /\ expected = [t \in Tasks |-> {}]
    /\ committed = [t \in Tasks |-> FALSE]
    /\ taskFaults = 0

At(t, p) == task[t].phase = p
GoTo(t, p) == task' = [task EXCEPT ![t].phase = p]
TaskFault == taskFaults < MaxTaskFaults /\ taskFaults' = taskFaults + 1
-----------------------------------------------------------------------------
\* Queued to a Celery worker, or, when the broker cannot be reached, run inline:
\* inside the coroutine of the request, on the event loop of the API process.
Submit(t, where) ==
    /\ At(t, "none")
    /\ task' = [task EXCEPT ![t].phase = "submitted", ![t].where = where]
    /\ UNCHANGED <<run, mailed, alertLog, expected, committed, taskFaults, routerVars, runbookVars>>

\* No source could be read, or none has a line: an error is returned, nothing kept.
FindNothing(t) ==
    /\ At(t, "submitted") /\ GoTo(t, "error")
    /\ UNCHANGED <<run, mailed, alertLog, expected, committed, taskFaults, routerVars, runbookVars>>

\* Redaction to severity labels.  Failures of the vector store, of the causal and
\* of the severity scorer are logged; the last leaves the clusters unlabelled.
Analyse(t, clusters, llm) ==
    /\ At(t, "submitted")
    /\ task' = [task EXCEPT ![t].phase = "analysed", ![t].clusters = clusters, ![t].llm = llm]
    /\ UNCHANGED <<run, mailed, alertLog, expected, committed, taskFaults, routerVars, runbookVars>>

\* Embedding, clustering, the baseline or the language model raises: the task fails.
FailAnalysis(t) ==
    /\ At(t, "submitted") /\ TaskFault /\ GoTo(t, "failed")
    /\ UNCHANGED <<run, mailed, alertLog, expected, committed, routerVars, runbookVars>>

\* The priority of the alert: the first cluster labelled P0 or P1, else P3.
Pages == {0, 1}
AlertRank_FirstCluster(clusters) == IF clusters # <<>> THEN clusters[1] ELSE 3
AlertRank(clusters) ==
    LET paging == {n \in DOMAIN clusters : clusters[n] \in Pages} IN
    IF paging = {} THEN 3
    ELSE IF \E n \in paging : clusters[n] = 0 /\ \A m \in paging : n <= m THEN 0 ELSE 1
Alerts(t) == task[t].llm /\ AlertRank(task[t].clusters) \in Pages

\* The incident in a transaction of its own, ahead of the alert.
SendMail_OwnTransaction(t, sent) ==
    /\ At(t, "analysed")
    /\ GoTo(t, IF Alerts(t) THEN "mailed" ELSE "uncommitted")
    /\ mailed' = [mailed EXCEPT ![t] = IF ~Alerts(t) THEN "no" ELSE "sent"]
    /\ incident' = [incident EXCEPT ![t] = IF task[t].llm THEN "OPEN" ELSE @]
    /\ UNCHANGED <<run, alertLog, expected, committed, taskFaults, routerVars,
                   runbook, engine, execution, stepsDone, removals>>
\* The run and the incident are added to the session, then the e-mail is sent; the
\* notifier swallows its own failure.
SendMail(t, sent) ==
    /\ At(t, "analysed")
    /\ GoTo(t, IF Alerts(t) THEN "mailed" ELSE "uncommitted")
    /\ mailed' = [mailed EXCEPT ![t] =
          IF ~Alerts(t) THEN "no" ELSE IF sent THEN "sent" ELSE "failed"]
    /\ UNCHANGED <<run, alertLog, expected, committed, taskFaults, routerVars, runbookVars>>

\* asyncio.run refuses to run where a loop is running already, and the exception is
\* logged; a worker process has a router of its own, where nothing is registered.
RouterOf(where) ==
    IF where = "worker" THEN [h \in Hooks |-> Unregistered] ELSE registry
Wanting(reg, rank) == {h \in Hooks : reg[h].enabled /\ ShouldRoute(rank, reg[h].min)}
Routed(where, rank) == IF where = "inline" THEN {} ELSE Wanting(RouterOf(where), rank)
DispatchAlert(t) ==
    /\ At(t, "mailed") /\ GoTo(t, "uncommitted")
    /\ LET rank == AlertRank(task[t].clusters) IN
       /\ alertLog' = [alertLog EXCEPT ![t] = Routed(task[t].where, rank)]
       /\ expected' = [expected EXCEPT ![t] = Wanting(registry, rank)]
    /\ UNCHANGED <<run, mailed, committed, taskFaults, routerVars, runbookVars>>

\* One transaction for the run, the incident and the delivery records.
CommitTask(t) ==
    /\ At(t, "uncommitted")
    /\ run' = [run EXCEPT ![t] = TRUE]
    /\ committed' = [committed EXCEPT ![t] = TRUE]
    /\ incident' = [incident EXCEPT ![t] = IF task[t].llm THEN "OPEN" ELSE @]
    /\ GoTo(t, IF task[t].llm THEN "runbooks" ELSE "success")
    /\ UNCHANGED <<mailed, alertLog, expected, taskFaults, routerVars,
                   runbook, engine, execution, stepsDone, removals>>

\* The commit fails: rolled back and logged.  The task reports success all the same.
FailCommit(t) ==
    /\ At(t, "uncommitted") /\ TaskFault /\ GoTo(t, "success")
    /\ alertLog' = [alertLog EXCEPT ![t] = {}]
    /\ UNCHANGED <<run, mailed, expected, committed, routerVars, runbookVars>>

RunbooksOf(t) ==
    /\ At(t, "runbooks")
    /\ BeginCall(t) \/ EngineStep(t)
    /\ UNCHANGED <<taskVars, routerVars>>

EndTask(t) ==
    /\ At(t, "runbooks") /\ engine[t].phase \in {"returned", "raised"}
    /\ GoTo(t, "success")
    /\ UNCHANGED <<run, mailed, alertLog, expected, committed, taskFaults, routerVars, runbookVars>>

Active == {"submitted", "analysed", "mailed", "uncommitted", "runbooks"}
\* Messages are acknowledged before they are run: a task that dies is not run again.
CrashTask(t) ==
    /\ task[t].phase \in Active \ {"runbooks"} /\ TaskFault /\ GoTo(t, "dead")
    /\ alertLog' = [alertLog EXCEPT ![t] = {}]
    /\ UNCHANGED <<run, mailed, expected, committed, routerVars, runbookVars>>
CrashInRunbooks(t) ==
    /\ At(t, "runbooks") /\ EngineCrash(t) /\ GoTo(t, "dead")
    /\ UNCHANGED <<run, mailed, alertLog, expected, committed, taskFaults, routerVars>>

-----------------------------------------------------------------------------
\* PUT /incidents/{id}/resolve, which also reopens.
ResolveIncident(t, resolved) ==
    /\ incident[t] \in {"OPEN", "RESOLVED"}
    /\ incident' = [incident EXCEPT ![t] = IF resolved THEN "RESOLVED" ELSE "OPEN"]
    /\ UNCHANGED <<taskVars, routerVars, runbook, engine, execution, stepsDone, removals>>

\* DELETE /runs/{id}: the incident of the run stays.
DeleteRun(t) ==
    /\ run[t] /\ Remove
    /\ run' = [run EXCEPT ![t] = FALSE]
    /\ UNCHANGED <<task, mailed, alertLog, expected, committed, taskFaults, routerVars,
                   runbook, incident, engine, execution, stepsDone>>

Api ==
    \/ RunbookApi /\ UNCHANGED <<taskVars, routerVars>>
    \/ \E h \in PageHooks, min \in Pages : ~registry[h].known /\ CreateWebhook(h, min, TRUE)
         /\ UNCHANGED <<taskVars, runbookVars>>
    \/ \E t \in Tasks : DeleteRun(t) \/ \E b \in BOOLEAN : ResolveIncident(t, b)

TaskStep(t) ==
    \/ FindNothing(t) \/ DispatchAlert(t) \/ CommitTask(t) \/ RunbooksOf(t) \/ EndTask(t)
    \/ \E clusters \in Analyses, llm \in BOOLEAN : Analyse(t, clusters, llm)
    \/ \E sent \in BOOLEAN : SendMail(t, sent)
TaskNext ==
    \/ Api
    \/ \E t \in Tasks :
         \/ \E where \in {"worker", "inline"} : Submit(t, where)
         \/ TaskStep(t) \/ FailAnalysis(t) \/ FailCommit(t)
         \/ CrashTask(t) \/ CrashInRunbooks(t)

AnalysisSpec == TaskInit /\ [][TaskNext]_analysisVars
-----------------------------------------------------------------------------
Ended(t) == task[t].phase \in {"error", "failed", "success", "dead"}

\* A P0 or P1 cluster, wherever it stands among the clusters, has made the e-mail
\* be tried before its incident is committed (analysis_worker.py 333-370).
CriticalIsPaged ==
    \A t \in Tasks :
        /\ \E n \in DOMAIN task[t].clusters : task[t].clusters[n] \in Pages
        /\ incident[t] # "none"
        => mailed[t] # "no"

\* What is outside the transaction and what is in it, after the fact: runbooks run
\* only for a committed incident, an incident and delivery records exist only with
\* their run committed, and an e-mail whose incident was never recorded is the mark
\* of a failed commit or of a crash, never of a task that has ended well.
RecordedTogether ==
    \A t \in Tasks :
        /\ (\E r \in Runbooks : execution[t][r] # "none") => committed[t] /\ task[t].llm
        /\ incident[t] # "none" => committed[t]
        /\ Ended(t) /\ alertLog[t] # {} => committed[t]
        /\ mailed[t] # "no" /\ ~committed[t] /\ Ended(t) => taskFaults > 0

\* "Triggers automated workflows and multi-channel alerts (Slack, PagerDuty) on
\* anomalies" (README.md 17): the delivery records of a committed P0 or P1 incident
\* name every destination that wanted the alert when it was dispatched.
PageReachesWebhooks ==
    \A t \in Tasks : committed[t] => expected[t] \subseteq alertLog[t]
=============================================================================
