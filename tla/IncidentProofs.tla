---------------------------- MODULE IncidentProofs ----------------------------
(***************************************************************************)
(* Proofs about AnalysisTask, SloEvaluator, the runbooks they run and      *)
(* AlertRouter, for any tasks, ticks, objectives, runbooks, destinations   *)
(* and calls: what is recorded of an analysis is recorded together, a      *)
(* critical cluster has been mailed about when its incident exists, a      *)
(* breach has one open incident and no measure of a tick is lost, the      *)
(* executions of the runbooks say what happened, and so does the log of    *)
(* the deliveries.                                                         *)
(*                                                                         *)
(* The properties speak of tasks and ticks that have ended; they hold      *)
(* because of where one stands: Order says, for each phase of a task, what *)
(* has been sent, what is committed and whether the engine has been called,*)
(* EngineOrder the same of a call of the engine, TickOrder of a tick.      *)
(***************************************************************************)
EXTENDS AnalysisTask, SloEvaluator, FiniteSetTheorems, SequenceTheorems, TLAPS

Settled == {"SUCCESS", "FAILED"}

\* A call has looked at what it selected and has not left to be looked at; it has
\* settled what matched, but for the execution it is at.
EngineOrder(i) ==
    /\ engine[i].phase = "idle" => \A r \in Runbooks : execution[i][r] = "none"
    /\ engine[i].phase \in {"idle", "choosing", "returned", "raised"} =>
         \A r \in Runbooks : execution[i][r] # "RUNNING"
    /\ \A q, r \in Runbooks :
         execution[i][q] = "RUNNING" /\ execution[i][r] = "RUNNING" => q = r
    /\ \A r \in Runbooks :
         execution[i][r] = "SUCCESS" => stepsDone[i][r] = runbook[r].steps
    /\ \A r \in Runbooks : stepsDone[i][r] = 0
    /\ engine[i].phase \in {"choosing", "executing"} =>
         \A r \in engine[i].selected \ engine[i].rest :
             Matches(r) => execution[i][r] \in Settled \cup {"RUNNING"}
    /\ engine[i].phase = "returned" =>
         \A r \in engine[i].selected : Matches(r) => execution[i][r] \in Settled

EngineInv == RunbookTypeOK /\ \A i \in Incidents : EngineOrder(i)

Phases == {"none", "submitted", "analysed", "mailed", "uncommitted", "runbooks",
           "error", "failed", "success", "dead"}
\* Nothing of the task is committed yet, or ever.
Before == {"none", "submitted", "analysed", "mailed", "uncommitted", "error", "failed"}
Critical(t) == \E n \in DOMAIN task[t].clusters : task[t].clusters[n] \in Pages

TaskTypeOK ==
    /\ task \in [Tasks -> [phase : Phases, where : {"worker", "inline"},
                           clusters : {<<>>} \cup Analyses, llm : BOOLEAN]]
    /\ run \in [Tasks -> BOOLEAN]
    /\ mailed \in [Tasks -> {"no", "sent", "failed"}]
    /\ alertLog \in [Tasks -> SUBSET Hooks]
    /\ committed \in [Tasks -> BOOLEAN]
    /\ taskFaults \in Nat

Order(t) ==
    /\ task[t].phase \in Before =>
         ~committed[t] /\ incident[t] = "none" /\ engine[t].phase = "idle"
    /\ task[t].phase \in {"none", "submitted", "analysed", "error", "failed"} =>
         mailed[t] = "no" /\ alertLog[t] = {}
    /\ task[t].phase = "mailed" => alertLog[t] = {}
    /\ task[t].phase = "runbooks" => committed[t] /\ task[t].llm
    /\ task[t].phase \in {"success", "dead"} /\ ~committed[t] =>
         alertLog[t] = {} /\ (mailed[t] # "no" => taskFaults > 0)
    /\ incident[t] # "none" => committed[t] /\ task[t].llm
    /\ engine[t].phase # "idle" => committed[t] /\ task[t].llm
    /\ task[t].phase \in {"mailed", "uncommitted"} \/ committed[t] =>
         (task[t].llm /\ Critical(t) => mailed[t] # "no")

TaskInv == TaskTypeOK /\ EngineInv /\ \A t \in Tasks : Order(t)

-----------------------------------------------------------------------------
LEMMA Sets == /\ Tasks \subseteq Incidents
              /\ MaxSteps \in Nat /\ MaxRemovals \in Nat
              /\ NewRows \in [Runbooks -> SUBSET Rows]
BY TaskAssumption, RunbookAssumption

\* Wherever a critical cluster stands, the alert has a rank that pages.
LEMMA CriticalRank ==
    ASSUME NEW clusters, \E k \in DOMAIN clusters : clusters[k] \in Pages
    PROVE  AlertRank(clusters) \in Pages
BY DEF AlertRank, Pages

-----------------------------------------------------------------------------
\* The engine.

\* What a step of one call leaves of the others, when it touches nothing of theirs.
LEMMA OtherCalls ==
    ASSUME NEW i \in Incidents, EngineOrder(i), engine'[i] = engine[i],
           execution'[i] = execution[i], stepsDone'[i] = stepsDone[i], runbook' = runbook
    PROVE  EngineOrder(i)'
BY DEF EngineOrder, Matches

LEMMA EngineFrame ==
    ASSUME EngineInv, UNCHANGED <<runbook, engine, execution, stepsDone, removals>>,
           incident' \in [Incidents -> {"none", "OPEN", "RESOLVED", "deleted"}]
    PROVE  EngineInv'
<1>1. RunbookTypeOK'
  BY DEF EngineInv, RunbookTypeOK
<1>2. \A i \in Incidents : EngineOrder(i)'
  BY OtherCalls DEF EngineInv
<1> QED BY <1>1, <1>2 DEF EngineInv

\* Only the state of the call changes.
LEMMA CallGoes ==
    ASSUME EngineInv, NEW i \in Incidents, NEW s \in EngineState,
           engine' = [engine EXCEPT ![i] = s],
           UNCHANGED <<runbook, incident, execution, stepsDone>>,
           removals' \in 0 .. MaxRemovals, EngineOrder(i)'
    PROVE  EngineInv'
<1>1. RunbookTypeOK'
  BY DEF EngineInv, RunbookTypeOK
<1>2. ASSUME NEW j \in Incidents PROVE EngineOrder(j)'
  <2>1. j # i => engine'[j] = engine[j]
    BY DEF EngineInv, RunbookTypeOK
  <2> QED BY <2>1, OtherCalls DEF EngineInv
<1> QED BY <1>1, <1>2 DEF EngineInv

LEMMA EngineRows ==
    ASSUME EngineInv, NEW i \in Incidents
    PROVE  /\ engine[i] \in EngineState /\ EngineOrder(i)
           /\ engine \in [Incidents -> EngineState] /\ removals \in 0 .. MaxRemovals
           /\ execution[i] \in [Runbooks -> {"none", "RUNNING", "SUCCESS", "FAILED"}]
           /\ stepsDone[i] \in [Runbooks -> Nat]
           /\ runbook \in [Runbooks -> Rows]
BY DEF EngineInv, RunbookTypeOK

LEMMA CallBegins == ASSUME EngineInv, NEW i \in Incidents, BeginCall(i) PROVE EngineInv'
<1> DEFINE found == {r \in Runbooks : runbook[r].live /\ runbook[r].enabled}
           s == IF Gone(i) THEN [NoCallYet EXCEPT !.phase = "raised"]
                ELSE [NoCallYet EXCEPT !.phase = "choosing", !.rest = found, !.selected = found]
<1>1. s \in EngineState
  BY DEF NoCallYet, EngineState
<1>2. s.phase \in {"raised", "choosing"} /\ (s.phase = "choosing" => s.selected = s.rest)
  BY DEF NoCallYet
<1>3. engine' = [engine EXCEPT ![i] = s]
      /\ UNCHANGED <<runbook, incident, execution, stepsDone, removals>>
  BY DEF BeginCall
<1> HIDE DEF s, found
<1>4. engine'[i] = s
  BY <1>3, EngineRows
<1>5. \A r \in Runbooks : execution[i][r] = "none"
  BY EngineRows DEF BeginCall, EngineOrder
<1>6. EngineOrder(i)'
  BY <1>2, <1>3, <1>4, <1>5, EngineRows DEF EngineOrder
<1> QED BY <1>1, <1>3, <1>6, CallGoes, EngineRows

LEMMA LoopRaises ==
    ASSUME EngineInv, NEW i \in Incidents, NEW r \in Runbooks, RaiseInLoop(i, r)
    PROVE  EngineInv'
<1> DEFINE s == [engine[i] EXCEPT !.phase = "raised"]
<1>1. s \in EngineState /\ s.phase = "raised"
  BY EngineRows DEF EngineState
<1>2. engine' = [engine EXCEPT ![i] = s]
      /\ UNCHANGED <<runbook, incident, execution, stepsDone, removals>>
  BY EngineRows DEF RaiseInLoop, SetPhase
<1> HIDE DEF s
<1>3. engine'[i] = s
  BY <1>2, EngineRows
<1>4. EngineOrder(i)'
  BY <1>1, <1>2, <1>3, EngineRows DEF EngineOrder, RaiseInLoop
<1> QED BY <1>1, <1>2, <1>4, CallGoes, EngineRows

LEMMA RunbookSkipped ==
    ASSUME EngineInv, NEW i \in Incidents, NEW r \in Runbooks, SkipRunbook(i, r)
    PROVE  EngineInv'
<1> DEFINE s == [engine[i] EXCEPT !.rest = @ \ {r}, !.stale = FALSE]
<1>1. /\ s \in EngineState /\ s.phase = "choosing" /\ s.selected = engine[i].selected
      /\ s.rest = engine[i].rest \ {r}
  BY EngineRows DEF EngineState, SkipRunbook, Consider
<1>2. engine' = [engine EXCEPT ![i] = s]
      /\ UNCHANGED <<runbook, incident, execution, stepsDone, removals>>
  BY EngineRows DEF SkipRunbook
<1> HIDE DEF s
<1>3. engine'[i] = s
  BY <1>2, EngineRows
<1>4. ASSUME NEW q \in s.selected \ s.rest, Matches(q)
      PROVE  execution[i][q] \in Settled \cup {"RUNNING"}
  <2>1. ~Matches(r) /\ engine[i].phase = "choosing"
    BY DEF SkipRunbook, Consider
  <2>2. q \in engine[i].selected \ engine[i].rest
    BY <1>1, <1>4, <2>1
  <2> QED BY <1>4, <2>1, <2>2, EngineRows DEF EngineOrder
<1>5. EngineOrder(i)'
  <2>1. \A q \in s.selected \ s.rest : Matches(q)' => execution'[i][q] \in Settled \cup {"RUNNING"}
    BY <1>2, <1>4 DEF Matches
  <2>2. engine[i].phase = "choosing"
    BY DEF SkipRunbook, Consider
  <2> QED BY <1>1, <1>2, <1>3, <2>1, <2>2, EngineRows DEF EngineOrder
<1> QED BY <1>1, <1>2, <1>5, CallGoes, EngineRows

LEMMA CallEnds == ASSUME EngineInv, NEW i \in Incidents, EndCall(i) PROVE EngineInv'
<1> DEFINE s == [engine[i] EXCEPT !.phase = "returned"]
<1>1. s \in EngineState /\ s.phase = "returned" /\ s.selected = engine[i].selected
  BY EngineRows DEF EngineState
<1>2. engine' = [engine EXCEPT ![i] = s]
      /\ UNCHANGED <<runbook, incident, execution, stepsDone, removals>>
  BY EngineRows DEF EndCall, SetPhase
<1> HIDE DEF s
<1>3. engine'[i] = s
  BY <1>2, EngineRows
<1>4. ASSUME NEW q \in s.selected, Matches(q) PROVE execution[i][q] \in Settled
  <2>1. engine[i].phase = "choosing" /\ q \in engine[i].selected \ engine[i].rest
    BY <1>1, <1>4 DEF EndCall
  <2>2. q \in Runbooks
    BY <2>1, EngineRows DEF EngineState
  <2>3. execution[i][q] \in Settled \cup {"RUNNING"} /\ execution[i][q] # "RUNNING"
    BY <1>4, <2>1, <2>2, EngineRows DEF EngineOrder
  <2> QED BY <2>3
<1>5. EngineOrder(i)'
  <2>1. \A q \in s.selected : Matches(q)' => execution'[i][q] \in Settled
    BY <1>2, <1>4 DEF Matches
  <2>2. engine[i].phase = "choosing"
    BY DEF EndCall
  <2> QED BY <1>1, <1>2, <1>3, <2>1, <2>2, EngineRows DEF EngineOrder
<1> QED BY <1>1, <1>2, <1>5, CallGoes, EngineRows

LEMMA EngineDies == ASSUME EngineInv, NEW i \in Incidents, EngineCrash(i) PROVE EngineInv'
<1> DEFINE s == [engine[i] EXCEPT !.phase = "dead"]
<1>1. s \in EngineState /\ s.phase = "dead"
  BY EngineRows DEF EngineState
<1>2. engine' = [engine EXCEPT ![i] = s] /\ UNCHANGED <<runbook, incident, execution, stepsDone>>
  BY EngineRows DEF EngineCrash, SetPhase
<1>3. removals' \in 0 .. MaxRemovals
  BY EngineRows, Sets DEF EngineCrash, Remove
<1> HIDE DEF s
<1>4. engine'[i] = s
  BY <1>2, EngineRows
<1>5. EngineOrder(i)'
  BY <1>1, <1>2, <1>4, EngineRows DEF EngineOrder
<1> QED BY <1>1, <1>2, <1>3, <1>5, CallGoes

\* A call changes its own execution of r: what the rest of the state needs.
LEMMA ExecutionSet ==
    ASSUME EngineInv, NEW i \in Incidents, NEW r \in Runbooks, NEW s \in EngineState,
           NEW v \in {"RUNNING", "SUCCESS", "FAILED"},
           engine' = [engine EXCEPT ![i] = s],
           execution' = [execution EXCEPT ![i][r] = v],
           UNCHANGED <<runbook, incident, stepsDone, removals>>,
           EngineOrder(i)'
    PROVE  EngineInv'
<1>1. execution' \in [Incidents -> [Runbooks -> {"none", "RUNNING", "SUCCESS", "FAILED"}]]
  BY DEF EngineInv, RunbookTypeOK
<1>2. RunbookTypeOK'
  BY <1>1 DEF EngineInv, RunbookTypeOK
<1>3. ASSUME NEW j \in Incidents PROVE EngineOrder(j)'
  <2>1. j # i => engine'[j] = engine[j] /\ execution'[j] = execution[j]
    BY DEF EngineInv, RunbookTypeOK
  <2> QED BY <2>1, OtherCalls DEF EngineInv
<1> QED BY <1>2, <1>3 DEF EngineInv

LEMMA ExecutionStarts ==
    ASSUME EngineInv, NEW i \in Incidents, NEW r \in Runbooks, StartExecution(i, r)
    PROVE  EngineInv'
<1> DEFINE s == [engine[i] EXCEPT !.phase = "executing", !.rest = RestAfter(engine[i].rest, r),
                                  !.committed = TRUE, !.stale = TRUE]
<1>1. /\ s \in EngineState /\ s.phase = "executing" /\ s.selected = engine[i].selected
      /\ s.rest = engine[i].rest \ {r}
  BY EngineRows DEF EngineState, RestAfter
<1>2. /\ engine' = [engine EXCEPT ![i] = s]
      /\ execution' = [execution EXCEPT ![i][r] = "RUNNING"]
      /\ UNCHANGED <<runbook, incident, stepsDone, removals>>
  BY EngineRows DEF StartExecution
<1> HIDE DEF s
<1>3. engine'[i] = s
  BY <1>2, EngineRows
<1>4. \A q \in Runbooks : execution'[i][q] = IF q = r THEN "RUNNING" ELSE execution[i][q]
  BY <1>2 DEF EngineInv, RunbookTypeOK
<1>5. engine[i].phase = "choosing" /\ \A q \in Runbooks : execution[i][q] # "RUNNING"
  BY EngineRows DEF EngineOrder, StartExecution, Consider
<1>6. ASSUME NEW q \in s.selected \ s.rest, Matches(q)
      PROVE  execution'[i][q] \in Settled \cup {"RUNNING"}
  <2>1. q \in Runbooks
    BY <1>1 DEF EngineState
  <2>2. q # r => q \in engine[i].selected \ engine[i].rest
    BY <1>1, <1>6
  <2> QED BY <1>4, <1>5, <1>6, <2>1, <2>2, EngineRows DEF EngineOrder
<1>7. \A q \in Runbooks : Matches(q)' = Matches(q)
  BY <1>2 DEF Matches
<1>8. EngineOrder(i)'
  <2>1. \A q, p \in Runbooks :
          execution'[i][q] = "RUNNING" /\ execution'[i][p] = "RUNNING" => q = p
    BY <1>4, <1>5
  <2>2. \A q \in Runbooks :
          /\ execution'[i][q] = "SUCCESS" => stepsDone'[i][q] = runbook'[q].steps
          /\ stepsDone'[i][q] = 0
    BY <1>2, <1>4, EngineRows DEF EngineOrder
  <2>3. \A q \in s.selected \ s.rest : Matches(q)' => execution'[i][q] \in Settled \cup {"RUNNING"}
    BY <1>1, <1>6, <1>7 DEF EngineState
  <2> QED BY <1>1, <1>3, <2>1, <2>2, <2>3 DEF EngineOrder
<1> QED BY <1>1, <1>2, <1>8, ExecutionSet

LEMMA ExecutionFinishes ==
    ASSUME EngineInv, NEW i \in Incidents, NEW r \in Runbooks, FinishExecution(i, r)
    PROVE  EngineInv'
<1> DEFINE s == [engine[i] EXCEPT !.phase = "choosing"]
           v == FinalStatus(r)
<1>1. /\ s \in EngineState /\ s.phase = "choosing" /\ s.selected = engine[i].selected
      /\ s.rest = engine[i].rest
  BY EngineRows DEF EngineState
<1>2. v \in Settled /\ (v = "SUCCESS" => runbook[r].steps = 0)
  <2>1. runbook[r].steps \in Nat
    <3>1. runbook[r] \in Rows
      BY EngineRows
    <3>2. runbook[r].steps \in 0 .. MaxSteps
      BY <3>1 DEF Rows
    <3> QED BY <3>2, Sets
  <2> QED BY <2>1 DEF FinalStatus, StepCallRaises, Settled
<1>3. /\ engine' = [engine EXCEPT ![i] = s]
      /\ execution' = [execution EXCEPT ![i][r] = v]
      /\ UNCHANGED <<runbook, incident, removals>>
  BY EngineRows DEF FinishExecution, SetPhase
<1>4. stepsDone' = stepsDone
  <2>1. stepsDone' = [stepsDone EXCEPT ![i][r] = @]
    BY DEF FinishExecution, StepCallRaises
  <2> QED BY <2>1 DEF EngineInv, RunbookTypeOK
<1> HIDE DEF s, v
<1>5. engine'[i] = s
  BY <1>3, EngineRows
<1>6. \A q \in Runbooks : execution'[i][q] = IF q = r THEN v ELSE execution[i][q]
  BY <1>3 DEF EngineInv, RunbookTypeOK
<1>7. engine[i].phase = "executing" /\ \A q \in Runbooks : execution[i][q] = "RUNNING" => q = r
  BY EngineRows DEF EngineOrder, FinishExecution
<1>8. \A q \in Runbooks : execution'[i][q] # "RUNNING"
  BY <1>2, <1>6, <1>7 DEF Settled
<1>9. \A q \in Runbooks :
        /\ execution'[i][q] = "SUCCESS" => stepsDone'[i][q] = runbook'[q].steps
        /\ stepsDone'[i][q] = 0
  BY <1>2, <1>3, <1>4, <1>6, EngineRows DEF EngineOrder
<1>10. ASSUME NEW q \in s.selected \ s.rest, Matches(q)'
       PROVE  execution'[i][q] \in Settled \cup {"RUNNING"}
  <2>1. q \in Runbooks /\ q \in engine[i].selected \ engine[i].rest
    BY <1>1, <1>10 DEF EngineState
  <2>2. Matches(q)
    BY <1>3, <1>10 DEF Matches
  <2>3. execution[i][q] \in Settled \cup {"RUNNING"}
    BY <1>7, <2>1, <2>2, EngineRows DEF EngineOrder
  <2> QED BY <1>2, <1>6, <2>1, <2>3
<1>11. EngineOrder(i)'
  BY <1>1, <1>5, <1>8, <1>9, <1>10 DEF EngineOrder
<1>12. v \in {"RUNNING", "SUCCESS", "FAILED"}
  BY <1>2 DEF Settled
<1> QED BY <1>1, <1>3, <1>4, <1>11, <1>12, ExecutionSet

LEMMA EngineSteps == ASSUME EngineInv, NEW i \in Incidents, EngineStep(i) PROVE EngineInv'
BY CallEnds, LoopRaises, RunbookSkipped, ExecutionStarts, ExecutionFinishes DEF EngineStep

\* A row whose trigger and steps nobody has executed or selected comes or goes.
LEMMA RunbookApiSteps == ASSUME EngineInv, RunbookApi PROVE EngineInv'
<1>1. ASSUME NEW r \in Runbooks, DeleteRunbook(r) PROVE EngineInv'
  <2>1. /\ runbook' = [runbook EXCEPT ![r].live = FALSE]
        /\ UNCHANGED <<incident, engine, execution, stepsDone>>
        /\ removals' \in 0 .. MaxRemovals
    BY <1>1, Sets DEF DeleteRunbook, Remove, EngineInv, RunbookTypeOK
  <2>2. runbook \in [Runbooks -> Rows]
    BY DEF EngineInv, RunbookTypeOK
  <2>3. runbook' \in [Runbooks -> Rows]
    <3>1. [runbook[r] EXCEPT !.live = FALSE] \in Rows
      BY <2>2 DEF Rows
    <3> QED BY <2>1, <2>2, <3>1
  <2>4. \A q \in Runbooks : /\ runbook'[q].steps = runbook[q].steps
                            /\ runbook'[q].severity = runbook[q].severity
                            /\ runbook'[q].keyword = runbook[q].keyword
    BY <2>1, <2>2 DEF Rows
  <2>5. \A q \in Runbooks : Matches(q)' <=> Matches(q)
    BY <2>4 DEF Matches
  <2>6. ASSUME NEW i \in Incidents PROVE EngineOrder(i)'
    <3>1. engine[i].selected \subseteq Runbooks
      BY EngineRows DEF EngineState
    <3> QED BY <2>1, <2>4, <2>5, <3>1, EngineRows DEF EngineOrder
  <2> QED BY <2>1, <2>3, <2>6 DEF EngineInv, RunbookTypeOK
<1>2. ASSUME NEW r \in Runbooks, NEW row \in NewRows[r], CreateRunbook(r, row) PROVE EngineInv'
  <2>1. /\ runbook' = [runbook EXCEPT ![r] = row]
        /\ UNCHANGED <<incident, engine, execution, stepsDone, removals>>
        /\ \A i \in Incidents : execution[i][r] = "none" /\ r \notin engine[i].selected
    BY <1>2 DEF CreateRunbook
  <2>2. runbook \in [Runbooks -> Rows] /\ row \in Rows
    BY Sets DEF EngineInv, RunbookTypeOK
  <2>3. runbook' \in [Runbooks -> Rows] /\ \A q \in Runbooks \ {r} : runbook'[q] = runbook[q]
    BY <2>1, <2>2
  <2>4. \A q \in Runbooks \ {r} : Matches(q)' <=> Matches(q)
    BY <2>3 DEF Matches
  <2>5. ASSUME NEW i \in Incidents PROVE EngineOrder(i)'
    <3>1. engine[i].selected \subseteq Runbooks \ {r} /\ execution[i][r] = "none"
      BY <2>1, EngineRows DEF EngineState
    <3> QED BY <2>1, <2>3, <2>4, <3>1, EngineRows DEF EngineOrder
  <2> QED BY <2>1, <2>3, <2>5 DEF EngineInv, RunbookTypeOK
<1>3. ASSUME NEW i \in Incidents, DeleteIncident(i) PROVE EngineInv'
  <2>1. /\ incident' = [incident EXCEPT ![i] = "deleted"]
        /\ UNCHANGED <<runbook, engine, execution, stepsDone>>
        /\ removals' \in 0 .. MaxRemovals
    BY <1>3, Sets DEF DeleteIncident, Remove, EngineInv, RunbookTypeOK
  <2>2. RunbookTypeOK'
    BY <2>1 DEF EngineInv, RunbookTypeOK
  <2>3. \A j \in Incidents : EngineOrder(j)'
    BY <2>1, OtherCalls DEF EngineInv
  <2> QED BY <2>2, <2>3 DEF EngineInv
<1> QED BY <1>1, <1>2, <1>3 DEF RunbookApi

-----------------------------------------------------------------------------
\* The task.

LEMMA TaskRows ==
    ASSUME TaskInv, NEW t \in Tasks
    PROVE  /\ t \in Incidents /\ Order(t) /\ task[t].phase \in Phases
           /\ task[t].llm \in BOOLEAN /\ committed[t] \in BOOLEAN /\ taskFaults \in Nat
           /\ task \in [Tasks -> [phase : Phases, where : {"worker", "inline"},
                                  clusters : {<<>>} \cup Analyses, llm : BOOLEAN]]
BY Sets DEF TaskInv, TaskTypeOK

\* What a step leaves of the tasks it is not about: a fault more does not matter.
LEMMA OtherTasks ==
    ASSUME NEW t \in Tasks, Order(t), taskFaults \in Nat, taskFaults' \in {taskFaults, taskFaults + 1},
           task'[t] = task[t], mailed'[t] = mailed[t], alertLog'[t] = alertLog[t],
           committed'[t] = committed[t], engine'[t] = engine[t],
           incident'[t] = incident[t] \/ (incident[t] # "none" /\ incident'[t] # "none")
    PROVE  Order(t)'
BY DEF Order, Critical

\* A task goes on to phase p; nothing else of it changes but what the step says.
LEMMA TaskGoes ==
    ASSUME TaskInv, NEW t \in Tasks, NEW p \in Phases, GoTo(t, p),
           taskFaults' \in {taskFaults, taskFaults + 1},
           run' \in [Tasks -> BOOLEAN],
           mailed' \in [Tasks -> {"no", "sent", "failed"}],
           alertLog' \in [Tasks -> SUBSET Hooks],
           committed' \in [Tasks -> BOOLEAN],
           EngineInv',
           \A u \in Tasks \ {t} :
               /\ mailed'[u] = mailed[u] /\ alertLog'[u] = alertLog[u]
               /\ committed'[u] = committed[u] /\ engine'[u] = engine[u]
               /\ incident'[u] = incident[u],
           (task'[t].phase = p /\ task'[t].llm = task[t].llm
            /\ task'[t].clusters = task[t].clusters) => Order(t)'
    PROVE  TaskInv'
<1>1. task' = [task EXCEPT ![t].phase = p]
  BY DEF GoTo
<1>2. /\ task'[t].phase = p /\ task'[t].llm = task[t].llm
      /\ task'[t].clusters = task[t].clusters /\ \A u \in Tasks \ {t} : task'[u] = task[u]
  BY <1>1, TaskRows
<1>3. task' \in [Tasks -> [phase : Phases, where : {"worker", "inline"},
                           clusters : {<<>>} \cup Analyses, llm : BOOLEAN]]
  <2> DEFINE C == {<<>>} \cup Analyses
             R == [phase : Phases, where : {"worker", "inline"}, clusters : C, llm : BOOLEAN]
  <2>1. task \in [Tasks -> R]
    BY TaskRows
  <2> HIDE DEF C
  <2>2. [task[t] EXCEPT !.phase = p] \in R
    BY <2>1
  <2>3. task' = [task EXCEPT ![t] = [task[t] EXCEPT !.phase = p]]
    BY <1>1, <2>1
  <2> HIDE DEF R
  <2>4. task' \in [Tasks -> R]
    BY <2>1, <2>2, <2>3
  <2> QED BY <2>4 DEF R, C
<1>4. taskFaults \in Nat /\ taskFaults' \in Nat
  <2>1. taskFaults \in Nat
    BY TaskRows
  <2> QED BY <2>1
<1>5. ASSUME NEW u \in Tasks PROVE Order(u)'
  <2>1. CASE u = t
    <3>1. Order(t)'
      BY <1>2
    <3> QED BY <2>1, <3>1
  <2>2. CASE u # t
    <3>1. Order(u) /\ u \in Tasks \ {t}
      BY <2>2, TaskRows
    <3> QED BY <1>2, <1>4, <3>1, OtherTasks
  <2> QED BY <2>1, <2>2
<1> QED BY <1>3, <1>4, <1>5 DEF TaskInv, TaskTypeOK

LEMMA PhaseSets == {"submitted", "analysed", "mailed", "uncommitted", "runbooks", "error",
                    "failed", "success", "dead"} \subseteq Phases
BY DEF Phases

\* A step that leaves the engine and the incidents alone keeps what is known of them.
LEMMA EngineAlone == ASSUME TaskInv, UNCHANGED runbookVars PROVE EngineInv'
<1>1. EngineInv
  BY DEF TaskInv
<1> QED BY <1>1, EngineFrame DEF runbookVars, EngineInv, RunbookTypeOK

LEMMA EngineInitially == RunbookInit => EngineInv
<1> SUFFICES ASSUME RunbookInit PROVE EngineInv
  OBVIOUS
<1>1. RunbookTypeOK
  <2>1. NoRow \in Rows
    <3>1. 0 \in 0 .. MaxSteps
      BY Sets
    <3> QED BY <3>1 DEF NoRow, Rows
  <2>2. NoCallYet \in EngineState
    BY DEF NoCallYet, EngineState
  <2> QED BY <2>1, <2>2, Sets DEF RunbookInit, RunbookTypeOK
<1>2. ASSUME NEW i \in Incidents PROVE EngineOrder(i)
  <2>1. engine[i].phase = "idle"
    BY DEF RunbookInit, NoCallYet
  <2>2. \A r \in Runbooks : execution[i][r] = "none" /\ stepsDone[i][r] = 0
    BY DEF RunbookInit
  <2> QED BY <2>1, <2>2 DEF EngineOrder
<1> QED BY <1>1, <1>2 DEF EngineInv

LEMMA TaskInitially == TaskInit => TaskInv
<1> SUFFICES ASSUME TaskInit PROVE TaskInv
  OBVIOUS
<1>1. TaskTypeOK
  BY DEF TaskInit, TaskTypeOK, Phases
<1>2. EngineInv
  BY EngineInitially DEF TaskInit
<1>4. ASSUME NEW t \in Tasks PROVE Order(t)
  <2>1. /\ task[t].phase = "none" /\ mailed[t] = "no" /\ alertLog[t] = {} /\ ~committed[t]
    BY DEF TaskInit
  <2>2. incident[t] = "none" /\ engine[t].phase = "idle"
    BY Sets DEF TaskInit, RunbookInit, NoCallYet
  <2> QED BY <2>1, <2>2 DEF Order
<1> QED BY <1>1, <1>2, <1>4 DEF TaskInv

LEMMA TaskAlone ==
    ASSUME TaskInv, NEW t \in Tasks, NEW p \in Phases, GoTo(t, p),
           UNCHANGED <<run, mailed, alertLog, committed, runbookVars>>,
           taskFaults' \in {taskFaults, taskFaults + 1},
           (task'[t].phase = p /\ task'[t].llm = task[t].llm
            /\ task'[t].clusters = task[t].clusters) => Order(t)'
    PROVE  TaskInv'
<1>1. EngineInv'
  BY EngineAlone
<1>2. UNCHANGED <<engine, incident>>
  BY DEF runbookVars
<1>3. /\ run' \in [Tasks -> BOOLEAN] /\ mailed' \in [Tasks -> {"no", "sent", "failed"}]
      /\ alertLog' \in [Tasks -> SUBSET Hooks] /\ committed' \in [Tasks -> BOOLEAN]
  BY DEF TaskInv, TaskTypeOK
<1> QED BY <1>1, <1>2, <1>3, TaskGoes

LEMMA Submitted ==
    ASSUME TaskInv, NEW t \in Tasks, NEW where \in {"worker", "inline"}, Submit(t, where)
    PROVE  TaskInv'
<1>1. task' = [task EXCEPT ![t].phase = "submitted", ![t].where = where]
      /\ UNCHANGED <<run, mailed, alertLog, committed, taskFaults, runbookVars>>
  BY DEF Submit
<1>2. task' \in [Tasks -> [phase : Phases, where : {"worker", "inline"},
                           clusters : {<<>>} \cup Analyses, llm : BOOLEAN]]
  BY <1>1, TaskRows DEF Phases
<1>3. \A u \in Tasks : u # t => task'[u] = task[u]
  BY <1>1, TaskRows
<1>4. task'[t].phase = "submitted" /\ task[t].phase = "none"
  BY <1>1, TaskRows DEF Submit, At
<1>5. EngineInv' /\ UNCHANGED <<engine, incident>>
  BY <1>1, EngineAlone DEF runbookVars
<1>6. Order(t)'
  BY <1>1, <1>4, <1>5, TaskRows DEF Order, Before
<1>7. ASSUME NEW u \in Tasks, u # t PROVE Order(u)'
  BY <1>1, <1>3, <1>5, <1>7, TaskRows, OtherTasks
<1> QED BY <1>1, <1>2, <1>5, <1>6, <1>7 DEF TaskInv, TaskTypeOK

LEMMA Analysed ==
    ASSUME TaskInv, NEW t \in Tasks, NEW clusters \in Analyses, NEW llm \in BOOLEAN,
           Analyse(t, clusters, llm)
    PROVE  TaskInv'
<1>1. /\ task' = [task EXCEPT ![t].phase = "analysed", ![t].clusters = clusters, ![t].llm = llm]
      /\ UNCHANGED <<run, mailed, alertLog, committed, taskFaults, runbookVars>>
  BY DEF Analyse
<1>2. task' \in [Tasks -> [phase : Phases, where : {"worker", "inline"},
                           clusters : {<<>>} \cup Analyses, llm : BOOLEAN]]
  BY <1>1, TaskRows DEF Phases
<1>3. \A u \in Tasks : u # t => task'[u] = task[u]
  BY <1>1, TaskRows
<1>4. task'[t].phase = "analysed" /\ task[t].phase = "submitted"
  BY <1>1, TaskRows DEF Analyse, At
<1>5. EngineInv' /\ UNCHANGED <<engine, incident>>
  BY <1>1, EngineAlone DEF runbookVars
<1>6. Order(t)'
  BY <1>1, <1>4, <1>5, TaskRows DEF Order, Before
<1>7. ASSUME NEW u \in Tasks, u # t PROVE Order(u)'
  BY <1>1, <1>3, <1>5, <1>7, TaskRows, OtherTasks
<1> QED BY <1>1, <1>2, <1>5, <1>6, <1>7 DEF TaskInv, TaskTypeOK

\* A task that finds nothing, or fails, has sent and committed nothing.
LEMMA GivesUp ==
    ASSUME TaskInv, NEW t \in Tasks, FindNothing(t) \/ FailAnalysis(t)
    PROVE  TaskInv'
<1>1. PICK p \in {"error", "failed"} : GoTo(t, p)
  BY DEF FindNothing, FailAnalysis
<1>2. /\ UNCHANGED <<run, mailed, alertLog, committed, runbookVars>>
      /\ taskFaults' \in {taskFaults, taskFaults + 1} /\ task[t].phase = "submitted"
  BY DEF FindNothing, FailAnalysis, TaskFault, At
<1>3. ASSUME task'[t].phase = p PROVE Order(t)'
  BY <1>1, <1>2, <1>3, TaskRows DEF Order, Before, runbookVars
<1>4. p \in Phases
  BY PhaseSets
<1> QED BY <1>1, <1>2, <1>3, <1>4, TaskAlone

\* The e-mail is tried when there is an alert, and a critical cluster is one.
LEMMA Mails ==
    ASSUME TaskInv, NEW t \in Tasks, NEW sent \in BOOLEAN, SendMail(t, sent)
    PROVE  TaskInv'
<1> DEFINE p == IF Alerts(t) THEN "mailed" ELSE "uncommitted"
           m == IF ~Alerts(t) THEN "no" ELSE IF sent THEN "sent" ELSE "failed"
<1>1. /\ GoTo(t, p) /\ p \in Phases /\ task[t].phase = "analysed"
      /\ mailed' = [mailed EXCEPT ![t] = m]
      /\ UNCHANGED <<run, alertLog, committed, taskFaults, runbookVars>>
  BY PhaseSets DEF SendMail, At
<1>2. m \in {"no", "sent", "failed"} /\ p \in {"mailed", "uncommitted"}
  OBVIOUS
<1>3. task[t].llm /\ Critical(t) => m # "no"
  <2>1. Critical(t) => AlertRank(task[t].clusters) \in Pages
    BY CriticalRank DEF Critical
  <2> QED BY <2>1 DEF Alerts
<1> HIDE DEF p, m
<1>4. EngineInv' /\ UNCHANGED <<engine, incident>>
  BY <1>1, EngineAlone DEF runbookVars
<1>5. /\ run' \in [Tasks -> BOOLEAN] /\ alertLog' \in [Tasks -> SUBSET Hooks]
      /\ committed' \in [Tasks -> BOOLEAN] /\ mailed \in [Tasks -> {"no", "sent", "failed"}]
  BY <1>1 DEF TaskInv, TaskTypeOK
<1>6. mailed' \in [Tasks -> {"no", "sent", "failed"}] /\ mailed'[t] = m
      /\ \A u \in Tasks \ {t} : mailed'[u] = mailed[u]
  BY <1>1, <1>2, <1>5
<1>7. ASSUME task'[t].phase = p, task'[t].llm = task[t].llm, task'[t].clusters = task[t].clusters
      PROVE  Order(t)'
  <2>1. Critical(t)' <=> Critical(t)
    BY <1>7 DEF Critical
  <2>2. Order(t)
    BY TaskRows
  <2> QED BY <1>1, <1>2, <1>3, <1>4, <1>6, <1>7, <2>1, <2>2 DEF Order, Before
<1> QED BY <1>1, <1>4, <1>5, <1>6, <1>7, TaskGoes

LEMMA Dispatched == ASSUME TaskInv, NEW t \in Tasks, DispatchAlert(t) PROVE TaskInv'
<1> DEFINE hooks == Routed(task[t].where, AlertRank(task[t].clusters))
<1>1. /\ GoTo(t, "uncommitted") /\ "uncommitted" \in Phases /\ task[t].phase = "mailed"
      /\ alertLog' = [alertLog EXCEPT ![t] = hooks]
      /\ UNCHANGED <<run, mailed, committed, taskFaults, runbookVars>>
  BY PhaseSets DEF DispatchAlert, At
<1>2. hooks \in SUBSET Hooks
  BY DEF Routed, Wanting
<1> HIDE DEF hooks
<1>3. EngineInv' /\ UNCHANGED <<engine, incident>>
  BY <1>1, EngineAlone DEF runbookVars
<1>4. /\ run' \in [Tasks -> BOOLEAN] /\ alertLog \in [Tasks -> SUBSET Hooks]
      /\ committed' \in [Tasks -> BOOLEAN] /\ mailed' \in [Tasks -> {"no", "sent", "failed"}]
  BY <1>1 DEF TaskInv, TaskTypeOK
<1>5. alertLog' \in [Tasks -> SUBSET Hooks] /\ \A u \in Tasks \ {t} : alertLog'[u] = alertLog[u]
  BY <1>1, <1>2, <1>4
<1>6. ASSUME task'[t].phase = "uncommitted", task'[t].llm = task[t].llm,
             task'[t].clusters = task[t].clusters
      PROVE  Order(t)'
  <2>1. Critical(t)' <=> Critical(t)
    BY <1>6 DEF Critical
  <2> QED BY <1>1, <1>3, <1>6, <2>1, TaskRows DEF Order, Before
<1> QED BY <1>1, <1>3, <1>4, <1>5, <1>6, TaskGoes

LEMMA Commits == ASSUME TaskInv, NEW t \in Tasks, CommitTask(t) PROVE TaskInv'
<1> DEFINE p == IF task[t].llm THEN "runbooks" ELSE "success"
           s == IF task[t].llm THEN "OPEN" ELSE incident[t]
<1>1. /\ GoTo(t, p) /\ p \in Phases /\ task[t].phase = "uncommitted"
      /\ incident' = [incident EXCEPT ![t] = s]
      /\ run' = [run EXCEPT ![t] = TRUE] /\ committed' = [committed EXCEPT ![t] = TRUE]
      /\ UNCHANGED <<mailed, alertLog, taskFaults, runbook, engine, execution, stepsDone, removals>>
  BY PhaseSets DEF CommitTask, At
<1>2. incident \in [Incidents -> {"none", "OPEN", "RESOLVED", "deleted"}] /\ t \in Incidents
  BY TaskRows DEF TaskInv, EngineInv, RunbookTypeOK
<1>3. /\ incident' \in [Incidents -> {"none", "OPEN", "RESOLVED", "deleted"}] /\ incident'[t] = s
      /\ \A u \in Tasks \ {t} : incident'[u] = incident[u]
  <2>1. s \in {"none", "OPEN", "RESOLVED", "deleted"}
    BY <1>2
  <2> HIDE DEF s
  <2> QED BY <1>1, <1>2, <2>1, Sets
<1>4. EngineInv'
  BY <1>1, <1>3, EngineFrame DEF TaskInv
<1>5. /\ run' \in [Tasks -> BOOLEAN] /\ committed' \in [Tasks -> BOOLEAN]
      /\ committed'[t] = TRUE /\ \A u \in Tasks \ {t} : committed'[u] = committed[u]
      /\ alertLog' \in [Tasks -> SUBSET Hooks] /\ mailed' \in [Tasks -> {"no", "sent", "failed"}]
  BY <1>1 DEF TaskInv, TaskTypeOK
<1>6. ASSUME task'[t].phase = p, task'[t].llm = task[t].llm, task'[t].clusters = task[t].clusters
      PROVE  Order(t)'
  <2>1. Critical(t)' <=> Critical(t)
    BY <1>6 DEF Critical
  <2>2. incident[t] = "none" /\ engine'[t].phase = "idle"
    BY <1>1, TaskRows DEF Order, Before
  <2>3. incident'[t] # "none" => task'[t].llm
    BY <1>3, <1>6, <2>2
  <2>4. p \in {"runbooks", "success"} /\ (p = "runbooks" => task'[t].llm)
    BY <1>6
  <2>5. task'[t].llm /\ Critical(t)' => mailed'[t] # "no"
    BY <1>1, <1>6, <2>1, TaskRows DEF Order
  <2> HIDE DEF p, s
  <2> QED BY <1>5, <1>6, <2>2, <2>3, <2>4, <2>5 DEF Order, Before
<1> HIDE DEF p, s
<1> QED BY <1>1, <1>3, <1>4, <1>5, <1>6, TaskGoes

\* A failed commit, and a death before it, take the delivery records along and count
\* as faults.
LEMMA LosesTransaction ==
    ASSUME TaskInv, NEW t \in Tasks, FailCommit(t) \/ CrashTask(t)
    PROVE  TaskInv'
<1>1. PICK p \in {"success", "dead"} : GoTo(t, p)
  BY DEF FailCommit, CrashTask
<1>2. /\ task[t].phase \in {"submitted", "analysed", "mailed", "uncommitted"}
      /\ taskFaults' = taskFaults + 1
      /\ alertLog' = [alertLog EXCEPT ![t] = {}]
      /\ UNCHANGED <<run, mailed, committed, runbookVars>>
  BY DEF FailCommit, CrashTask, TaskFault, At, Active
<1>3. EngineInv' /\ UNCHANGED <<engine, incident>>
  BY <1>2, EngineAlone DEF runbookVars
<1>4. /\ run' \in [Tasks -> BOOLEAN] /\ alertLog \in [Tasks -> SUBSET Hooks]
      /\ committed' \in [Tasks -> BOOLEAN] /\ mailed' \in [Tasks -> {"no", "sent", "failed"}]
  BY <1>2 DEF TaskInv, TaskTypeOK
<1>5. /\ alertLog' \in [Tasks -> SUBSET Hooks] /\ alertLog'[t] = {}
      /\ \A u \in Tasks \ {t} : alertLog'[u] = alertLog[u]
  BY <1>2, <1>4
<1>6. taskFaults' > 0
  BY <1>2, TaskRows
<1>7. ASSUME task'[t].phase = p PROVE Order(t)'
  <2>1. ~committed'[t] /\ incident'[t] = "none" /\ engine'[t].phase = "idle"
    BY <1>2, <1>3, TaskRows DEF Order, Before
  <2> QED BY <1>5, <1>6, <1>7, <2>1 DEF Order, Before
<1>8. p \in Phases
  BY PhaseSets
<1> QED BY <1>1, <1>2, <1>3, <1>4, <1>5, <1>7, <1>8, TaskGoes

\* The engine's steps for a committed task.
LEMMA RunsRunbooks == ASSUME TaskInv, NEW t \in Tasks, RunbooksOf(t) PROVE TaskInv'
<1>1. t \in Incidents /\ EngineInv /\ task[t].phase = "runbooks"
  BY TaskRows DEF TaskInv, RunbooksOf, At
<1>2. EngineInv'
  BY <1>1, CallBegins, EngineSteps DEF RunbooksOf
<1>3. UNCHANGED <<task, run, mailed, alertLog, committed, taskFaults, incident>>
  BY DEF RunbooksOf, taskVars, BeginCall, EngineStep, EndCall, RaiseInLoop, SkipRunbook,
         StartExecution, FinishExecution
<1>4. \A u \in Tasks \ {t} : engine'[u] = engine[u]
  <2>1. engine \in [Incidents -> EngineState]
    BY <1>1 DEF EngineInv, RunbookTypeOK
  <2>2. \A u \in Incidents \ {t} : engine'[u] = engine[u]
    BY <2>1 DEF RunbooksOf, BeginCall, EngineStep, EndCall, RaiseInLoop, SkipRunbook,
                StartExecution, FinishExecution, SetPhase
  <2> QED BY <2>2, Sets
<1>5. ASSUME NEW u \in Tasks PROVE Order(u)'
  <2>1. CASE u = t
    BY <1>1, <1>3, <2>1, TaskRows DEF Order, Before, Critical
  <2>2. CASE u # t
    BY <1>3, <1>4, <2>2, TaskRows, OtherTasks
  <2> QED BY <2>1, <2>2
<1> QED BY <1>2, <1>3, <1>5 DEF TaskInv, TaskTypeOK

LEMMA EndsTask == ASSUME TaskInv, NEW t \in Tasks, EndTask(t) PROVE TaskInv'
<1>1. /\ GoTo(t, "success") /\ "success" \in Phases /\ task[t].phase = "runbooks"
      /\ UNCHANGED <<run, mailed, alertLog, committed, taskFaults, runbookVars>>
  BY PhaseSets DEF EndTask, At
<1>2. ASSUME task'[t].phase = "success", task'[t].llm = task[t].llm,
             task'[t].clusters = task[t].clusters
      PROVE  Order(t)'
  <2>1. Critical(t)' <=> Critical(t)
    BY <1>2 DEF Critical
  <2>2. UNCHANGED <<engine, incident>>
    BY <1>1 DEF runbookVars
  <2> QED BY <1>1, <1>2, <2>1, <2>2, TaskRows DEF Order, Before
<1> QED BY <1>1, <1>2, TaskAlone

LEMMA DiesInRunbooks == ASSUME TaskInv, NEW t \in Tasks, CrashInRunbooks(t) PROVE TaskInv'
<1>1. /\ GoTo(t, "dead") /\ "dead" \in Phases /\ task[t].phase = "runbooks" /\ EngineCrash(t)
      /\ UNCHANGED <<run, mailed, alertLog, committed, taskFaults>>
  BY PhaseSets DEF CrashInRunbooks, At
<1>2. t \in Incidents /\ EngineInv
  BY TaskRows DEF TaskInv
<1>3. EngineInv'
  BY <1>1, <1>2, EngineDies
<1>4. /\ \A u \in Tasks \ {t} : engine'[u] = engine[u]
      /\ UNCHANGED incident
  BY <1>1, <1>2, Sets DEF EngineCrash, SetPhase, EngineInv, RunbookTypeOK
<1>5. /\ run' \in [Tasks -> BOOLEAN] /\ alertLog' \in [Tasks -> SUBSET Hooks]
      /\ committed' \in [Tasks -> BOOLEAN] /\ mailed' \in [Tasks -> {"no", "sent", "failed"}]
  BY <1>1 DEF TaskInv, TaskTypeOK
<1>6. ASSUME task'[t].phase = "dead", task'[t].llm = task[t].llm,
             task'[t].clusters = task[t].clusters
      PROVE  Order(t)'
  <2>1. Critical(t)' <=> Critical(t)
    BY <1>6 DEF Critical
  <2> QED BY <1>1, <1>4, <1>6, <2>1, TaskRows DEF Order, Before
<1> QED BY <1>1, <1>3, <1>4, <1>5, <1>6, TaskGoes

\* The endpoints delete runs, incidents and runbooks, and resolve or reopen incidents.
LEMMA ApiSteps == ASSUME TaskInv, Api PROVE TaskInv'
<1>1. CASE RunbookApi /\ UNCHANGED <<taskVars, routerVars>>
  <2>1. EngineInv'
    BY <1>1, RunbookApiSteps DEF TaskInv
  <2>2. UNCHANGED <<task, run, mailed, alertLog, committed, taskFaults, engine>>
    BY <1>1 DEF taskVars, RunbookApi, CreateRunbook, DeleteRunbook, DeleteIncident
  <2>3. ASSUME NEW t \in Tasks
        PROVE  incident'[t] = incident[t] \/ (incident[t] # "none" /\ incident'[t] # "none")
    <3>1. t \in Incidents /\ incident \in [Incidents -> {"none", "OPEN", "RESOLVED", "deleted"}]
      BY TaskRows DEF TaskInv, EngineInv, RunbookTypeOK
    <3> QED BY <1>1, <3>1 DEF RunbookApi, CreateRunbook, DeleteRunbook, DeleteIncident
  <2>4. \A t \in Tasks : Order(t)'
    BY <2>2, <2>3, TaskRows, OtherTasks
  <2> QED BY <2>1, <2>2, <2>4 DEF TaskInv, TaskTypeOK
<1>2. CASE \E h \in PageHooks, min \in Pages : ~registry[h].known /\ CreateWebhook(h, min, TRUE)
             /\ UNCHANGED <<taskVars, runbookVars>>
  <2>1. UNCHANGED <<taskVars, runbookVars>>
    BY <1>2
  <2>2. UNCHANGED <<task, run, mailed, alertLog, committed, taskFaults, engine, incident>>
    BY <2>1 DEF taskVars, runbookVars
  <2>3. EngineInv'
    BY <2>1, EngineAlone
  <2>4. \A t \in Tasks : Order(t)'
    BY <2>2, TaskRows, OtherTasks
  <2> QED BY <2>2, <2>3, <2>4 DEF TaskInv, TaskTypeOK
<1>3. ASSUME NEW u \in Tasks, DeleteRun(u) PROVE TaskInv'
  <2>1. /\ UNCHANGED <<task, mailed, alertLog, committed, taskFaults, runbook, incident, engine,
                      execution, stepsDone>>
        /\ run' = [run EXCEPT ![u] = FALSE] /\ removals' = removals + 1 /\ removals < MaxRemovals
    BY <1>3 DEF DeleteRun, Remove
  <2>2. run' \in [Tasks -> BOOLEAN]
    BY <2>1 DEF TaskInv, TaskTypeOK
  <2>3. EngineInv'
    <3>1. removals' \in 0 .. MaxRemovals
      BY <2>1, Sets DEF TaskInv, EngineInv, RunbookTypeOK
    <3>2. RunbookTypeOK'
      BY <2>1, <3>1 DEF TaskInv, EngineInv, RunbookTypeOK
    <3>3. \A i \in Incidents : EngineOrder(i)'
      BY <2>1, OtherCalls DEF TaskInv, EngineInv
    <3> QED BY <3>2, <3>3 DEF EngineInv
  <2>4. \A t \in Tasks : Order(t)'
    BY <2>1, TaskRows, OtherTasks
  <2> QED BY <2>1, <2>2, <2>3, <2>4 DEF TaskInv, TaskTypeOK
<1>4. ASSUME NEW u \in Tasks, NEW b \in BOOLEAN, ResolveIncident(u, b) PROVE TaskInv'
  <2> DEFINE s == IF b THEN "RESOLVED" ELSE "OPEN"
  <2>1. /\ incident[u] \in {"OPEN", "RESOLVED"} /\ incident' = [incident EXCEPT ![u] = s]
        /\ UNCHANGED <<task, run, mailed, alertLog, committed, taskFaults, runbook, engine,
                      execution, stepsDone, removals>>
    BY <1>4 DEF ResolveIncident, taskVars
  <2>2. s \in {"OPEN", "RESOLVED"}
    OBVIOUS
  <2> HIDE DEF s
  <2>3. incident \in [Incidents -> {"none", "OPEN", "RESOLVED", "deleted"}]
    BY DEF TaskInv, EngineInv, RunbookTypeOK
  <2>4. incident' \in [Incidents -> {"none", "OPEN", "RESOLVED", "deleted"}]
    BY <2>1, <2>2, <2>3
  <2>5. EngineInv'
    BY <2>1, <2>4, EngineFrame DEF TaskInv
  <2>6. ASSUME NEW t \in Tasks PROVE Order(t)'
    <3>1. incident'[t] = incident[t] \/ (incident[t] # "none" /\ incident'[t] # "none")
      BY <2>1, <2>2, <2>3, Sets
    <3> QED BY <2>1, <3>1, TaskRows, OtherTasks
  <2> QED BY <2>1, <2>5, <2>6 DEF TaskInv, TaskTypeOK
<1> QED BY <1>1, <1>2, <1>3, <1>4 DEF Api

-----------------------------------------------------------------------------
LEMMA TaskPreserved == TaskInv /\ [TaskNext]_analysisVars => TaskInv'
<1> SUFFICES ASSUME TaskInv, [TaskNext]_analysisVars PROVE TaskInv'
  OBVIOUS
<1>1. CASE UNCHANGED analysisVars
  <2>1. UNCHANGED <<taskVars, runbookVars>>
    BY <1>1 DEF analysisVars
  <2>2. UNCHANGED <<task, run, mailed, alertLog, committed, taskFaults, engine, incident>>
    BY <2>1 DEF taskVars, runbookVars
  <2>3. EngineInv'
    BY <2>1, EngineAlone
  <2>4. \A t \in Tasks : Order(t)'
    BY <2>2, TaskRows, OtherTasks
  <2> QED BY <2>2, <2>3, <2>4 DEF TaskInv, TaskTypeOK
<1>2. CASE Api
  BY <1>2, ApiSteps
<1>3. ASSUME NEW t \in Tasks,
             \/ \E where \in {"worker", "inline"} : Submit(t, where)
             \/ TaskStep(t) \/ FailAnalysis(t) \/ FailCommit(t)
             \/ CrashTask(t) \/ CrashInRunbooks(t)
      PROVE  TaskInv'
  <2>1. CASE TaskStep(t)
    BY <2>1, GivesUp, Dispatched, Commits, RunsRunbooks, EndsTask, Analysed, Mails DEF TaskStep
  <2> QED BY <1>3, <2>1, Submitted, GivesUp, LosesTransaction, DiesInRunbooks
<1> QED BY <1>1, <1>2, <1>3 DEF TaskNext

\* Runbooks run for committed incidents only; an incident and delivery records exist
\* with their run's transaction committed; an e-mail about an incident that was never
\* recorded is the mark of a fault.
THEOREM RecordsTogether == AnalysisSpec => []RecordedTogether
<1>1. TaskInv => RecordedTogether
  <2> SUFFICES ASSUME TaskInv, NEW t \in Tasks
               PROVE  /\ (\E r \in Runbooks : execution[t][r] # "none")
                           => committed[t] /\ task[t].llm
                      /\ incident[t] # "none" => committed[t]
                      /\ Ended(t) /\ alertLog[t] # {} => committed[t]
                      /\ mailed[t] # "no" /\ ~committed[t] /\ Ended(t) => taskFaults > 0
    BY DEF RecordedTogether
  <2>1. Order(t) /\ EngineOrder(t)
    BY TaskRows DEF TaskInv, EngineInv
  <2>2. (\E r \in Runbooks : execution[t][r] # "none") => engine[t].phase # "idle"
    BY <2>1 DEF EngineOrder
  <2> QED BY <2>1, <2>2 DEF Order, Ended, Before
<1> QED BY TaskInitially, TaskPreserved, <1>1, PTL DEF AnalysisSpec

\* Where a critical cluster stands among the clusters does not matter: somebody was to
\* be mailed about it before its incident was committed.
THEOREM PagesForCritical == AnalysisSpec => []CriticalIsPaged
<1>1. TaskInv => CriticalIsPaged
  <2> SUFFICES ASSUME TaskInv, NEW t \in Tasks, Critical(t), incident[t] # "none"
               PROVE  mailed[t] # "no"
    BY DEF CriticalIsPaged, Critical
  <2> QED BY TaskRows DEF Order
<1> QED BY TaskInitially, TaskPreserved, <1>1, PTL DEF AnalysisSpec

LEMMA EngineTruth == EngineInv => ExecutionsAreTrue
<1> SUFFICES ASSUME EngineInv PROVE ExecutionsAreTrue
  OBVIOUS
<1>1. ASSUME NEW i \in Incidents, NEW r \in Runbooks, execution[i][r] = "RUNNING"
      PROVE  /\ engine[i].phase \in {"executing", "dead"}
             /\ \A q \in Runbooks \ {r} : execution[i][q] # "RUNNING"
  BY <1>1, EngineRows DEF EngineOrder, EngineState
<1>2. SuccessIsEarned
  BY EngineRows DEF EngineOrder, SuccessIsEarned
<1>3. EveryMatchExecuted
  BY EngineRows DEF EngineOrder, EveryMatchExecuted, Settled
<1> QED BY <1>1, <1>2, <1>3 DEF ExecutionsAreTrue, ExecutionsSettle

\* An execution is left RUNNING by a dead worker alone, is SUCCESS only with all its
\* steps done, and a call that returns has settled every runbook that matched.
THEOREM ExecutionsTellTheTruth == AnalysisSpec => []ExecutionsAreTrue
<1>1. TaskInv => ExecutionsAreTrue
  BY EngineTruth DEF TaskInv
<1> QED BY TaskInitially, TaskPreserved, <1>1, PTL DEF AnalysisSpec

-----------------------------------------------------------------------------
(***************************************************************************)
(* The evaluator.  What a tick has measured is committed or pending in its *)
(* session.  A tick that found no incident for what it measured is alone,  *)
(* so there still is none when it opens one.                               *)
(***************************************************************************)
AnySlo == Slos \cup {CHOOSE s \in Slos : TRUE}
TickPhases == {"none", "looping", "found", "runbooks", "spoiled", "done", "dead"}
TickState == [phase : TickPhases, rest : SUBSET Slos, slo : AnySlo, kind : {"good"} \cup Kinds,
              found : Incidents \cup {NoIncident}, current : Incidents \cup {NoIncident},
              pending : SUBSET Slos]

SloTypeOK ==
    /\ slo \in [Slos -> {"none", "live", "deleted"}]
    /\ about \in [Incidents -> [slo : AnySlo, kind : Kinds]]
    /\ tick \in [Ticks -> TickState]
    /\ evaluated \in [Ticks -> SUBSET Slos]
    /\ kept \in [Ticks -> SUBSET Slos]
    /\ overlapped \in BOOLEAN /\ reopened \in BOOLEAN

TickOrder(k) ==
    /\ tick[k].phase \in {"none", "done"} => tick[k].pending = {}
    /\ tick[k].phase = "none" => evaluated[k] = {} /\ kept[k] = {}
    /\ tick[k].phase \in {"looping", "found", "runbooks", "done"} =>
         evaluated[k] = kept[k] \cup tick[k].pending
    /\ tick[k].phase = "found" => tick[k].kind \in Kinds
    /\ tick[k].phase = "runbooks" => tick[k].current \in Incidents

Raced == overlapped \/ reopened
Alone == ~overlapped => \A j, k \in Ticks : Busy(j) /\ Busy(k) => j = k
Open(i) == incident[i] = "OPEN"
OneOpen == ~Raced => \A i, j \in Incidents : Open(i) /\ Open(j) /\ about[i] = about[j] => i = j
\* Nothing has been opened for what tick k has just looked up in vain.
StillNone(k) ==
    ~Raced /\ tick[k].phase = "found" /\ tick[k].found = NoIncident =>
        \A i \in Incidents : ~(Open(i) /\ about[i] = [slo |-> tick[k].slo, kind |-> tick[k].kind])

SloInv == /\ SloTypeOK /\ EngineInv /\ Alone /\ OneOpen
          /\ \A k \in Ticks : TickOrder(k) /\ StillNone(k)

LEMMA SloInitially == SloInit => SloInv
<1> SUFFICES ASSUME SloInit PROVE SloInv
  OBVIOUS
<1>1. NoTick \in TickState
  BY DEF NoTick, TickState, TickPhases, AnySlo, Kinds
<1>2. SloTypeOK
  BY <1>1 DEF SloInit, SloTypeOK, AnySlo, Kinds
<1>3. EngineInv
  BY EngineInitially DEF SloInit
<1>4. \A k \in Ticks : tick[k] = NoTick /\ evaluated[k] = {} /\ kept[k] = {}
  BY DEF SloInit
<1>5. \A i \in Incidents : ~Open(i)
  BY DEF SloInit, RunbookInit, Open
<1>6. \A k \in Ticks : TickOrder(k) /\ StillNone(k) /\ ~Busy(k)
  <2>1. NoTick.phase = "none" /\ NoTick.pending = {}
    BY DEF NoTick
  <2> QED BY <1>4, <2>1 DEF TickOrder, StillNone, Busy
<1> QED BY <1>2, <1>3, <1>5, <1>6 DEF SloInv, Alone, OneOpen

\* The objectives, the incidents and the other ticks are left alone: what is left to
\* show is about tick k.
LEMMA TickGoes ==
    ASSUME SloInv, NEW k \in Ticks, NEW t \in TickState,
           tick' = [tick EXCEPT ![k] = t],
           UNCHANGED <<slo, about, incident, overlapped, reopened>>,
           \A j \in Ticks : j # k => evaluated'[j] = evaluated[j] /\ kept'[j] = kept[j],
           evaluated' \in [Ticks -> SUBSET Slos], kept' \in [Ticks -> SUBSET Slos],
           EngineInv', TickOrder(k)', StillNone(k)',
           t.phase \notin {"none", "done", "dead"} => Busy(k)
    PROVE  SloInv'
<1>1. /\ tick'[k] = t /\ \A j \in Ticks : j # k => tick'[j] = tick[j]
      /\ tick' \in [Ticks -> TickState]
  BY DEF SloInv, SloTypeOK
<1>2. SloTypeOK'
  BY <1>1 DEF SloInv, SloTypeOK
<1>3. Alone'
  BY <1>1 DEF SloInv, Alone, Busy
<1>4. OneOpen'
  BY DEF SloInv, OneOpen, Raced, Open
<1>5. ASSUME NEW j \in Ticks, j # k PROVE TickOrder(j)' /\ StillNone(j)'
  BY <1>1, <1>5 DEF SloInv, TickOrder, StillNone, Raced, Open
<1> QED BY <1>2, <1>3, <1>4, <1>5 DEF SloInv

LEMMA TickRows ==
    ASSUME SloInv, NEW k \in Ticks
    PROVE  /\ tick[k] \in TickState /\ TickOrder(k) /\ StillNone(k)
           /\ evaluated[k] \in SUBSET Slos /\ kept[k] \in SUBSET Slos
           /\ incident \in [Incidents -> {"none", "OPEN", "RESOLVED", "deleted"}]
BY DEF SloInv, SloTypeOK, EngineInv, RunbookTypeOK

LEMMA TickStarts == ASSUME SloInv, NEW k \in Ticks, StartTick(k) PROVE SloInv'
<1> DEFINE t == [tick[k] EXCEPT !.phase = "looping", !.rest = {s \in Slos : slo[s] = "live"}]
<1>1. /\ t \in TickState /\ t.phase = "looping" /\ t.pending = tick[k].pending
      /\ tick[k].phase = "none"
  BY TickRows DEF TickState, TickPhases, StartTick, In
<1>2. /\ tick' = [tick EXCEPT ![k] = t]
      /\ UNCHANGED <<slo, about, evaluated, kept, reopened, runbookVars>>
      /\ overlapped' = (overlapped \/ \E j \in Ticks : Busy(j))
  BY TickRows DEF StartTick
<1> HIDE DEF t
<1>3. /\ tick'[k] = t /\ \A j \in Ticks : j # k => tick'[j] = tick[j]
      /\ tick' \in [Ticks -> TickState]
  BY <1>1, <1>2 DEF SloInv, SloTypeOK
<1>4. SloTypeOK'
  BY <1>2, <1>3 DEF SloInv, SloTypeOK
<1>5. EngineInv'
  BY <1>2, EngineFrame DEF SloInv, EngineInv, RunbookTypeOK, runbookVars
<1>6. Alone' /\ (Raced => Raced')
  <2>1. Raced => Raced'
    BY <1>2 DEF Raced
  <2>2. ASSUME ~overlapped', NEW j \in Ticks, Busy(j)' PROVE j = k
    BY <1>2, <1>3, <2>2 DEF Busy
  <2> QED BY <2>1, <2>2 DEF Alone
<1>7. OneOpen'
  BY <1>2, <1>6 DEF SloInv, OneOpen, Open, runbookVars
<1>8. ASSUME NEW j \in Ticks PROVE TickOrder(j)' /\ StillNone(j)'
  <2>1. CASE j = k
    BY <1>1, <1>2, <1>3, <2>1, TickRows DEF TickOrder, StillNone
  <2>2. CASE j # k
    BY <1>2, <1>3, <1>6, <2>2, TickRows DEF TickOrder, StillNone, Open, runbookVars
  <2> QED BY <2>1, <2>2
<1> QED BY <1>4, <1>5, <1>6, <1>7, <1>8 DEF SloInv

LEMMA Measures ==
    ASSUME SloInv, NEW k \in Ticks, NEW s \in Slos, NEW o \in {"good"} \cup Kinds, Measure(k, s, o)
    PROVE  SloInv'
<1>1. PICK i \in IF o = "good" \/ Lookup(s, o) = {} THEN {NoIncident} ELSE Lookup(s, o) :
        tick' = [tick EXCEPT ![k] =
             [tick[k] EXCEPT !.rest = @ \ {s}, !.pending = @ \cup {s},
                       !.phase = IF o = "good" THEN "looping" ELSE "found",
                       !.slo = s, !.kind = o, !.found = i]]
  BY DEF Measure
<1> DEFINE t == [tick[k] EXCEPT !.rest = @ \ {s}, !.pending = @ \cup {s},
                       !.phase = IF o = "good" THEN "looping" ELSE "found",
                       !.slo = s, !.kind = o, !.found = i]
<1>2. i \in Incidents \cup {NoIncident}
  BY DEF Lookup, OpenFor
<1>3. /\ t \in TickState /\ t.phase = IF o = "good" THEN "looping" ELSE "found"
      /\ t.pending = tick[k].pending \cup {s} /\ t.slo = s /\ t.kind = o /\ t.found = i
      /\ tick[k].phase = "looping"
  BY <1>2, TickRows DEF TickState, TickPhases, Measure, In, AnySlo
<1>4. /\ tick' = [tick EXCEPT ![k] = t]
      /\ UNCHANGED <<slo, about, incident, kept, overlapped, reopened, runbookVars>>
      /\ evaluated' = [evaluated EXCEPT ![k] = @ \cup {s}]
  <2>1. tick' = [tick EXCEPT ![k] = t]
    BY <1>1
  <2> QED BY <2>1 DEF Measure, runbookVars
<1> HIDE DEF t
<1>5. tick'[k] = t
  BY <1>4 DEF SloInv, SloTypeOK
<1>6. /\ evaluated' \in [Ticks -> SUBSET Slos] /\ evaluated'[k] = evaluated[k] \cup {s}
      /\ \A j \in Ticks : j # k => evaluated'[j] = evaluated[j]
  BY <1>4 DEF SloInv, SloTypeOK
<1>7. EngineInv'
  BY <1>4, EngineFrame DEF SloInv, EngineInv, RunbookTypeOK, runbookVars
<1>8. TickOrder(k)'
  BY <1>3, <1>4, <1>5, <1>6, TickRows DEF TickOrder
<1>9. StillNone(k)'
  <2> SUFFICES ASSUME ~Raced, t.phase = "found", t.found = NoIncident
               PROVE  \A j \in Incidents : ~(Open(j) /\ about[j] = [slo |-> s, kind |-> o])
    BY <1>3, <1>4, <1>5 DEF StillNone, Raced, Open
  <2>1. o # "good" /\ i = NoIncident
    BY <1>3
  <2>2. Lookup(s, o) = {}
    BY <2>1, SloAssumption DEF Lookup, OpenFor
  <2> QED BY <2>2 DEF Lookup, OpenFor, Open
<1>10. Busy(k)
  BY <1>3 DEF Busy
<1> QED BY <1>3, <1>4, <1>6, <1>7, <1>8, <1>9, <1>10, TickGoes DEF SloInv, SloTypeOK

\* Points become visible: what was pending is kept.
LEMMA PointsCommitted ==
    ASSUME SloInv, NEW k \in Ticks, CommitPoints(k)
    PROVE  /\ kept' \in [Ticks -> SUBSET Slos] /\ kept'[k] = kept[k] \cup tick[k].pending
           /\ \A j \in Ticks : j # k => kept'[j] = kept[j]
<1>1. tick[k].pending \subseteq Slos
  BY TickRows DEF TickState
<1>2. kept' = [kept EXCEPT ![k] = kept[k] \cup tick[k].pending]
  BY DEF CommitPoints
<1> QED BY <1>1, <1>2 DEF SloInv, SloTypeOK

LEMMA Refreshes == ASSUME SloInv, NEW k \in Ticks, Refresh(k) PROVE SloInv'
<1>1. /\ tick[k].phase = "found"
      /\ UNCHANGED <<slo, about, incident, evaluated, overlapped, reopened, runbookVars>>
  BY DEF Refresh, In, runbookVars
<1>2. EngineInv'
  BY <1>1, EngineFrame DEF SloInv, EngineInv, RunbookTypeOK, runbookVars
<1>3. CASE tick[k].kind = "breach"
  <2> DEFINE t == [tick[k] EXCEPT !.phase = "looping", !.pending = {}]
  <2>1. t \in TickState /\ t.phase = "looping" /\ t.pending = {}
    BY TickRows DEF TickState, TickPhases
  <2>2. tick' = [tick EXCEPT ![k] = t] /\ CommitPoints(k)
    BY <1>3, TickRows DEF Refresh
  <2> HIDE DEF t
  <2>3. tick'[k] = t
    BY <2>2 DEF SloInv, SloTypeOK
  <2>4. kept'[k] = kept[k] \cup tick[k].pending
    BY <2>2, PointsCommitted
  <2>5. TickOrder(k)' /\ StillNone(k)'
    BY <1>1, <2>1, <2>3, <2>4, TickRows DEF TickOrder, StillNone
  <2>6. Busy(k)
    BY <1>1 DEF Busy
  <2> QED BY <1>1, <1>2, <2>1, <2>2, <2>5, <2>6, PointsCommitted, TickGoes DEF SloInv, SloTypeOK
<1>4. CASE tick[k].kind # "breach"
  <2> DEFINE t == [tick[k] EXCEPT !.phase = "looping"]
  <2>1. t \in TickState /\ t.phase = "looping" /\ t.pending = tick[k].pending
    BY TickRows DEF TickState, TickPhases
  <2>2. tick' = [tick EXCEPT ![k] = t] /\ UNCHANGED kept
    BY <1>4, TickRows DEF Refresh
  <2> HIDE DEF t
  <2>3. tick'[k] = t
    BY <2>2 DEF SloInv, SloTypeOK
  <2>4. TickOrder(k)' /\ StillNone(k)'
    BY <1>1, <2>1, <2>2, <2>3, TickRows DEF TickOrder, StillNone
  <2>5. Busy(k)
    BY <1>1 DEF Busy
  <2> QED BY <1>1, <1>2, <2>1, <2>2, <2>4, <2>5, TickGoes DEF SloInv, SloTypeOK
<1> QED BY <1>3, <1>4

\* The one tick at work opens an incident where there was none.
LEMMA Opens ==
    ASSUME SloInv, NEW k \in Ticks, NEW i \in SloIncidents, OpenIncident(k, i)
    PROVE  SloInv'
<1> DEFINE t == [tick[k] EXCEPT !.phase = "runbooks", !.current = i, !.pending = {}]
           a == [slo |-> tick[k].slo, kind |-> tick[k].kind]
<1>1. i \in Incidents
  BY SloAssumption
<1>2. /\ tick[k].phase = "found" /\ tick[k].found = NoIncident /\ incident[i] = "none"
      /\ tick' = [tick EXCEPT ![k] = t] /\ CommitPoints(k)
      /\ incident' = [incident EXCEPT ![i] = "OPEN"] /\ about' = [about EXCEPT ![i] = a]
      /\ UNCHANGED <<slo, evaluated, overlapped, reopened, runbook, engine, execution,
                     stepsDone, removals>>
  BY TickRows DEF OpenIncident, In
<1>3. t \in TickState /\ t.phase = "runbooks" /\ t.pending = {} /\ t.current = i
  BY <1>1, TickRows DEF TickState, TickPhases
<1>4. a \in [slo : AnySlo, kind : Kinds]
  BY <1>2, TickRows DEF TickState, TickOrder
<1> HIDE DEF t
<1>5. /\ tick'[k] = t /\ \A j \in Ticks : j # k => tick'[j] = tick[j]
      /\ tick' \in [Ticks -> TickState]
  BY <1>2, <1>3 DEF SloInv, SloTypeOK
<1>6. /\ incident' \in [Incidents -> {"none", "OPEN", "RESOLVED", "deleted"}]
      /\ \A j \in Incidents : Open(j)' <=> Open(j) \/ j = i
      /\ about'[i] = a /\ \A j \in Incidents : j # i => about'[j] = about[j]
      /\ about' \in [Incidents -> [slo : AnySlo, kind : Kinds]]
  BY <1>1, <1>2, <1>4, TickRows DEF SloInv, SloTypeOK, Open
<1>7. SloTypeOK'
  BY <1>2, <1>5, <1>6, PointsCommitted DEF SloInv, SloTypeOK
<1>8. EngineInv'
  BY <1>2, <1>6, EngineFrame DEF SloInv
<1>9. Alone'
  BY <1>2, <1>3, <1>5 DEF SloInv, Alone, Busy
<1>10. OneOpen'
  <2> SUFFICES ASSUME ~Raced, NEW j \in Incidents, NEW l \in Incidents, Open(j)', Open(l)',
                      about'[j] = about'[l]
               PROVE  j = l
    BY <1>2 DEF OneOpen, Raced
  <2>1. \A x \in Incidents : ~(Open(x) /\ about[x] = a)
    BY <1>2, TickRows DEF StillNone
  <2> QED BY <1>6, <2>1 DEF SloInv, OneOpen
<1>11. TickOrder(k)' /\ StillNone(k)'
  <2>1. kept'[k] = kept[k] \cup tick[k].pending
    BY <1>2, PointsCommitted
  <2> QED BY <1>1, <1>2, <1>3, <1>5, <2>1, TickRows DEF TickOrder, StillNone
<1>12. ASSUME NEW j \in Ticks, j # k PROVE TickOrder(j)' /\ StillNone(j)'
  <2>1. kept'[j] = kept[j]
    BY <1>2, <1>12, PointsCommitted
  <2>2. TickOrder(j)'
    BY <1>2, <1>5, <1>12, <2>1, TickRows DEF TickOrder
  <2>3. overlapped \/ tick[j].phase # "found"
    BY <1>2, <1>12 DEF SloInv, Alone, Busy
  <2>4. StillNone(j)'
    BY <1>2, <1>5, <1>12, <2>3 DEF StillNone, Raced
  <2> QED BY <2>2, <2>4
<1> QED BY <1>7, <1>8, <1>9, <1>10, <1>11, <1>12 DEF SloInv

\* Moves that commit nothing and look up nothing.
LEMMA TickMoves ==
    ASSUME SloInv, NEW k \in Ticks, Busy(k), NEW t \in TickState,
           tick' = [tick EXCEPT ![k] = t],
           t.phase \in {"looping", "spoiled", "dead"},
           t.phase = "looping" => /\ tick[k].phase \in {"looping", "runbooks"}
                                  /\ t.pending = tick[k].pending,
           UNCHANGED <<slo, about, incident, overlapped, reopened, evaluated, kept>>, EngineInv'
    PROVE  SloInv'
<1>1. tick'[k] = t
  BY DEF SloInv, SloTypeOK
<1>2. TickOrder(k)' /\ StillNone(k)'
  BY <1>1, TickRows DEF TickOrder, StillNone
<1> QED BY <1>2, TickGoes DEF SloInv, SloTypeOK

LEMMA TickQuietSteps ==
    ASSUME SloInv, NEW k \in Ticks,
           \/ \E s \in Slos : FailMeasure(k, s)
           \/ SpoilSession(k) \/ AfterRunbooks(k) \/ RollBack(k) \/ KillTick(k)
    PROVE  SloInv'
<1>1. /\ UNCHANGED <<slo, about, incident, overlapped, reopened, evaluated, kept, runbookVars>>
      /\ Busy(k)
  BY DEF FailMeasure, SpoilSession, AfterRunbooks, RollBack, KillTick, In, Busy, runbookVars
<1>2. EngineInv'
  BY <1>1, EngineFrame DEF SloInv, EngineInv, RunbookTypeOK, runbookVars
<1>3. ASSUME NEW s \in Slos, FailMeasure(k, s) PROVE SloInv'
  <2> DEFINE t == [tick[k] EXCEPT !.rest = @ \ {s}]
  <2>1. /\ t \in TickState /\ t.phase = "looping" /\ t.pending = tick[k].pending
        /\ tick[k].phase = "looping"
    BY <1>3, TickRows DEF TickState, FailMeasure, In
  <2>2. tick' = [tick EXCEPT ![k] = t]
    BY <1>3, TickRows DEF FailMeasure
  <2> QED BY <1>1, <1>2, <2>1, <2>2, TickMoves
<1>4. CASE SpoilSession(k)
  <2> DEFINE t == [tick[k] EXCEPT !.phase = "spoiled", !.rest = {}]
  <2>1. t \in TickState /\ t.phase = "spoiled"
    BY TickRows DEF TickState, TickPhases
  <2>2. tick' = [tick EXCEPT ![k] = t]
    BY <1>4, TickRows DEF SpoilSession
  <2> QED BY <1>1, <1>2, <2>1, <2>2, TickMoves
<1>5. CASE AfterRunbooks(k)
  <2> DEFINE t == [tick[k] EXCEPT !.phase = "looping"]
  <2>1. /\ t \in TickState /\ t.phase = "looping" /\ t.pending = tick[k].pending
        /\ tick[k].phase = "runbooks"
    BY <1>5, TickRows DEF TickState, TickPhases, AfterRunbooks, In
  <2>2. tick' = [tick EXCEPT ![k] = t]
    BY <1>5, TickRows DEF AfterRunbooks
  <2> QED BY <1>1, <1>2, <2>1, <2>2, TickMoves
<1>6. CASE RollBack(k) \/ KillTick(k)
  <2> DEFINE t == [tick[k] EXCEPT !.phase = "dead", !.pending = {}]
  <2>1. t \in TickState /\ t.phase = "dead"
    BY TickRows DEF TickState, TickPhases
  <2>2. tick' = [tick EXCEPT ![k] = t]
    BY <1>6, TickRows DEF RollBack, KillTick
  <2> QED BY <1>1, <1>2, <2>1, <2>2, TickMoves
<1> QED BY <1>3, <1>4, <1>5, <1>6

LEMMA TickFinishes == ASSUME SloInv, NEW k \in Ticks, FinishTick(k) PROVE SloInv'
<1> DEFINE t == [tick[k] EXCEPT !.phase = "done", !.pending = {}]
<1>1. t \in TickState /\ t.phase = "done" /\ t.pending = {} /\ tick[k].phase = "looping"
  BY TickRows DEF TickState, TickPhases, FinishTick, In
<1>2. /\ tick' = [tick EXCEPT ![k] = t] /\ CommitPoints(k)
      /\ UNCHANGED <<slo, about, incident, evaluated, overlapped, reopened, runbookVars>>
  BY TickRows DEF FinishTick, runbookVars
<1> HIDE DEF t
<1>3. tick'[k] = t
  BY <1>2 DEF SloInv, SloTypeOK
<1>4. kept'[k] = kept[k] \cup tick[k].pending
  BY <1>2, PointsCommitted
<1>5. TickOrder(k)' /\ StillNone(k)'
  BY <1>1, <1>2, <1>3, <1>4, TickRows DEF TickOrder, StillNone
<1>6. EngineInv'
  BY <1>2, EngineFrame DEF SloInv, EngineInv, RunbookTypeOK, runbookVars
<1> QED BY <1>1, <1>2, <1>5, <1>6, PointsCommitted, TickGoes DEF SloInv, SloTypeOK

\* The engine leaves incidents alone.
LEMMA RunbooksRun ==
    ASSUME SloInv, NEW k \in Ticks, RunbooksOfTick(k) \/ KillInRunbooks(k)
    PROVE  SloInv'
<1>1. tick[k].current \in Incidents /\ Busy(k)
  BY TickRows DEF RunbooksOfTick, KillInRunbooks, TickOrder, In, Busy
<1>2. EngineInv' /\ incident' = incident
  <2>1. CASE RunbooksOfTick(k)
    <3>1. BeginCall(tick[k].current) \/ EngineStep(tick[k].current)
      BY <2>1 DEF RunbooksOfTick
    <3>2. EngineInv'
      BY <1>1, <3>1, CallBegins, EngineSteps DEF SloInv
    <3>3. incident' = incident
      BY <3>1 DEF BeginCall, EngineStep, EndCall, RaiseInLoop, SkipRunbook, StartExecution,
                  FinishExecution
    <3> QED BY <3>2, <3>3
  <2>2. CASE KillInRunbooks(k)
    BY <1>1, <2>2, EngineDies DEF KillInRunbooks, EngineCrash, SloInv
  <2> QED BY <2>1, <2>2
<1>3. CASE RunbooksOfTick(k)
  <2>1. UNCHANGED sloVars
    BY <1>3 DEF RunbooksOfTick
  <2>2. SloTypeOK' /\ Alone' /\ OneOpen' /\ \A j \in Ticks : TickOrder(j)' /\ StillNone(j)'
    BY <1>2, <2>1 DEF SloInv, SloTypeOK, Alone, Busy, OneOpen, Open, Raced, TickOrder, StillNone,
                      sloVars
  <2> QED BY <1>2, <2>2 DEF SloInv
<1>4. CASE KillInRunbooks(k)
  <2> DEFINE t == [tick[k] EXCEPT !.phase = "dead"]
  <2>1. t \in TickState /\ t.phase = "dead"
    BY TickRows DEF TickState, TickPhases
  <2>2. /\ tick' = [tick EXCEPT ![k] = t]
        /\ UNCHANGED <<slo, about, overlapped, reopened, evaluated, kept>>
    BY <1>4, TickRows DEF KillInRunbooks
  <2> QED BY <1>1, <1>2, <2>1, <2>2, TickMoves
<1> QED BY <1>3, <1>4

\* Incidents are resolved and deleted under way: none is opened that was not open,
\* unless it is reopened.
LEMMA IncidentsClose ==
    ASSUME SloInv, UNCHANGED <<slo, about, tick, evaluated, kept, overlapped>>, EngineInv',
           reopened' \in BOOLEAN, reopened => reopened',
           \A i \in Incidents : Open(i)' => Open(i) \/ reopened'
    PROVE  SloInv'
<1>1. SloTypeOK' /\ Alone' /\ \A k \in Ticks : TickOrder(k)'
  BY DEF SloInv, SloTypeOK, Alone, Busy, TickOrder
<1>2. OneOpen'
  BY DEF SloInv, OneOpen, Raced
<1>3. \A k \in Ticks : StillNone(k)'
  BY DEF SloInv, StillNone, Raced
<1> QED BY <1>1, <1>2, <1>3 DEF SloInv

LEMMA SloPreserved == SloInv /\ [SloNext]_sloAll => SloInv'
<1> SUFFICES ASSUME SloInv, [SloNext]_sloAll PROVE SloInv'
  OBVIOUS
<1>1. ASSUME NEW k \in Ticks, TickStep(k) PROVE SloInv'
  BY <1>1, Refreshes, TickQuietSteps, RunbooksRun, TickFinishes, Opens, Measures DEF TickStep
<1>2. ASSUME NEW i \in Incidents, NEW b \in BOOLEAN, ResolveSloIncident(i, b) PROVE SloInv'
  <2>1. /\ incident' = [incident EXCEPT ![i] = IF b THEN "RESOLVED" ELSE "OPEN"]
        /\ reopened' = (reopened \/ ~b)
        /\ UNCHANGED <<slo, about, tick, evaluated, kept, overlapped, runbook, engine, execution,
                       stepsDone, removals>>
    BY <1>2 DEF ResolveSloIncident
  <2>2. incident \in [Incidents -> {"none", "OPEN", "RESOLVED", "deleted"}]
    BY DEF SloInv, EngineInv, RunbookTypeOK
  <2>3. EngineInv'
    BY <2>1, <2>2, EngineFrame DEF SloInv
  <2>4. \A j \in Incidents : Open(j)' => Open(j) \/ reopened'
    BY <2>1, <2>2 DEF Open
  <2>5. reopened' \in BOOLEAN /\ (reopened => reopened')
    BY <2>1 DEF SloInv, SloTypeOK
  <2> QED BY <2>1, <2>3, <2>4, <2>5, IncidentsClose
<1>3. ASSUME NEW s \in Slos, CreateSlo(s) \/ DeleteSlo(s) PROVE SloInv'
  <2>1. /\ UNCHANGED <<about, tick, evaluated, kept, overlapped, reopened, runbook, incident,
                       engine, execution, stepsDone>>
        /\ slo' \in [Slos -> {"none", "live", "deleted"}]
        /\ removals' \in 0 .. MaxRemovals
    BY <1>3, Sets DEF CreateSlo, DeleteSlo, Remove, SloInv, SloTypeOK, EngineInv, RunbookTypeOK,
                      runbookVars
  <2>2. EngineInv'
    BY <2>1, OtherCalls DEF SloInv, EngineInv, RunbookTypeOK
  <2>3. SloTypeOK' /\ Alone' /\ OneOpen' /\ \A k \in Ticks : TickOrder(k)' /\ StillNone(k)'
    BY <2>1 DEF SloInv, SloTypeOK, Alone, Busy, OneOpen, Open, Raced, TickOrder, StillNone
  <2> QED BY <2>2, <2>3 DEF SloInv
<1>4. CASE RunbookApi /\ UNCHANGED sloVars
  <2>1. EngineInv'
    BY <1>4, RunbookApiSteps DEF SloInv
  <2>2. \A i \in Incidents : Open(i)' => Open(i)
    BY <1>4 DEF RunbookApi, DeleteRunbook, CreateRunbook, DeleteIncident, Open, SloInv, EngineInv,
                RunbookTypeOK
  <2> QED BY <1>4, <2>1, <2>2, IncidentsClose DEF sloVars, SloInv, SloTypeOK
<1>5. CASE UNCHANGED sloAll
  <2>1. UNCHANGED <<sloVars, runbook, incident, engine, execution, stepsDone, removals>>
    BY <1>5 DEF sloAll, runbookVars
  <2>2. EngineInv'
    BY <2>1, EngineFrame DEF SloInv, EngineInv, RunbookTypeOK
  <2> QED BY <2>1, <2>2, IncidentsClose DEF sloVars, SloInv, SloTypeOK, Open
<1> QED BY <1>1, <1>2, <1>3, <1>4, <1>5, TickStarts, TickQuietSteps, RunbooksRun DEF SloNext

\* A breach is neither told twice nor forgotten, for any objectives and any number of
\* ticks: while no two ticks run at once and nobody reopens an incident there is one
\* open incident of a kind for an objective, and a tick that runs to its end has
\* added a data point for everything it measured.
THEOREM BreachesRecorded == SloSpec => []BreachesAreRecorded
<1>1. SloInv => BreachesAreRecorded
  <2> SUFFICES ASSUME SloInv PROVE OneOpenUnlessRaced /\ EveryMeasureKept
    BY DEF BreachesAreRecorded
  <2>1. EveryMeasureKept
    BY TickRows DEF EveryMeasureKept, In, TickOrder
  <2>2. ASSUME ~Raced, NEW s \in Slos, NEW kind \in Kinds
        PROVE  Cardinality(OpenFor(s, kind)) <= 1
    <3>1. \A i, j \in OpenFor(s, kind) : i = j
      BY <2>2 DEF SloInv, OneOpen, Open, OpenFor
    <3>2. CASE OpenFor(s, kind) = {}
      BY <3>2, FS_EmptySet
    <3>3. CASE OpenFor(s, kind) # {}
      <4>1. PICK i \in OpenFor(s, kind) : TRUE
        BY <3>3
      <4>2. OpenFor(s, kind) = {i}
        BY <3>1, <4>1
      <4> QED BY <4>2, FS_Singleton
    <3> QED BY <3>2, <3>3
  <2>3. OneOpenUnlessRaced
    BY <2>2 DEF OneOpenUnlessRaced, Raced
  <2> QED BY <2>1, <2>3
<1> QED BY <1>1, SloInitially, SloPreserved, PTL DEF SloSpec

\* What is recorded of the runbooks that the evaluator's ticks run is true as well,
\* whichever tick dies in the middle of one.
THEOREM TicksTellTheTruth == SloSpec => []ExecutionsAreTrue
<1>1. SloInv => ExecutionsAreTrue
  BY EngineTruth DEF SloInv
<1> QED BY <1>1, SloInitially, SloPreserved, PTL DEF SloSpec

-----------------------------------------------------------------------------
(***************************************************************************)
(* Deliveries.  A record is single because the scan passes a destination   *)
(* once and a delivery ends once.  Progress says, for each phase of a      *)
(* delivery, what is in the log and how often the destination took the     *)
(* alert, and, for each phase of a call, where its deliveries are.         *)
(***************************************************************************)
\* What is in the log of a delivery, and what the destination took, at each phase.
Progress(c, h) ==
    /\ job[c][h].phase \in {"none", "created"} =>
         accepted[c][h] = 0 /\ unanswered[c][h] = 0 /\ ~answered[c][h]
    /\ job[c][h].phase = "none" => deliveryLog[c][h] \in {<<>>, <<"skipped">>}
    /\ job[c][h].phase \in {"created", "trying"} => deliveryLog[c][h] = <<>>
    /\ job[c][h].phase = "trying" =>
         ~answered[c][h] /\ unanswered[c][h] <= job[c][h].attempt
    /\ job[c][h].phase = "done" =>
         /\ deliveryLog[c][h] = IF answered[c][h] THEN <<"delivered">> ELSE <<"failed">>
         /\ unanswered[c][h] <= MaxRetries
    /\ accepted[c][h] = unanswered[c][h] + (IF answered[c][h] THEN 1 ELSE 0)

\* Where the deliveries of a call are; what the scan has not seen has not been touched.
Stage(c, h) ==
    /\ call[c].phase = "idle" => job[c][h].phase = "none" /\ deliveryLog[c][h] = <<>>
    /\ call[c].phase = "scanning" =>
         /\ job[c][h].phase \in {"none", "created"}
         /\ h \in call[c].unseen => job[c][h].phase = "none" /\ deliveryLog[c][h] = <<>>
    /\ call[c].phase = "raised" => job[c][h].phase \in {"none", "created"}
    /\ call[c].phase = "delivering" => job[c][h].phase # "created"
    /\ call[c].phase = "returned" => job[c][h].phase \in {"none", "done"}

RouterInv == RouterTypeOK /\ \A c \in Calls, h \in Hooks : Progress(c, h) /\ Stage(c, h)

-----------------------------------------------------------------------------
LEMMA Retries == MaxRetries \in Nat /\ 0 \in 0 .. MaxRetries - 1 /\ MaxChanges \in Nat
BY RouterAssumption

LEMMA SizeBound == Cardinality(Registered) \in 0 .. Cardinality(Hooks)
<1>1. Registered \subseteq Hooks
  BY DEF Registered
<1>2. IsFiniteSet(Hooks)
  BY RouterAssumption
<1>3. IsFiniteSet(Registered) /\ Cardinality(Registered) <= Cardinality(Hooks)
  BY <1>1, <1>2, FS_Subset
<1> QED BY <1>2, <1>3, FS_CardinalityType

LEMMA NoHooksYet == 0 \in 0 .. Cardinality(Hooks)
BY FS_CardinalityType, RouterAssumption

LEMMA IdleStates == NoCall \in CallState /\ NoJob \in JobState
BY NoHooksYet, Retries DEF NoCall, NoJob, CallState, JobState, Ranks

\* One entry of a table of tables is replaced.
LEMMA EntryKeepsType ==
    ASSUME NEW S, NEW f \in [Calls -> [Hooks -> S]], NEW c \in Calls, NEW h \in Hooks, NEW v \in S
    PROVE  [f EXCEPT ![c][h] = v] \in [Calls -> [Hooks -> S]]
OBVIOUS

LEMMA EntryReplaced ==
    ASSUME NEW S, NEW f \in [Calls -> [Hooks -> S]], NEW c \in Calls, NEW h \in Hooks, NEW v,
           NEW d \in Calls, NEW k \in Hooks
    PROVE  [f EXCEPT ![c][h] = v][d][k] = IF d = c /\ k = h THEN v ELSE f[d][k]
OBVIOUS

\* A delivery nothing happens to stays where it is, its call unless its stage allows.
LEMMA Untouched ==
    ASSUME NEW c \in Calls, NEW h \in Hooks, Progress(c, h), Stage(c, h),
           job'[c][h] = job[c][h], deliveryLog'[c][h] = deliveryLog[c][h],
           accepted'[c][h] = accepted[c][h], unanswered'[c][h] = unanswered[c][h],
           answered'[c][h] = answered[c][h]
    PROVE  Progress(c, h)' /\ (call'[c] = call[c] => Stage(c, h)')
BY DEF Progress, Stage

-----------------------------------------------------------------------------
LEMMA RouterInitially == RouterInit => RouterInv
<1> SUFFICES ASSUME RouterInit PROVE RouterInv
  OBVIOUS
<1>1. RouterTypeOK
  <2>1. <<>> \in Seq({"skipped", "delivered", "failed"})
    OBVIOUS
  <2> QED BY <2>1, IdleStates, Retries DEF RouterInit, RouterTypeOK, Config
<1>2. ASSUME NEW c \in Calls, NEW h \in Hooks PROVE Progress(c, h) /\ Stage(c, h)
  BY DEF RouterInit, NoCall, NoJob, Progress, Stage
<1> QED BY <1>1, <1>2 DEF RouterInv

\* The endpoints change the registry alone.
LEMMA RegistryChanges ==
    ASSUME RouterInv, NEW h \in Hooks, NEW min \in Ranks, NEW on \in BOOLEAN,
           CreateWebhook(h, min, on) \/ UpdateWebhook(h, min, on) \/ DeleteWebhook(h)
    PROVE  RouterInv'
<1>1. registry' \in [Hooks -> Config]
  <2>1. registry \in [Hooks -> Config]
    BY DEF RouterInv, RouterTypeOK
  <2>2. CASE CreateWebhook(h, min, on)
    BY <2>1, <2>2 DEF CreateWebhook, Config
  <2>3. CASE UpdateWebhook(h, min, on)
    <3>1. registry[h] \in [min : Ranks, enabled : BOOLEAN, known : {TRUE}]
      <4>1. registry[h] \in Config /\ registry[h].known
        BY <2>1, <2>3 DEF UpdateWebhook
      <4>2. registry[h] # Unregistered
        BY <4>1 DEF Unregistered
      <4> QED BY <4>1, <4>2 DEF Config
    <3>2. registry'[h] \in [min : Ranks, enabled : BOOLEAN, known : {TRUE}]
      BY <2>1, <2>3, <3>1 DEF UpdateWebhook
    <3>3. registry' = [registry EXCEPT ![h] = registry'[h]]
      BY <2>1, <2>3 DEF UpdateWebhook
    <3> QED BY <2>1, <3>2, <3>3 DEF Config
  <2>4. CASE DeleteWebhook(h)
    BY <2>1, <2>4 DEF DeleteWebhook, Config
  <2> QED BY <2>2, <2>3, <2>4
<1>2. changes' \in 0 .. MaxChanges
  BY Retries DEF RouterInv, RouterTypeOK, Change, CreateWebhook, UpdateWebhook, DeleteWebhook
<1>3. UNCHANGED flightVars
  BY DEF CreateWebhook, UpdateWebhook, DeleteWebhook
<1>4. RouterTypeOK'
  BY <1>1, <1>2, <1>3 DEF RouterInv, RouterTypeOK, flightVars, historyVars
<1>5. ASSUME NEW c \in Calls, NEW k \in Hooks PROVE Progress(c, k)' /\ Stage(c, k)'
  BY <1>3, <1>5 DEF RouterInv, Progress, Stage, flightVars, historyVars
<1> QED BY <1>4, <1>5 DEF RouterInv

LEMMA Restarts == ASSUME RouterInv, Restart PROVE RouterInv'
<1>1. RouterTypeOK'
  <2>1. <<>> \in Seq({"skipped", "delivered", "failed"})
    OBVIOUS
  <2>2. changes' \in 0 .. MaxChanges
    BY Retries DEF RouterInv, RouterTypeOK, Change, Restart
  <2> QED BY <2>1, <2>2, IdleStates DEF Restart, RouterTypeOK, Config
<1>2. ASSUME NEW c \in Calls, NEW h \in Hooks PROVE Progress(c, h)' /\ Stage(c, h)'
  BY <1>2 DEF Restart, NoCall, NoJob, Progress, Stage
<1> QED BY <1>1, <1>2 DEF RouterInv

\* Only the call changes: where its deliveries are must suit where it goes.
LEMMA CallMoves ==
    ASSUME RouterInv, NEW c \in Calls, NEW s \in CallState, call' = [call EXCEPT ![c] = s],
           UNCHANGED <<registry, job, deliveryLog, historyVars, changes>>,
           \A h \in Hooks : Stage(c, h)'
    PROVE  RouterInv'
<1>1. RouterTypeOK'
  BY DEF RouterInv, RouterTypeOK, historyVars
<1>2. ASSUME NEW d \in Calls, NEW h \in Hooks PROVE Progress(d, h)' /\ Stage(d, h)'
  <2>1. Progress(d, h)' /\ (call'[d] = call[d] => Stage(d, h)')
    BY Untouched DEF RouterInv, historyVars
  <2>2. d # c => call'[d] = call[d]
    BY DEF RouterInv, RouterTypeOK
  <2> QED BY <2>1, <2>2
<1> QED BY <1>1, <1>2 DEF RouterInv

LEMMA Dispatches == ASSUME RouterInv, NEW c \in Calls, NEW rank \in Ranks, Dispatch(c, rank) PROVE RouterInv'
<1> DEFINE s == [phase |-> "scanning", rank |-> rank, unseen |-> Registered,
                 size |-> Cardinality(Registered)]
<1>1. s \in CallState
  BY SizeBound DEF CallState, Registered
<1>2. call' = [call EXCEPT ![c] = s]
  BY DEF Dispatch
<1>3. ASSUME NEW h \in Hooks PROVE Stage(c, h)'
  <2>1. call'[c].phase = "scanning"
    BY <1>2 DEF RouterInv, RouterTypeOK
  <2>2. job'[c][h].phase = "none" /\ deliveryLog'[c][h] = <<>>
    BY DEF RouterInv, Stage, Dispatch
  <2> QED BY <2>1, <2>2 DEF Stage
<1>4. UNCHANGED <<registry, job, deliveryLog, historyVars, changes>>
  BY DEF Dispatch
<1> HIDE DEF s
<1> QED BY <1>1, <1>2, <1>3, <1>4, CallMoves

LEMMA ScansOne == ASSUME RouterInv, NEW c \in Calls, NEW h \in Hooks, ScanOne(c, h) PROVE RouterInv'
<1> DEFINE routed == ShouldRoute(call[c].rank, registry[h].min)
<1>1. RouterTypeOK /\ Progress(c, h) /\ Stage(c, h) /\ call[c].phase = "scanning"
      /\ h \in call[c].unseen
  BY DEF RouterInv, ScanOne
<1>2. job[c][h].phase = "none" /\ deliveryLog[c][h] = <<>>
  BY <1>1 DEF Stage
<1>3. call' \in [Calls -> CallState] /\ call'[c].phase = "scanning"
      /\ call'[c].unseen = call[c].unseen \ {h} /\ \A d \in Calls \ {c} : call'[d] = call[d]
  BY <1>1 DEF ScanOne, RouterTypeOK, CallState
<1>4. \/ UNCHANGED <<job, deliveryLog>>
      \/ /\ job' = [job EXCEPT ![c][h] = [job[c][h] EXCEPT !.phase = "created"]]
         /\ UNCHANGED deliveryLog
      \/ UNCHANGED job /\ deliveryLog' = [deliveryLog EXCEPT ![c][h] = <<"skipped">>]
  <2>1. Append(deliveryLog[c][h], "skipped") = <<"skipped">>
    BY <1>2
  <2>2. [deliveryLog EXCEPT ![c][h] = Append(@, "skipped")]
          = [deliveryLog EXCEPT ![c][h] = <<"skipped">>]
    BY <2>1
  <2>3. [job EXCEPT ![c][h].phase = "created"]
          = [job EXCEPT ![c][h] = [job[c][h] EXCEPT !.phase = "created"]]
    OBVIOUS
  <2> QED BY <2>2, <2>3 DEF ScanOne
<1>5. [job[c][h] EXCEPT !.phase = "created"] \in JobState
  <2>1. job[c][h] \in JobState
    BY <1>1 DEF RouterTypeOK
  <2> QED BY <2>1 DEF JobState
<1>6. <<"skipped">> \in Seq({"skipped", "delivered", "failed"})
  OBVIOUS
<1>7. job' \in [Calls -> [Hooks -> JobState]]
      /\ deliveryLog' \in [Calls -> [Hooks -> Seq({"skipped", "delivered", "failed"})]]
  <2>1. /\ job \in [Calls -> [Hooks -> JobState]]
        /\ deliveryLog \in [Calls -> [Hooks -> Seq({"skipped", "delivered", "failed"})]]
    BY <1>1 DEF RouterTypeOK
  <2>2. [job EXCEPT ![c][h] = [job[c][h] EXCEPT !.phase = "created"]]
          \in [Calls -> [Hooks -> JobState]]
    BY <1>5, <2>1, EntryKeepsType
  <2>3. [deliveryLog EXCEPT ![c][h] = <<"skipped">>]
          \in [Calls -> [Hooks -> Seq({"skipped", "delivered", "failed"})]]
    BY <1>6, <2>1, EntryKeepsType
  <2> QED BY <1>4, <2>1, <2>2, <2>3
<1>8. RouterTypeOK'
  BY <1>1, <1>3, <1>7 DEF RouterTypeOK, ScanOne, historyVars
<1>9. ASSUME NEW d \in Calls, NEW k \in Hooks, d # c \/ k # h
      PROVE  Progress(d, k)' /\ Stage(d, k)'
  <2>1. job'[d][k] = job[d][k] /\ deliveryLog'[d][k] = deliveryLog[d][k]
    BY <1>1, <1>4, <1>9, EntryReplaced DEF RouterTypeOK
  <2>2. Progress(d, k) /\ Stage(d, k) /\ UNCHANGED historyVars
    BY DEF RouterInv, ScanOne
  <2>3. Progress(d, k)' /\ (call'[d] = call[d] => Stage(d, k)')
    BY <2>1, <2>2, Untouched DEF historyVars
  <2>4. CASE d = c
    <3>1. k # h /\ (k \in call'[c].unseen => k \in call[c].unseen)
      BY <1>3, <1>9, <2>4
    <3>2. Stage(c, k) /\ job'[c][k] = job[c][k] /\ deliveryLog'[c][k] = deliveryLog[c][k]
      BY <2>1, <2>2, <2>4
    <3>3. Stage(c, k)'
      BY <1>1, <1>3, <3>1, <3>2 DEF Stage
    <3> QED BY <2>3, <2>4, <3>3
  <2> QED BY <1>3, <2>3, <2>4
<1>10. Progress(c, h)' /\ Stage(c, h)'
  <2>1. \/ job'[c][h].phase = "none" /\ deliveryLog'[c][h] \in {<<>>, <<"skipped">>}
        \/ job'[c][h].phase = "created" /\ deliveryLog'[c][h] = <<>>
    BY <1>1, <1>2, <1>4, EntryReplaced DEF RouterTypeOK, JobState
  <2>2. accepted'[c][h] = 0 /\ unanswered'[c][h] = 0 /\ ~answered'[c][h]
    BY <1>1, <1>2 DEF ScanOne, historyVars, Progress
  <2> QED BY <1>3, <2>1, <2>2 DEF Progress, Stage
<1> QED BY <1>8, <1>9, <1>10 DEF RouterInv

LEMMA AbortsScan == ASSUME RouterInv, NEW c \in Calls, AbortScan(c) PROVE RouterInv'
<1> DEFINE s == [call[c] EXCEPT !.phase = "raised"]
<1>1. s \in CallState /\ call' = [call EXCEPT ![c] = s]
  BY DEF RouterInv, RouterTypeOK, CallState, AbortScan
<1>2. ASSUME NEW h \in Hooks PROVE Stage(c, h)'
  <2>1. call'[c].phase = "raised"
    BY <1>1 DEF RouterInv, RouterTypeOK, CallState
  <2>2. job'[c][h].phase \in {"none", "created"}
    BY DEF RouterInv, Stage, AbortScan
  <2> QED BY <2>1, <2>2 DEF Stage
<1>3. UNCHANGED <<registry, job, deliveryLog, historyVars, changes>>
  BY DEF AbortScan
<1> HIDE DEF s
<1> QED BY <1>1, <1>2, <1>3, CallMoves

LEMMA Returns == ASSUME RouterInv, NEW c \in Calls, Return(c) PROVE RouterInv'
<1> DEFINE s == [call[c] EXCEPT !.phase = "returned"]
<1>1. s \in CallState /\ call' = [call EXCEPT ![c] = s]
  BY DEF RouterInv, RouterTypeOK, CallState, Return
<1>2. ASSUME NEW h \in Hooks PROVE Stage(c, h)'
  <2>1. call'[c].phase = "returned"
    BY <1>1 DEF RouterInv, RouterTypeOK, CallState
  <2>2. job[c][h].phase \in {"none", "created", "trying", "done"}
    BY DEF RouterInv, RouterTypeOK, JobState
  <2>3. job'[c][h].phase \in {"none", "done"}
    BY <2>2 DEF RouterInv, Stage, Return
  <2> QED BY <2>1, <2>3 DEF Stage
<1>3. UNCHANGED <<registry, job, deliveryLog, historyVars, changes>>
  BY DEF Return
<1> HIDE DEF s
<1> QED BY <1>1, <1>2, <1>3, CallMoves

LEMMA Gathers == ASSUME RouterInv, NEW c \in Calls, Gather(c) PROVE RouterInv'
<1>1. RouterTypeOK /\ call[c].phase = "scanning"
  BY DEF RouterInv, Gather
<1>2. call' \in [Calls -> CallState] /\ call'[c].phase = "delivering"
      /\ \A d \in Calls \ {c} : call'[d] = call[d]
  <2>1. call \in [Calls -> CallState] /\ call' = [call EXCEPT ![c].phase = "delivering"]
    BY <1>1 DEF Gather, RouterTypeOK
  <2>2. [call[c] EXCEPT !.phase = "delivering"] \in CallState
    BY <2>1 DEF CallState
  <2>3. [call[c] EXCEPT !.phase = "delivering"].phase = "delivering"
    BY <2>1 DEF CallState
  <2> QED BY <2>1, <2>2, <2>3
<1>3. \A d \in Calls \ {c} : job'[d] = job[d]
  BY <1>1 DEF Gather, RouterTypeOK
<1>4. ASSUME NEW h \in Hooks
      PROVE  job'[c][h] = IF job[c][h].phase = "created"
                          THEN [phase |-> "trying", attempt |-> 0] ELSE job[c][h]
  BY <1>1 DEF Gather, RouterTypeOK
<1>5. [phase |-> "trying", attempt |-> 0] \in JobState
  BY Retries DEF JobState
<1>6. job' \in [Calls -> [Hooks -> JobState]]
  <2> DEFINE row == [h \in Hooks |-> IF job[c][h].phase = "created"
                                     THEN [phase |-> "trying", attempt |-> 0] ELSE job[c][h]]
  <2>1. row \in [Hooks -> JobState]
    BY <1>1, <1>5 DEF RouterTypeOK
  <2>2. job' = [job EXCEPT ![c] = row]
    BY <1>1 DEF Gather, RouterTypeOK
  <2> HIDE DEF row
  <2> QED BY <1>1, <2>1, <2>2 DEF RouterTypeOK
<1>7. RouterTypeOK'
  BY <1>1, <1>2, <1>6 DEF RouterTypeOK, Gather, historyVars
<1>8. ASSUME NEW d \in Calls, NEW h \in Hooks, d # c PROVE Progress(d, h)' /\ Stage(d, h)'
  <2>1. Progress(d, h) /\ Stage(d, h)
    BY DEF RouterInv
  <2> QED BY <1>2, <1>3, <1>8, <2>1, Untouched DEF Gather, historyVars
<1>9. ASSUME NEW h \in Hooks PROVE Progress(c, h)' /\ Stage(c, h)'
  <2>1. Progress(c, h) /\ Stage(c, h)
    BY DEF RouterInv
  <2>2. deliveryLog'[c][h] = deliveryLog[c][h] /\ accepted'[c][h] = accepted[c][h]
        /\ unanswered'[c][h] = unanswered[c][h] /\ answered'[c][h] = answered[c][h]
    BY DEF Gather, historyVars
  <2>3. CASE job[c][h].phase = "created"
    <3>1. job'[c][h].phase = "trying" /\ job'[c][h].attempt = 0
      BY <1>4, <2>3
    <3> QED BY <1>2, <2>1, <2>2, <2>3, <3>1 DEF Progress, Stage
  <2>4. CASE job[c][h].phase # "created"
    <3>1. job'[c][h] = job[c][h]
      BY <1>4, <2>4
    <3>2. Progress(c, h)'
      BY <2>1, <2>2, <3>1, Untouched
    <3> QED BY <1>2, <2>4, <3>1, <3>2 DEF Stage
  <2> QED BY <2>3, <2>4
<1> QED BY <1>7, <1>8, <1>9 DEF RouterInv

LEMMA Tests == ASSUME RouterInv, NEW c \in Calls, NEW h \in Hooks, TestWebhook(c, h) PROVE RouterInv'
<1> DEFINE j == [job[c][h] EXCEPT !.phase = "trying"]
<1>1. RouterTypeOK /\ call[c].phase = "idle"
  BY DEF RouterInv, TestWebhook
<1>2. call' \in [Calls -> CallState] /\ call'[c].phase = "delivering"
      /\ \A d \in Calls \ {c} : call'[d] = call[d]
  <2> DEFINE s == [NoCall EXCEPT !.phase = "delivering", !.rank = 1]
  <2>1. call \in [Calls -> CallState] /\ call' = [call EXCEPT ![c] = s]
    BY <1>1 DEF TestWebhook, RouterTypeOK
  <2>2. NoCall \in CallState /\ 1 \in Ranks
    BY IdleStates DEF Ranks
  <2>3. s \in CallState /\ s.phase = "delivering"
    BY <2>2 DEF CallState
  <2> HIDE DEF s
  <2> QED BY <2>1, <2>3
<1>3. j \in JobState /\ j.phase = "trying" /\ j.attempt = job[c][h].attempt
  <2>1. job[c][h] \in JobState
    BY <1>1 DEF RouterTypeOK
  <2> QED BY <2>1 DEF JobState
<1>4. job' = [job EXCEPT ![c][h] = j]
  BY DEF TestWebhook
<1> HIDE DEF j
<1>5. job' \in [Calls -> [Hooks -> JobState]]
  BY <1>1, <1>3, <1>4, EntryKeepsType DEF RouterTypeOK
<1>6. RouterTypeOK'
  BY <1>1, <1>2, <1>5 DEF RouterTypeOK, TestWebhook, historyVars
<1>7. ASSUME NEW d \in Calls, NEW k \in Hooks PROVE Progress(d, k)' /\ Stage(d, k)'
  <2>1. Progress(d, k) /\ Stage(d, k) /\ UNCHANGED <<deliveryLog, historyVars>>
    BY DEF RouterInv, TestWebhook
  <2>2. job'[d][k] = IF d = c /\ k = h THEN j ELSE job[d][k]
    BY <1>1, <1>4, EntryReplaced DEF RouterTypeOK
  <2>3. CASE d = c /\ k = h
    <3>1. job[c][h].phase = "none" /\ deliveryLog[c][h] = <<>>
      BY <1>1, <2>1, <2>3 DEF Stage
    <3>2. job[c][h].attempt \in Nat
      BY <1>1 DEF RouterTypeOK, JobState
    <3> QED BY <1>2, <1>3, <2>1, <2>2, <2>3, <3>1, <3>2 DEF Progress, Stage, historyVars
  <2>4. CASE d = c /\ k # h
    <3>1. job'[d][k] = job[d][k] /\ job[d][k].phase = "none"
      BY <1>1, <2>1, <2>2, <2>4 DEF Stage
    <3>2. Progress(d, k)'
      BY <2>1, <3>1, Untouched DEF historyVars
    <3> QED BY <1>2, <2>4, <3>1, <3>2 DEF Stage
  <2>5. CASE d # c
    BY <1>2, <2>1, <2>2, <2>5, Untouched DEF historyVars
  <2> QED BY <2>3, <2>4, <2>5
<1> QED BY <1>6, <1>7 DEF RouterInv

LEMMA Attempts ==
    ASSUME RouterInv, NEW c \in Calls, NEW h \in Hooks, NEW o \in Outcomes, Attempt(c, h, o)
    PROVE  RouterInv'
<1> DEFINE j == job[c][h]
           status == StatusAfter(o, j.attempt)
           j2 == IF status = "" THEN [j EXCEPT !.attempt = @ + 1] ELSE [j EXCEPT !.phase = "done"]
           log2 == IF status = "" THEN <<>> ELSE <<status>>
           acc2 == accepted[c][h] + (IF o \in {"ok", "lost"} THEN 1 ELSE 0)
           un2 == unanswered[c][h] + (IF o = "lost" THEN 1 ELSE 0)
           ans2 == answered[c][h] \/ o = "ok"
<1>1. RouterTypeOK /\ Progress(c, h) /\ Stage(c, h) /\ j.phase = "trying"
  BY DEF RouterInv, Attempt
<1>2. /\ j \in JobState /\ accepted[c][h] \in Nat /\ unanswered[c][h] \in Nat
      /\ answered[c][h] \in BOOLEAN /\ call[c] \in CallState
  BY <1>1 DEF RouterTypeOK
<1>3. /\ deliveryLog[c][h] = <<>> /\ ~answered[c][h] /\ unanswered[c][h] <= j.attempt
      /\ accepted[c][h] = unanswered[c][h]
  BY <1>1, <1>2 DEF Progress
<1>4. call[c].phase = "delivering"
  BY <1>1, <1>2 DEF Stage, CallState
<1>5. /\ status \in {"", "delivered", "failed"}
      /\ status = "delivered" <=> o = "ok"
      /\ status = "" => j.attempt + 1 \in 0 .. MaxRetries - 1
  <2>1. j.attempt \in 0 .. MaxRetries - 1
    BY <1>2 DEF JobState
  <2>2. CASE o = "ok"
    BY <2>2 DEF StatusAfter
  <2>3. CASE o # "ok" /\ j.attempt = MaxRetries - 1
    BY <2>3 DEF StatusAfter, IsLastAttempt
  <2>4. CASE o # "ok" /\ j.attempt # MaxRetries - 1
    <3>1. status = ""
      BY <2>4 DEF StatusAfter, IsLastAttempt
    <3>2. j.attempt + 1 \in 0 .. MaxRetries - 1
      BY <2>1, <2>4, Retries
    <3> QED BY <2>4, <3>1, <3>2
  <2> QED BY <2>2, <2>3, <2>4
<1>6. /\ j2 \in JobState
      /\ j2.phase = IF status = "" THEN "trying" ELSE "done"
      /\ status = "" => j2.attempt = j.attempt + 1
  BY <1>1, <1>2, <1>5 DEF JobState
<1> HIDE DEF status
<1>7. /\ job' = [job EXCEPT ![c][h] = j2]
      /\ deliveryLog' = [deliveryLog EXCEPT ![c][h] = log2]
  <2>1. Append(deliveryLog[c][h], status) = <<status>>
    <3>1. Append(<<>>, status) = <<status>>
      OBVIOUS
    <3> QED BY <1>3, <3>1
  <2>2. CASE status = ""
    <3>1. job' = [job EXCEPT ![c][h] = j2] /\ UNCHANGED deliveryLog
      BY <2>2 DEF Attempt, status
    <3>2. deliveryLog = [deliveryLog EXCEPT ![c][h] = log2]
      BY <1>1, <1>3, <2>2 DEF RouterTypeOK
    <3> QED BY <3>1, <3>2
  <2>3. CASE status # ""
    <3>1. job' = [job EXCEPT ![c][h] = j2]
      BY <2>3 DEF Attempt, status
    <3>2. deliveryLog' = [deliveryLog EXCEPT ![c][h] = Append(@, status)]
      BY <2>3 DEF Attempt, status
    <3> QED BY <2>1, <2>3, <3>1, <3>2
  <2> QED BY <2>2, <2>3
<1>8. /\ accepted' = [accepted EXCEPT ![c][h] = acc2]
      /\ unanswered' = [unanswered EXCEPT ![c][h] = un2]
      /\ answered' = [answered EXCEPT ![c][h] = ans2]
      /\ UNCHANGED <<registry, call, changes>>
  BY DEF Attempt
<1>9. acc2 \in Nat /\ un2 \in Nat /\ ans2 \in BOOLEAN
  <2>1. (answered[c][h] \/ o = "ok") \in BOOLEAN
    OBVIOUS
  <2> QED BY <1>2, <2>1
<1>10. log2 \in Seq({"skipped", "delivered", "failed"})
  <2>1. status # "" => <<status>> \in Seq({"skipped", "delivered", "failed"})
    <3>1. ASSUME NEW s \in {"delivered", "failed"}
          PROVE  <<s>> \in Seq({"skipped", "delivered", "failed"})
      OBVIOUS
    <3> QED BY <1>5, <3>1
  <2>2. <<>> \in Seq({"skipped", "delivered", "failed"})
    OBVIOUS
  <2> QED BY <2>1, <2>2
<1>11. /\ un2 <= j.attempt + 1
       /\ acc2 = un2 + (IF ans2 THEN 1 ELSE 0)
       /\ ans2 <=> status = "delivered"
       /\ j.attempt + 1 <= MaxRetries
  <2>1. j.attempt \in 0 .. MaxRetries - 1
    BY <1>2 DEF JobState
  <2>2. un2 <= j.attempt + 1 /\ j.attempt + 1 <= MaxRetries
    BY <1>2, <1>3, <2>1, Retries
  <2>3. ans2 <=> o = "ok"
    BY <1>3
  <2>4. acc2 = un2 + (IF o = "ok" THEN 1 ELSE 0)
    BY <1>2, <1>3
  <2>5. acc2 = un2 + (IF ans2 THEN 1 ELSE 0)
    BY <2>3, <2>4
  <2> QED BY <1>5, <2>2, <2>3, <2>5
<1>12. j.attempt \in Nat
  BY <1>2 DEF JobState
<1> HIDE DEF j, j2, log2, acc2, un2, ans2
<1>13. RouterTypeOK'
  <2>1. job' \in [Calls -> [Hooks -> JobState]]
    BY <1>1, <1>6, <1>7, EntryKeepsType DEF RouterTypeOK
  <2>2. deliveryLog' \in [Calls -> [Hooks -> Seq({"skipped", "delivered", "failed"})]]
    BY <1>1, <1>7, <1>10, EntryKeepsType DEF RouterTypeOK
  <2>3. accepted' \in [Calls -> [Hooks -> Nat]] /\ unanswered' \in [Calls -> [Hooks -> Nat]]
    BY <1>1, <1>8, <1>9, EntryKeepsType DEF RouterTypeOK
  <2>4. answered' \in [Calls -> [Hooks -> BOOLEAN]]
    BY <1>1, <1>8, <1>9, EntryKeepsType DEF RouterTypeOK
  <2> QED BY <1>1, <1>8, <2>1, <2>2, <2>3, <2>4 DEF RouterTypeOK
<1>14. ASSUME NEW d \in Calls, NEW k \in Hooks, d # c \/ k # h
       PROVE  Progress(d, k)' /\ Stage(d, k)'
  <2>1. job'[d][k] = job[d][k] /\ deliveryLog'[d][k] = deliveryLog[d][k]
    BY <1>1, <1>7, <1>14, EntryReplaced DEF RouterTypeOK
  <2>2. accepted'[d][k] = accepted[d][k] /\ unanswered'[d][k] = unanswered[d][k]
        /\ answered'[d][k] = answered[d][k]
    BY <1>1, <1>8, <1>14, EntryReplaced DEF RouterTypeOK
  <2>3. Progress(d, k) /\ Stage(d, k)
    BY DEF RouterInv
  <2> QED BY <1>8, <2>1, <2>2, <2>3, Untouched
<1>15. Progress(c, h)' /\ Stage(c, h)'
  <2>1. job'[c][h] = j2 /\ deliveryLog'[c][h] = log2
    BY <1>1, <1>7, EntryReplaced DEF RouterTypeOK
  <2>2. accepted'[c][h] = acc2 /\ unanswered'[c][h] = un2 /\ answered'[c][h] = ans2
    BY <1>1, <1>8, EntryReplaced DEF RouterTypeOK
  <2>3. call'[c].phase = "delivering"
    BY <1>4, <1>8
  <2>4. CASE status = ""
    <3>1. log2 = <<>> /\ j2.phase = "trying" /\ ~ans2 /\ un2 <= j2.attempt
      BY <1>5, <1>6, <1>11, <2>4 DEF log2
    <3> QED BY <1>11, <2>1, <2>2, <2>3, <3>1 DEF Progress, Stage
  <2>5. CASE status # ""
    <3>1. j2.phase = "done" /\ un2 <= MaxRetries
      <4>1. j2.phase = "done"
        BY <1>6, <2>5
      <4>2. un2 <= MaxRetries
        BY <1>9, <1>11, <1>12, Retries
      <4> QED BY <4>1, <4>2
    <3>2. log2 = IF ans2 THEN <<"delivered">> ELSE <<"failed">>
      BY <1>5, <1>11, <2>5 DEF log2
    <3> QED BY <1>11, <2>1, <2>2, <2>3, <3>1, <3>2 DEF Progress, Stage
  <2> QED BY <2>4, <2>5
<1> QED BY <1>13, <1>14, <1>15 DEF RouterInv

-----------------------------------------------------------------------------
LEMMA RouterPreserved == RouterInv /\ [RouterNext]_routerVars => RouterInv'
<1> SUFFICES ASSUME RouterInv, [RouterNext]_routerVars PROVE RouterInv'
  OBVIOUS
<1>1. CASE UNCHANGED routerVars
  BY <1>1 DEF RouterInv, RouterTypeOK, Progress, Stage, routerVars
<1>2. CASE RouterNext
  <2>1. CASE \E h \in Hooks, min \in Ranks, on \in BOOLEAN :
               CreateWebhook(h, min, on) \/ UpdateWebhook(h, min, on)
    BY <2>1, RegistryChanges
  <2>2. CASE \E h \in Hooks : DeleteWebhook(h)
    <3>1. PICK h \in Hooks : DeleteWebhook(h)
      BY <2>2
    <3>2. 0 \in Ranks /\ TRUE \in BOOLEAN
      BY DEF Ranks
    <3> QED BY <3>1, <3>2, RegistryChanges
  <2>3. CASE Restart
    BY <2>3, Restarts
  <2>4. CASE \E c \in Calls, rank \in Ranks : Dispatch(c, rank)
    BY <2>4, Dispatches
  <2>5. CASE \E c \in Calls, h \in Hooks : TestWebhook(c, h)
    BY <2>5, Tests
  <2>6. CASE \E c \in Calls : AbortScan(c) \/ Gather(c) \/ Return(c)
    BY <2>6, AbortsScan, Gathers, Returns
  <2>7. CASE \E c \in Calls, h \in Hooks : ScanOne(c, h) \/ \E o \in Outcomes : Attempt(c, h, o)
    BY <2>7, ScansOne, Attempts
  <2> QED BY <1>2, <2>1, <2>2, <2>3, <2>4, <2>5, <2>6, <2>7 DEF RouterNext, RouterStep
<1> QED BY <1>1, <1>2

\* Whatever is done to the registry meanwhile, the variables keep their types.
THEOREM RouterTypeCorrect == RouterSpec => []RouterTypeOK
<1>1. RouterInv => RouterTypeOK
  BY DEF RouterInv
<1> QED BY RouterInitially, RouterPreserved, <1>1, PTL DEF RouterSpec

\* The delivery log tells the truth: at most one record of a delivery, "delivered" when
\* and only when a 2xx answer came, "skipped" only when nothing was posted, and a
\* record of each delivery of a call that has returned.
THEOREM LogIsTrue == RouterSpec => []OneTruthfulRecord
<1>1. RouterInv => OneTruthfulRecord
  <2> SUFFICES ASSUME RouterInv, NEW c \in Calls, NEW h \in Hooks
               PROVE  /\ Len(deliveryLog[c][h]) <= 1
                      /\ answered[c][h] <=> deliveryLog[c][h] = <<"delivered">>
                      /\ deliveryLog[c][h] = <<"skipped">> => accepted[c][h] = 0
                      /\ call[c].phase = "returned" /\ job[c][h].phase # "none"
                           => Len(deliveryLog[c][h]) = 1
    BY DEF OneTruthfulRecord
  <2>1. /\ Progress(c, h) /\ Stage(c, h) /\ job[c][h] \in JobState
        /\ answered[c][h] \in BOOLEAN
    BY DEF RouterInv, RouterTypeOK
  <2>2. Len(<<>>) = 0 /\ Len(<<"skipped">>) = 1 /\ Len(<<"delivered">>) = 1 /\ Len(<<"failed">>) = 1
    OBVIOUS
  <2>3. /\ <<>> # <<"delivered">> /\ <<"skipped">> # <<"delivered">> /\ <<"failed">> # <<"delivered">>
        /\ <<>> # <<"skipped">> /\ <<"failed">> # <<"skipped">>
    OBVIOUS
  <2>4. CASE job[c][h].phase \in {"none", "created", "trying"}
    <3>1. ~answered[c][h] /\ deliveryLog[c][h] \in {<<>>, <<"skipped">>}
      BY <2>1, <2>4 DEF Progress
    <3>2. deliveryLog[c][h] = <<"skipped">> => accepted[c][h] = 0
      BY <2>1, <2>3, <2>4 DEF Progress
    <3>3. call[c].phase = "returned" => job[c][h].phase = "none"
      BY <2>1, <2>4 DEF Stage
    <3>4. Len(deliveryLog[c][h]) <= 1 /\ deliveryLog[c][h] # <<"delivered">>
      <4>1. CASE deliveryLog[c][h] = <<>>
        BY <2>2, <2>3, <4>1
      <4>2. CASE deliveryLog[c][h] = <<"skipped">>
        BY <2>2, <2>3, <4>2
      <4> QED BY <3>1, <4>1, <4>2
    <3>5. answered[c][h] <=> deliveryLog[c][h] = <<"delivered">>
      BY <3>1, <3>4
    <3> QED BY <3>2, <3>3, <3>4, <3>5
  <2>5. CASE job[c][h].phase = "done"
    <3>1. deliveryLog[c][h] = IF answered[c][h] THEN <<"delivered">> ELSE <<"failed">>
      BY <2>1, <2>5 DEF Progress
    <3> QED BY <2>1, <2>2, <2>3, <3>1
  <2> QED BY <2>1, <2>4, <2>5 DEF JobState
<1> QED BY RouterInitially, RouterPreserved, <1>1, PTL DEF RouterSpec

\* A destination took the alert once for every lost answer, and once more when an
\* answer was heard, and never more often than there are attempts.
THEOREM OnlyLostAnswersDuplicate == RouterSpec => []DuplicatesOnlyFromLostAnswers
<1>1. RouterInv => DuplicatesOnlyFromLostAnswers
  <2> SUFFICES ASSUME RouterInv, NEW c \in Calls, NEW h \in Hooks
               PROVE  /\ accepted[c][h] = unanswered[c][h] + (IF answered[c][h] THEN 1 ELSE 0)
                      /\ unanswered[c][h] <= MaxRetries
    BY DEF DuplicatesOnlyFromLostAnswers
  <2>1. /\ Progress(c, h) /\ job[c][h] \in JobState /\ unanswered[c][h] \in Nat
    BY DEF RouterInv, RouterTypeOK
  <2>2. job[c][h].attempt \in 0 .. MaxRetries - 1
        /\ job[c][h].phase \in {"none", "created", "trying", "done"}
    BY <2>1 DEF JobState
  <2> QED BY <2>1, <2>2, Retries DEF Progress
<1> QED BY RouterInitially, RouterPreserved, <1>1, PTL DEF RouterSpec
=============================================================================
