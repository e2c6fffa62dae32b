---------------------------- MODULE RunbookEngine ----------------------------
(***************************************************************************)
(* Runbooks: src/denoiser/automation/engine.py process_incident, called by *)
(* the analysis task and the SLO evaluator for an incident they have just  *)
(* committed, and the /runbooks endpoints of src/denoiser/api/runbooks.py. *)
(*                                                                         *)
(* A call runs for one incident, so calls and incidents share their names. *)
(* The session expires every object at a commit: the next access to an     *)
(* attribute reads the row again, and raises when the row is gone.         *)
(* A definition X_Y is X with a plausible mistake Y; nothing uses it.      *)
(***************************************************************************)
EXTENDS Naturals, FiniteSets

CONSTANTS
    Incidents,       \* incidents, each with the call of process_incident for it
    Runbooks,        \* runbooks of the incidents' tenant; others are never selected
    NewRows,         \* NewRows[r]: the rows r may be created with
    MaxSteps,        \* bound: steps of a runbook
    MaxRemovals      \* bound: rows deleted through the API, and crashes

\* trigger_condition: a "severity" key, and whether its "keyword" is in the title.
Rows == [live : BOOLEAN, enabled : BOOLEAN, severity : BOOLEAN,
         keyword : {"absent", "in title", "not in title"}, steps : 0 .. MaxSteps]
ASSUME RunbookAssumption ==
    MaxSteps \in Nat /\ MaxRemovals \in Nat /\ NewRows \in [Runbooks -> SUBSET Rows]

VARIABLES
    runbook,    \* runbook[r]: its row
    incident,   \* incident[i]: "none", "OPEN", "RESOLVED" or "deleted"
    engine,     \* engine[i]: state of the call for incident i
    execution,  \* execution[i][r]: status of the RunbookExecution, or "none"
    stepsDone,  \* history: stepsDone[i][r] counts the steps carried out
    removals

runbookVars == <<runbook, incident, engine, execution, stepsDone, removals>>

NoRow == [live |-> FALSE, enabled |-> FALSE, severity |-> FALSE,
          keyword |-> "absent", steps |-> 0]
NoCallYet == [phase |-> "idle", rest |-> {}, selected |-> {}, committed |-> FALSE,
              stale |-> FALSE]

Matches(r) == ~runbook[r].severity /\ runbook[r].keyword # "not in title"

RunbookInit ==
    /\ runbook = [r \in Runbooks |-> NoRow]
    /\ incident = [i \in Incidents |-> "none"]
    /\ engine = [i \in Incidents |-> NoCallYet]
    /\ execution = [i \in Incidents |-> [r \in Runbooks |-> "none"]]
    /\ stepsDone = [i \in Incidents |-> [r \in Runbooks |-> 0]]
    /\ removals = 0

Remove == removals < MaxRemovals /\ removals' = removals + 1
-----------------------------------------------------------------------------
\* POST /runbooks: the trigger and the steps are stored as sent.
CreateRunbook(r, row) ==
    /\ ~runbook[r].live /\ row.live
    /\ \A i \in Incidents : execution[i][r] = "none"     \* identifiers are not reused
    /\ r \notin UNION {engine[i].selected : i \in Incidents}
    /\ runbook' = [runbook EXCEPT ![r] = row]
    /\ UNCHANGED <<incident, engine, execution, stepsDone, removals>>

\* DELETE /runbooks/{id}; its executions stay.
DeleteRunbook(r) ==
    /\ runbook[r].live /\ Remove
    /\ runbook' = [runbook EXCEPT ![r].live = FALSE]
    /\ UNCHANGED <<incident, engine, execution, stepsDone>>

\* DELETE /incidents/{id}.
DeleteIncident(i) ==
    /\ incident[i] \in {"OPEN", "RESOLVED"} /\ Remove
    /\ incident' = [incident EXCEPT ![i] = "deleted"]
    /\ UNCHANGED <<runbook, engine, execution, stepsDone>>

-----------------------------------------------------------------------------
SetPhase(i, p) == engine' = [engine EXCEPT ![i].phase = p]
Gone(i) == incident[i] = "deleted"

\* The query for the enabled runbooks of the incident's tenant; it reads the
\* incident, which the caller's commit has expired.
BeginCall(i) ==
    /\ engine[i].phase = "idle" /\ incident[i] # "none"
    /\ LET found == {r \in Runbooks : runbook[r].live /\ runbook[r].enabled} IN
       engine' = [engine EXCEPT ![i] =
           IF Gone(i) THEN [NoCallYet EXCEPT !.phase = "raised"]
           ELSE [NoCallYet EXCEPT !.phase = "choosing", !.rest = found, !.selected = found]]
    /\ UNCHANGED <<runbook, incident, execution, stepsDone, removals>>

\* Reading r's trigger raises: r is gone, or it has a "severity" key, which asks
\* the incident for an attribute its class does not have.
TriggerRaises(i, r) ==
    \/ engine[i].committed /\ ~runbook[r].live
    \/ runbook[r].severity
\* The incident is read for its title, or for its id once r matches.
IncidentRaises(i) == engine[i].stale /\ Gone(i)

\* An exception outside the try ends the call: the runbooks left are not looked at.
RaiseInLoop(i, r) ==
    /\ engine[i].phase = "choosing" /\ r \in engine[i].rest
    /\ TriggerRaises(i, r) \/ IncidentRaises(i)
    /\ SetPhase(i, "raised")
    /\ UNCHANGED <<runbook, incident, execution, stepsDone, removals>>

Consider(i, r) ==
    /\ engine[i].phase = "choosing" /\ r \in engine[i].rest
    /\ ~TriggerRaises(i, r) /\ ~IncidentRaises(i)

SkipRunbook(i, r) ==
    /\ Consider(i, r) /\ ~Matches(r)
    /\ engine' = [engine EXCEPT ![i].rest = @ \ {r}, ![i].stale = FALSE]
    /\ UNCHANGED <<runbook, incident, execution, stepsDone, removals>>

\* The execution is committed as RUNNING before its steps.
RestAfter(rest, r) == rest \ {r}
StartExecution(i, r) ==
    /\ Consider(i, r) /\ Matches(r)
    /\ execution' = [execution EXCEPT ![i][r] = "RUNNING"]
    /\ engine' = [engine EXCEPT ![i] =
          [@ EXCEPT !.phase = "executing", !.rest = RestAfter(engine[i].rest, r),
                    !.committed = TRUE, !.stale = TRUE]]
    /\ UNCHANGED <<runbook, incident, stepsDone, removals>>

\* execute_runbook_step(step, exec_logs) lacks its third argument: the call raises
\* before the step does anything.
StepCallRaises == TRUE

\* The status an execution ends with: reading the steps of a deleted runbook raises
\* inside the try, as does the first call of a step.
FinalStatus_Swallow(r) == "SUCCESS"
FinalStatus(r) ==
    IF ~runbook[r].live \/ (runbook[r].steps > 0 /\ StepCallRaises)
    THEN "FAILED" ELSE "SUCCESS"
FinishExecution(i, r) ==
    /\ engine[i].phase = "executing" /\ execution[i][r] = "RUNNING"
    /\ execution' = [execution EXCEPT ![i][r] = FinalStatus(r)]
    /\ stepsDone' = [stepsDone EXCEPT ![i][r] =
          IF runbook[r].live /\ ~StepCallRaises THEN runbook[r].steps ELSE @]
    /\ SetPhase(i, "choosing")
    /\ UNCHANGED <<runbook, incident, removals>>

EndCall(i) ==
    /\ engine[i].phase = "choosing" /\ engine[i].rest = {}
    /\ SetPhase(i, "returned")
    /\ UNCHANGED <<runbook, incident, execution, stepsDone, removals>>

\* The worker dies; nothing ever looks at a RUNNING execution again.
EngineCrash(i) ==
    /\ engine[i].phase \in {"choosing", "executing"} /\ Remove
    /\ SetPhase(i, "dead")
    /\ UNCHANGED <<runbook, incident, execution, stepsDone>>

EngineStep(i) ==
    \/ EndCall(i)
    \/ \E r \in Runbooks : RaiseInLoop(i, r) \/ SkipRunbook(i, r)
                             \/ StartExecution(i, r) \/ FinishExecution(i, r)
RunbookApi ==
    \/ \E r \in Runbooks : DeleteRunbook(r) \/ \E row \in NewRows[r] : CreateRunbook(r, row)
    \/ \E i \in Incidents : DeleteIncident(i)
-----------------------------------------------------------------------------
EngineState == [phase : {"idle", "choosing", "executing", "returned", "raised", "dead"},
                rest : SUBSET Runbooks, selected : SUBSET Runbooks,
                committed : BOOLEAN, stale : BOOLEAN]
RunbookTypeOK ==
    /\ runbook \in [Runbooks -> Rows]
    /\ incident \in [Incidents -> {"none", "OPEN", "RESOLVED", "deleted"}]
    /\ engine \in [Incidents -> EngineState]
    /\ execution \in [Incidents -> [Runbooks -> {"none", "RUNNING", "SUCCESS", "FAILED"}]]
    /\ stepsDone \in [Incidents -> [Runbooks -> Nat]]
    /\ removals \in 0 .. MaxRemovals

\* An execution is left RUNNING only by a worker that died: a call that has come to
\* its end, normally or by an exception between two runbooks, has settled every
\* execution it started (engine.py 171-194).
ExecutionsSettle ==
    \A i \in Incidents, r \in Runbooks : execution[i][r] = "RUNNING" =>
        /\ engine[i].phase \in {"executing", "dead"}
        /\ \A q \in Runbooks \ {r} : execution[i][q] # "RUNNING"

\* SUCCESS is only recorded for a runbook all of whose steps were carried out, the
\* row having been deleted meanwhile or not.
SuccessIsEarned ==
    \A i \in Incidents, r \in Runbooks :
        execution[i][r] = "SUCCESS" => stepsDone[i][r] = runbook[r].steps

\* A call that returns has executed every runbook it selected and that matches: a
\* failed execution, or a runbook deleted meanwhile, does not stop the others.
EveryMatchExecuted ==
    \A i \in Incidents : engine[i].phase = "returned" =>
        \A r \in engine[i].selected : Matches(r) => execution[i][r] \in {"SUCCESS", "FAILED"}

\* What the records of the executions say of a call is so: the three together.
ExecutionsAreTrue == ExecutionsSettle /\ SuccessIsEarned /\ EveryMatchExecuted
=============================================================================
