----------------------------- MODULE MCIncidents -----------------------------
(* A small instance of the incident path for TLC.  Three parts of it run side *)
(* by side, one per behaviour: the router, the analysis task with the router's*)
(* registry and the runbooks, the SLO evaluator with the runbooks.            *)
EXTENDS AnalysisTask, SloEvaluator, TLC

CONSTANTS r1, r2

\* r1 runs, has no steps, is for another title, or has a severity trigger; r2 has
\* no steps.  The evaluator's behaviours take r1 only, for its title.
MCRows ==
    LET row == [live |-> TRUE, enabled |-> TRUE, severity |-> FALSE,
                keyword |-> "in title", steps |-> 1] IN
    r1 :> {row, [row EXCEPT !.steps = 0], [row EXCEPT !.keyword = "not in title"],
           [row EXCEPT !.severity = TRUE, !.keyword = "absent"]}
      @@ r2 :> {[row EXCEPT !.steps = 0]}

ForTitle(row) == row.live => row.keyword = "in title"

VARIABLE focus
allVars == <<analysisVars, sloVars, focus>>

Init ==
    /\ TaskInit /\ SloInit
    /\ focus \in {"router", "task", "evaluator"}
    /\ focus # "evaluator" => \A s \in Slos : slo[s] = "none"

RouterFocus == focus = "router" /\ UNCHANGED <<taskVars, runbookVars, sloVars, focus>>
TaskFocus == focus = "task" /\ UNCHANGED <<sloVars, focus>>
SloFocus == focus = "evaluator" /\ UNCHANGED <<taskVars, routerVars, focus>>

Next ==
    \/ RouterFocus /\ RouterNext
    \/ TaskFocus /\ TaskNext
    \/ SloFocus /\ SloNext /\ ~runbook'[r2].live /\ ForTitle(runbook'[r1])

Fairness ==
    \A c \in Calls : WF_allVars(RouterFocus /\ CallStep(c))
Spec == Init /\ [][Next]_allVars
FairSpec == Spec /\ Fairness
===============================================================================
