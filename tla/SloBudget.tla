-------------------------------- MODULE SloBudget --------------------------------
(***************************************************************************)
(* The error budget of an objective: calculate_slo_status of               *)
(* src/denoiser/slo/engine.py, over the events of a service in ClickHouse. *)
(*                                                                         *)
(* A target is [allowed, short]: the failures it allows in a thousand and  *)
(* whether the float 100.0 - target falls short of them, as it does for    *)
(* 99.9 and 99.4; a budget that comes out whole is then one less.          *)
(* A definition X_Y is X with a plausible mistake Y; nothing uses it.      *)
(***************************************************************************)
EXTENDS Naturals, Integers, Functions

CONSTANTS
    SloTargets,   \* targets [allowed, short]
    Days,         \* days of the objective's window
    MaxEvents     \* bound: events of a day, in hundreds

ASSUME BudgetAssumption ==
    /\ Days \in Nat
    /\ \A t \in SloTargets : t.allowed \in Nat /\ t.short \in BOOLEAN

VARIABLES
    total,        \* total[d]: events of day d
    good,         \* good[d]: those that count as good for its kind of indicator
    target,
    answer        \* of the last query: [reached, status, budget, remaining, points]
budgetVars == <<total, good, target, answer>>

Failures == SumFunction(total) - SumFunction(good)

\* int(total * (allowed / 100)), with the float of the target.
Budget_Rounded(n) == (n * target.allowed + 999) \div 1000
Budget(n) ==
    LET whole == n * target.allowed IN
    IF target.short /\ whole > 0 /\ whole % 1000 = 0
    THEN whole \div 1000 - 1 ELSE whole \div 1000

\* BREACHED when the failures exceed the budget, WARNING from four fifths of it on.
Status(budget, failures) ==
    IF budget - failures < 0 THEN "BREACHED"
    ELSE IF budget > 0 /\ 10 * failures > 8 * budget THEN "WARNING" ELSE "HEALTHY"

\* No client, an exception of the counts, or no event: healthy, with no budget.
Unknown == [reached |-> FALSE, status |-> "HEALTHY", budget |-> 0, remaining |-> 0, points |-> {}]
\* The points come from a query of their own, which may fail on its own.
Points == {<<d, good[d], total[d]>> : d \in {e \in 1 .. Days : total[e] > 0}}
Calculated(points) ==
    LET n == SumFunction(total) IN
    [reached |-> TRUE, status |-> Status(Budget(n), Failures), budget |-> Budget(n),
     remaining |-> Budget(n) - Failures, points |-> points]
-----------------------------------------------------------------------------
BudgetInit ==
    /\ total = [d \in 1 .. Days |-> 0] /\ good = total
    /\ target \in SloTargets /\ answer = Unknown

\* A hundred events of a day, all good but some.
Count_(d, failed) ==
    /\ total[d] < 100 * MaxEvents
    /\ total' = [total EXCEPT ![d] = @ + 100]
    /\ good' = [good EXCEPT ![d] = @ + 100 - failed]
    /\ UNCHANGED <<target, answer>>
QueryStatus(points) ==
    /\ answer' = IF SumFunction(total) = 0 THEN Unknown ELSE Calculated(points)
    /\ UNCHANGED <<total, good, target>>
LoseStore == answer' = Unknown /\ UNCHANGED <<total, good, target>>

BudgetNext ==
    \/ \E d \in 1 .. Days, failed \in {0, 1} : Count_(d, failed)
    \/ \E points \in {Points, {}} : QueryStatus(points)
    \/ LoseStore
BudgetSpec == BudgetInit /\ [][BudgetNext]_budgetVars
-----------------------------------------------------------------------------
\* An objective that is missed, with more failures than a thousandth part of the events
\* times what is allowed, is told as breached; one told as breached has at least used
\* up what is allowed.  Truncation never hides a failure too many, however few the
\* events; and for a target like 99.9 it costs the last one that is allowed.
BreachesAreTold ==
    [][answer' # answer /\ answer'.reached =>
        LET allowed == SumFunction(total) * target.allowed IN
        /\ 1000 * Failures > allowed => answer'.status = "BREACHED"
        /\ answer'.status = "BREACHED" =>
             IF target.short THEN 1000 * Failures >= allowed ELSE 1000 * Failures > allowed
    ]_budgetVars
=============================================================================
