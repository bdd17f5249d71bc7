----------------------------- MODULE MCPlanFit -----------------------------
(***************************************************************************)
(* plan_fit on every account of up to MaxMonitors monitors, spread in any  *)
(* way over three projects, under every limit.                             *)
(***************************************************************************)
EXTENDS PlanFit, FiniteSets

CONSTANT MaxMonitors

MaxMonitorsAssumption == MaxMonitors \in Nat

VARIABLES monitors, limits

Projects == <<"p1", "p2", "p3">>

\* Running, paused by the user, paused by either end of a plan.
RowState == {[is_active |-> TRUE, paused_reason |-> "none"]} \cup
            [is_active : {FALSE}, paused_reason : {"none"} \cup PLAN_PAUSE_REASONS]

Account(home, row) ==
  [i \in DOMAIN home |-> [id |-> i, project |-> home[i], is_active |-> row[i].is_active,
                          paused_reason |-> row[i].paused_reason]]

\* Every plan has a project and a monitor at least.
LimitsChecked == [projects : {Unlimited} \cup 1..2, monitors : 1..MaxMonitors]

Init ==
  /\ \E n \in 0..MaxMonitors :
       \E home \in [1..n -> ToSet(Projects)], row \in [1..n -> RowState] :
         monitors = Account(home, row)
  /\ limits \in LimitsChecked

Fit == plan_fit(Projects, monitors, limits)

\* fit_to_limits: the account once the plan has paused and resumed.
Next ==
  /\ monitors' = [i \in DOMAIN monitors |->
       [monitors[i] EXCEPT
          !.is_active = (@ \/ i \in Fit.run) /\ i \notin Fit.pause,
          !.paused_reason = IF i \in Fit.run THEN "none"
                            ELSE IF i \in Fit.pause /\ monitors[i].is_active
                            THEN "plan_limit" ELSE @]]
  /\ UNCHANGED limits

Spec == Init /\ [][Next]_<<monitors, limits>>

-----------------------------------------------------------------------------

Rank(p) == CHOOSE i \in DOMAIN Projects : Projects[i] = p

\* i comes before j: an older project, or an older monitor of the same one.
Before(i, j) ==
  LET pi == Rank(monitors[i].project)  pj == Rank(monitors[j].project)
  IN  pi < pj \/ (pi = pj /\ i < j)

Contenders == {i \in DOMAIN monitors :
  monitors[i].is_active \/ monitors[i].paused_reason # "none"}

Admitted == {i \in Contenders :
  limits.projects = Unlimited \/ Rank(monitors[i].project) <= limits.projects}

\* The rule of trial.py's docstring, without lists: a monitor runs when its
\* project is allowed and fewer than max_monitors candidates come before it;
\* the user's own pauses are in neither list.
OldestWin ==
  /\ Fit.run = {j \in Admitted : Cardinality({i \in Admitted : Before(i, j)}) < limits.monitors}
  /\ Fit.pause = Contenders \ Fit.run

\* Applying the plan's decision does not change it: expire_due may meet an
\* account twice (its docstring calls it idempotent).
FitIsStable == [][Fit' = Fit]_<<monitors, limits>>
=============================================================================
