------------------------------ MODULE PlanFit ------------------------------
(***************************************************************************)
(* plan_fit of app/services/trial.py: which of an account's monitors run   *)
(* under given limits.  Projects and monitors come oldest first; a limit   *)
(* on the number of projects may be absent.                                *)
(***************************************************************************)
EXTENDS Integers, SequencesExt, Lists

Unlimited == -1   \* max_projects = None

PLAN_PAUSE_REASONS == {"trial_ended", "plan_limit"}

\* Bug: a monitor paused for a smaller paid plan is forgotten.
Candidate_TrialOnly(m) == m.is_active \/ m.paused_reason = "trial_ended"

\* Running, or paused by the plan; what the user paused stays out.
Candidate(m) == m.is_active \/ m.paused_reason \in PLAN_PAUSE_REASONS

Candidates(monitors) == Filter(monitors, {i \in DOMAIN monitors : Candidate(monitors[i])})

\* Bug: only the monitors that run are counted against the limit.
plan_fit_RunningFirst(projects, monitors, limits) ==
  LET candidates == Candidates(monitors)
      active == Filter(candidates, {i \in DOMAIN candidates : candidates[i].is_active})
      run == {m.id : m \in ToSet(First(active, limits.monitors))}
  IN  [run |-> run, pause |-> {m.id : m \in ToSet(candidates)} \ run]

\* The stable sort by the rank of the project, of the monitors that have one: project
\* by project, those of each in their order.
Sorted(projects, monitors) ==
  LET upTo[n \in 0..Len(projects)] ==
        IF n = 0 THEN <<>>
        ELSE upTo[n - 1] \o
             Filter(monitors, {i \in DOMAIN monitors : monitors[i].project = projects[n]})
  IN  upTo[Len(projects)]

plan_fit(projects, monitors, limits) ==
  LET allowed == IF limits.projects = Unlimited THEN projects
                 ELSE First(projects, limits.projects)
      candidates == Candidates(monitors)
      run == {m.id : m \in ToSet(First(Sorted(allowed, candidates), limits.monitors))}
  IN  [run |-> run, pause |-> {m.id : m \in ToSet(candidates)} \ run]
=============================================================================
