------------------------------ MODULE MCTrial ------------------------------
(* Small instances of Trial for TLC. *)
EXTENDS Trial, TLC

TwoProjects == <<"p1", "p2">>

\* The first monitor is in the younger project.
TwoMonitors == <<"p2", "p1">>

\* Free runs nothing, so that every monitor that runs on after the trial counts.
NothingFree == "FREE" :> [projects |-> 1, monitors |-> 0]
  @@ "PRO" :> [projects |-> 2, monitors |-> 2] @@ "trial" :> [projects |-> 2, monitors |-> 2]

\* Free runs one monitor of one project; Starter is smaller than the trial.
SmallLimits ==
  "FREE" :> [projects |-> 1, monitors |-> 1] @@ "STARTER" :> [projects |-> 2, monitors |-> 2]
  @@ "PRO" :> [projects |-> 2, monitors |-> 3] @@ "trial" :> [projects |-> 2, monitors |-> 3]
=============================================================================
