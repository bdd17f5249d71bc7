---------------------------- MODULE MCIncidents ----------------------------
(* Small instances of Incidents for TLC. *)
EXTENDS Incidents, TLC

CONSTANTS a, b, c

\* The second of two regions gets its vote, or loses it.
OneOrTwo == {{a}, {a, b}}

AllRegions == {Region}

IncidentExecutorSymmetry == Permutations(IncidentId) \cup Permutations(Executor)
=============================================================================
