SPECIFICATION Spec
CONSTANTS
  a = a  b = b  c = c
  Region = {a, b}
  VotingChoices <- AllRegions
  Channel = {ch}
  IncidentId = {i1, i2}
  Executor = {e1, e2}
  NoExecutor = NoExecutor
  MaxQueued = 2
SYMMETRY IncidentExecutorSymmetry
INVARIANTS TypeOK OneOpenIncident AlertsMatchIncidents
PROPERTIES ReversalNeedsChangedVote LedgerKept
