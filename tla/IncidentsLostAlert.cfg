SPECIFICATION FairSpec
CONSTANTS
  a = a  b = b  c = c
  Region = {a}
  VotingChoices <- AllRegions
  Channel = {ch}
  IncidentId = {i1, i2}
  Executor = {e1}
  NoExecutor = NoExecutor
  MaxQueued = 1
PROPERTIES NoAlertLost
