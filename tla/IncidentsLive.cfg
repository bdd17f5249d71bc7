SPECIFICATION FairSpec
CONSTANTS
  a = a  b = b  c = c
  Region = {a, b}
  VotingChoices <- OneOrTwo
  Channel = {}
  IncidentId = {i1}
  Executor = {e1}
  NoExecutor = NoExecutor
  MaxQueued = 1
PROPERTIES
  StatusConverges
