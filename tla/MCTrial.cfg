SPECIFICATION FairSpec
CONSTANTS
  Projects <- TwoProjects
  Home <- TwoMonitors
  Limits <- NothingFree
  Request = {r1}
INVARIANTS FreeAfterTrial LockedPaidRunsAll
PROPERTIES TrialIsWoundUp
