SPECIFICATION Spec
CONSTANTS
  Projects <- TwoProjects
  Home <- TwoMonitors
  Limits <- SmallLimits
  Request = {r1}
INVARIANTS PaidRunsAll
