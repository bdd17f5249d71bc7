SPECIFICATION Spec
CONSTANTS
  MaxMonitors = 3
  Sub = {s1, s2}
  Buyer = {b1, b2}
  Handler = {h1, h2}
  NoSub = NoSub
  MaxEvents = 2
  Races = FALSE
  MinInterval <- MinIntervals
  Interval = {2, 4}
  Timeout = {0, 1}
  MaxTimeout = 1
  Request = {q1, q2}
  Window = 1
  Retention = 1
  LastTime = 2
  MaxChecks = 1
  Tenths = 1
  Amber = 1
  MAX_REDIRECTS = 2
  WarnDays = 14
  Site = {"x", "y", "z"}
  Https = {"x", "y", "z"}
  HostOf <- Hosts
  Bad = {}
  Paste = {p1, p2}
  Plan <- Plans
  Run = {k1}
  NoRun = NoRun
  Tab = {"t1", "t2", "t3"}
  BrowserOf <- Browsers
SYMMETRY RequestSymmetry
INVARIANTS
  OldestWin InSync NoPhantom SettingsHold ShownUptime OneFlakeIsForgiven
  WidestCoverage FinishedIsOver
PROPERTIES FitIsStable
CHECK_DEADLOCK FALSE
