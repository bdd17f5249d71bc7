SPECIFICATION Spec
CONSTANTS
  Cell = {c1, c2}
  Visitor = {v1, v2}
  Typed = {"lower", "mixed"}
  Opener = {o1, o2}
  Request = {q1, q2}
  Limit <- OnePerWindow
  Weight = {1, 2}
  Slots = 1
  User = {u1, u2, u3}
  Task = {t1, t2}
  Nobody = Nobody
  Refused = {u3}
  MaxFaults = 1
  r1 = r1
  Monitor = {m1}
  Region = {r1}
  Worker = {w1}
  RegionOf <- OneRegion
  RowId = {i1, i2}
  MaxAttempts = 2
  JobLimit = 2
  NoWorker = NoWorker
  NoRow = NoRow
INVARIANTS TypeOK ResultsAreReported UsedLinkIsDead RemindedOnce
PROPERTIES
  DoneInTime MonitorsGo OwnerGetsIn UntornWindowsEnd EachReminded SlotFreed CheckedForEver
CHECK_DEADLOCK FALSE
