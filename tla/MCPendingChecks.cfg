SPECIFICATION Spec
CONSTANTS
  m1 = m1  r1 = r1
  Monitor = {m1}
  Region = {r1}
  Worker = {w1, w2}
  RegionOf <- OneRegion
  RowId = {i1, i2}
  MaxAttempts = 2
  Limit = 2
  NoWorker = NoWorker
  NoRow = NoRow
SYMMETRY RowWorkerSymmetry
INVARIANTS
  TypeOK
  OneLivePerSlot
  LeasesPayForChecks
PROPERTIES
  HolderKeepsLease
  OnlyLeasedRowsComplete
  SlotIsLeased

