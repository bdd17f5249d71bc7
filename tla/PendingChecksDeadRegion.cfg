SPECIFICATION BackendSpec
CONSTANTS
  m1 = m1  r1 = r1
  Monitor = {m1}
  Region = {r1}
  Worker = {w1}
  RegionOf <- OneRegion
  RowId = {i1, i2}
  MaxAttempts = 2
  Limit = 2
  NoWorker = NoWorker
  NoRow = NoRow
PROPERTIES
  SlotFreedWithoutWorkers
