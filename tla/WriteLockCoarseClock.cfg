SPECIFICATION Spec
CONSTANTS
  w1 = w1
  w2 = w2
  w3 = w3
  NoWorker = NoWorker
  Worker <- MCWorker2
  RowId = {1, 2, 3}
  LockInstalled = TRUE
  CoarseClock = TRUE
  MaxOps = 2
  MaxAudits = 2
INVARIANTS ChainIntact
