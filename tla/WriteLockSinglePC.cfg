SPECIFICATION Spec
CONSTANTS
  w1 = w1
  w2 = w2
  w3 = w3
  NoWorker = NoWorker
  Worker <- MCWorker2
  RowId = {1, 2}
  LockInstalled = FALSE
  CoarseClock = FALSE
  MaxOps = 2
  MaxAudits = 1
INVARIANTS ChainIntact EveryChangeAudited
