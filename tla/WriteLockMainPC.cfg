SPECIFICATION Spec
CONSTANTS
  w1 = w1
  w2 = w2
  w3 = w3
  NoWorker = NoWorker
  Worker <- MCWorker3
  RowId = {1, 2, 3}
  LockInstalled = TRUE
  CoarseClock = FALSE
  MaxOps = 3
  MaxAudits = 2
SYMMETRY WorkerSymmetry
INVARIANTS TypeOK OneWriter NoCircularWait ChainIntact AuditMatchesData
PROPERTIES AuditTrailSpec
