SPECIFICATION MCSpec
CONSTANTS
  u1 = u1
  u2 = u2
  c1 = c1
  c2 = c2
  d1 = d1
  d2 = d2
  o1 = o1
  o2 = o2
  Saver <- MCSaver
  Check <- MCCheck
  LastDay = 2
  MaxSaves = 2
  MaxStops = 1
  NoToken = NoToken
  NoRun = NoRun
  LastMailDay = 2
  GiveUpAfter = 2
  MaxCuts = 1
  MaxSwitches = 1
  Device <- MCDevice
  Owner <- MCOwner
  MaxCodes = 2
  MaxWrongTries = 2
  MaxRestarts = 1
  LastNight = 2
  MaxKept = 1
  MaxOrders = 1
  MaxMishaps = 1
  w1 = w1
  w2 = w2
  NoWorker = NoWorker
  Worker <- MCWorker
  RowId = {1, 2}
  LockInstalled = TRUE
  CoarseClock = FALSE
  MaxOps = 2
  MaxAudits = 1
INVARIANTS MainPCTypeOK
PROPERTIES ChecksKeepUp MailIsSettled DoorIsKept BackupsAreThere OperationsEndWhole
CHECK_DEADLOCK FALSE
