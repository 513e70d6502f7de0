SPECIFICATION WindowsSpec
CONSTANTS
  MaxStarts = 3
  Nothing = Nothing
  MaxSignIns = 2
  MaxOutages = 1
  MaxAsked = 2
  MaxTasks = 3
  MaxPages = 2
  MaxLogins = 2
INVARIANTS WindowsTypeOK
PROPERTIES WindowsKeepTheirWord
CHECK_DEADLOCK FALSE
