SPECIFICATION MCSpec
CONSTANTS
  s1 = s1
  s2 = s2
  e1 = e1
  e2 = e2
  o1 = o1
  d1 = d1
  d2 = d2
  i1 = i1
  f1 = f1
  f2 = f2
  Idle = Idle
  NoRecord = NoRecord
  Session <- MCSession
  Employee <- MCEmployee2
  LastMonth = 1
  Gross = 1
  MaxDebts = 1
  MaxPayments = 3
  Order <- MCOrder
  Delivery <- MCDelivery
  Invoice <- MCInvoice
  Fuel <- MCFuel1
  Ordered = 2
  Volume = 2
  Owed = 2
  MaxFailedLoginAttempts = 3
  MaxLocks = 2
  MaxResetCodes = 2
  LastDay = 2
  DueDays = 0
  MaxAmount = 2
  MaxBills = 2
  MaxPaid = 1
  MaxFollowUps = 1
  Fee = 50
  NoReference = NoReference
  MaxSubset = 6
  MaxCandidates = 18
  ReversalDays = 10
  LastDate = 2
  Window = 1
  MaxTransfer = 2
  References <- MCNoReference
  Directions <- MCDirections
  MaxLines = 2
  MaxSources = 3
  MaxMatches = 2
  NoBook = NoBook
  NotTyped = NotTyped
  MaxShift = 3
  MaxMeter = 2
  MaxReadings = 3
  MaxEntries = 2
  MaxCash = 1
  SaleAmount = 200
  SmallExpense = 50
  Variances <- MCVariances
  MaxTenderSales = 1
  MaxExpenses = 2
  LastLeaveDay = 2
  MaxLeaves = 2
  ByHand <- MCByHand
  Unmarked = Unmarked
  Full = 3
  AtStart = 2
  LastBookDay = 2
  MaxMoves = 3
  MaxDips = 2
  MaxLost = 1
  LastBowserDay = 3
  MaxLitres = 1
  MaxBowserRows = 3
  MaxPasswords = 4
  Nozzle = {1, 2, 3}
  WorkShift = {1, 2}
  Limits = {2, 3}
  Rates = {1, 2}
  MaxPrices = 3
SYMMETRY MCSymmetry
INVARIANTS BackOfficeTypeOK OrderedFuelIsAccountedFor FuelIsExplained
PROPERTIES SalaryIsPaidAsApproved GuessingIsHeldOff CreditIsControlled MoneyIsMatchedOnce NothingCountedTwice ShortageIsBookedOnce LeaveIsTakenAsDecided
CHECK_DEADLOCK FALSE
