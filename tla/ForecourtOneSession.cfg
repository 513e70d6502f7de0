SPECIFICATION Spec
CONSTANTS
  s1 = s1
  s2 = s2
  h1 = h1
  n1 = n1
  n2 = n2
  e1 = e1
  e2 = e2
  None = None
  Session <- MCOneSession
  Shift <- MCShift
  Nozzle <- MCNozzle1
  Employee <- MCEmployee1
  Gated = FALSE
  Capacity = 3
  OpeningStock = 2
  Enabled <- RequestKinds
  MaxLitres = 2
  MaxAssignments = 2
  MaxSales = 2
  MaxMovements = 3
INVARIANTS TypeOK LedgerExplainsStock
PROPERTIES ClosedMeansClosed GivenBackOnce
