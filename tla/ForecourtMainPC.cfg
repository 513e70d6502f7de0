SPECIFICATION MCSpec
CONSTANTS
  s1 = s1
  s2 = s2
  h1 = h1
  n1 = n1
  n2 = n2
  e1 = e1
  e2 = e2
  None = None
  Session <- MCSession
  Shift <- MCShift
  Nozzle <- MCNozzle
  Employee <- MCEmployee
  Gated = TRUE
  Capacity = 3
  OpeningStock = 2
  Enabled <- MCKinds
  MaxLitres = 1
  MaxAssignments = 2
  MaxSales = 2
  MaxMovements = 4
  TwoOwners = TRUE
  MaxFigures = 2
  MaxEvents = 7
SYMMETRY MCSymmetry
INVARIANTS NoDoubleAssignment StockInTank CancelledOnce ReceiptsInOrder DifferentOwners
PROPERTIES SettledOnCompletion
