SPECIFICATION Spec
CONSTANTS
  s1 = s1
  s2 = s2
  h1 = h1
  n1 = n1
  n2 = n2
  e1 = e1
  e2 = e2
  None = None
  Session <- MCTwoSessions
  Shift <- MCShift
  Nozzle <- MCNozzle1
  Employee <- MCEmployee1
  Gated = TRUE
  Capacity = 3
  OpeningStock = 2
  Enabled <- MoneyDesk
  MaxLitres = 1
  MaxAssignments = 0
  MaxSales = 1
  MaxMovements = 3
SYMMETRY TwoSymmetry
INVARIANTS LedgerExplainsStock ReceiptStaysFree
PROPERTY GivenBackIsFinal
