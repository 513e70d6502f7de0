SPECIFICATION Spec
CONSTANTS
  s1 = s1
  s2 = s2
  h1 = h1
  n1 = n1
  n2 = n2
  e1 = e1
  e2 = e2
  None = None
  Session <- MCTwoSessions
  Shift <- MCShift
  Nozzle <- MCNozzle1
  Employee <- MCEmployee2
  Gated = FALSE
  Capacity = 3
  OpeningStock = 2
  Enabled <- ShiftDesk
  MaxLitres = 1
  MaxAssignments = 2
  MaxSales = 1
  MaxMovements = 1
SYMMETRY TwoSymmetry
INVARIANTS NoDoubleAssignment ClosedShiftIsFinished
