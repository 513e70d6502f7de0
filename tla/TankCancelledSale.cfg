SPECIFICATION TankBookSpec
CONSTANTS
  Session = {s1}
  Idle = Idle
  NoRecord = NoRecord
  Full = 3
  AtStart = 2
  LastBookDay = 2
  MaxMoves = 2
  MaxDips = 2
  MaxLost = 1
INVARIANT VarianceIsLoss
CHECK_DEADLOCK FALSE
