SPECIFICATION Spec
CONSTANTS
  s1 = s1
  s2 = s2
  u1 = u1
  u2 = u2
  NoUser = NoUser
  Session <- MCOneSession
  User <- MCUser
  Gated = FALSE
  TwoOwners = TRUE
  MaxFigures = 3
  MaxEvents = 8
SYMMETRY EntrySymmetry
INVARIANTS TypeOK HistoryExplainsStatus StampDescribesFigures
PROPERTIES ReviewChainSpec
