SPECIFICATION Spec
CONSTANTS
  s1 = s1
  s2 = s2
  u1 = u1
  u2 = u2
  NoUser = NoUser
  Session <- MCTwoSessions
  User <- MCUser
  Gated = TRUE
  TwoOwners = TRUE
  MaxFigures = 2
  MaxEvents = 7
SYMMETRY EntrySymmetry
PROPERTY LockedIsFinal
