SPECIFICATION LanLiveSpec
CONSTANTS
  p1 = p1
  p2 = p2
  Client <- MCClient
  Streaming <- MCOneClient
  Opening <- MCOneClient
  MaxChanges = 2
  QueueLimit = 1
  MaxFaults = 1
  NoTag = NoTag
  NoRead = NoRead
  NoBody = NoBody
  Idle = Idle
INVARIANTS LanLiveTypeOK
PROPERTIES OthersAreSeen
CHECK_DEADLOCK FALSE
