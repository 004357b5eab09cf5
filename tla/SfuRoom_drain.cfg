\* No control calls, fair scheduling, colliding ids.
SPECIFICATION FairSpec
CONSTANTS
  p1 = p1  p2 = p2
  x = x  y = y
  Peer = {p1, p2}
  PeerId = {x, y}
  Joins <- Anyone
  RoomObj = {r1, r2}
  MaxRoomPeers = 2
  MaxControl = 0
  None = None
PROPERTY RegistryDrains
CHECK_DEADLOCK FALSE
