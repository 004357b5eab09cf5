\* Two connections of any rank and two control calls.
SPECIFICATION Spec
CONSTANTS
  p1 = p1  p2 = p2
  x = x  y = y
  Peer = {p1, p2}
  PeerId = {x, y}
  Joins <- Anyone
  RoomObj = {r1, r2, r3, r4}
  MaxRoomPeers = 2
  MaxControl = 2
  None = None
SYMMETRY FullSymmetry
INVARIANTS TypeOK PeerGaugeExact NoGhostListing HostPresent
PROPERTY ModeratorOutranks
CHECK_DEADLOCK FALSE
