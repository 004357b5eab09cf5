\* The page, the host and a member, whose roles may all be changed.
SPECIFICATION Spec
CONSTANTS
  w = w
  a = a
  b = b
  Peer = {w, a, b}
  W = w
  InitialRole <- Roles
  Controlled = {w, a, b}
  MaxCommands = 2
  None = None
INVARIANTS TypeOK LobbyApart ListRight HostRight LobbyRight
CHECK_DEADLOCK FALSE
