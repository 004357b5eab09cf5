\* A direct join; tracks come while the browser's offer is answered.
SPECIFICATION FairSpec
CONSTANTS
  Lobby = FALSE
  Approver = {}
  Initial = 2
  Lines = 2
  When = "answering"
  ApproveEarly = FALSE
  MaxChanges = 1
  MaxRestarts = 0
  MaxIce = 0
PROPERTY TracksArrive
CHECK_DEADLOCK FALSE
