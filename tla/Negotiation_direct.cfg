\* A direct join with publications at any time, ICE restarts and candidates.
SPECIFICATION Spec
CONSTANTS
  Lobby = FALSE
  Approver = {}
  Initial = 2
  Lines = 2
  When = "any"
  ApproveEarly = FALSE
  MaxChanges = 3
  MaxRestarts = 2
  MaxIce = 2
INVARIANTS NoLostRequest NoStrandedCandidate QuietInStep ExistingTracksIncluded
CHECK_DEADLOCK FALSE
