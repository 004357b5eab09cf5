\* A join through the lobby, approved once its offer has arrived; tracks come
\* after the first exchange.
SPECIFICATION FairSpec
CONSTANTS
  Lobby = TRUE
  Approver = {q1, q2}
  Initial = 2
  Lines = 2
  When = "settled"
  ApproveEarly = FALSE
  MaxChanges = 3
  MaxRestarts = 0
  MaxIce = 2
INVARIANTS TypeOK Serialized
PROPERTY TracksArrive
CHECK_DEADLOCK FALSE
