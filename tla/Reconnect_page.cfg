\* Drops, a failed attempt, a move between rooms and a removal.
SPECIFICATION FairSpec
CONSTANTS
  MaxDrops = 1
  MaxFails = 1
  MaxSwitches = 1
  Removals = TRUE
INVARIANTS TypeOK OneSocket
PROPERTY ComesBackAfterDrops
CHECK_DEADLOCK FALSE
