\* Three messages, two of which may share a millisecond, pages of one message
\* and a list of two.
SPECIFICATION Spec
CONSTANTS
  Id = {1, 2, 3}
  Own = {1}
  Ticks = 2
  MaxTick = 2
  Delay = 1
  PageSize = 1
  Live = 2
  Loaded = 2
  None = None
INVARIANTS TypeOK NoDuplicates NothingElseLost
