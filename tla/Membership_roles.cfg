\* An owner and a guest with two connections, two changes of a role, and two
\* first accesses at the same time.
SPECIFICATION Spec
CONSTANTS
  User = {u1, u2}
  Conn = {k1, k2}
  MaxChanges = 2
  MaxAccesses = 2
  None = None
INVARIANTS TypeOK HostIsOwner SfuFollows
PROPERTY OnlyOwnerChanges
