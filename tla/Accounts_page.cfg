\* A browser with the request of its start and two more, two names, two
\* passwords, and other users behind the same proxy.
SPECIFICATION Spec
CONSTANTS
  Name = {n1, n2}
  Password = {w1, w2}
  MaxRequests = 3
  MaxTime = 2
  Ttl = 2
  Window = 2
  Limit = 2
  None = None
SYMMETRY Symmetry
INVARIANTS TypeOK SessionsEarned ShownIsSignedIn AtMostTwice
CHECK_DEADLOCK FALSE
