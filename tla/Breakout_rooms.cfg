\* Two meetings that share guests, three ids, one of which may come up again.
SPECIFICATION Spec
CONSTANTS
  m1 = m1  m2 = m2  u1 = u1  u2 = u2  i1 = i1
  User = {u1, u2}
  Meeting = {m1, m2}
  BreakoutId = {i1, i2, i3}
  Owner <- Owners
  Repeating = {i1}
  None = None
INVARIANTS TypeOK MembersOnly TokenWithinMeeting
PROPERTY AssignmentSpec
