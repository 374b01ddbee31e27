SPECIFICATION Spec
CONSTANTS
  r1 = r1  r2 = r2  r3 = r3  c1 = c1  c2 = c2
  Null = Null
  Runtime = {r1, r2, r3}
  Owned = {r1, r3}
  Closer = {c1, c2}
  OtherFormat = {0, 6}
INVARIANTS
  NothingLeaks
  CloseMeansClosed
PROPERTIES
  FormatAgrees
CHECK_DEADLOCK FALSE
