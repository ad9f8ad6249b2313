SPECIFICATION Spec
CONSTANTS
  p1 = p1
  p2 = p2
  u1 = u1
  NONE = NONE
  EMPTY = EMPTY
  TORN = TORN
  GARBAGE = GARBAGE
  SPs = {p1, p2}
  TAs = {u1}
  Failures = {"refused", "short", "crash", "timeout"}
  MaxFailures = 1
SYMMETRY Symmetry
INVARIANTS Inv TokenKept TreeWhole
PROPERTY AddedChildStored
