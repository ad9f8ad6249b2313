SPECIFICATION Spec
CONSTANTS
  c1 = c1
  c2 = c2
  s1 = s1
  s2 = s2
  b1 = b1
  b2 = b2
  NULL = NULL
  Clients = {c1, c2}
  Sids = {s1, s2}
  GpSids = {s1}
  Bufs = {b1, b2}
  MaxHandles = 2
  Failures = {"nq"}
SYMMETRY Symmetry
INVARIANTS Inv PinnedWhileMapped
