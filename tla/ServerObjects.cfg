CONSTANTS
  c1 = c1  c2 = c2
  Clients = {c1, c2}
  NULL = NULL
  MaxCommands = 1
  Sent <- AllSent
  Failures = {"listen", "select", "accept", "mci"}
SPECIFICATION Spec
CHECK_DEADLOCK FALSE
SYMMETRY MCSymmetry
INVARIANTS Inv HandledBeforeNext
