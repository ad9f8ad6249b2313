SPECIFICATION FairSpec
CONSTANTS
  c1 = c1
  c2 = c2
  Clients = {c1, c2}
  Sessions = {s1, s2, s3}
  FREE = FREE
  NULL = NULL
  MaxCalls = 2
  MaxThreads = 1
  MaxRounds = 1
INVARIANTS Inv Exclusive SessionGivenBack
PROPERTY LockReturns
CHECK_DEADLOCK FALSE
