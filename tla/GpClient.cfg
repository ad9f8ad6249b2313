SPECIFICATION FairSpec
CONSTANTS
  t1 = t1
  t2 = t2
  Threads = {t1, t2}
  NULL = NULL
  MaxCalls = 3
  MaxCancels = 1
  MaxFailures = 2
  Operations = {"plain", "buffer"}
  Failures = {"open", "setup", "unmap", "close", "write", "connection", "panic", "tee"}
INVARIANTS Inv CancelledByOwn
PROPERTY CallsEnd
CHECK_DEADLOCK FALSE
