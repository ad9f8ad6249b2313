SPECIFICATION FairSpec
CONSTANTS
  o1 = o1
  o2 = o2
  v1 = v1
  v2 = v2
  NONE = NONE
  EMPTY = EMPTY
  Objects = {o1, o2}
  Payloads = {v1, v2}
  Failures = {"full", "refused", "io", "session", "crash", "unreadable"}
INVARIANT Inv
PROPERTIES StoresObjects Answered
