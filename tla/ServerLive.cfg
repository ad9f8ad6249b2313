CONSTANTS
  c1 = c1  c2 = c2
  Clients = {c1, c2}
  NULL = NULL
  MaxCommands = 1
  Sent <- FewSent
  Failures = {"select"}
SPECIFICATION FairSpec
CHECK_DEADLOCK FALSE
PROPERTIES Served GoneIsDropped ReapedOnAccept StopEnds
