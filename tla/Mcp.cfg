CONSTANTS
  d1 = d1
  Dispatchers = {d1}
  TAExit = TAExit
  Main = Main
  Does <- All
  OldCount = 1
  Retries = 2
  NqSize = 1
  MaxCommands = 2
  Failures = {"timeout", "halt", "irq"}
  NULL = NULL
SPECIFICATION FairSpec
CHECK_DEADLOCK FALSE
INVARIANTS Inv RestartCloses
PROPERTIES NoLostCommand Returns
