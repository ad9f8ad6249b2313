CONSTANTS
  w1 = w1  c1 = c1  c2 = c2  s1 = s1  s2 = s2
  Workers = {w1}
  TAExit = TAExit
  Clients = {c1}
  ServedBy <- MCServedBy
  Sids = {s1, s2}
  GpSids = {s1}
  SID_MCP = SID_MCP
  NULL = NULL
  MaxNotes = 0
  NqSize = 2
  MayFault = FALSE
SPECIFICATION FairSpec
INVARIANT AssertHolds
PROPERTIES DroppedEventually Reaped
