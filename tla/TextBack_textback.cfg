SPECIFICATION HistSpec
CONSTANTS
  m1 = m1
  m2 = m2
  b1 = b1
  b2 = b2
  n1 = n1
  r1 = r1
  r2 = r2
  c1 = c1
  None = None
  MaxSends = 2
  Msgs <- TwoMsgs
  Calls <- OneCall
  CallOf <- SameCall
  Bodies <- TwoBodies
  Numbers <- OneNumber
  Reqs <- TwoReqs
  BatchSize = 1
INVARIANTS TypeOK OnlyApprovedTextIsSent OneDraftPerCall
PROPERTIES  ApprovedIsSettled
CHECK_DEADLOCK FALSE
