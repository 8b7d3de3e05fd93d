SPECIFICATION FairSpec
CONSTANTS
  c1 = c1
  i1 = i1
  r1 = r1
  r2 = r2
  None = None
  Calls <- OneCall
  Items <- OneItem
  Reqs <- OneReq
  BatchSize = 2
PROPERTIES CallsAreSettled
CHECK_DEADLOCK FALSE
