SPECIFICATION Spec
CONSTANTS
  c1 = c1
  i1 = i1
  r1 = r1
  r2 = r2
  None = None
  Calls <- OneCall
  Items <- OneItem
  Reqs <- TwoReqs
  BatchSize = 2
SYMMETRY RequestsAreAlike
INVARIANTS TypeOK BilledOnce  ReadyCanBeRead GoneLeavesNothing
CHECK_DEADLOCK FALSE
