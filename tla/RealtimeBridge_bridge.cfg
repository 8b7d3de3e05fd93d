SPECIFICATION FairSpec
CONSTANTS
  s1 = s1
  s2 = s2
  s3 = s3
  u1 = u1
  u2 = u2
  Users <- TwoUsers
  Streams <- ThreeStreams
  Owner <- TwoAndOne
  MaxSessions = 2
  MaxPerUser = 2
CHECK_DEADLOCK FALSE
INVARIANTS TypeOK CapsHold SlotsBalance  AppSeesOrder
PROPERTIES PoolSpec SlotsAreFreed
