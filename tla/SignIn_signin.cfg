SPECIFICATION MCSpec
CONSTANTS
  Calls = {r1, r2}
  MaxSession = 2
  MaxKills = 1
  HasPin = TRUE
INVARIANTS
  NoSelfSignOut
PROPERTIES
  
  
  CodesBeforeHome
CHECK_DEADLOCK FALSE
