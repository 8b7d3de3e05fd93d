SPECIFICATION MCSpec
CONSTANTS
  MaxCalls = 3
  PageSize = 1
  Kept = {1, 3}
  Advanced = {"oldest"}
  MaxGets = 2
  MaxAsks = 3
  Socks = {1, 2, 3, 4}
  LiveCalls = {c1, c2}
  MaxTurns = 2
  MaxMounts = 2
INVARIANTS   TurnsOnce
 
