SPECIFICATION MCSpec
CONSTANTS
  Numbers = {n1}
  Slots = {1, 2}
  Threshold = 1
  Others = {"flagSpam", "markVip"}
PROPERTY EveryUnblockIsHeard
