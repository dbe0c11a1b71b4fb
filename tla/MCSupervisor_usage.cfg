SPECIFICATION FairSpec
CONSTANTS
  Latched = {}
  Killable = {}
  MaxSignals = 0
  MaxTrouble = 0
PROPERTY UsageReachesFailover
CHECK_DEADLOCK FALSE
