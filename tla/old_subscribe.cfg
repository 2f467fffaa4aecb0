SPECIFICATION Spec
CONSTANTS
  Duration = 3
  Second = 3
  Slack = 2
  Modulus = 16
  Depth = 2
  MaxSets = 2
INVARIANT NoStarvation
PROPERTY OnTime
PROPERTY LoopEnds
CHECK_DEADLOCK FALSE
