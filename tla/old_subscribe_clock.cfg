SPECIFICATION Spec
CONSTANTS
  Duration = 2
  Second = 2
  Slack = 1
  Modulus = 16
  Depth = 1
  MaxSets = 1
PROPERTY LeavesWhenElapsed
CHECK_DEADLOCK FALSE
