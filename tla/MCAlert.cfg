CONSTANTS
  high = high
  critical = critical
  cpu = cpu
  Rule <- MCRule
  Metric <- MCMetric
  Def <- MCDef
  Value <- MCValue
  NoSample = NoSample
  Interval = 1
  EventCap = 2
  MaxTime = 5
  Configurations <- MCConfigurations
SPECIFICATION DFairSpec
INVARIANTS
  DTypeOK
  FiringWasHeld
  NoneOverdue
PROPERTIES
  Lifecycle
  QuietAfterStop
  SlackReached
  StopDespiteHang
CHECK_DEADLOCK FALSE
