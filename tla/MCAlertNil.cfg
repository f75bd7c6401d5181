CONSTANTS
  high = high
  critical = critical
  cpu = cpu
  Rule <- MCRule
  Metric <- MCMetric
  Def <- MCDef
  Value <- MCValue
  NoSample = NoSample
  Interval = 1
  EventCap = 2
  MaxTime = 5
  Configurations <- MCSlackOnly
SPECIFICATION DSpec
INVARIANTS
  NoPanic
CHECK_DEADLOCK FALSE
