CONSTANTS
  prometheus = prometheus
  influxdb = influxdb
  Metric <- TwoSeries
  Writers <- MCWriters
  Window = 2
  MaxTick = 2
  MaxTime = 3
  MaxPush <- MCMaxPush
SPECIFICATION Spec
INVARIANTS
  RetriedNextFlush
CHECK_DEADLOCK FALSE
