CONSTANTS
  Exporters <- MCExporters
  MaxSamples = 4
SPECIFICATION TidySpec
INVARIANTS
  TypeOK
  NothingLeftBehind
PROPERTIES
  CtrlCStops
CHECK_DEADLOCK FALSE
