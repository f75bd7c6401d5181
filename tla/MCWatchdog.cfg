CONSTANTS
  collector = collector
  broadcaster = broadcaster
  Component <- Both
  Registered <- MCRegistered
  Timeouts <- MCTimeouts
  Default = 2
  Interval = 2
  Registers <- Both
  Beats <- Both
SPECIFICATION WFairSpec
INVARIANTS
  WTypeOK
PROPERTIES
  OnlyStuckIsCalled
  StuckIsRestarted
