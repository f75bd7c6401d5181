CONSTANTS
  RequestedCap = 0
  DefaultCap = 4
  Sample = {s1, s2, s3, s4}
  Blank = Blank
SPECIFICATION RSpec
INVARIANTS
  RTypeOK
PROPERTY
  BoundedLog
