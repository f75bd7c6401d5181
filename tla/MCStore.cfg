CONSTANTS
  RequestedCap = 2
  DefaultCap = 3
  Sample = {s1, s2}
  Blank = Blank
  Name = {cpu, mem}
  Pusher = {collector, plugin}
  Reader = {web}
  NoPush = NoPush
  Request = {0, 1}
SPECIFICATION Spec
SYMMETRY Symmetry
INVARIANTS
  TypeOK
  PointersAgree
PROPERTY
  AtomicStore
