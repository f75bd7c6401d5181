CONSTANTS
  Client = {c1, c2}
  RegisterCap = 2
  BroadcastCap = 1
  SendCap = 2
SPECIFICATION FairSpec
INVARIANTS
  TypeOK
  NoSendOnClosed
PROPERTIES
  PumpsEnd
  RegisterServed
