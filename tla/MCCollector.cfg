CONSTANTS
  cpu = cpu
  mem = mem
  load = load
  sda = sda
  sda1 = sda1
  eth0 = eth0
  Device <- MCDevice
  Hosts <- MCHosts
  Kind <- MCKind
  Name <- MCName
  Modulus = 4
  MaxGrowth = 1
  MaxRound = 3
SPECIFICATION FairSpec
INVARIANTS
  TypeOK
  IncrementsReportedOnce
  
PROPERTIES
  SnapshotEnds
  IsService
