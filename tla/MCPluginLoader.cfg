CONSTANTS
  File = {nginx, redis}
  MaxLines = 1
SPECIFICATION TidySpec
INVARIANTS
  TypeOK
PROPERTIES
  OneTimelyRun
  IsService
  InstalledIsRun
