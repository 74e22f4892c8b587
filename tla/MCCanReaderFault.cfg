SPECIFICATION Spec
CONSTANTS
  Ids = {a, b}
  None = None
  HealthTimeout = 3
  ReadTimeout = 2
  PollInterval = 2
  RestartSec = 2
  MaxSaves = 2
INVARIANT
  RedOnFault
