\* A signal kills slush while its master is up.
SPECIFICATION FairSpec
CONSTANTS
  Ports = {p1, p2}
  NoPort = NoPort
  MaxAttempts = 2
PROPERTY MasterCannotOutlive
CHECK_DEADLOCK FALSE
