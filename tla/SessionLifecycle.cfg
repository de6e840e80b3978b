\* Safety, the refinement and liveness: three ports, three attempts.
SPECIFICATION FairSpec
CONSTANTS
  Ports = {p1, p2, p3}
  NoPort = NoPort
  MaxAttempts = 3
INVARIANTS
  TypeOK
  PortAgreement
  CleanExit
  ClientNeedsSession
PROPERTIES
  OrderedScope
  TeardownEnds
  SetupEnds
CHECK_DEADLOCK FALSE
