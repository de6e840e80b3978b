\* Two connections that share the desktop; one never gets its desktop tool back.
SPECIFICATION FairSpec
CONSTANTS
  Conn = {c1, c2}
  Ports = {p1}
  InitialPort = p1
  Token = "tok"
  Lines <- MCSomeLines
  NoLine = NoLine
  Atoi <- MCAtoi
  Byte = {"u"}
  MaxPayload = 1
  Targets <- MCTargets
  NotRun = NotRun
  HungTools = {c1}
PROPERTIES
  AcceptedIsClosed
  BacklogIsDrained
CHECK_DEADLOCK FALSE
