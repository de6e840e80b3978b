\* One client, shim or Go, every kind of request, every ending; the desktop tool may hang.
SPECIFICATION FairExchange
CONSTANTS
  Conn = {c1}
  Requests <- MCRequests
  OldToken = "old"
  Ports = {p1}
  InitialPort = p1
  Token = "tok"
  Lines <- MCLines
  NoLine = NoLine
  Atoi <- MCAtoi
  Byte = {"u", "v"}
  MaxPayload = 2
  Targets <- MCTargets
  NotRun = NotRun
  HungTools = {c1}
PROPERTIES
  KeepsServicePromise
  ClientEnds
CHECK_DEADLOCK FALSE
