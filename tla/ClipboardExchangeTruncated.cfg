\* A paste whose connection is cut in the body.
SPECIFICATION ExchangeSpec
CONSTANTS
  Conn = {c1}
  Requests <- MCRequests
  OldToken = "old"
  Ports = {p1}
  InitialPort = p1
  Token = "tok"
  Lines <- MCLines
  NoLine = NoLine
  Atoi <- MCAtoi
  Byte = {"u", "v"}
  MaxPayload = 2
  Targets <- MCTargets
  NotRun = NotRun
  HungTools = {}
INVARIANT PasteIsExact
CHECK_DEADLOCK FALSE
