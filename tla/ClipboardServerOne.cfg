\* One connection, every kind of header, every payload up to one byte too many.
SPECIFICATION Spec
CONSTANTS
  Conn = {c1}
  Ports = {p1, p2}
  InitialPort = p1
  Token = "tok"
  Lines <- MCEveryLine
  NoLine = NoLine
  Atoi <- MCAtoi
  Byte = {"u", "v"}
  MaxPayload = 2
  Targets <- MCTargets
  NotRun = NotRun
  HungTools = {}
INVARIANTS
  TypeOK
  OnlyCompleteAuthorizedRequestsRun
  AnswerTellsOutcome
  AnsweredBeforeDeadline
  AdvertisedPortListens
CHECK_DEADLOCK FALSE
