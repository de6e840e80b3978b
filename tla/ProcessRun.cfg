\* One client, with and without a terminal, in slush's group and in its own.
SPECIFICATION FairSpec
CONSTANTS
  Forwarded = {INT, TERM, WINCH}
  NoSignal = NoSignal
  ChanSize = 1
INVARIANTS
  TypeOK
  RunLeavesNothing
PROPERTIES
  AcceptedSignalArrives
  ForwarderEnds
CHECK_DEADLOCK FALSE
