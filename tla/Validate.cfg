\* A validation, another session that may take its port, and a program that may
\* outlive the session it began in.
SPECIFICATION Spec
CONSTANTS
  Session = {s1, v}
  Port = {p1, p2}
  DefaultPort = p0
  Program = {q1, probe}
  Path <- MCPath
  Env <- MCEnv
  ForwardAgent = TRUE
  Transport = "ssh"
  WrapperDirs <- MCWrapperDirs
  ShimDirs <- MCShimDirs
  ShimOf <- MCShimOf
  NativeDirs = {"native"}
  None = None
  Validator = v
  Probe = probe
  ProbePath <- MCProbePath
INVARIANTS
  TypeOK
  PassedMeansCarried
  QuietRunPasses
  StatusTellsChecks
PROPERTIES
  OwnDesktopOnly
  OpenSessionServes
  NewestSessionServes
  NoWrapperLoop
VIEW MCView
SYMMETRY MCAlike
CHECK_DEADLOCK FALSE
