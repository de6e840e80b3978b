\* Sessions, validations and installations over every transport, with keys and
\* commands that need quoting; forwards of every form; and completions over
\* configurations that include each other deeper than the bound.
SPECIFICATION Spec
CONSTANTS
  Number <- MCNumber
  Blemish = {"a/b"}
  V6 <- MCV6
  Names <- MCNames
  DashedAtoms <- MCDashed
  Configured = TRUE
  Requests <- MCRequests
  File = {"main", "a", "b", "c"}
  Contents <- MCContents
  KnownHosts <- MCKnown
  Typed <- MCTyped
  MainConfig = "main"
  Unreadable = Unreadable
  Glob <- MCGlob
  Unlisted <- MCUnlisted
  HostOf <- MCHostOf
  StartsWith <- MCStartsWith
  MaxDepth = 3
INVARIANTS
  TypeOK
  SSHReadsTheHost
  CommandReachesShell
  HeldAgentIffAsked
  MoshConnectsAlike
  SessionConnectsWhereAsked
  ForwardsAsDocumented
  HostsAsDocumented
  FileReadOnce
CHECK_DEADLOCK FALSE
