\* One session on another port.
SPECIFICATION Spec
CONSTANTS
  Number <- MCNumber
  Blemish = {"a/b"}
  V6 <- MCV6
  Names <- MCNames
  DashedAtoms <- MCDashed
  Configured = TRUE
  Requests <- MCPortRequests
  File = {"main", "a", "b", "c"}
  Contents <- MCContents
  KnownHosts <- MCKnown
  Typed <- MCTyped
  MainConfig = "main"
  Unreadable = Unreadable
  Glob <- MCGlob
  Unlisted <- MCUnlisted
  HostOf <- MCHostOf
  StartsWith <- MCStartsWith
  MaxDepth = 3
CHECK_DEADLOCK FALSE
INVARIANT EveryConnectionWhereAsked
