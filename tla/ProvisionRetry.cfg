\* One session whose first attempt to install fails.
SPECIFICATION Spec
CONSTANTS
  Session = {a}
  VersionOf <- MCVersionOf
  New = New
  Stale = Stale
  Missing = Missing
  Partial = Partial
INVARIANT VersionIdentifiesShim
CHECK_DEADLOCK FALSE
