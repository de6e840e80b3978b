\* Two sessions of one version on one account.
SPECIFICATION Spec
CONSTANTS
  Session = {a, b}
  VersionOf <- MCVersionOf
  New = New
  Stale = Stale
  Missing = Missing
  Partial = Partial
SYMMETRY MCSessionSymmetry
INVARIANTS
  TypeOK
  UndisturbedVersionIsTrue
  UndisturbedSuccessInstalls
CHECK_DEADLOCK FALSE
