SPECIFICATION Spec
CONSTANTS
  NoOwner = NoOwner
  Requests = {r1, r2}
  Stored = {c0}
  DayLen = 2
  MaxDays = 3
  LockTtl = 0
  CaDays = 2
  Horizon = 4
  Imports <- MCImports
SYMMETRY Symmetry
INVARIANTS
  LeafCapped
  CertRowAgrees
PROPERTIES
  CaExtends
  RenewalExtendsAlone
CHECK_DEADLOCK FALSE
