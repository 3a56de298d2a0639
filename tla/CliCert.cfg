SPECIFICATION Spec
CONSTANTS
  Clients = {c1, c2}
  Ids = {i1, i2}
  DayLen = 2
  RenewWithin = 2
  RenewDays = 3
  AskedDays = {1}
  CaEnds <- MCCaEnds
  Horizon = 1
  MaxJobs = 1
  LastFile = 3
  None = None
SYMMETRY Symmetry
INVARIANTS
  FilesFit
PROPERTY
  LastsAWhile
