SPECIFICATION Spec
CONSTANTS
  x1 = x1
  NoOwner = NoOwner
  Cas = {c1}
  SeedCas = {c1}
  Requests = {r1, r2, r3}
  Subjects = {"a"}
  ExternalCerts <- MCExternal
  CnOf <- MCCnOf
  CaName <- MCCaName
  CrlEnabled = TRUE
  LockTtl = 0
  MaxLag = 0
SYMMETRY Symmetry
INVARIANT UnrevokedNotInCrl
