SPECIFICATION FairSpec
CONSTANTS
  x1 = x1
  NoOwner = NoOwner
  Cas = {c1, c2}
  SeedCas = {c1}
  Requests = {r1, r2}
  Subjects = {"a", "b"}
  ExternalCerts = {}
  CnOf <- MCCnOf
  CaName <- MCCaName
  CrlEnabled = FALSE
  LockTtl = 1
  MaxLag = 1
PROPERTIES
  LockFreed
  RequestAnswered
