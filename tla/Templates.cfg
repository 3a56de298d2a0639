\* Three templates: a default for both forms can displace two others.
SPECIFICATION Spec
CONSTANTS
  Requests = {r1, r2}
  t1 = t1
  t2 = t2
  n1 = n1
  n2 = n2
  Ids = {t1, t2, t3}
  Names = {n1, n2}
  Backups <- MCBackups
SYMMETRY Symmetry
INVARIANTS
  OneDefault
  NamesUnique
PROPERTY DefaultHandedOver
