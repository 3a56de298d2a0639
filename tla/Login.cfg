\* Two readings of the clock, two requests, a cache of two entries.
SPECIFICATION Spec
CONSTANTS
  Requests = {r1, r2}
  u1 = u1
  u2 = u2
  root = root
  ann = ann
  w1 = w1
  w2 = w2
  Ids <- MCIds
  Names <- MCNames
  Words <- MCWords
  ConfigUsers <- MCConfigUsers
  Credentials <- MCCredentials
  Tables <- MCTables
  BasicOn = TRUE
  HeadersOn = TRUE
  CacheMax = 2
  CacheTtl = 1
  Horizon = 1
SYMMETRY Symmetry
INVARIANT CacheBounded
INVARIANT NamesUnique
PROPERTY DecidedAtLookup
