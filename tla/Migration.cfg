SPECIFICATION Spec
CONSTANTS
  Procs = {p1}
  Initial <- MCInitial
  SchemaVersion = 2
  MaxMigrationBackups = 2
  MaxRow = 2
  MaxCopies = 6
INVARIANTS
  SurvivesFailures
PROPERTY
  OldKept
