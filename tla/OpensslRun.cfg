\* Two commands that may fill a pipe twice, a timeout and a grace of one tick.
SPECIFICATION FairSpec
CONSTANTS
  Requests = {r1}
  MaxCommands = 2
  Timeout = 1
  Grace = 1
  ReapAfter = 6
  KeepFailed = TRUE
  PipeSize = 1
  Output = 2
INVARIANTS
  ChildReaped
  
  TimeoutIsReal
  DirNotPulled
PROPERTY RequestEnds
CHECK_DEADLOCK FALSE
