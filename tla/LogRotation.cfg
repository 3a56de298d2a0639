SPECIFICATION LogSpec
CONSTANTS
    Configs <- MCConfigs
    MaxSlot = 3
    RotateSize = 1
    MaxLines = 6
    MaxFailures = 3
    MaxStops = 2
    Absent = Absent
INVARIANT FailureCostsOne
PROPERTY WriteReturns
CHECK_DEADLOCK FALSE
