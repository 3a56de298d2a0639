SPECIFICATION Spec
CONSTANTS
    l = l
    s = s
    x = x
    m = m
    n = n
    u = u
    CaIds <- MCCaIds
    CertIds <- MCCertIds
    UserIds <- MCUserIds
    Items <- MCItems
    Dotted <- MCDotted
    Requests = {r}
    Start <- MCStart
    None = None
    MaxOps = 4
    MaxRuns = 2
    MaxCrashes = 1
INVARIANT RestoreKept
INVARIANT SerialsApart
INVARIANT ImportComplete
PROPERTY RowsGetChecked
CHECK_DEADLOCK FALSE
