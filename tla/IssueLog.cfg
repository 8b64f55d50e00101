SPECIFICATION Spec
CONSTANTS
    i1 = i1  i2 = i2  i3 = i3
    Codes = {i1, i2, i3}
    Alerting = {i1}
    MaxPeerIssues = 2
    CountLimit = 3
    MaxRaises = 3
    MaxClears = 1
    MaxTime = 3
INVARIANTS TypeOK RowsAreExact FirstOnce LeastRecentEvicted
CHECK_DEADLOCK FALSE
