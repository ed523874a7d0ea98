SPECIFICATION Spec
CONSTANTS
    t1 = t1
    t2 = t2
    p1 = p1
    p2 = p2
    n1 = n1
    n2 = n2
    v1 = v1
    Threads = {t1, t2}
    Processes = {p1}
    ProcessOf <- MCOneProcess
    LockTimeout = 1
    Names = {n1}
    Values = {v1}
    TTLs = {1}
    Absent = Absent
    Calls <- MCFewCalls
    LeftBehind = {}
    MaxTime = 0
    DiskFaults = FALSE
INVARIANT
    MutualExclusion
CHECK_DEADLOCK FALSE
