CONSTANTS
    None = None
    j1 = j1
    j2 = j2
    c1 = c1
    c2 = c2
    s1 = s1
    s2 = s2
    h1 = h1
    h2 = h2
    wx = wx
    o1 = o1
    o2 = o2
    Jobs = {j1}
    Callers = {c1}
    Requests = {1}
    Capacity = 2
    CustomIds = {wx}
    Stoppers = {o1}
    Scalers = {s1}
    Healths = {h1}
    MaxObjs = 2
    MinWorkers = 1
    MaxWorkers = 2
    ScaleUp = 1
    ScaleDown = 0
    Timeouts = FALSE
SPECIFICATION FairSpec
PROPERTIES
    WorkerIsFreed
    QueueServed
CHECK_DEADLOCK FALSE
