CONSTANTS
    None = None
    j1 = j1
    j2 = j2
    c1 = c1
    c2 = c2
    s1 = s1
    s2 = s2
    h1 = h1
    h2 = h2
    wx = wx
    o1 = o1
    o2 = o2
    Jobs = {j1}
    Callers = {c1, c2}
    Requests = {1}
    Capacity = 2
    CustomIds = {}
    Stoppers = {o1}
    Scalers = {s1, s2}
    Healths = {h1, h2}
    MaxObjs = 2
    MinWorkers = 1
    MaxWorkers = 1
    ScaleUp = 0
    ScaleDown = 0
    Timeouts = TRUE
SPECIFICATION Spec
INVARIANTS
    ExclusiveAssignment
    ResourcesConserved
    NoOrphanWorker
    PoolWithinBounds
    RunningJobHeldOnce
SYMMETRY Interchangeable
CHECK_DEADLOCK FALSE
