CONSTANTS
    None = None
    j1 = j1
    j2 = j2
    j3 = j3
    t1 = t1
    t2 = t2
    w1 = w1
    w2 = w2
    benchmark = benchmark
    Jobs <- TheJobs
    Batch = {j1, j2}
    Priority <- ThePriority
    TypeOf <- TheType
    Types = {benchmark}
    Workers = {w1, w2}
    Bench = {w1}
    Threads = {t1, t2}
    MaxJobs = None
SPECIFICATION MCSpec
INVARIANTS
    ReportIsFinal
PROPERTIES
    RunEnds
CHECK_DEADLOCK FALSE
