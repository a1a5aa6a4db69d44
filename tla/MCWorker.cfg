CONSTANTS
    None = None
    j1 = j1
    j2 = j2
    j3 = j3
    t1 = t1
    t2 = t2
    w1 = w1
    echo = echo
    other = other
    Jobs <- Jobs3
    Priority <- Priority3
    TypeOf <- TypeOf3
    Types = {echo, other}
    Workers = {w1}
    Threads = {t1, t2}
    MaxJobs = 2
SPECIFICATION FairSpec
INVARIANTS
    TypeOK
    ExclusiveExecution
    NoJobLost
    ServiceOrder
    BoundedOverrun
PROPERTIES
    ResultIsFinal
    ImplementsTaskQueue
    SubmittedIsAnswered
    StopTakesEffect
CHECK_DEADLOCK FALSE
