CONSTANTS
    None = None
    j1 = j1
    j2 = j2
    w1 = w1
    w2 = w2
    c1 = c1
    c2 = c2
    Jobs = {j1}
    Workers = {w1, w2}
    Clients = {c1}
SPECIFICATION Spec
PROPERTIES
    StopTakesEffect
CHECK_DEADLOCK FALSE
