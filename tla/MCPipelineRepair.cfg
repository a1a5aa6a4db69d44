CONSTANTS
    None = None
    r1 = r1
    r2 = r2
    t1 = t1
    t2 = t2
    Runs = {r1, r2}
    Tasks = {t1, t2}
    MaxAttempts = 2
    Sandboxed = TRUE
    GitMayFail = FALSE
    DefaultCritic = TRUE
    MayCrash = FALSE
SPECIFICATION Spec
INVARIANTS
    RepairVerifiesNewPatch
CHECK_DEADLOCK FALSE
