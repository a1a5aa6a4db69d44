CONSTANTS
    None = None
    r1 = r1
    r2 = r2
    t1 = t1
    t2 = t2
    Runs = {r1, r2}
    Tasks = {t1, t2}
    MaxAttempts = 2
    Sandboxed = TRUE
    GitMayFail = TRUE
    DefaultCritic = FALSE
    MayCrash = TRUE
SPECIFICATION OrderedSpec
INVARIANTS
    OutcomeFollowsEvidence
    RaisesOnlyAfterDoubleFault
    StoreAgrees
    RepairBounded
    WorktreeIntact
PROPERTIES
    RunSettles
    FollowsLifecycleUnlessFailed
CHECK_DEADLOCK FALSE
