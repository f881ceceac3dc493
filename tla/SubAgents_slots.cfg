SPECIFICATION FairSpec
CONSTANTS
    Engine = {e1, e2}
    Task = {t1, t2}
    Parent <- OneEach
    None = None
    Waiting = {e1}
    e1 = e1
    e2 = e2
    t1 = t1
    t2 = t2
    Limit = 1
    Faults = {"engineDies", "dies", "vanishes", "sleeps"}
    MaxFaults = 1
INVARIANTS HardCap BoardTrue
PROPERTIES StaysSettled SlotReturns SpawnSettles
CHECK_DEADLOCK FALSE
