SPECIFICATION Spec
CONSTANTS
    a = a
    b = b
    NoThread = NoThread
    NoSlot = NoSlot
    NoRun = NoRun
    OwnTurn = OwnTurn
    Thread = {a}
    Msg = {m1}
    Slot = {s1, s2}
    Overlapping <- NoOverlap
    Rank <- RankA
    QueueLimit = 3
    MaxLive = 1
    OnScreen = {}
    Resumable = {a}
    Unpreparable = {}
    LinkLimit = 1
    Allowed = {"steer", "interrupt", "stop", "restop", "restart", "command", "auto", "engineCrash", "engineGone", "engineStop", "appCrash", "diskFail"}
INVARIANTS TypeOK AtMostOnce
SYMMETRY SymmetricSlots
