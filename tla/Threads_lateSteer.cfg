SPECIFICATION Spec
CONSTANTS
    a = a
    b = b
    NoThread = NoThread
    NoSlot = NoSlot
    NoRun = NoRun
    OwnTurn = OwnTurn
    Thread = {a, b}
    Msg = {m1, m2, m3}
    Slot = {s1, s2, s3}
    Overlapping <- OneFolder
    Rank <- RankAB
    QueueLimit = 3
    MaxLive = 2
    OnScreen = {}
    Resumable = {}
    Unpreparable = {}
    LinkLimit = 1
    Allowed = {"steer"}
INVARIANT NothingVanishes
