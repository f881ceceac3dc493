SPECIFICATION Spec
CONSTANTS
    a = a
    b = b
    NoThread = NoThread
    NoSlot = NoSlot
    NoRun = NoRun
    OwnTurn = OwnTurn
    Thread = {a, b}
    Msg = {m1, m2}
    Slot = {s1, s2, s3}
    Overlapping <- OneFolder
    Rank <- RankAB
    QueueLimit = 3
    MaxLive = 1
    OnScreen = {b}
    Resumable = {a}
    Unpreparable = {}
    LinkLimit = 2
    Allowed = {"restart", "resume", "stop", "engineGone"}
INVARIANTS SentImpliesTurn NoSilentLoss WithinBudget
SYMMETRY SymmetricSlots
