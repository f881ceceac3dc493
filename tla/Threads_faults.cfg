SPECIFICATION Spec
CONSTANTS
    a = a
    b = b
    NoThread = NoThread
    NoSlot = NoSlot
    NoRun = NoRun
    OwnTurn = OwnTurn
    Thread = {a, b}
    Msg = {m1, m2}
    Slot = {s1, s2, s3}
    Overlapping <- OneFolder
    Rank <- RankAB
    QueueLimit = 3
    MaxLive = 2
    OnScreen = {}
    Resumable = {}
    Unpreparable = {}
    LinkLimit = 1
    Allowed = {"cancel", "stop", "ask", "engineGone", "engineCrash", "appCrash", "diskFail"}
INVARIANTS EnginesOwned NoSilentLoss NeedsYouIsReal Durable
PROPERTIES KeepsPromise
