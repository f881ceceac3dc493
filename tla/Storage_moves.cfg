SPECIFICATION FairSpec
CONSTANTS
    Thread = {a}
    MaxVersion = 3
    MaxFaults = 2
    MaxMoves = 3
    Leavings = {"archive", "room", "bin"}
INVARIANTS SavedIsKept OnePlace
PROPERTIES NeverOlder EventuallySaved
CHECK_DEADLOCK FALSE
