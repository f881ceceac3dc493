SPECIFICATION FairSpec
CONSTANTS
    MaxQueued = 5
    BulkHigh = 3
    BulkLow = 1
    Window = 2
    AckEvery = 2
    BulkSize = {1, 4}
INVARIANTS WindowExact NothingStranded
PROPERTIES KeepsChannel AskArrives
CHECK_DEADLOCK FALSE
