SPECIFICATION Spec
CONSTANTS
    Thread = {a}
    MaxVersion = 3
    MaxFaults = 2
    MaxMoves = 1
    Leavings = {"archive"}
PROPERTIES StaleRetryNeverWrites
CHECK_DEADLOCK FALSE
