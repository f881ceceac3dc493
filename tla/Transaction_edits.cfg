SPECIFICATION Spec
CONSTANTS
    Path = {"p", "q"}
    Tool = {t1, t2}
    Draft = {"agent"}
    Existing = {"p"}
    MaxTx = 2
    MaxHeld = 1
    MaxOps = 2
    MaxEdits = 1
    Absent = Absent
    Unreadable = Unreadable
    None = None
INVARIANTS HeldExact CallersFenced UndoneExactly
PROPERTIES NothingForgotten ForeignKept
CHECK_DEADLOCK FALSE
SYMMETRY SymmetricTools
