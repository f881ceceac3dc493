SPECIFICATION FairSpec
CONSTANTS
    None = None
    Worker = {w1, w2}
    MaxAttempts = 1
    Failures = {"throws", "refuses", "hangs", "misspeaks", "dispose"}
INVARIANTS TypeOK OneEngine PhaseIsReal BudgetKept StopSticks ResumeNotForgotten
PROPERTIES ShedStaysShed NeverStuck
CHECK_DEADLOCK FALSE
