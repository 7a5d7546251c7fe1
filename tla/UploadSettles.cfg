SPECIFICATION FairSpec
CONSTANTS
    Files = {f1}
    NoFile = NoFile
    NoRow = NoRow
    Timers = {t1, t2}
    RETRY_TIME = 1
    RetryLimit = 1
    Answers = {"ok", "fail"}
    SharedClose = FALSE
    Budget <- MCTasks
INVARIANT DoingIsHeld
PROPERTY Settles
CHECK_DEADLOCK FALSE
