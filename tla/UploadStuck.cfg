SPECIFICATION Spec
CONSTANTS
    Files = {f1}
    NoFile = NoFile
    NoRow = NoRow
    Timers = {t1}
    RETRY_TIME = 1
    RetryLimit = 3
    Answers = {"ok", "fail", "empty"}
    SharedClose = FALSE
    Budget <- MCFeedBacks
SYMMETRY Symmetry
INVARIANT DoingIsHeld
CHECK_DEADLOCK FALSE
