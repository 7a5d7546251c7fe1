SPECIFICATION Spec
CONSTANTS
    Files = {f1}
    NoFile = NoFile
    NoRow = NoRow
    Timers = {t1, t2}
    RETRY_TIME = 1
    RetryLimit = 1
    Answers = {"ok", "fail", "empty"}
    SharedClose = TRUE
    Budget <- MCBudget
SYMMETRY Symmetry
INVARIANT TypeOK NoFalseComplete ChainsDontFork RetryNotOvercounted
CHECK_DEADLOCK FALSE
