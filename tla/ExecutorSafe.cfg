SPECIFICATION FairSpec
CONSTANTS
    Clients = {c1, c2}
    t1 = t1
    t2 = t2
    t3 = t3
    Tasks = {t1, t2, t3}
    NoTask = NoTask
    Kind <- MCKind
INVARIANTS TypeOK RunsAsCalled
PROPERTY KeptRuns
CHECK_DEADLOCK FALSE
