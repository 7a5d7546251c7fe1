SPECIFICATION Spec
CONSTANTS
    DebugTree = DebugTree
    FileSaveTree = FileSaveTree
    Main = Main
    Logan = Logan
    Trees = {DebugTree, FileSaveTree}
    Threads = {Main, Logan}
    Planted <- AtStart
    MimLogLevel <- Levels
    MaxLevel = 2
    MaxCalls = 3
    MaxForest = 3
    MaxChanges = 2
INVARIANTS TypeOK OwnTagOnce HeldTagIsNewest
SYMMETRY ThreadSymmetry
CHECK_DEADLOCK FALSE
