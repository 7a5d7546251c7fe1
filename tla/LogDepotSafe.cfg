SPECIFICATION Spec
CONSTANTS
    LastDay = 3
    NoFile = NoFile
    mSimpleSize = 1
    mDepotFileNum = 2
    mSaveTime = 1
    BufferCap = 2
    MaxWrites = 6
    Budget <- MCBudget
INVARIANTS TypeOK Durable DepotInOrder FileBounded
CHECK_DEADLOCK FALSE
