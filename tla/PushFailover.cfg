SPECIFICATION FairSpec
CONSTANTS
    HUAWEI = HUAWEI
    XIAOMI = XIAOMI
    XINGE = XINGE
    MEIZU = MEIZU
    GETUI = GETUI
    Channels = {HUAWEI, XIAOMI, XINGE}
    Quiet = {XINGE}
    Reconnecting = {HUAWEI}
    Registered <- OwnType
    Arrays <- TwoArrays
    App = App
    None = None
    Null = Null
    MaxCalls = 3
INVARIANTS TypeOK EntryMatches NobodyGivesUp
PROPERTIES FailoverEnds
CHECK_DEADLOCK FALSE
