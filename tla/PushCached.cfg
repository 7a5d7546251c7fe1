SPECIFICATION Spec
CONSTANTS
    HUAWEI = HUAWEI
    XIAOMI = XIAOMI
    XINGE = XINGE
    MEIZU = MEIZU
    GETUI = GETUI
    Channels = {MEIZU, GETUI}
    Quiet = {}
    Reconnecting = {}
    Registered <- GetuiAsMeizu
    Arrays <- OneArray
    App = App
    None = None
    Null = Null
    MaxCalls = 2
INVARIANT CachedIsRegistered
CHECK_DEADLOCK FALSE
