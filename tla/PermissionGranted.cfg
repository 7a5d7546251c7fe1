SPECIFICATION FlowSpec
CONSTANTS
    r1 = r1
    r2 = r2
    r3 = r3
    p = p
    q = q
    Requests = {r1, r2, r3}
    Permissions = {p, q}
    Wanted <- WantedHere
    Runtime = {r1, r2}
    OverOnce = {}
    None = None
    MaxForeign = 1
    MaxDeaths = 1
    HeldAtStart = {}
    MaxEvents = 1
INVARIANT GrantedMeansWanted
CHECK_DEADLOCK FALSE
