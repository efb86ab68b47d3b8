CONSTANTS
    c1 = c1
    c2 = c2
    a1 = a1
    a2 = a2
    k1 = k1
    k2 = k2
    Collectors = {c1, c2}
    Class <- DevicesOfClass
    Addresses = {a1, a2}
    Devices <- Two
    Here = {2}
    ByPid = {}
    ByClass = {c1}
    PidOf <- NoPids
    Wanted <- FirstOfClass
    StaticAddr <- AnAddress
    Retries = 2
    Metrics = 1
    Steps = 1
SPECIFICATION FairSpec
CHECK_DEADLOCK FALSE
INVARIANTS TypeOK BusIsExclusive RetriesResolveAnew
PROPERTIES CancelledCallsEnd
