CONSTANTS
    c1 = c1
    c2 = c2
    a1 = a1
    a2 = a2
    k1 = k1
    k2 = k2
    Collectors = {c1, c2}
    Class <- DevicesOfClass
    Addresses = {a1, a2}
    Devices <- Three
    Here = {2, 3}
    ByPid = {c1, c2}
    ByClass = {}
    PidOf <- ByPidOnly
    Wanted <- NoneOfClass
    StaticAddr <- NoStatic
    Retries = 3
    Metrics = 1
    Steps = 1
SPECIFICATION Spec
CHECK_DEADLOCK FALSE
INVARIANTS AnswersApart
