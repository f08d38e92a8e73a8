SPECIFICATION Spec
CONSTANTS
    c1 = c1
    c2 = c2
    e1 = e1
    Calls = {c1, c2}
    Endpoints = {e1}
    EndpointOf <- MCEndpointOf
    Targets <- MCTargets
    Patches <- MCPatches
    MaxDials = 2
    NoCall = NoCall
    Callers = {"w1", "w2"}
    Contents = {"x"}
    NoRow = NoRow
    MaxClock = 3
    Requests = {1, 2}
    MaxId = 2
    MaxEvents = 2
    MaxUpsets = 1
    MaxDrafts = 1
    MaxProduct = 2
    Reconcilers = {"ticker"}
    MaxRetry = 1
    MaxFaults = 2
    Slots = {1, 2}
    Ticker = Ticker
    Patcher = Patcher
    RunRetries = 1
    MaxPatches = 1
    MaxFailures = 1
    Spenders = {1, 2}
    Amounts = {1}
    MaxCost = 1
    Limits = {1}
    DefaultCap = 1
    MaxTime = 2
    MaxOrders = 3
    NoLimit = NoLimit
    Tenants = {"t1", "t2"}
    MaxPort = 2
    MaxRuns = 5
    Nobody = Nobody
CHECK_DEADLOCK FALSE
INVARIANTS
    ServicesTypeOK
    CallsAreExact
    StampIdentifiesRow
    LedgersAgree
    ChainsAreBounded
    OverspendBounded
    PortsExclusive
PROPERTIES
    CallsReturn
    ImplementsProductStore
    DueProductTicked
    ScheduleKeepsTicking
