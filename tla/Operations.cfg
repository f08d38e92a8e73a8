SPECIFICATION OperationsSpec
CONSTANTS
    build = build
    test = test
    t3 = t3
    p1 = p1
    p2 = p2
    Subtask = {build, test, late}
    DependsOn <- Graph
    Rank <- Order
    Planned = {build, test}
    Appended = {late}
    Request = {r1, r2}
    Op <- AllOps
    MaxDispatchAttempts = 2
    MaxOrders = 3
    Faults = {"denied", "gateway", "lost", "crash"}
    Sweeps = {1, 2}
    Agents = {"a1", "a2"}
    NoHealth = NoHealth
    StaleThreshold = 0
    Cooldown = 1
    MaxPerDay = 2
    ReassignCooldown = 2
    ReassignMaxPerDay = 1
    Day = 2
    MaxSweeps = 3
    MaxHours = 2
    TwinTasks = {t1, t2, t3}
    TwinProductOf <- TwinProducts3
    Leasers = {o1, o2}
    NoLeaser = NoLeaser
    LeaseHalves = 3
    LastTwinPort = 2
    MaxTwinCalls = 5
    MaxHalves = 7
    Writers = {w1, w2}
    Owners = {p1, p2}
    MaxWrites = 4
    GatewayIDs = {e1, e2}
    HubIDs = {h1}
    FleetAgents = {a1}
    Names = {n1, n2}
    NoID = NoID
    NoConfig = NoConfig
    Visits = {v1, v2}
    MaxVisits = 4
SYMMETRY RequestSymmetry
CHECK_DEADLOCK FALSE
INVARIANTS
    OperationsTypeOK
    OrderedAfterDependencies
    StoredConvoyHolds
    StallRecordsHold
    TwinsAgree
    KnowledgeKept
    FleetConsistent
    AnswersAreTrue
