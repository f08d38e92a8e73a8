SPECIFICATION Spec
CONSTANTS
    p1 = p1
    t1 = t1
    t2 = t2
    s1 = s1
    s2 = s2
    o1 = o1
    o2 = o2
    Product = {p1}
    Task = {t1, t2}
    ProductOf <- OneLane
    Shipper = {s1, s2}
    Owner = {o1, o2}
    OwnerOf <- TwoOwners
    NoOwner = NoOwner
    Backends = {"github"}
    LeaseTTL = 2
    MaxShip = 1
    MaxAttempts = 2
    MaxRow = 2
    Faults = {"transient", "lost", "denied", "disconnect", "drift"}
INVARIANTS
    TypeOK
    SerializedShips
    OutcomeIsRecordable
    MergedRowIsMerged
PROPERTIES
    ImplementsShipLane
