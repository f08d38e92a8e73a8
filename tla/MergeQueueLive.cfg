SPECIFICATION FairSpec
CONSTANTS
    p1 = p1
    t1 = t1
    t2 = t2
    s1 = s1
    s2 = s2
    o1 = o1
    o2 = o2
    Product = {p1}
    Task = {t1}
    ProductOf <- JustT1
    Shipper = {s1, s2}
    Owner = {o1, o2}
    OwnerOf <- TwoOwners
    NoOwner = NoOwner
    Backends = {"github", "unknown"}
    LeaseTTL = 2
    MaxShip = 2
    MaxAttempts = 2
    MaxRow = 2
    Faults = {"transient", "disconnect"}
PROPERTIES
    LeaseIsReclaimable
    ShipEnds
