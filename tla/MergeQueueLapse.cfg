SPECIFICATION Spec
CONSTANTS
    p1 = p1
    t1 = t1
    t2 = t2
    s1 = s1
    s2 = s2
    o1 = o1
    o2 = o2
    Product = {p1}
    Task = {t1, t2}
    ProductOf <- OneLane
    Shipper = {s1, s2}
    Owner = {o1}
    OwnerOf <- OneOwner
    NoOwner = NoOwner
    Backends = {"noop", "local"}
    LeaseTTL = 1
    MaxShip = 2
    MaxAttempts = 1
    MaxRow = 2
    Faults = {"disconnect"}
SYMMETRY ShipperSymmetry
INVARIANTS
    ShippedInOrder
