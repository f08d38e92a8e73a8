SPECIFICATION Spec
CONSTANTS
    p1 = p1
    t1 = t1
    t2 = t2
    r1 = r1
    r2 = r2
    Product = {p1}
    Task = {t1, t2}
    ProductOf <- OneProduct
    Request = {r1}
    NoRequest = NoRequest
    Op <- AllOps
    TierOf <- SemiAuto
    Publisher = "noop"
    StartStatus = {"planning"}
    MaxOrders = 2
    Crashes = FALSE
INVARIANTS
    AnsweredWorkIsKnown
PROPERTIES
    ImplementsTaskBoard
