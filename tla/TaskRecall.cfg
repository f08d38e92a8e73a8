SPECIFICATION Spec
CONSTANTS
    p1 = p1
    t1 = t1
    t2 = t2
    r1 = r1
    r2 = r2
    Product = {p1}
    Task = {t1}
    ProductOf <- OneProduct
    Request = {r1, r2}
    NoRequest = NoRequest
    Op = {"dispatch", "recall"}
    TierOf <- FullAuto
    Publisher = "real"
    StartStatus = {"assigned"}
    MaxOrders = 2
    Crashes = FALSE
CHECK_DEADLOCK FALSE
PROPERTIES
    RecallOnlyBeforeDispatch
