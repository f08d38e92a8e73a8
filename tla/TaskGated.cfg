SPECIFICATION FairSpec
CONSTANTS
    p1 = p1
    t1 = t1
    t2 = t2
    r1 = r1
    r2 = r2
    Product = {p1}
    Task = {t1, t2}
    ProductOf <- OneProduct
    Request = {r1, r2}
    NoRequest = NoRequest
    Op = {"complete", "agent_webhook", "ci_webhook"}
    TierOf <- FullAuto
    Publisher = "real"
    StartStatus = {"assigned", "in_progress", "testing", "review", "convoy_active"}
    MaxOrders = 2
    Crashes = TRUE
PROPERTIES
    ImplementsTaskBoard
    DoneIsFinal
    RequestsEnd
