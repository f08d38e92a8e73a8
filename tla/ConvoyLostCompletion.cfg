SPECIFICATION Spec
CONSTANTS
    build = build
    test = test
    docs = docs
    Subtask = {build, test}
    DependsOn <- Loose
    Rank <- Order
    Planned = {build, test}
    Appended = {}
    Request = {r1, r2}
    Op = {"wave", "complete"}
    MaxDispatchAttempts = 2
    MaxOrders = 2
    Faults = {}
CHECK_DEADLOCK FALSE
PROPERTIES
    CompletionSticks
