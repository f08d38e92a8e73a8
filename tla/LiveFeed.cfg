SPECIFICATION FairSpec
CONSTANTS
    Proc = {arms, worker}
    Server = arms
    Client = {c1}
    MaxEvent = 3
    BatchLimit = 2
    ChanCap = 1
    Faults = {"busy", "restart"}
INVARIANTS
    TypeOK
    HubIsOpen
    DeliveredWasBroadcast
PROPERTIES
    ReceivedInOrder
    EventuallyBroadcast
