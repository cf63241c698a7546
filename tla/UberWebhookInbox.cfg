SPECIFICATION FairSpec
CONSTANTS
    orderPlaced = orderPlaced
    orderFailed = orderFailed
    NoEvent = NoEvent
    Events <- MCEvents
    Resource <- MCResource
    Unsupported <- MCUnsupported
    Lanes = {l1, l2}
    MaxAttempts = 2
    MaxReplays = 1
INVARIANTS
    InOrder
    NoEarlyDrop
PROPERTIES
    ImplementsDelivery
    EventuallySettled
