CONSTANTS
    w1 = w1
    w2 = w2
    n1 = n1
    p1 = p1
    NoWriter = NoWriter
    Writers <- MCWriters
    NormPartitions <- MCOnePartition
    Contents <- MCContents
    WithEvents <- MCWithEvents
    MultiAttr <- MCMultiAttr
    Seeds = {1, 2}
    Window = 2
    MaxMessages = 2
    MaxWriterFaults = 2
SPECIFICATION BoundedSpec
INVARIANTS
    WTypeOK
    CommittedImpliesStored
    EventsFollowSpans
    PointsStoredOnce
PROPERTIES
    WDeliverySpec
    EventuallyStoredOrStopped
CHECK_DEADLOCK FALSE
