CONSTANTS
    w1 = w1
    w2 = w2
    n1 = n1
    p1 = p1
    NoWriter = NoWriter
    Writers <- MCWriters
    NormPartitions <- MCOnePartition
    Contents <- MCSpanContents
    WithEvents <- MCWithEvents
    MultiAttr <- MCMultiAttr
    Seeds = {1, 2}
    Window = 2
    MaxMessages = 1
    MaxWriterFaults = 3
SPECIFICATION Spec
INVARIANTS
    RedeliveryDeduplicated
CHECK_DEADLOCK FALSE
