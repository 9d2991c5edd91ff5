CONSTANTS
    r1 = r1
    p1 = p1
    n1 = n1
    w1 = w1
    NoReplica = NoReplica
    NoWriter = NoWriter
    Replicas <- MCReplicas
    RawPartitions <- MCRawPartitions
    NormPartitions <- MCNormPartitions
    Kinds = {"logs", "garbage"}
    MaxSize = 2
    MaxRecords = 2
    MaxFaults = 1
    Writers <- MCWriters
    WithEvents <- NoEnvelopes
    MultiAttr <- NoEnvelopes
    Seeds = {1}
    Window = 5
    MaxMessages = 0
    MaxWriterFaults = 1
SPECIFICATION FairSpec
INVARIANTS
    NoCommittedLoss
PROPERTIES
    EventuallyVisible
CHECK_DEADLOCK FALSE
