CONSTANTS
    r1 = r1
    r2 = r2
    p1 = p1
    p2 = p2
    n1 = n1
    NoReplica = NoReplica
    Replicas <- MCReplicas
    RawPartitions <- MCRawPartitions
    NormPartitions <- MCNormPartitions
    Kinds = {"logs", "spans", "empty", "garbage"}
    MaxSize = 2
    MaxRecords = 2
    MaxFaults = 2
SPECIFICATION BoundedSpec
INVARIANTS
    TypeOK
    CommittedImpliesPublished
    SpanCallsAccounted
PROPERTIES
    DeliverySpec
    EventuallyPublished
CHECK_DEADLOCK FALSE
