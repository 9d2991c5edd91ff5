CONSTANTS
    Focuses = {"firings", "queue"}
    crit = crit
    warn = warn
    both = both
    c1 = c1
    c2 = c2
    n1 = n1
    w1 = w1
    w2 = w2
    svc = svc
    NoService = NoService
    Rules <- MCRules
    Phase <- MCPhase
    Severity <- MCSeverity
    Delayed <- MCDelayed
    AutoIncident <- MCAutoIncident
    ChannelsOf <- MCChannelsOf
    Operands <- MCOperands
    Services <- MCServices
    InitialService <- MCInitialService
    MaxFirings = 3
    MaxEvalFaults = 1
    MaxRequests = 1
    Hooks = {c1, c2}
    Announcements = {n1}
    Workers = {w1, w2}
    RetryLimit = 1
    BatchLimit = 1
    MaxOutages = 1
SPECIFICATION AlSpec
INVARIANTS
    FiringsAreSound
    NoticesMatchFirings
    DeliveriesAreAccounted
PROPERTIES
    ResolvedIsFinal
    IncidentsFollowFirings
    ActiveIsAnnounced
    NotificationsSettle
CHECK_DEADLOCK FALSE
