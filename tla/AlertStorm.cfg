CONSTANTS
    crit = crit
    warn = warn
    both = both
    c1 = c1
    svc = svc
    NoService = NoService
    Rules <- MCRules
    Phase <- MCPhase
    Severity <- MCSeverity
    Delayed <- MCNoneDelayed
    AutoIncident <- MCAutoIncident
    ChannelsOf <- MCChannelsOf
    Operands <- MCOperands
    Services <- MCServices
    InitialService <- MCInitialService
    MaxFirings = 4
    MaxEvalFaults = 0
    MaxRequests = 0
SPECIFICATION Spec
INVARIANTS
    SuppressedStaysQuiet
CHECK_DEADLOCK FALSE
