CONSTANTS
    Focuses = {"exports", "questions", "logs", "spans", "points", "metrics", "rules"}
    e1 = e1
    e2 = e2
    ta = ta
    tb = tb
    Inf = 100
    Pods = {"p1"}
    Exports <- MCExports
    ExportIds = {e1, e2}
    KeyTenants = {"t"}
    Burst = 1
    Budget = 3
    Replicas = {"r1"}
    NlqTenants = {ta, tb}
    Tokens = {"k1"}
    NlqCalls = {e1, e2}
    Questions <- MCQuestions
    Answers <- MCAnswers
    Registered <- MCRegistered
    MaxResumes = 3
    LogPool <- MCLogs
    SpanPool <- MCSpans
    PointPool <- MCPoints
    PageLimit = 2
    TraceLimit = 2
    Window = 1
    SeriesOf <- MCSeries
    MetricBatches <- MCBatches
    Deployed = {"s"}
    MaxTime = 3
    Orgs = {ta, tb}
    RuleRequests <- MCRuleRequests
    SloRequests <- MCSloRequests
    SampleKinds <- MCSampleKinds
    SeededRules <- MCSeededRules
    MaxClock = 2
    MaxSamples = 2
    MaxRules = 2
    MaxEdits = 1
SPECIFICATION DpSpec
SYMMETRY Symmetry
INVARIANTS
    ExportsAreAccounted
    ConversionsAgree
    SessionIsSpentOnce
    QuestionsKeepMeaning
    AllLogViewsAgree
    AllSpanViewsAgree
    
    RulesAndCatalogAgree
PROPERTIES
    SessionsBelong
    VerdictsFollowTelemetry
CHECK_DEADLOCK FALSE
