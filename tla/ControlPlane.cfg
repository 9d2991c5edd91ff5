CONSTANTS
    Focuses = {"accounts", "shared", "deployments", "settings", "incidents"}
    u1 = u1
    u2 = u2
    t1 = t1
    t2 = t2
    k1 = k1
    x1 = x1
    x2 = x2
    o1 = o1
    o2 = o2
    v1 = v1
    g1 = g1
    g2 = g2
    Users = {u1, u2}
    Tenants = {t1, t2}
    NoUser = NoUser
    NoTenant = NoTenant
    Roles = {"tenant_admin", "member"}
    KeyIds = {k1}
    Requests = {x1, x2}
    Configs = {30}
    NoRole = NoRole
    BadTenant = BadTenant
    Founder = u1
    Home = t1
    SeededKey = k1
    MaxLogins = 2
    MaxSecrets = 2
    MaxOps = 2
    Objects = {o1, o2}
    Calls = {x1, x2}
    Administrators = {u1}
    FirstMembers <- MCFirstMembers
    Words = {"none", "query", "text", "logs", "traces", "metrics", "global", "preset",
             "absolute", "1h", "2h"}
    PanelRequests <- MCPanelRequests
    ViewConfigs = {v1}
    MaxPanels = 1
    MaxInt = 127
    MaxChanges = 3
    DeploymentIds = {o1, o2}
    Versions = {"a"}
    AnyVersion = ""
    Gateways = {g1, g2}
    Publishers = {x1, x2}
    MaxFinishes = 1
    MaxRestarts = 1
    ConfigBodies <- MCConfigBodies
    Cipher <- MCCipher
    Environments <- MCEnvironments
    MaxPuts = 2
    IncidentRules = {"r1"}
    Responders = {x1, x2}
    Payloads = {"absent"}
    MaxIncidents = 2
    MaxActs = 2
SPECIFICATION CpSpec
SYMMETRY Symmetry
INVARIANTS
    CredentialsAreHonoured
    SharedObjectsAgree
    RegistryIsFaithful
    SettingsAgree
    IncidentRecordsAgree
PROPERTIES
    TenantsAndSessionsHold
    GuardedRemovalKeepsAdmin
    ChangesWereAuthorized
    AccurateRevokeKeepsOwner
CHECK_DEADLOCK FALSE
