SPECIFICATION InheritSpec
CONSTANTS
    None = None
    CRs = {"t1"}
    CRName <- OwnNames
    Home <- Homes
    Envs = {"e1", "e2"}
    SaNames = {"sa1", "sa2"}
    Hosts = {"h1", "h2", "o1", "v1", "o2", "o9", "q1"}
    Specs <- Recording
    NameOf <- PlainNames
    Onprem <- OnpremHosts
    Unsupported = {"o9"}
    Lagging = {}
    CloudSQLGateway = FALSE
    MaxUid = 2
    MaxGen = 1
    MaxDisturbances = 1
INVARIANTS FinalizerHeld SettledEquipped
PROPERTIES FinalizerCleansPolicies Contract
CHECK_DEADLOCK FALSE
