SPECIFICATION Spec
CONSTANTS
    None = None
    CRs = {"t1"}
    CRName <- OwnNames
    Home <- Homes
    Envs = {"e1"}
    SaNames = {"sa1", "sa2"}
    Hosts = {"h1", "o1", "o2", "v1"}
    Specs <- Mixed
    NameOf <- PlainNames
    Onprem <- OnpremHosts
    Unsupported = {}
    Lagging = {}
    CloudSQLGateway = TRUE
    MaxUid = 1
    MaxGen = 1
    MaxDisturbances = 0
PROPERTY CloserToDesired
CHECK_DEADLOCK FALSE
