SPECIFICATION Spec
CONSTANTS
    None = None
    CRs = {"t1"}
    CRName <- OwnNames
    Home <- Homes
    Envs = {"e1"}
    SaNames = {"sa1", "sa2"}
    Hosts = {"h1", "o1", "o2", "v1"}
    Specs <- OneHost
    NameOf <- PlainNames
    Onprem <- OnpremHosts
    Unsupported = {}
    Lagging = {}
    CloudSQLGateway = TRUE
    MaxUid = 2
    MaxGen = 0
    MaxDisturbances = 0
INVARIANT SettledHasIdentities
CHECK_DEADLOCK FALSE
