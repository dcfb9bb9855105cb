SPECIFICATION Spec
CONSTANTS
    None = None
    CRs = {"t1", "t2"}
    CRName <- SameName
    Home <- Homes
    Envs = {"e1"}
    SaNames = {"sa1", "sa2"}
    Hosts = {"h1", "o1", "o2", "v1"}
    Specs <- OneEnv
    NameOf <- PlainNames
    Onprem <- OnpremHosts
    Unsupported = {}
    Lagging = {}
    CloudSQLGateway = TRUE
    MaxUid = 1
    MaxGen = 0
    MaxDisturbances = 0
INVARIANT OneResourcePerEnv
CHECK_DEADLOCK FALSE
