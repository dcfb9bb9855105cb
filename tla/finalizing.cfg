SPECIFICATION InheritFairSpec
CONSTANTS
    None = None
    CRs = {"t1", "t2"}
    CRName <- OwnNames
    Home <- OneHome
    Envs = {"e1", "e2"}
    SaNames = {"sa1", "sa2"}
    Hosts = {"h1", "h2", "o1", "v1", "o2", "o9", "q1"}
    Specs <- Deleting
    NameOf <- PlainNames
    Onprem <- OnpremHosts
    Unsupported = {"o9"}
    Lagging = {}
    CloudSQLGateway = FALSE
    MaxUid = 1
    MaxGen = 0
    MaxDisturbances = 1
INVARIANTS SettledReach SettledEquipped
PROPERTY DeletionCompletes
CHECK_DEADLOCK FALSE
