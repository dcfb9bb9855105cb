SPECIFICATION Spec
CONSTANTS
    None = None
    CRs = {"t1", "t2"}
    CRName <- OwnNames
    Home <- Homes
    Envs = {"e1", "e2"}
    SaNames = {"sa1", "sa2"}
    Hosts = {"h1", "h2", "o1", "v1", "o2", "o9", "q1"}
    Specs <- TwoTeams
    NameOf <- ClashingNames
    Onprem <- OnpremHosts
    Unsupported = {"o9"}
    Lagging = {}
    CloudSQLGateway = TRUE
    MaxUid = 1
    MaxGen = 1
    MaxDisturbances = 0
INVARIANTS SettledServed UnusedHostsRemoved
CHECK_DEADLOCK FALSE
