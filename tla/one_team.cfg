SPECIFICATION Spec
CONSTANTS
    None = None
    CRs = {"t1"}
    CRName <- OwnNames
    Home <- Homes
    Envs = {"e1", "e2"}
    SaNames = {"sa1", "sa2"}
    Hosts = {"h1", "h2", "o1", "v1", "o2", "o9", "q1"}
    Specs <- OneTeam
    NameOf <- PlainNames
    Onprem <- OnpremHosts
    Unsupported = {"o9"}
    Lagging = {"GSA"}
    CloudSQLGateway = TRUE
    MaxUid = 1
    MaxGen = 2
    MaxDisturbances = 1
INVARIANTS SettledServed SettledRevoked SettledIdentities RoutesAnchored MembersAnchored
CHECK_DEADLOCK FALSE
