CONSTANTS
    s1 = s1  c1 = c1  c2 = c2  p1 = p1  p2 = p2  h1 = h1  x1 = x1
    n1 = n1  n2 = n2  n3 = n3  l1 = l1  l2 = l2  d1 = d1  r1 = r1  r2 = r2
    None = None
    Svcs <- MCSvcsOne
    ClusterIPs <- MCClusterIPs
    EndpointIPs <- MCEndpointIPs
    Hostnames <- MCHostnames
    ExternalNames <- MCExternalNames
    MaxEvents = 0
    Tombstones = FALSE
    Resolvers <- MCResolversOne
    QSvc = s1
    Domains <- MCDomains
    Nodes <- MCNodes
    Locs <- MCLocs
    NodeLoc <- MCNodeLoc
    NodeRank <- MCNodeRank
    SkyDNSSet = TRUE
    MaxConfigs = 1
    MaxNodeChanges = 1
SPECIFICATION RSpec
CHECK_DEADLOCK FALSE
INVARIANT NoNilConfigRead
