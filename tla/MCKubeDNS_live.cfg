CONSTANTS
    s1 = s1  s2 = s2  c1 = c1  c2 = c2  p1 = p1  p2 = p2  h1 = h1  x1 = x1
    None = None
    Svcs <- MCSvcsOne
    ClusterIPs <- MCClusterIPs
    EndpointIPs <- MCEndpointIPs
    Hostnames <- MCHostnames
    ExternalNames <- MCExternalNames
    MaxEvents = 4
    Tombstones = TRUE
SPECIFICATION FairSpec
CHECK_DEADLOCK FALSE
PROPERTY Completeness
