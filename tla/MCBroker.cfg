\* Two clients and three ports, all peers new or one client old; every peer can be
\* issued one token, or one client and a server that registered again.
SPECIFICATION Spec
CONSTANTS
    Server = Server
    Clients = {c1, c2}
    Builds = {{Server, c1, c2}, {Server, c1}, {Server, c2}}
    Ports = {p1, p2, p3}
    PeerTTL = 0
    RelayTTL = 1
    MaxTokens = 3
    None = None
    p1 = p1
    p2 = p2
    p3 = p3
    c1 = c1
    c2 = c2
SYMMETRY Symmetry
INVARIANTS
    PortsAccounted
    RoutesEndTogether
