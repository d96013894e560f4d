SPECIFICATION Spec
CONSTANTS
    c1 = c1
    c2 = c2
    v1 = v1
    h1 = h1
    p1 = p1
    p2 = p2
    Clients = {c1, c2, v1}
    Controllers = {c1, c2}
    Hosts = {h1}
    HostOf <- OneHost
    Passwords = {p1, p2}
    MaxClients = 1
    MaxAuxiliary = 0
    MaxPending = 2
    MaxFailures = 2
    MaxAttempts = 2
    MaxRandoms = 3
    MaxChanges = 1
SYMMETRY Symmetry
CHECK_DEADLOCK FALSE
INVARIANTS
    Ceilings
    SameExchange
    AtMostOneStale
PROPERTIES
    NoReplayedSession
    NewerReplaces
    NoSessionWhileLocked
