\* Two consoles and our own reconnects compete for one adapter, and it is stopped.
SPECIFICATION Spec
CONSTANTS
    Hosts = {h1, h2}
    A = A
    R = R
    D = D
    M = M
    None = None
    Remembered = {None, h1}
    MaxConnections = 2
\* When every thread has ended nothing is left to do.
CHECK_DEADLOCK FALSE
INVARIANTS
    SessionOwnsSink
    HostsNotSpliced
PROPERTIES
    StopEndsAll
    AdapterIsFreed
