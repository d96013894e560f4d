\* Sync latency is switched on, changed and off, and the threads are fair.
SPECIFICATION FairSpec
CONSTANTS
    Dp = Dp
    Wr = Wr
    Ctl = Ctl
    Nothing = Nothing
    Depth = 2
    Delays = {1, 2}
    Ops = {"delay", "off"}
    MaxOffers = 3
    MaxLines = 2
    MaxSessions = 1
    MaxTime = 3
\* The bounds on reports, sessions and time end every behaviour.
CHECK_DEADLOCK FALSE
INVARIANTS
    NewestIsKept
PROPERTIES
    HeldForDelay
    ImplementsRegister
    NewestArrives
