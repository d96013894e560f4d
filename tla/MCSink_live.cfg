\* Consoles come and go, sync latency is on, and subcommands are answered.
SPECIFICATION Spec
CONSTANTS
    Dp = Dp
    Wr = Wr
    Ctl = Ctl
    Nothing = Nothing
    Depth = 2
    Delays = {1, 2}
    Ops = {"delay", "reply"}
    MaxOffers = 3
    MaxLines = 1
    MaxSessions = 3
    MaxTime = 2
\* The bounds on reports, sessions and time end every behaviour.
CHECK_DEADLOCK FALSE
INVARIANTS
    NothingInherited
