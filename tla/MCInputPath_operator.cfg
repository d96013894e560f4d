\* Every request of the operator against every packet.
SPECIFICATION PathSpec
CONSTANTS
    Adapters = {x1, x2}
    Clients = {ann, bob}
    Slots = {0}
    Threads = {datapath, loop}
    MaxOutputs = 2
    None = None
    Datapath = datapath
    Loop = loop
    Neutral = Neutral
    AutoApprove = TRUE
    WebOps = {"approve", "assign", "unassign", "deny", "accepting", "password", "hotplug"}
SYMMETRY Symmetry
INVARIANTS
    ReportsFollowOwner
    RoutesAgree
PROPERTIES
    ImplementsAdapterTable
