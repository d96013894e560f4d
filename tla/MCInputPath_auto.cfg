\* Adapters are assigned by the server alone; the operator only takes them away.
SPECIFICATION FairSpec
CONSTANTS
    Adapters = {x1, x2}
    Clients = {ann, bob}
    Slots = {0}
    Threads = {datapath, loop}
    MaxOutputs = 2
    None = None
    Datapath = datapath
    Loop = loop
    Neutral = Neutral
    AutoApprove = TRUE
    WebOps = {"unassign", "hotplug"}
INVARIANTS
    NoDanglingAssignment
PROPERTIES
    DepartedIsUnassigned
