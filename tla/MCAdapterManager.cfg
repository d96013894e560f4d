\* The watcher and a request, two dongles for one output.
SPECIFICATION Spec
CONSTANTS
    Adapters = {x1, x2}
    Watcher = watcher
    Requests = {r1}
    MaxOutputs = 1
    WebOps = {"enable", "disable", "pair", "unpair", "disconnect", "profile", "wake",
              "sleep all", "reset all"}
    MaxEvents = 4
    None = None
INVARIANTS
    NeverOwnAddressInUse
    NeverRefused
    BackedByServer
PROPERTIES
    Converges
    LinkIsShown
