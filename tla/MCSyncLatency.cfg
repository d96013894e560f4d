\* Two players come, go, change their latency and swap adapters while the operator switches.
SPECIFICATION Spec
CONSTANTS
    Clients = {ann, bob}
    Adapters = {x1, x2}
    Deadband = 2
    Caps = {2, 3}
    Ways = {0, 1, 4}
    MaxFlight = 1
    MaxEvents = 3
    None = None
PROPERTIES
    EndsLevel
    EndsTold
