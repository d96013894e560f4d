\* Approvals, denials and settings against lost acknowledgements, late statuses and restarts.
SPECIFICATION Spec
CONSTANTS
    Clients = {ann}
    Modes = {"external", "embedded"}
    MaxSeq = 3
    MaxTickets = 1
    MaxLate = 1
    MaxFaults = 1
INVARIANTS
    AdvertsAreKnown
PROPERTIES
    TicketsConverge
    SettingsArrive
