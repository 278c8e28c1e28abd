\* Requests are answered, reservations and stale rows go; the node may refuse.
SPECIFICATION FairSpec
CONSTANTS
    Keys = {k1}
    LegacyKeys = {k1}
    GatedKeys = {k1}
    Handlers = {h1, h2}
    Reapers = {p1}
    Overlap = FALSE
    Faults = {"refused"}
    MaxRows = 2
    MaxGrants = 2
    None = None
PROPERTIES
    EveryRequestAnswered
    ReservationFreed
    StaleRowFreed
