\* A legacy client that waits for its answers, a node that never fails.
SPECIFICATION Spec
CONSTANTS
    Keys = {k1}
    LegacyKeys = {k1}
    GatedKeys = {}
    Handlers = {h1}
    Reapers = {p1}
    Overlap = FALSE
    Faults = {}
    MaxRows = 2
    MaxGrants = 2
    None = None
INVARIANTS
    PeersHaveRows
