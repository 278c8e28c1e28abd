\* A gated client whose requests overlap, with every fault.
SPECIFICATION Spec
CONSTANTS
    Keys = {k1}
    LegacyKeys = {}
    GatedKeys = {k1}
    Handlers = {h1, h2}
    Reapers = {p1}
    Overlap = TRUE
    Faults = {"refused", "halfway", "late", "db"}
    MaxRows = 2
    MaxGrants = 2
    None = None
SYMMETRY Symmetry
INVARIANTS
    TypeOK
    SpentGrantsStaySpent
    ConsumedWasProgrammed
    CurrentGrantAccepted
    GateHolds
PROPERTIES
    ReaperSparesNewRows
