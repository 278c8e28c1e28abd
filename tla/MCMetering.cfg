\* Two keys of a device, two addresses.
SPECIFICATION Spec
CONSTANTS
    Keys = {k1, k2}
    Size = 2
    Limit = 1
    MaxTurns = 1
    MaxExcess = 1
    MaxCalls = 2
    None = None
SYMMETRY Symmetry
INVARIANTS
    TypeOK
    CapWithinBudgets
