\* One pass at a time; a device on two servers, reboots, removals, a month's end.
SPECIFICATION Spec
CONSTANTS
    k1 = k1  k2 = k2  d1 = d1  s1 = s1  s2 = s2
    Keys = {k1, k2}
    Devices = {d1}
    Owner <- OneDevice
    Servers = {s1, s2}
    Server <- Roaming
    Pollers = {p1}
    Reporters = {p1}
    FailingKeys = {k1, k2}
    PoolRefuses = TRUE
    MaxPassed = 3
    MaxRows = 1
    MaxMonths = 2
    None = None
SYMMETRY Symmetry
INVARIANTS
    TypeOK
    NeverOvercharged
    LedgerSumsPeers
PROPERTIES
    BookingLosesNothing
