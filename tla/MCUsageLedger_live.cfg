\* A peer whose bookings fail beside one whose bookings do not.
SPECIFICATION FairSpec
CONSTANTS
    k1 = k1  k2 = k2  d1 = d1  s1 = s1  s2 = s2
    Keys = {k1, k2}
    Devices = {d1}
    Owner <- OneDevice
    Servers = {s1}
    Server <- OneServer
    Pollers = {p1}
    Reporters = {}
    FailingKeys = {k1}
    PoolRefuses = FALSE
    MaxPassed = 2
    MaxRows = 2
    MaxMonths = 1
    None = None
PROPERTIES
    EveryPeerBooked
