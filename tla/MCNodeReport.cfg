\* A report and a pass of the poller on two peers of a device; pools of one and
\* of two connections, so that a report may find the second one taken.
SPECIFICATION FairSpec
CONSTANTS
    d1 = d1  s1 = s1
    Keys = {k1, k2}
    Devices = {d1}
    Owner <- OneDevice
    Servers = {s1}
    Server <- OneServer
    Pollers = {p1}
    Reporters = {r1}
    FailingKeys = {k1}
    MaxPassed = 1
    MaxRows = 2
    Returning = {k2}
    PoolSizes = {1, 2}
    Limit = 1
    None = None
INVARIANTS
    TypeOK
    OnlyReportsStarve
    RemoveNamesTheExhausted
PROPERTIES
    ImplementsUsageLedger
    EveryReportAnswered
