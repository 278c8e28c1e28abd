\* Three clients compete for two addresses of a block: the cap of max_peers makes
\* the pool fill up, releases empty it again.
SPECIFICATION FairSpec
CONSTANTS
    Keys = {k1, k2, k3}
    Requests = {r1, r2}
    Octet = 3
    Subnet <- InsideBlock
    Size = 9
    MaxPeers = 2
    None = None
INVARIANTS
    TypeOK
    UniqueLeases
    LockedRowsStay
PROPERTIES
    ImplementsAddressPool
    EveryRequestAnswered
