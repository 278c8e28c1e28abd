\* The node reboots once, between any two commands; wg and disk writes fail.
SPECIFICATION FairSpec
CONSTANTS
    k1 = k1  k2 = k2  a1 = a1  a2 = a2
    Keys = {k1, k2}
    Addrs = {a1, a2}
    Leases <- OwnAddress
    Mentions <- DistinctNames
    Budgets = {2, Unlimited}
    MaxSpent = 3
    MaxCrashes = 0
    MaxReboots = 1
    Faults = {"wg", "disk"}
    Unlimited = Unlimited
    None = None

INVARIANTS
    RegisteredPeersEnforced

PROPERTIES
    SpentPeerDropped
