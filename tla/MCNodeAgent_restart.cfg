\* The agent dies once, between any two commands; disk writes and nft fail.
SPECIFICATION Spec
CONSTANTS
    k1 = k1  k2 = k2  a1 = a1  a2 = a2
    Keys = {k1, k2}
    Addrs = {a1, a2}
    Leases <- OwnAddress
    Mentions <- DistinctNames
    Budgets = {2, Unlimited}
    MaxSpent = 3
    MaxCrashes = 1
    MaxReboots = 0
    Faults = {"wg", "disk", "nft"}
    Unlimited = Unlimited
    None = None
SYMMETRY Symmetry
INVARIANTS
    TypeOK
    BudgetRespected
