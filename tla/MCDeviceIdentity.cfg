\* A client that sends its token, one that never has a token.
SPECIFICATION Spec
CONSTANTS
    c1 = c1  c2 = c2  k1 = k1  k2 = k2
    Clients = {c1, c2}
    TokenClients = {c1}
    LegacyClients = {c2}
    DevClients = {c1}
    Keys = {k1, k2}
    Holder <- KeyEach
    Servers = {s1, s2}
    PremiumServers = {}
    Handlers = {h1, h2}
    FreeLimit = 1
    PremiumLimit = Unlimited
    Overrides = {0}
    MaxDevices = 2
    MaxUsed = 1
    MaxMonths = 1
    Unlimited = Unlimited
    None = None
SYMMETRY Symmetry
INVARIANTS
    TypeOK
    TokenClosesGap
    OneOwnerPerKey
    
    ExhaustedStayOut
