SPECIFICATION Spec
CONSTANTS
    None = None
    NoName = NoName
    Mac = {m1, m2}
    Ip = {i1}
    Server = {}
    Root = {}
    Identity = {}
    ArpFrame <- ArpTraffic
    DhcpMessage = {}
    LldpFrame = {}
    CdpFrame = {}
    Enabled = TRUE
    Checks <- AllChecks
    Blessed <- BlessedPair
    KnownServers = {}
    RootWhitelist = {}
    ArpTtl = 2
    FloodThreshold = 2
    FloodWindow = 1
    FlapThreshold = 2
    FlapWindow = 1
    StarvationThreshold = 2
    StarvationWindow = 1
    IdentityTtl = 2
    DefaultTtl = 2
    Skew = 0
    MaxTime = 4
    MaxEvents = 3
INVARIANT TakeoverAlerted
