SPECIFICATION Spec
CONSTANTS
    None = None
    NoName = NoName
    Mac = {m1, m2}
    Ip = {i1, i2}
    Server = {s1}
    Root = {r1, r2}
    Identity = {d1, d2}
    ArpFrame <- ArpTraffic
    DhcpMessage <- DhcpTraffic
    LldpFrame <- LldpTraffic
    CdpFrame <- CdpTraffic
    Enabled = TRUE
    Checks <- AllChecks
    Blessed <- BlessedPair
    KnownServers = {}
    RootWhitelist = {r1}
    ArpTtl = 1
    FloodThreshold = 2
    FloodWindow = 2
    FlapThreshold = 2
    FlapWindow = 2
    StarvationThreshold = 2
    StarvationWindow = 2
    IdentityTtl = 3
    DefaultTtl = 4
    Skew = 1
    MaxTime = 4
    MaxEvents = 3
INVARIANT SpoofExact
INVARIANT RateAlertsDue
INVARIANT ConflictsReported
