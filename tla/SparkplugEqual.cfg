SPECIFICATION Spec
CONSTANTS
    None = None
    client = client
    here = here
    there = there
    Packets <- MCPackets
    Brokers <- MCBrokers
    Endpoint <- MCEndpoint
    Node = {"node", "device"}
    Name = {"x", "y", "z"}
    Alias = {1}
    Times = {0, 2}
    Ttl = 2
    MaxSessions = 2
    SweepEvery = 3
    MaxLog = 2
INVARIANTS
    EqualBirthsIgnored
CHECK_DEADLOCK FALSE
