SPECIFICATION Spec
CONSTANTS
    Parts <- MCParts
    LineSettings = {"s9600", "fast"}
    SpecialSettings = {"fast"}
    FrameLength = 2
    LineMax = 2
    DrainLimit = 1
    MaxStarts = 2
    MaxRecoveries = 1
    MaxReconfigurations = 2
    Processes = {"a", "b"}
    GenerationLimit = 5
    MaxFresh = 3
    MaxServed = 4
    MaxFaults = 3
    NtpServers = {"one", "two"}
    Intervals = {1, 6}
    TestAttempts = 3
    MaxEdits = 2
    MaxRevision = 3
    KeysMax = 2
    DhcpServers = {"s1", "s2"}
    Addresses = {"a1"}
    Lifetime = 4
    MaxTime = 5
    MaxXid = 3
    OwnerPolicies = {"static", "dhcp"}
    Leased = {"dhcp"}
    Leases = {"lease"}
    MaxFailures = 1
    MaxCommands = 1
    Networks = {"p", "dhcp"}
    LeasedNetworks = {"dhcp"}
    LanLeases = {"l1"}
    Ports = {1, 2}
    Bound = {1, 2}
    MaxApplies = 1
    MaxSetbacks = 1
    MaxLeases = 2
    MaxChanges = 1
    MaxTroubles = 2
CHECK_DEADLOCK FALSE
INVARIANTS
    LineIsClean
    SeedHolds
    ClockIsTold
    PanelIsTrue
    NetworkIsInstalled
    BindingsFollow
    SessionsAreSound
PROPERTIES
    NothingIsForgotten
