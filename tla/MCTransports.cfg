SPECIFICATION Spec
CONSTANTS
    Slots = 2
    ClientQueueMax = 1
    TxMax = 1
    RxMax = 2
    MaxPeers = 3
    MaxRequests = 2
    MaxId = 2
    PeerSlots = 2
    Datagrams <- MCDatagrams
    MaxUdpId = 2
    MaxEpochs = 3
    BufferSize = 2
    DriverMax = 2
    MaxSessions = 3
INVARIANTS
    TcpAnswersHold
    SlotsAgree
    UdpAnswersHold
    SessionsApart
PROPERTIES
    HalfClosedServed
