CONSTANTS
    Parts = {"streams"}
    Streams = 2
    MaxFrame = 2
    MaxPackets = 2
    Fraction = 2
    StreamSettings <- LateResetSettings
    QueueLen = 2
    MaxCid = 4
    CidSettings <- QuicCidSettings
    MinMtu = 2
    MtuUpperBound = 8
    MaxRetransmits = 2
    Threshold = 1
    MaxPn = 11
    MtuSettings <- QuicMtuSettings
    Ends = {"client", "server"}
    MaxKeyPackets = 3
    KeySettings <- QuicKeySettings
    Addresses = {a1, a2, a3}
    Home = a1
    MaxSentOnPath = 4
    PathSettings <- QuicPathSettings
SPECIFICATION QuicSpec
CHECK_DEADLOCK FALSE
INVARIANT RedundantResetIgnored
