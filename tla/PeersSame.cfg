CONSTANTS
    PeerParts = {"peers"}
    CloseEnds = {"a", "b"}
    MailboxCapacity = 2
    CloseSettings <- CloseSettingSet
    Dials = {1, 2}
    NodeA = "a"
    NodeB = "b"
    PeerSettings <- BothFallBack
    Peers = {p, q}
    NoPeer = NoPeer
    MaxHandles = 2
    MailboxSize = 1
    HasPunchChannel = FALSE
    MaxConnections = 3
    MaxRequests = 2
    MaxQueue = 2
SPECIFICATION PeeringSpec
CHECK_DEADLOCK FALSE
INVARIANT SameConnectionKept
