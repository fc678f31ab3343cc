CONSTANTS
    Sides = {"client"}
    Requests = {1, 2, 3}
    NoPeer = NoPeer
    PeerP = p
    PeerQ = q
    AddrA = a
    AddrB = b
    ClientAddrs = {a, b}
    MaxSessions = 2
    MaxReservations = 1
    RelayPlans <- RelayPlanSet
    Attempts = {1, 2, 3}
    RelayServers = {"r", "q"}
    LifecyclePlans <- ThreePrepares
SPECIFICATION RelayingSpec
CHECK_DEADLOCK FALSE
PROPERTY CurrentIsKept
