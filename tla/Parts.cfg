\* Sequence numbers of the windows wrap within the run (SeqMod = 8).
CONSTANTS
    SeqHalf = 4
    WindowSize = 2
    MaxRetries = 1
    Lifetime = 3
    MaxSent = 10
    StateTimeout = 13
    IdleTimeout = 5
    Keepalive = 2
    Delay = 1
    PollGap = 1
    Addrs = {ble1, ble2, lora}
    BufferSize = 2
    MaxTakes = 1
    MaxOutputs = 3
    c1 = c1
    c2 = c2
    Clients = {c1, c2}
    Addresses = {"home", "cafe"}
    MaxIncoming = 2
    IncomingBufferSize = 2
    IncomingBufferTotal = 3
    IncomingSettings <- IncomingSettingSet
    Credentials = {"k1", "k2"}
    Sources <- RtcSources
    MaxConnections = 2
    QueueSize = 2
    MaxGeneration = 2
    RtcSettings <- RtcSettingSet
SPECIFICATION PartsSpec
CHECK_DEADLOCK FALSE
INVARIANTS TypeOK WindowsAgree KeptAlive 
    AttemptsKept 
PROPERTIES ImplementsFifo SlotsReleased
