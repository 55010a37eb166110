CONSTANTS
    StpPorts = {"p1"}
    Versions = {"stp", "rstp"}
    LinkRates = {"1G", "100M"}
    Off = "off"
    QueueDepth = 1
    DrainMax = 2
    Second = 1
    MaxLag = 2
    StpWrap = 2
    Chunks = 2
    Eras = 2
    Generations = 3
    NoLine = Nothing
    SettleTicks = 2
    RetryAfter = 2
    Blocks = {"ps"}
    Macs = {"m1", "m2"}
    Ips = {"i1", "i2", "i3"}
    Nobody = Nothing
    Looked = {"m1"}
    Capacity = 2
    PerMac = 1
    Ttl = 2
    Delay = 2
    Tasks = {"t1", "t2"}
    NoTask = Nothing
    Width = 5
    Late = 4
    Horizon = 15
    Writers = {"w1", "w2"}
    NoWriter = Nothing
    Ring = 3
    LogWrap = 6
    Fifo = 2
    Tries = 2
    DropCounts = 2
SPECIFICATION Spec
INVARIANTS
    StpInv DumpInv NetInv SensorInv DiscoveryInv BoardInv
PROPERTIES
    ServiceSteps StpFollows ServicesSettle
