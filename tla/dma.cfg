CONSTANTS
    Ports = {"p1", "p2"}
    Senders = {"ip", "stp"}
    RxCount = 2
    DrainMax = 1
    TagDepth = 2
    MaxDescs = 1
    Loads <- SendOrReceive
    None = None
SPECIFICATION FairSpec
INVARIANTS DmaInv SentIsOnWire
PROPERTIES NeverReuseOwned TransfersEnd
