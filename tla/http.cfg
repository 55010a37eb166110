CONSTANTS
    Workers = {w1, w2}
    Clients = {c1, c2}
    None = None
    Mixes <- SettingsOrPages
    QueueDepth = 1
    Values <- TwoChanging
SPECIFICATION FairSpec
INVARIANTS ServerInv
PROPERTIES SaveKeepsOthers AuthorisedByCurrent ClientsClosed
