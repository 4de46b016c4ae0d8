CONSTANTS
    MaxPhys = 3
    Wdevs = {"sta", "ap", "p2p"}
    Netdevs = {"sta", "ap"}
    Parts = {"modes", "bands"}

SPECIFICATION FairSpec
INVARIANTS EnumerationInv PresentIsComplete NothingMissed
PROPERTIES DetectEnds
