CONSTANTS
    r1 = r1
    r2 = r2
    wlan0 = wlan0
    wlan1 = wlan1
    mon0 = mon0
    p1 = p1
    p2 = p2
    NoName = NoName
    NoRadio = NoRadio
    Radios <- OneRadio
    Names = {wlan0, mon0}
    Home <- OneHome
    Rank <- OneRank
    Aliases = {mon0}
    Calls = {"auto", "on", "as", "stop", "all"}
    Procs = {p1}
    BootModes = {"managed"}
    BootServices <- FullHost
    BootCustody <- NmsOwn
    FaultKinds = {}
    MaxFaults = 1

SPECIFICATION Spec
INVARIANTS NeverStranded
