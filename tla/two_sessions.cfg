CONSTANTS
    r1 = r1
    r2 = r2
    wlan0 = wlan0
    wlan1 = wlan1
    mon0 = mon0
    p1 = p1
    p2 = p2
    NoName = NoName
    NoRadio = NoRadio
    Radios <- OneRadio
    Names = {wlan0, mon0}
    Home <- OneHome
    Rank <- OneRank
    Aliases = {mon0}
    Calls = {"on"}
    Procs = {p1, p2}
    BootModes = {"managed"}
    BootServices <- FullHost
    BootCustody <- FullyHeld
    FaultKinds = {}
    MaxFaults = 1

SPECIFICATION Spec
INVARIANTS OneSessionPerRadio
