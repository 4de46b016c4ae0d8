CONSTANTS
    r1 = r1
    r2 = r2
    wlan0 = wlan0
    wlan1 = wlan1
    mon0 = mon0
    p1 = p1
    p2 = p2
    NoName = NoName
    NoRadio = NoRadio
    Radios <- TwoRadios
    Names = {wlan0, wlan1}
    Home <- TwoHomes
    Rank <- TwoRanks
    Aliases = {wlan1}
    Calls = {"as"}
    Procs = {p1, p2}
    BootModes = {"managed"}
    BootServices <- FullHost
    BootCustody <- FullyHeld
    FaultKinds = {"tornMode", "unplug", "kill"}
    MaxFaults = 1

SPECIFICATION Spec
INVARIANTS TypeOK SessionInv SessionIntact
PROPERTIES OwnRadioOnly
SYMMETRY Symmetry
