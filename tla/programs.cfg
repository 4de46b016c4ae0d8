CONSTANTS
    r1 = r1
    r2 = r2
    wlan0 = wlan0
    wlan1 = wlan1
    mon0 = mon0
    p1 = p1
    p2 = p2
    absent0 = absent0
    rfmoncheck0 = rfmoncheck0
    NoName = NoName
    NoRadio = NoRadio
    Radios <- TwoRadios
    Names = {wlan0, wlan1, mon0, absent0, rfmoncheck0}
    Home <- TwoHomes
    Rank <- TwoRanks
    Aliases = {mon0, rfmoncheck0}
    Calls = {"auto", "on", "as", "stop", "all"}
    Procs = {p1}
    Shell = p1
    Absent = absent0
    Temp = rfmoncheck0
    Hardware <- FullHardware
    Units = {"nm", "wpa"}
    Commands <- AllCommands
    MaxRuns = 2
    BootModes = {"managed"}
    BootServices <- SomeHosts
    BootCustody <- FullyHeld
    FaultKinds = {"detect", "tornMode", "tornName", "bus", "probe", "kill"}
    MaxFaults = 1

SPECIFICATION ShellSpec
INVARIANTS ShellTypeOK ProgramInv TerminalInv SuitePasses Accounted KeptStands RetryCompletes SweepClears ResetRecovers
PROPERTIES ProgramEnds
CHECK_DEADLOCK FALSE
