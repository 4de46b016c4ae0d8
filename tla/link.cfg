CONSTANTS
    LinkModes = {"managed", "monitor", "ap"}
    LinkNames = {"wlan0", "mon0"}
    Failures = {"down", "change", "up", "late", "lie"}

SPECIFICATION FairSpec
INVARIANTS TypeOK LeavesLinkUp
PROPERTIES SuccessMeansDone ImplementsContract EveryOperationEnds
