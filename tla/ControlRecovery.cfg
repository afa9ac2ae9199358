CONSTANTS
    Tunnels = {t1}
    MaxConns = 3
    MaxFaults = 1
    MaxEdits = 1
    Deleters = {}
    Stall = FALSE
SPECIFICATION FairSpec
CHECK_DEADLOCK FALSE
INVARIANT SerialPushesInSync
PROPERTIES ServiceRestored ConfigConverges
