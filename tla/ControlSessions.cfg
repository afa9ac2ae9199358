CONSTANTS
    Tunnels = {}
    MaxConns = 3
    MaxFaults = 1
    MaxEdits = 0
    Deleters = {"api", "cli"}
    Stall = TRUE
SPECIFICATION FairSpec
CHECK_DEADLOCK FALSE
INVARIANTS TypeOK LiveSessionIsCurrent
PROPERTY DeletedUninstallsOnDial
