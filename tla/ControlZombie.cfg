CONSTANTS
    Tunnels = {t1}
    MaxConns = 1
    MaxFaults = 0
    MaxEdits = 0
    Deleters = {"api"}
    Stall = FALSE
SPECIFICATION FairSpec
CHECK_DEADLOCK FALSE
PROPERTY DeletedUninstalls
