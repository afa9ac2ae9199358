CONSTANTS
    t1 = t1
    t2 = t2
    c1 = c1
    NoLimit = NoLimit
    Tunnels <- MCTunnels
    Clients = {c1}
    Owner <- MCOwner
    Limits = {1}
    MaxBytes = 2
    MaxEdits = 2
    MaxRestarts = 1
SPECIFICATION FairSpec
CHECK_DEADLOCK FALSE
INVARIANT BytesConserved
PROPERTIES LimitsEnforced ImplementsLedger LimitDisablesAgain FlushesEventually
