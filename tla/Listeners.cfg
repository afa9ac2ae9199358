CONSTANTS
    t1 = t1
    t2 = t2
    t3 = t3
    t4 = t4
    Tunnels <- MCTunnels
    PublicPort <- MCPublicPort
    ControlPort = 7000
    RouterPort = 25565
    WebPorts = {80}
    Players = {p1}
    MaxEdits = 2
    MaxAcceptErrors = 1
SPECIFICATION FairSpec
CHECK_DEADLOCK FALSE
INVARIANTS TypeOK NoLeakedSocket OnlyInflightReopens EarlyConnsDrained
PROPERTY ListenersConverge
