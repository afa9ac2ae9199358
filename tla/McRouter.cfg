CONSTANTS
    Handshakes <- MCHandshakes
    Garbage <- MCGarbage
    TunnelRows <- MCTunnelRows
    MaxToggles = 1
SPECIFICATION RouterSpec
CHECK_DEADLOCK FALSE
INVARIANTS RoutedAsMeant StreamPreserved
