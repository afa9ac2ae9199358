CONSTANTS
    Hosts = {h1, h2}
    Requests = {r1}
    MaxTokens = 3
    MaxStops = 1
SPECIFICATION Spec
SYMMETRY Symmetry
CHECK_DEADLOCK FALSE
INVARIANTS RunningTokenKept OneHostPerCode SeenStaysReachable
