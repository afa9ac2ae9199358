CONSTANTS
    Specs <- MCSpecs
    Hostnames = {"play"}
    Creators = {c1}
    Editors = {e1, e2}
    MaxTunnels = 3
    MaxStops = 1
SPECIFICATION Spec
SYMMETRY Symmetry
CHECK_DEADLOCK FALSE
INVARIANTS FailedRangeLeavesNothing HostnamesUnique
