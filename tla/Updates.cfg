CONSTANTS
    Clicks = {click}
    Agents = {a1}
    MaxReleases = 2
    MaxRequests = 2
    MaxHandRuns = 1
    MaxFaults = 1
SPECIFICATION FairUpdatesSpec
CHECK_DEADLOCK FALSE
INVARIANT BinaryStaysWhole
PROPERTIES RequestRuns PanelSettles AgentsFollow
