CONSTANTS
    Server = "server"
    Commands = {"cli"}
    Rows = {r1}
    MaxCrashes = 1
    Domains = {"d1"}
    Requests = {"q1", "q2"}
SPECIFICATION FairSpec
CHECK_DEADLOCK FALSE
INVARIANTS DataKept ReadyWhenUp PinnedStaysValid QuietDomainAgrees
PROPERTY ServerStarts
