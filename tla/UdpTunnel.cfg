CONSTANTS
    Senders = {s1, s2}
    MaxStreams = 2
    MaxSockets = 2
    MaxDatagrams = 2
    MaxDrops = 1
SPECIFICATION FairSpec
CHECK_DEADLOCK FALSE
INVARIANTS AnswersRoutable NotCrossWired SessionsUsable
PROPERTIES PairedAgain StopIsComplete
