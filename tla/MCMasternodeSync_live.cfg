CONSTANTS
    p1 = p1
    InitialPeers <- AllPeers
    p2 = p2
    p3 = p3
    i1 = i1
    Peers = {p1, p2, p3}
    OldPeers = {}
    Items = {i1}
    THRESHOLD = 2
    IDLE = 2
    STALL = 5
    RETRY = 0
    Churn = FALSE
    SporkChanges = TRUE
    RelayedAssets = {"LIST"}
    Answers = TRUE
SPECIFICATION UntilVerdict
CHECK_DEADLOCK FALSE
PROPERTY SyncDecides
