CONSTANTS
    p1 = p1
    InitialPeers <- AllPeers
    p2 = p2
    p3 = p3
    Peers = {p1, p2, p3}
    OldPeers = {}
    Items = {}
    THRESHOLD = 2
    IDLE = 2
    STALL = 5
    RETRY = 2
    Churn = FALSE
    SporkChanges = FALSE
    RelayedAssets = {"LIST", "MNW", "BUDGET"}
    Answers = FALSE
SPECIFICATION FairSpec
PROPERTY RetryReachesList
