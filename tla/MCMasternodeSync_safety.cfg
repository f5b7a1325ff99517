CONSTANTS
    p1 = p1
    InitialPeers <- NoPeers
    p2 = p2
    p3 = p3
    i1 = i1
    Peers = {p1, p2}
    OldPeers = {p2}
    Items = {i1}
    THRESHOLD = 1
    IDLE = 1
    STALL = 1
    RETRY = 0
    Churn = TRUE
    SporkChanges = FALSE
    RelayedAssets = {"LIST", "MNW", "BUDGET"}
    Answers = TRUE
SPECIFICATION Spec
INVARIANT TypeOK EnforcedMeansReceived StampedIffSeen
