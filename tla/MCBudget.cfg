SPECIFICATION BudgetSpec
CONSTANTS
    p = p
    q = q
    self = self
    other = other
    Proposals = {p, q}
    Start <- MCStart
    End <- MCEnd
    Amount <- MCAmount
    FeeRank <- MCFeeRank
    RemoteFinals <- MCFinals
    PaidAt <- MCPaidAt
    Masternodes = {self, other}
    Self = self
    RemoteVotes <- MCVotes
    LocalItems = {p}
    LocalChoices = {"YES"}
    SyncEnds = {"FINISHED"}
    Lists <- MCLists
    FirstList <- MCFirstList
    Cycle = 7
    Window = 3
    Every = 5
    Confirmations = 2
    SwiftDepth = 1
    UpdateMin = 2
    Ahead = 0
    Day = 0
    Late = 2
    TotalBudget = 2
    FirstHeight = 4
    MaxHeight = 6
    MaxEvents = 1
INVARIANTS
    BudgetTypeOK
    SeenVotesCounted
    OwnBlockAccepted
PROPERTIES
    OnlySoundBudgets
    ItemsKept
CHECK_DEADLOCK FALSE
