SPECIFICATION Spec
CONSTANTS
    m1 = m1
    m2 = m2
    m3 = m3
    None = None
    Masternodes = {m1, m2, m3}
    Me = m1
    Score <- MCScore
    Total = 2
    Required = 2
    Lead = 1
    Look = 1
    Future = 2
    Limit = 4
    BudgetBlocks = {7}
    OtherVotes <- MCOtherVotes
    Unsteady = {m2}
    Queue = {m1, m2}
    Grades = {"off", "stable"}
    Sporks = {FALSE, TRUE}
    FirstTip = 5
    MaxTip = 6
    BlockValue = 100
    NodeCoins = 7
    MoneySupply = 1000
    Drift = 1
    MaxKey = 2
    MaxSigned = 2
    MaxOwn = 1
    MaxRestarts = 1
INVARIANT
    RecordedMeansCounted
CHECK_DEADLOCK FALSE
