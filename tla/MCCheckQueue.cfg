SPECIFICATION FairSpec
CONSTANTS
    Workers = {w1, w2}
    Master = m
    Checks = {g1, g2, b1, b2}
    Bad = {b1, b2}
    nBatchSize = 2
    None = None
INVARIANTS
    TypeOK
    VerdictCorrect
    IdleBetweenRounds
    TodoExact
PROPERTY
    WaitReturns
