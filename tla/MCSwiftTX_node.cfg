SPECIFICATION Spec
CONSTANTS
    n1 = n1  n2 = n2  n3 = n3  m1 = m1  m2 = m2  m3 = m3
    a = a  b = b  o1 = o1  o2 = o2  p = p
    Nodes = {n1}
    Masternodes = {m1, m2, m3}
    RemoteVotes <- NodeRemoteVotes
    Txs <- MCTxs
    Outpoints = {o1, o2}
    Vin <- NodeVin
    Parent <- MCParent
    InputHeight <- NodeInputHeight
    Lists <- NodeLists
    Score <- NodeScore
    REQUIRED = 2
    TOTAL = 2
    LOCK_TIME = 1
    BaseHeight = 6
    MaxTime = 2
    MaxBlocks = 1
    MaxRestarts = 1
CHECK_DEADLOCK FALSE
INVARIANTS
    TypeOK
    CompleteMeansQuorum
    PoolConsistent
