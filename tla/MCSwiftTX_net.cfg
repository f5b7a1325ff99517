SPECIFICATION Spec
CONSTANTS
    n1 = n1  n2 = n2  n3 = n3  m1 = m1  m2 = m2  m3 = m3
    a = a  b = b  o1 = o1  o2 = o2  p = p
    Nodes = {n1, n2, n3}
    Masternodes = {n1, n2}
    RemoteVotes = {}
    Txs <- MCTxs
    Outpoints = {o1, o2}
    Vin <- NetVin
    Parent <- MCParent
    InputHeight <- NetInputHeight
    Lists <- NetLists
    Score <- NetScore
    REQUIRED = 2
    TOTAL = 2
    LOCK_TIME = 0
    BaseHeight = 6
    MaxTime = 0
    MaxBlocks = 0
    MaxRestarts = 1
CHECK_DEADLOCK FALSE
INVARIANTS
    LockAgreement
