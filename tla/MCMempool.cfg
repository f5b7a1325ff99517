SPECIFICATION MempoolSpec
CONSTANTS
    g = g
    f = f
    ca = ca
    ca2 = ca2
    ca3 = ca3
    cb = cb
    t1 = t1
    t2 = t2
    s = s
    u = u
    k = k
    w = w
    x = x
    y = y
    R = R
    A1 = A1
    A2 = A2
    A3 = A3
    B1 = B1
    p1 = p1
    p2 = p2
    Null = Null
    Root = R
    Txs <- MCTxs
    Vin <- MCVin
    Vout <- MCVout
    HashOrder <- MCHashOrder
    CoinBases = {g, ca, ca2, ca3, cb}
    CoinStakes = {s}
    Blocks <- MCBlocks
    Parent <- MCParent
    Height <- MCHeight
    Vtx <- MCVtx
    Maturity = 2
    Fickle = {t1}
    Invalid = {y}
    Big = {x}
    Peers = {p1, p2}
    MaxOrphans = 2
INVARIANTS
    CoinsMatchChain
    PoolCheck
    OrphansIndexed
PROPERTIES
    NoTxLost
