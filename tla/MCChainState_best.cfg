SPECIFICATION Spec
CONSTANTS
    G = G
    A1 = A1
    A2 = A2
    B1 = B1
    B2 = B2
    None = None
    net = net
    rpc = rpc
    Genesis = G
    Blocks <- MCBlocks
    Parent <- MCParent
    Anc <- MCAnc
    Height <- MCHeight
    Work <- MCWork
    Bad = {B2}
    Threads = {net, rpc}
    Peers = {net}
    Loader = rpc
    Orders <- MCOrders
    ReprocessDepths = {0}
    MaxReorgDepth = 2
    Limit <- MCLimit
INVARIANTS
    MostWorkActive
CHECK_DEADLOCK FALSE
