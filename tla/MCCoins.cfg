SPECIFICATION Spec
CONSTANTS
    Txs = {t1, t2}
    Coin = {c1, c2}
    Pruned = Pruned
    Blocks = {b1, b2}
    Null = Null
    NoEntry = NoEntry
INVARIANTS
    TypeOK
    FlagsHonest
PROPERTIES
    Transparent
