------------------------------- MODULE Coins -------------------------------
(***************************************************************************)
(* The coin views (src/src/coins.cpp, txdb.cpp): the database, the cache   *)
(* pcoinsTip over it, and the short-lived cache that ConnectTip,           *)
(* DisconnectTip and TestBlockValidity put on top of pcoinsTip. An entry   *)
(* of a cache is DIRTY when it may differ from the layer below and FRESH   *)
(* when the layer below has nothing (or nothing unspent) for it; both save *)
(* writes, and both lose coins when they are wrong.                        *)
(*                                                                         *)
(* All of it runs under cs_main. Reading is an action too, because a read  *)
(* fills the caches it passes through. Coins are opaque values; Pruned is  *)
(* a CCoins without unspent outputs.                                       *)
(***************************************************************************)
CONSTANTS
    Txs, Coin, Pruned, Blocks,
    Null,       \* uint256(0)
    NoEntry     \* a cache has no entry for a transaction

Value == Coin \union {Pruned}
Entry == [coins : Value, dirty : BOOLEAN, fresh : BOOLEAN]

ASSUME CoinAssumption == Pruned \notin Coin
ASSUME NullAssumption == Null \notin Blocks
ASSUME NoEntryAssumption == NoEntry \notin Entry

VARIABLES
    db,         \* [Txs -> Value]; Pruned: the key is not in the database
    dbBest,     \* 'B' in the database, or Null
    tip,        \* cacheCoins of pcoinsTip
    tipBest,    \* hashBlock of pcoinsTip; Null until asked for or set
    view,       \* cacheCoins of the cache above it
    viewBest,
    open        \* whether there is a cache above pcoinsTip

vars == <<db, dbBest, tip, tipBest, view, viewBest, open>>

EmptyCache == [t \in Txs |-> NoEntry]

(* The variables have their types, and a cache that went out of scope      *)
(* leaves nothing behind.                                                  *)
TypeOK ==
    /\ db \in [Txs -> Value]
    /\ dbBest \in Blocks \union {Null}
    /\ tip \in [Txs -> Entry \union {NoEntry}]
    /\ view \in [Txs -> Entry \union {NoEntry}]
    /\ tipBest \in Blocks \union {Null}
    /\ viewBest \in Blocks \union {Null}
    /\ open \in BOOLEAN
    /\ ~open => view = EmptyCache /\ viewBest = Null

-----------------------------------------------------------------------------

Init ==
    /\ db = [t \in Txs |-> Pruned]
    /\ dbBest = Null
    /\ tip = EmptyCache /\ tipBest = Null
    /\ view = EmptyCache /\ viewBest = Null
    /\ open = FALSE

(* FetchCoins of pcoinsTip: the entry afterwards. The database holds no    *)
(* pruned entry, so nothing read from it is FRESH.                         *)
Fetched(t) ==
    IF tip[t] # NoEntry \/ db[t] = Pruned
    THEN tip[t]
    ELSE [coins |-> db[t], dirty |-> FALSE, fresh |-> FALSE]

(* Mutant: the flag of the entry below is taken over.                      *)
ViewFetchedCopiesFlag(t) ==
    IF view[t] # NoEntry \/ Fetched(t) = NoEntry
    THEN view[t]
    ELSE [coins |-> Fetched(t).coins, dirty |-> FALSE, fresh |-> Fetched(t).fresh]

(* FetchCoins of the upper cache: an entry that is pruned below is FRESH.  *)
ViewFetched(t) ==
    IF view[t] # NoEntry \/ Fetched(t) = NoEntry
    THEN view[t]
    ELSE [coins |-> Fetched(t).coins, dirty |-> FALSE, fresh |-> Fetched(t).coins = Pruned]

(* ModifyCoins: the flags of the entry that will be modified. What the     *)
(* layer below does not have is FRESH.                                     *)
ModifiedFresh(t) == ViewFetched(t) = NoEntry \/ ViewFetched(t).fresh

(* AccessCoins, GetCoins or HaveCoins of pcoinsTip.                        *)
TipRead(t) ==
    /\ ~open
    /\ tip' = [tip EXCEPT ![t] = Fetched(t)]
    /\ UNCHANGED <<db, dbBest, tipBest, view, viewBest, open>>

(* CCoinsViewCache view(pcoinsTip).                                        *)
Open ==
    /\ ~open
    /\ open' = TRUE
    /\ UNCHANGED <<db, dbBest, tip, tipBest, view, viewBest>>

(* A read through the upper cache leaves entries in both.                  *)
ViewRead(t) ==
    /\ open
    /\ tip' = IF view[t] # NoEntry THEN tip ELSE [tip EXCEPT ![t] = Fetched(t)]
    /\ view' = [view EXCEPT ![t] = ViewFetched(t)]
    /\ UNCHANGED <<db, dbBest, tipBest, viewBest, open>>

(* ModifyCoins and the destructor of the modifier, which drops an entry    *)
(* that is FRESH and pruned.                                               *)
Modify(t, c) ==
    /\ open
    /\ tip' = IF view[t] # NoEntry THEN tip ELSE [tip EXCEPT ![t] = Fetched(t)]
    /\ view' = [view EXCEPT ![t] =
                   IF ModifiedFresh(t) /\ c = Pruned
                   THEN NoEntry
                   ELSE [coins |-> c, dirty |-> TRUE, fresh |-> ModifiedFresh(t)]]
    /\ UNCHANGED <<db, dbBest, tipBest, viewBest, open>>

(* GetBestBlock: each layer asks the one below and remembers the answer.   *)
TipGetBestBlock == IF tipBest = Null THEN dbBest ELSE tipBest

GetBestBlock ==
    /\ tipBest' = IF open /\ viewBest # Null THEN tipBest ELSE TipGetBestBlock
    /\ viewBest' = IF open /\ viewBest = Null THEN TipGetBestBlock ELSE viewBest
    /\ UNCHANGED <<db, dbBest, tip, view, open>>

SetBestBlock(b) ==
    /\ open
    /\ viewBest' = b
    /\ UNCHANGED <<db, dbBest, tip, tipBest, view, open>>

(* Mutant: a pruned entry removes the one below whatever its flags.        *)
MergedForgetful(t) ==
    IF view[t].coins = Pruned
    THEN NoEntry
    ELSE IF tip[t] = NoEntry
    THEN [coins |-> view[t].coins, dirty |-> TRUE, fresh |-> TRUE]
    ELSE [tip[t] EXCEPT !.coins = view[t].coins, !.dirty = TRUE]

(* BatchWrite of pcoinsTip: what becomes of its entry for t when the cache *)
(* above has a DIRTY one.                                                  *)
Merged(t) ==
    IF tip[t] = NoEntry
    THEN IF view[t].coins = Pruned
         THEN NoEntry
         ELSE [coins |-> view[t].coins, dirty |-> TRUE, fresh |-> TRUE]
    ELSE IF tip[t].fresh /\ view[t].coins = Pruned
         THEN NoEntry
         ELSE [tip[t] EXCEPT !.coins = view[t].coins, !.dirty = TRUE]

Dirty(cache, t) == cache[t] # NoEntry /\ cache[t].dirty

(* Mutant: Flush without cacheCoins.clear().                               *)
FlushKeeps ==
    /\ open /\ viewBest # Null
    /\ tip' = [t \in Txs |-> IF Dirty(view, t) THEN Merged(t) ELSE tip[t]]
    /\ tipBest' = viewBest
    /\ open' = FALSE /\ viewBest' = Null
    /\ UNCHANGED <<db, dbBest, view>>

(* Flush of the upper cache, after which it goes out of scope. ConnectTip  *)
(* and DisconnectTip have set its best block by then.                      *)
Flush ==
    /\ open /\ viewBest # Null
    /\ tip' = [t \in Txs |-> IF Dirty(view, t) THEN Merged(t) ELSE tip[t]]
    /\ tipBest' = viewBest
    /\ open' = FALSE /\ view' = EmptyCache /\ viewBest' = Null
    /\ UNCHANGED <<db, dbBest>>

(* The upper cache goes out of scope unflushed: the block was not valid,   *)
(* or was only tested.                                                     *)
Discard ==
    /\ open
    /\ open' = FALSE /\ view' = EmptyCache /\ viewBest' = Null
    /\ UNCHANGED <<db, dbBest, tip, tipBest>>

(* CCoinsViewDB::BatchWrite: one LevelDB batch. Pruned coins are erased.   *)
DbWritten == [t \in Txs |-> IF Dirty(tip, t) THEN tip[t].coins ELSE db[t]]

(* pcoinsTip->Flush() in FlushStateToDisk.                                 *)
FlushTip ==
    /\ ~open
    /\ db' = DbWritten
    /\ dbBest' = IF tipBest = Null THEN dbBest ELSE tipBest
    /\ tip' = EmptyCache
    /\ UNCHANGED <<tipBest, view, viewBest, open>>

(* The process ends without a flush and starts again.                      *)
Restart ==
    /\ tip' = EmptyCache /\ tipBest' = Null
    /\ open' = FALSE /\ view' = EmptyCache /\ viewBest' = Null
    /\ UNCHANGED <<db, dbBest>>

Next ==
    \/ \E t \in Txs : TipRead(t) \/ ViewRead(t)
    \/ \E t \in Txs, c \in Value : Modify(t, c)
    \/ \E b \in Blocks : SetBestBlock(b)
    \/ Open \/ GetBestBlock \/ Flush \/ Discard \/ FlushTip \/ Restart

Spec == Init /\ [][Next]_vars

-----------------------------------------------------------------------------

(* What the two caches stand for, seen through to the database.            *)
TipCoins == [t \in Txs |-> IF tip[t] # NoEntry THEN tip[t].coins ELSE db[t]]
ViewCoins == [t \in Txs |-> IF view[t] # NoEntry THEN view[t].coins ELSE TipCoins[t]]
ViewGetBestBlock == IF viewBest = Null THEN TipGetBestBlock ELSE viewBest

Abs == INSTANCE UtxoMap WITH
    disk <- [coins |-> db, best |-> dbBest],
    mem <- [coins |-> TipCoins, best |-> TipGetBestBlock],
    work <- [coins |-> ViewCoins, best |-> ViewGetBestBlock]

(* The caches are invisible: whatever is read, modified, flushed, dropped  *)
(* or lost in a crash, in any order, the three layers behave as three      *)
(* plain maps that are copied as a whole.                                  *)
Transparent == Abs!Spec

(* The flags say what their comments in coins.h say. FRESH: "the parent    *)
(* view does not have this entry (or it is pruned)"; without DIRTY the     *)
(* entry equals the parent's. And an entry of the upper cache that is not  *)
(* FRESH has one below it: BatchWrite asserts it for unspent coins and     *)
(* would forget that the others are spent.                                 *)
FlagsHonest ==
    \A t \in Txs :
        /\ tip[t] # NoEntry =>
              /\ tip[t].fresh => db[t] = Pruned
              /\ ~tip[t].dirty => tip[t].coins = db[t]
        /\ view[t] # NoEntry =>
              /\ view[t].fresh => TipCoins[t] = Pruned
              /\ ~view[t].dirty => view[t].coins = TipCoins[t]
              /\ ~view[t].fresh => tip[t] # NoEntry

=============================================================================
