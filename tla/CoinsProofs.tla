---------------------------- MODULE CoinsProofs ----------------------------
(***************************************************************************)
(* For any transactions, coin values and blocks: the flags of both caches  *)
(* are honest, and the caches implement the plain maps of UtxoMap.         *)
(***************************************************************************)
EXTENDS Coins, TLAPS

USE CoinAssumption, NullAssumption, NoEntryAssumption

(* A read of pcoinsTip returns an entry, or there are no unspent coins.    *)
LEMMA FetchedType ==
    ASSUME TypeOK, NEW t \in Txs
    PROVE  /\ Fetched(t) \in Entry \union {NoEntry}
           /\ Fetched(t) = NoEntry => tip[t] = NoEntry /\ db[t] = Pruned
           /\ tip[t] # NoEntry => Fetched(t) = tip[t]
           /\ tip[t] = NoEntry /\ Fetched(t) # NoEntry =>
                 Fetched(t) = [coins |-> db[t], dirty |-> FALSE, fresh |-> FALSE]
  <1>1. [coins |-> db[t], dirty |-> FALSE, fresh |-> FALSE] \in Entry
    BY DEF TypeOK, Entry
  <1>2. tip[t] \in Entry \union {NoEntry}
    BY DEF TypeOK
  <1> QED BY <1>1, <1>2 DEF Fetched

(* FetchCoins of a view keeps its type.                                    *)
LEMMA ViewFetchedType ==
    ASSUME TypeOK, NEW t \in Txs
    PROVE  /\ ViewFetched(t) \in Entry \union {NoEntry}
           /\ view[t] # NoEntry => ViewFetched(t) = view[t]
           /\ ModifiedFresh(t) \in BOOLEAN
  <1>1. view[t] \in Entry \union {NoEntry}
    BY DEF TypeOK
  <1>2. Fetched(t) # NoEntry => Fetched(t).coins \in Value
    BY FetchedType DEF Entry
  <1>3. ViewFetched(t) \in Entry \union {NoEntry}
    BY <1>1, <1>2 DEF ViewFetched, Entry
  <1>4. view[t] # NoEntry => ViewFetched(t) = view[t]
    BY DEF ViewFetched
  <1>5. ModifiedFresh(t) \in BOOLEAN
    BY <1>3 DEF ModifiedFresh, Entry
  <1> QED BY <1>3, <1>4, <1>5

(* BatchWrite merges caches of the right type into one.                    *)
LEMMA MergedType ==
    ASSUME TypeOK, NEW t \in Txs, Dirty(view, t)
    PROVE  Merged(t) \in Entry \union {NoEntry}
  <1>1. view[t] \in Entry /\ tip[t] \in Entry \union {NoEntry}
    BY DEF TypeOK, Dirty
  <1> QED BY <1>1 DEF Merged, Entry

(* Every action keeps the types.                                           *)
LEMMA TypeStep ==
    ASSUME TypeOK, [Next]_vars
    PROVE  TypeOK'
  <1> USE DEF EmptyCache
  <1>1. ASSUME NEW t \in Txs, TipRead(t) PROVE TypeOK'
    BY <1>1, FetchedType DEF TypeOK, TipRead
  <1>2. ASSUME NEW t \in Txs, ViewRead(t) PROVE TypeOK'
    BY <1>2, FetchedType, ViewFetchedType DEF TypeOK, ViewRead
  <1>3. ASSUME NEW t \in Txs, NEW c \in Value, Modify(t, c) PROVE TypeOK'
    <2>1. [coins |-> c, dirty |-> TRUE, fresh |-> ModifiedFresh(t)] \in Entry
      BY ViewFetchedType DEF Entry
    <2> QED BY <1>3, <2>1, FetchedType DEF TypeOK, Modify
  <1>4. ASSUME NEW b \in Blocks, SetBestBlock(b) PROVE TypeOK'
    BY <1>4 DEF TypeOK, SetBestBlock
  <1>5. CASE Open
    BY <1>5 DEF TypeOK, Open
  <1>6. CASE GetBestBlock
    BY <1>6 DEF TypeOK, GetBestBlock, TipGetBestBlock
  <1>7. CASE Flush
    BY <1>7, MergedType DEF TypeOK, Flush
  <1>8. CASE Discard
    BY <1>8 DEF TypeOK, Discard
  <1>9. CASE FlushTip
    <2>1. \A t \in Txs : Dirty(tip, t) => tip[t].coins \in Value
      BY DEF TypeOK, Dirty, Entry
    <2> QED BY <1>9, <2>1 DEF TypeOK, FlushTip, DbWritten
  <1>10. CASE Restart
    BY <1>10 DEF TypeOK, Restart
  <1>11. CASE UNCHANGED vars
    BY <1>11 DEF TypeOK, vars
  <1> QED BY <1>1, <1>2, <1>3, <1>4, <1>5, <1>6, <1>7, <1>8, <1>9, <1>10, <1>11 DEF Next

(* No sequence of reads, writes, flushes and restarts leaves an entry of   *)
(* the wrong type, or anything of a cache that went out of scope.          *)
THEOREM TypeCorrect == Spec => []TypeOK
  <1>1. Init => TypeOK
    BY DEF Init, TypeOK, EmptyCache, Value
  <1>2. TypeOK /\ [Next]_vars => TypeOK'
    BY TypeStep
  <1> QED BY <1>1, <1>2, PTL DEF Spec

-----------------------------------------------------------------------------

(* A read leaves what both caches stand for as it was.                     *)
LEMMA ReadKeeps ==
    ASSUME TypeOK, NEW t \in Txs,
           tip' \in {tip, [tip EXCEPT ![t] = Fetched(t)]}, UNCHANGED db
    PROVE  TipCoins' = TipCoins
  BY FetchedType DEF TypeOK, TipCoins

(* Flushing the upper cache makes pcoinsTip stand for what it stood for.   *)
LEMMA FlushCommits ==
    ASSUME TypeOK, FlagsHonest, Flush
    PROVE  TipCoins' = ViewCoins
  <1> SUFFICES ASSUME NEW t \in Txs PROVE TipCoins'[t] = ViewCoins[t]
    BY DEF TipCoins, ViewCoins
  <1> DEFINE m == IF Dirty(view, t) THEN Merged(t) ELSE tip[t]
  <1>1. tip'[t] = m /\ db' = db
    BY DEF Flush
  <1>2. TipCoins'[t] = IF m # NoEntry THEN m.coins ELSE db[t]
    BY <1>1 DEF TipCoins
  <1>3. TipCoins[t] = IF tip[t] # NoEntry THEN tip[t].coins ELSE db[t]
    BY DEF TipCoins
  <1>4. ViewCoins[t] = IF view[t] # NoEntry THEN view[t].coins ELSE TipCoins[t]
    BY DEF ViewCoins
  <1>5. view[t] \in Entry \union {NoEntry} /\ tip[t] \in Entry \union {NoEntry}
    BY DEF TypeOK
  <1>6. CASE ~Dirty(view, t)
    BY <1>2, <1>3, <1>4, <1>6 DEF Dirty, FlagsHonest
  <1>7. CASE Dirty(view, t) /\ tip[t] = NoEntry
    <2>1. view[t] # NoEntry /\ view[t].fresh /\ db[t] = Pruned
      BY <1>3, <1>5, <1>7 DEF Dirty, FlagsHonest, Entry
    <2>2. m = IF view[t].coins = Pruned THEN NoEntry
              ELSE [coins |-> view[t].coins, dirty |-> TRUE, fresh |-> TRUE]
      BY <1>7 DEF Merged
    <2>3. CASE view[t].coins = Pruned
      BY <1>2, <1>4, <2>1, <2>2, <2>3
    <2>4. CASE view[t].coins # Pruned
      <3>1. m = [coins |-> view[t].coins, dirty |-> TRUE, fresh |-> TRUE]
        BY <2>2, <2>4
      <3>2. [coins |-> view[t].coins, dirty |-> TRUE, fresh |-> TRUE] \in Entry
        BY <1>5, <2>1 DEF Entry
      <3>3. m # NoEntry
        BY <3>1, <3>2
      <3>4. m.coins = view[t].coins
        BY <3>1
      <3> HIDE DEF m
      <3> QED BY <1>2, <1>4, <2>1, <3>3, <3>4
    <2> QED BY <2>3, <2>4
  <1>8. CASE Dirty(view, t) /\ tip[t] # NoEntry
    <2>1. view[t] # NoEntry
      BY <1>8 DEF Dirty
    <2>2. CASE tip[t].fresh /\ view[t].coins = Pruned
      <3>1. m = NoEntry
        BY <1>8, <2>2 DEF Merged
      <3>2. db[t] = Pruned
        BY <1>8, <2>2 DEF FlagsHonest
      <3> QED BY <1>2, <1>4, <2>1, <2>2, <3>1, <3>2
    <2>3. CASE ~(tip[t].fresh /\ view[t].coins = Pruned)
      <3>1. m = [tip[t] EXCEPT !.coins = view[t].coins, !.dirty = TRUE]
        BY <1>8, <2>3 DEF Merged
      <3>2. m.coins = view[t].coins /\ m \in Entry
        BY <1>5, <1>8, <2>1, <3>1 DEF Entry
      <3> QED BY <1>2, <1>4, <2>1, <3>2
    <2> QED BY <2>2, <2>3
  <1> QED BY <1>6, <1>7, <1>8

(* Every action keeps the flags honest.                                    *)
LEMMA FlagsStep ==
    ASSUME TypeOK, TypeOK', FlagsHonest, [Next]_vars
    PROVE  FlagsHonest'
  <1> USE DEF EmptyCache
  <1>1. ASSUME NEW t \in Txs, TipRead(t) PROVE FlagsHonest'
    <2>1. TipCoins' = TipCoins
      BY <1>1, ReadKeeps DEF TipRead
    <2>2. view = EmptyCache
      BY <1>1 DEF TypeOK, TipRead
    <2> QED BY <1>1, <2>1, <2>2, FetchedType DEF FlagsHonest, TipRead, TypeOK
  <1>2. ASSUME NEW t \in Txs, ViewRead(t) PROVE FlagsHonest'
    <2>1. TipCoins' = TipCoins
      BY <1>2, ReadKeeps DEF ViewRead
    <2>2. SUFFICES ASSUME NEW s \in Txs PROVE FlagsHonest!(s)'
      BY DEF FlagsHonest
    <2>3. CASE s # t
      BY <1>2, <2>1, <2>3 DEF FlagsHonest, ViewRead, TypeOK
    <2>4. CASE s = t /\ view[t] # NoEntry
      BY <1>2, <2>1, <2>4, ViewFetchedType DEF FlagsHonest, ViewRead, TypeOK
    <2>5. CASE s = t /\ view[t] = NoEntry
      <3>1. tip'[t] = Fetched(t) /\ view'[t] = ViewFetched(t) /\ db' = db
        BY <1>2, <2>5 DEF ViewRead, TypeOK
      <3>2. tip'[t] # NoEntry =>
               (tip'[t].fresh => db[t] = Pruned) /\ (~tip'[t].dirty => tip'[t].coins = db[t])
        BY <3>1, FetchedType DEF FlagsHonest
      <3>3. view'[t] # NoEntry =>
               /\ Fetched(t) # NoEntry
               /\ view'[t] = [coins |-> Fetched(t).coins, dirty |-> FALSE, fresh |-> Fetched(t).coins = Pruned]
        BY <2>5, <3>1 DEF ViewFetched
      <3>4. Fetched(t) # NoEntry => TipCoins[t] = Fetched(t).coins
        BY <2>1, <3>1 DEF TipCoins
      <3>5. view'[t] # NoEntry =>
               /\ view'[t].fresh => TipCoins[t] = Pruned
               /\ view'[t].coins = TipCoins[t]
               /\ tip'[t] # NoEntry
        <4> SUFFICES ASSUME view'[t] # NoEntry
                     PROVE  /\ view'[t].fresh => TipCoins[t] = Pruned
                            /\ view'[t].coins = TipCoins[t]
                            /\ tip'[t] # NoEntry
          OBVIOUS
        <4>1. view'[t].fresh = (Fetched(t).coins = Pruned) /\ view'[t].coins = Fetched(t).coins
          BY <3>3
        <4>2. TipCoins[t] = Fetched(t).coins /\ tip'[t] # NoEntry
          BY <3>1, <3>3, <3>4
        <4> QED BY <4>1, <4>2
      <3> QED BY <2>1, <2>5, <3>1, <3>2, <3>5
    <2> QED BY <2>3, <2>4, <2>5
  <1>3. ASSUME NEW t \in Txs, NEW c \in Value, Modify(t, c) PROVE FlagsHonest'
    <2>1. TipCoins' = TipCoins
      BY <1>3, ReadKeeps DEF Modify
    <2>2. SUFFICES ASSUME NEW s \in Txs PROVE FlagsHonest!(s)'
      BY DEF FlagsHonest
    <2>3. CASE s # t
      BY <1>3, <2>1, <2>3 DEF FlagsHonest, Modify, TypeOK
    <2>4. CASE s = t
      <3> DEFINE e == [coins |-> c, dirty |-> TRUE, fresh |-> ModifiedFresh(t)]
      <3>1. view'[t] \in {NoEntry, e} /\ db' = db
        BY <1>3 DEF Modify, TypeOK
      <3>2. tip'[t] \in {tip[t], Fetched(t)}
        BY <1>3 DEF Modify, TypeOK
      <3>3. tip'[t] # NoEntry =>
               (tip'[t].fresh => db[t] = Pruned) /\ (~tip'[t].dirty => tip'[t].coins = db[t])
        BY <3>2, FetchedType DEF FlagsHonest
      <3>4. ModifiedFresh(t) => TipCoins[t] = Pruned
        <4>1. CASE view[t] # NoEntry
          BY <4>1, ViewFetchedType DEF ModifiedFresh, FlagsHonest
        <4>2. CASE view[t] = NoEntry /\ Fetched(t) = NoEntry
          BY <4>2, FetchedType DEF TipCoins
        <4>3. CASE view[t] = NoEntry /\ Fetched(t) # NoEntry
          <5>1. ViewFetched(t) = [coins |-> Fetched(t).coins, dirty |-> FALSE, fresh |-> Fetched(t).coins = Pruned]
            BY <4>3 DEF ViewFetched
          <5>2. ViewFetched(t) # NoEntry
            <6>1. Fetched(t).coins \in Value
              BY FetchedType, <4>3 DEF Entry
            <6>2. [coins |-> Fetched(t).coins, dirty |-> FALSE, fresh |-> Fetched(t).coins = Pruned] \in Entry
              BY <6>1 DEF Entry
            <6> QED BY <5>1, <6>2
          <5>3. TipCoins[t] = Fetched(t).coins
            BY FetchedType, <4>3 DEF TipCoins
          <5>4. ViewFetched(t).fresh = (Fetched(t).coins = Pruned)
            BY <5>1
          <5> QED BY <5>2, <5>3, <5>4 DEF ModifiedFresh
        <4> QED BY <4>1, <4>2, <4>3
      <3>5. ~ModifiedFresh(t) => tip'[t] # NoEntry
        <4>1. CASE view[t] # NoEntry
          BY <1>3, <4>1, ViewFetchedType DEF ModifiedFresh, FlagsHonest, Modify
        <4>2. CASE view[t] = NoEntry
          BY <1>3, <4>2, FetchedType DEF ModifiedFresh, ViewFetched, Modify, TypeOK
        <4> QED BY <4>1, <4>2
      <3> HIDE DEF e
      <3>6. e.dirty = TRUE /\ e.fresh = ModifiedFresh(t)
        BY DEF e
      <3>7. CASE view'[t] = NoEntry
        BY <2>4, <3>1, <3>3, <3>7
      <3>8. CASE view'[t] = e
        BY <2>1, <2>4, <3>1, <3>3, <3>4, <3>5, <3>6, <3>8
      <3> QED BY <3>1, <3>7, <3>8
    <2> QED BY <2>3, <2>4
  <1>4. ASSUME NEW b \in Blocks, SetBestBlock(b) PROVE FlagsHonest'
    BY <1>4 DEF FlagsHonest, SetBestBlock, TipCoins
  <1>5. CASE Open
    BY <1>5 DEF FlagsHonest, Open, TipCoins
  <1>6. CASE GetBestBlock
    BY <1>6 DEF FlagsHonest, GetBestBlock, TipCoins
  <1>7. CASE Flush
    <2>1. SUFFICES ASSUME NEW t \in Txs, tip'[t] # NoEntry
                   PROVE  /\ tip'[t].fresh => db[t] = Pruned
                          /\ ~tip'[t].dirty => tip'[t].coins = db[t]
      BY <1>7 DEF FlagsHonest, Flush
    <2>2. CASE ~Dirty(view, t)
      BY <1>7, <2>1, <2>2 DEF FlagsHonest, Flush
    <2>3. CASE Dirty(view, t)
      <3>1. tip'[t] = Merged(t) /\ view[t] # NoEntry /\ view[t] \in Entry
        BY <1>7, <2>3 DEF Flush, Dirty, TypeOK
      <3>2. CASE tip[t] = NoEntry
        <4>1. view[t].fresh
          BY <3>1, <3>2 DEF FlagsHonest, Entry
        <4>2. TipCoins[t] = Pruned
          BY <3>1, <4>1 DEF FlagsHonest
        <4>3. db[t] = Pruned
          BY <3>2, <4>2 DEF TipCoins
        <4>4. Merged(t) = [coins |-> view[t].coins, dirty |-> TRUE, fresh |-> TRUE]
          BY <2>1, <3>1, <3>2 DEF Merged
        <4> QED BY <3>1, <4>3, <4>4
      <3>3. CASE tip[t] # NoEntry
        <4>1. Merged(t) = [tip[t] EXCEPT !.coins = view[t].coins, !.dirty = TRUE]
          BY <2>1, <3>1, <3>3 DEF Merged
        <4>2. tip[t] \in Entry
          BY <3>3 DEF TypeOK
        <4>3. Merged(t).fresh = tip[t].fresh /\ Merged(t).dirty = TRUE
          BY <4>1, <4>2 DEF Entry
        <4> QED BY <3>1, <3>3, <4>3 DEF FlagsHonest
      <3> QED BY <3>2, <3>3
    <2> QED BY <2>2, <2>3
  <1>8. CASE Discard
    BY <1>8 DEF FlagsHonest, Discard, TipCoins
  <1>9. CASE FlushTip
    BY <1>9 DEF FlagsHonest, FlushTip, TypeOK
  <1>10. CASE Restart
    BY <1>10 DEF FlagsHonest, Restart
  <1>11. CASE UNCHANGED vars
    BY <1>11 DEF FlagsHonest, vars, TipCoins
  <1> QED BY <1>1, <1>2, <1>3, <1>4, <1>5, <1>6, <1>7, <1>8, <1>9, <1>10, <1>11 DEF Next

(* DIRTY and FRESH mean what coins.h says of them, and the assertion of    *)
(* BatchWrite never fails.                                                 *)
THEOREM FlagsTheorem == Spec => []FlagsHonest
  <1>1. Init => TypeOK /\ FlagsHonest
    BY DEF Init, TypeOK, FlagsHonest, EmptyCache, Value
  <1>2. TypeOK /\ FlagsHonest /\ [Next]_vars => (TypeOK /\ FlagsHonest)'
    BY TypeStep, FlagsStep
  <1> QED BY <1>1, <1>2, PTL DEF Spec
-----------------------------------------------------------------------------

(* A change of one entry of the upper cache is a change of one coin.       *)
LEMMA ModifySets ==
    ASSUME TypeOK, FlagsHonest, NEW t \in Txs, NEW c \in Value, Modify(t, c)
    PROVE  ViewCoins' = [ViewCoins EXCEPT ![t] = c]
  <1>1. TipCoins' = TipCoins
    BY ReadKeeps DEF Modify
  <1>2. SUFFICES ASSUME NEW s \in Txs
                 PROVE  ViewCoins'[s] = IF s = t THEN c ELSE ViewCoins[s]
    BY DEF ViewCoins
  <1>3. CASE s # t
    BY <1>1, <1>3 DEF ViewCoins, Modify, TypeOK
  <1>4. CASE s = t /\ ModifiedFresh(t) /\ c = Pruned
    <2>1. view'[t] = NoEntry
      BY <1>4 DEF Modify, TypeOK
    <2>2. TipCoins[t] = Pruned
      <3>1. CASE view[t] # NoEntry
        BY <1>4, <3>1, ViewFetchedType DEF ModifiedFresh, FlagsHonest
      <3>2. CASE view[t] = NoEntry /\ Fetched(t) = NoEntry
        BY <3>2, FetchedType DEF TipCoins
      <3>3. CASE view[t] = NoEntry /\ Fetched(t) # NoEntry
        <4>1. ViewFetched(t) = [coins |-> Fetched(t).coins, dirty |-> FALSE, fresh |-> Fetched(t).coins = Pruned]
          BY <3>3 DEF ViewFetched
        <4>2. Fetched(t).coins \in Value
          BY FetchedType, <3>3 DEF Entry
        <4>3. [coins |-> Fetched(t).coins, dirty |-> FALSE, fresh |-> Fetched(t).coins = Pruned] \in Entry
          BY <4>2 DEF Entry
        <4>4. ViewFetched(t) # NoEntry
          BY <4>1, <4>3
        <4>5. ViewFetched(t).fresh = (Fetched(t).coins = Pruned)
          BY <4>1
        <4>6. TipCoins[t] = Fetched(t).coins
          BY FetchedType, <3>3 DEF TipCoins
        <4> QED BY <1>4, <4>4, <4>5, <4>6 DEF ModifiedFresh
      <3> QED BY <3>1, <3>2, <3>3
    <2> QED BY <1>1, <1>4, <2>1, <2>2 DEF ViewCoins
  <1>5. CASE s = t /\ ~(ModifiedFresh(t) /\ c = Pruned)
    <2>1. view'[t] = [coins |-> c, dirty |-> TRUE, fresh |-> ModifiedFresh(t)]
      BY <1>5 DEF Modify, TypeOK
    <2>2. [coins |-> c, dirty |-> TRUE, fresh |-> ModifiedFresh(t)] \in Entry
      BY ViewFetchedType DEF Entry
    <2>3. view'[t] # NoEntry
      BY <2>1, <2>2
    <2>4. view'[t].coins = c
      BY <2>1
    <2> QED BY <1>5, <2>3, <2>4 DEF ViewCoins
  <1> QED BY <1>3, <1>4, <1>5

(* A read of the upper cache changes nothing it stands for.                *)
LEMMA ViewReadKeeps ==
    ASSUME TypeOK, NEW t \in Txs, ViewRead(t)
    PROVE  TipCoins' = TipCoins /\ ViewCoins' = ViewCoins
  <1>1. TipCoins' = TipCoins
    BY ReadKeeps DEF ViewRead
  <1>2. SUFFICES ASSUME NEW s \in Txs PROVE ViewCoins'[s] = ViewCoins[s]
    BY <1>1 DEF ViewCoins
  <1>3. CASE s # t \/ view[t] # NoEntry \/ Fetched(t) = NoEntry
    <2>1. view'[s] = view[s]
      BY <1>3 DEF ViewRead, ViewFetched, TypeOK
    <2> QED BY <1>1, <2>1 DEF ViewCoins
  <1>4. CASE s = t /\ view[t] = NoEntry /\ Fetched(t) # NoEntry
    <2> DEFINE e == [coins |-> Fetched(t).coins, dirty |-> FALSE, fresh |-> Fetched(t).coins = Pruned]
    <2>1. view'[t] = e
      BY <1>4 DEF ViewRead, ViewFetched, TypeOK
    <2>2. Fetched(t).coins \in Value
      BY FetchedType, <1>4 DEF Entry
    <2>3. e \in Entry
      BY <2>2 DEF Entry
    <2>4. e.coins = Fetched(t).coins
      OBVIOUS
    <2> HIDE DEF e
    <2>5. TipCoins[t] = Fetched(t).coins
      BY FetchedType, <1>4 DEF TipCoins
    <2> QED BY <1>4, <2>1, <2>3, <2>4, <2>5 DEF ViewCoins
  <1> QED BY <1>3, <1>4

(* Writing the database makes it hold what pcoinsTip stood for.            *)
LEMMA FlushTipKeeps ==
    ASSUME TypeOK, FlagsHonest
    PROVE  DbWritten = TipCoins
  <1> SUFFICES ASSUME NEW t \in Txs PROVE DbWritten[t] = TipCoins[t]
    BY DEF DbWritten, TipCoins
  <1> QED BY DEF DbWritten, TipCoins, Dirty, FlagsHonest

(* A view without entries shows what is below it.                          *)
LEMMA EmptyViewCoins ==
    ASSUME view = EmptyCache
    PROVE  ViewCoins = TipCoins
  BY DEF ViewCoins, TipCoins, EmptyCache

(* So does pcoinsTip.                                                      *)
LEMMA EmptyTipCoins ==
    ASSUME TypeOK, tip = EmptyCache
    PROVE  TipCoins = db
  BY DEF TipCoins, EmptyCache, TypeOK

(* Every step of the caches is a step of the plain maps, or invisible.     *)
LEMMA RefinementStep ==
    ASSUME TypeOK, TypeOK', FlagsHonest, [Next]_vars
    PROVE  [Abs!Next]_(Abs!vars)
  <1> DEFINE Mem == [coins |-> TipCoins, best |-> TipGetBestBlock]
             Work == [coins |-> ViewCoins, best |-> ViewGetBestBlock]
             Disk == [coins |-> db, best |-> dbBest]
  <1> USE DEF TipGetBestBlock, ViewGetBestBlock
  <1>1. ASSUME NEW t \in Txs, TipRead(t) PROVE UNCHANGED Abs!vars
    <2>1. TipCoins' = TipCoins
      BY <1>1, ReadKeeps DEF TipRead
    <2>2. ViewCoins' = ViewCoins
      BY <1>1, <2>1 DEF TipRead, ViewCoins
    <2> QED BY <1>1, <2>1, <2>2 DEF TipRead, Abs!vars
  <1>2. ASSUME NEW t \in Txs, ViewRead(t) PROVE UNCHANGED Abs!vars
    <2>1. TipCoins' = TipCoins /\ ViewCoins' = ViewCoins
      BY <1>2, ViewReadKeeps
    <2> QED BY <1>2, <2>1 DEF ViewRead, Abs!vars
  <1>3. ASSUME NEW t \in Txs, NEW c \in Value, Modify(t, c) PROVE Abs!Set(t, c)
    <2>1. TipCoins' = TipCoins
      BY <1>3, ReadKeeps DEF Modify
    <2>2. ViewCoins' = [ViewCoins EXCEPT ![t] = c]
      BY <1>3, ModifySets
    <2>3. UNCHANGED <<dbBest, tipBest, viewBest, db, open>> /\ open
      BY <1>3 DEF Modify
    <2>4. Mem' = Mem /\ Disk' = Disk
      BY <2>1, <2>3
    <2>5. Work' = [Work EXCEPT !.coins = [Work.coins EXCEPT ![t] = c]]
      BY <2>2, <2>3
    <2> QED BY <2>3, <2>4, <2>5 DEF Abs!Set
  <1>4. ASSUME NEW b \in Blocks, SetBestBlock(b) PROVE Abs!SetBest(b)
    <2>1. TipCoins' = TipCoins /\ ViewCoins' = ViewCoins
      BY <1>4 DEF SetBestBlock, TipCoins, ViewCoins
    <2>2. ViewGetBestBlock' = b /\ TipGetBestBlock' = TipGetBestBlock
      BY <1>4 DEF SetBestBlock
    <2> QED BY <1>4, <2>1, <2>2 DEF SetBestBlock, Abs!SetBest
  <1>5. CASE Open
    <2>1. view = EmptyCache /\ viewBest = Null
      BY <1>5 DEF Open, TypeOK
    <2>2. TipCoins' = TipCoins /\ ViewCoins' = ViewCoins /\ ViewCoins = TipCoins
      BY <1>5, <2>1, EmptyViewCoins DEF Open, TipCoins, ViewCoins
    <2>3. Abs!Open
      BY <1>5, <2>1, <2>2 DEF Open, Abs!Open
    <2> QED BY <2>3 DEF Abs!Next
  <1>6. CASE GetBestBlock
    <2>1. TipCoins' = TipCoins /\ ViewCoins' = ViewCoins
      BY <1>6 DEF GetBestBlock, TipCoins, ViewCoins
    <2>2. TipGetBestBlock' = TipGetBestBlock /\ ViewGetBestBlock' = ViewGetBestBlock
      BY <1>6 DEF GetBestBlock, TypeOK
    <2> QED BY <1>6, <2>1, <2>2 DEF GetBestBlock, Abs!vars
  <1>7. CASE Flush
    <2>1. TipCoins' = ViewCoins
      BY <1>7, FlushCommits
    <2>2. ViewCoins' = TipCoins'
      BY <1>7 DEF Flush, ViewCoins, TipCoins, EmptyCache
    <2>3. TipGetBestBlock' = ViewGetBestBlock /\ ViewGetBestBlock' = ViewGetBestBlock
      BY <1>7 DEF Flush
    <2>4. Abs!Commit
      BY <1>7, <2>1, <2>2, <2>3 DEF Flush, Abs!Commit
    <2> QED BY <2>4 DEF Abs!Next
  <1>8. CASE Discard
    <2>1. TipCoins' = TipCoins
      BY <1>8 DEF Discard, TipCoins
    <2>2. ViewCoins' = TipCoins
      BY <1>8, <2>1 DEF Discard, ViewCoins, TipCoins, EmptyCache
    <2>3. TipGetBestBlock' = TipGetBestBlock /\ ViewGetBestBlock' = TipGetBestBlock
      BY <1>8 DEF Discard
    <2>4. Abs!Drop
      BY <1>8, <2>1, <2>2, <2>3 DEF Discard, Abs!Drop
    <2> QED BY <2>4 DEF Abs!Next
  <1>9. CASE FlushTip
    <2>1. db' = TipCoins
      BY <1>9, FlushTipKeeps DEF FlushTip
    <2>2. TipCoins' = TipCoins
      BY <1>9, <2>1 DEF FlushTip, TipCoins, EmptyCache
    <2>3. view = EmptyCache /\ view' = view /\ viewBest = Null /\ viewBest' = Null
      BY <1>9 DEF FlushTip, TypeOK
    <2>4. ViewCoins = TipCoins /\ ViewCoins' = TipCoins
      BY <2>2, <2>3 DEF ViewCoins, TipCoins, EmptyCache
    <2>5. dbBest' = TipGetBestBlock /\ TipGetBestBlock' = TipGetBestBlock /\ ViewGetBestBlock' = ViewGetBestBlock
      BY <1>9, <2>3 DEF FlushTip
    <2>6. Abs!Persist
      BY <1>9, <2>1, <2>2, <2>4, <2>5 DEF FlushTip, Abs!Persist
    <2> QED BY <2>6 DEF Abs!Next
  <1>10. CASE Restart
    <2>1. TipCoins' = db
      BY <1>10 DEF Restart, TipCoins, EmptyCache, TypeOK
    <2>2. ViewCoins' = TipCoins'
      BY <1>10 DEF Restart, ViewCoins, TipCoins, EmptyCache
    <2>3. TipGetBestBlock' = dbBest /\ ViewGetBestBlock' = dbBest
      BY <1>10 DEF Restart
    <2>4. Abs!Restart
      BY <1>10, <2>1, <2>2, <2>3 DEF Restart, Abs!Restart
    <2> QED BY <2>4 DEF Abs!Next
  <1>11. CASE UNCHANGED vars
    <2>1. TipCoins' = TipCoins /\ ViewCoins' = ViewCoins
      BY <1>11 DEF vars, TipCoins, ViewCoins
    <2> QED BY <1>11, <2>1 DEF vars, Abs!vars
  <1>12. ASSUME NEW t \in Txs, NEW c \in Value, Modify(t, c) PROVE Abs!Next
    BY <1>12, <1>3 DEF Abs!Next, Value
  <1>13. ASSUME NEW b \in Blocks, SetBestBlock(b) PROVE Abs!Next
    BY <1>13, <1>4 DEF Abs!Next
  <1> QED BY <1>1, <1>2, <1>5, <1>6, <1>7, <1>8, <1>9, <1>10, <1>11, <1>12, <1>13 DEF Next

(* The three layers of coin views implement three plain maps that are      *)
(* copied as a whole: a reader of pcoinsTip or of the database never sees  *)
(* a mixture of two states.                                                *)
THEOREM Refinement == Spec => Transparent
  <1>1. Init => Abs!Init
    BY DEF Init, Abs!Init, TipCoins, ViewCoins, TipGetBestBlock, ViewGetBestBlock, EmptyCache
  <1>2. Init => TypeOK /\ FlagsHonest
    BY DEF Init, TypeOK, FlagsHonest, EmptyCache, Value
  <1>3. TypeOK /\ FlagsHonest /\ [Next]_vars => (TypeOK /\ FlagsHonest)'
    BY TypeStep, FlagsStep
  <1>4. TypeOK /\ TypeOK' /\ FlagsHonest /\ [Next]_vars => [Abs!Next]_(Abs!vars)
    BY RefinementStep
  <1> QED BY <1>1, <1>2, <1>3, <1>4, PTL DEF Spec, Transparent, Abs!Spec

=============================================================================
