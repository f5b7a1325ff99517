------------------------------ MODULE Mempool ------------------------------
(***************************************************************************)
(* The memory pool (txmempool.cpp), the orphan transactions and the coins  *)
(* (main.cpp) while blocks are connected and disconnected under cs_main.   *)
(*                                                                         *)
(* A transaction is its inputs and outputs. What the pool refuses for      *)
(* reasons of its own is in `policy`, which changes at any time: "early"   *)
(* before the inputs are looked for (standardness, transaction locks),     *)
(* "late" after that (fees, priority, signatures). Which blocks are connected*)
(* is ChainState's concern: here any child of the tip may be connected and *)
(* the tip may be disconnected at any time. A block that ConnectBlock      *)
(* refuses changes nothing.                                                *)
(***************************************************************************)
EXTENDS Integers, FiniteSets, FiniteSetsExt, SequencesExt

CONSTANTS
    Txs,
    Vin,            \* [Txs -> Seq(Txs \X Nat)], the outputs spent
    Vout,           \* [Txs -> SUBSET Nat]
    CoinBases, CoinStakes,
    HashOrder,      \* [Txs -> Int], the order of the maps
    Blocks, Root,   \* Root ends the part of the chain that stays
    Parent, Height,
    Vtx,            \* [Blocks -> Seq(Txs)]
    Maturity,       \* Params().COINBASE_MATURITY()
    Fickle,         \* the transactions that `policy` is about
    Invalid,        \* the ones with a bad signature or amount
    Big,            \* the ones over 5000 bytes
    Peers, MaxOrphans,
    Null            \* no transaction, no peer

Inputs(t) == ToSet(Vin[t])
Generated == CoinBases \union CoinStakes
OutPoints == UNION {{t} \X Vout[t] : t \in Txs}

Parents(t) == {o[1] : o \in Inputs(t)}

(* CheckTransaction: a transaction spends no output twice. Vout has what   *)
(* ClearUnspendable leaves, perhaps nothing.                               *)
ASSUME TxAssumption ==
    /\ IsFiniteSet(Txs) /\ Null \notin Txs \union Peers
    /\ HashOrder \in [Txs -> Int] /\ MaxOrphans \in Nat
    /\ Vout \in [Txs -> SUBSET Nat]
    /\ Vin \in [Txs -> Seq(OutPoints)]
    /\ \A t \in Txs : \A i, j \in DOMAIN Vin[t] : Vin[t][i] = Vin[t][j] => i = j
    /\ \A t \in Txs : Inputs(t) = {} <=> t \in CoinBases
    /\ Generated \subseteq Txs /\ CoinBases \intersect Invalid = {}
(* CheckBlock wants the coinbase first; a node puts the height into it.    *)
ASSUME BlockAssumption ==
    /\ Root \in Blocks /\ Height \in [Blocks -> Nat \ {0}] /\ Maturity \in Int
    /\ Vtx \in [Blocks -> Seq(Txs)]
    /\ \A b \in Blocks \ {Root} : Parent[b] \in Blocks /\ Height[b] = Height[Parent[b]] + 1
    /\ \A b, c \in Blocks : \A i \in DOMAIN Vtx[b], j \in DOMAIN Vtx[c] :
          Vtx[b][i] = Vtx[c][j] /\ Vtx[b][i] \in CoinBases => Height[b] = Height[c] /\ i = j
    /\ \A t \in ToSet(Vtx[Root]) : Parents(t) \subseteq ToSet(Vtx[Root])
    /\ \A t, x \in ToSet(Vtx[Root]) : t # x => Inputs(t) \intersect Inputs(x) = {}

VARIABLES
    tip,
    coins,      \* pcoinsTip, a CCoins for every transaction
    undo,       \* the undo data of the blocks that were connected once
    pool,       \* mapTx and mapNextTx
    orphans,    \* mapOrphanTransactions: the peer each came from
    byPrev,     \* mapOrphanTransactionsByPrev
    policy,     \* what happens to the transactions of Fickle
    unstaked    \* history: the coinstakes in `coins` whose last output a
                \* disconnected block gave back

mempoolVars == <<tip, coins, undo, pool, orphans, byPrev, policy, unstaked>>

-----------------------------------------------------------------------------
(* Coins.                                                                  *)

Pruned == [vout |-> {}, height |-> 0, base |-> FALSE, stake |-> FALSE]

(* CCoins::FromTx. Without outputs all coins are equal.                    *)
FromTx(t, h) ==
    IF Vout[t] = {} THEN Pruned
    ELSE [vout |-> Vout[t], height |-> h, base |-> t \in CoinBases, stake |-> t \in CoinStakes]

Available(view, o) == o[2] \in view[o[1]].vout

(* CCoins::Spend: the last output takes the metadata with it.              *)
Spent(c, n) == IF c.vout = {n} THEN Pruned ELSE [c EXCEPT !.vout = @ \ {n}]
InUndo(c, n) ==
    IF c.vout = {n} THEN [height |-> c.height, base |-> c.base, stake |-> c.stake]
    ELSE [height |-> 0, base |-> FALSE, stake |-> FALSE]

Spend(s, o) ==
    [view |-> [s.view EXCEPT ![o[1]] = Spent(@, o[2])],
     undo |-> Append(s.undo, InUndo(s.view[o[1]], o[2]))]

(* The inputs of t are spent, the first one first.                         *)
SpentInputs(view, t) ==
    LET spend[n \in 0 .. Len(Vin[t])] ==
            IF n = 0 THEN [view |-> view, undo |-> << >>] ELSE Spend(spend[n - 1], Vin[t][n])
    IN  spend[Len(Vin[t])]

(* UpdateCoins, on a view and the undo data of the transactions so far.    *)
UpdateCoins(s, t, h) ==
    LET after == SpentInputs(s.view, t)
    IN  [view |-> [after.view EXCEPT ![t] = FromTx(t, h)], undo |-> Append(s.undo, after.undo)]

(* CheckInputs: HaveInputs, the maturity test, then amounts and scripts.   *)
Mature(c, h) == c.base \/ c.stake => h - c.height >= Maturity
Spendable(view, t, h) == \A o \in Inputs(t) : Available(view, o) /\ Mature(view[o[1]], h)
CheckInputs(view, t, h) == Spendable(view, t, h) /\ t \notin Invalid

(* ConnectBlock: the view and the undo data after each transaction of b,   *)
(* and whether every transaction passes with the view it finds.            *)
ConnectBlock(view, b) ==
    LET connect[n \in 0 .. Len(Vtx[b])] ==
            IF n = 0 THEN [view |-> view, undo |-> << >>]
            ELSE UpdateCoins(connect[n - 1], Vtx[b][n], Height[b])
    IN  connect

Connects(view, b) ==
    \A n \in 1 .. Len(Vtx[b]) : CheckInputs(ConnectBlock(view, b)[n - 1].view, Vtx[b][n], Height[b])

(* One output comes back, and with the last one of a transaction its       *)
(* height and coinbase flag. fCoinStake is in the undo data, too, but is   *)
(* not restored.                                                           *)
Restored(c, n, u) ==
    IF u.height # 0
    THEN [vout |-> {n}, height |-> u.height, base |-> u.base, stake |-> FALSE]
    ELSE [c EXCEPT !.vout = @ \union {n}]

RestoreInput(view, o, u) == [view EXCEPT ![o[1]] = Restored(@, o[2], u)]

(* Mutant: the inputs come back in the order they were spent in.           *)
RestoredInputsForward(view, t, undos) ==
    LET restore[n \in 0 .. Len(Vin[t])] ==
            IF n = 0 THEN view ELSE RestoreInput(restore[n - 1], Vin[t][n], undos[n])
    IN  restore[Len(Vin[t])]

(* The inputs of t come back, the last one first.                          *)
RestoredInputs(view, t, undos) ==
    LET last == Len(Vin[t])
        restore[n \in 0 .. last] ==
            IF n = 0 THEN view ELSE RestoreInput(restore[n - 1], Vin[t][last + 1 - n], undos[last + 1 - n])
    IN  restore[last]

(* DisconnectBlock: in reverse the outputs of each transaction go and its  *)
(* inputs come back. It fails when the coins are not what the block had    *)
(* made, the flags included; then nothing changes.                         *)
DisconnectTx(view, b, i) ==
    RestoredInputs([view EXCEPT ![Vtx[b][i]] = Pruned], Vtx[b][i], undo[b][i])

DisconnectBlock(view, b) ==
    LET disconnect[n \in 0 .. Len(Vtx[b])] ==
            IF n = 0 THEN view ELSE DisconnectTx(disconnect[n - 1], b, Len(Vtx[b]) + 1 - n)
    IN  disconnect

Disconnects(view, b) ==
    \A n \in 1 .. Len(Vtx[b]) :
        LET t == Vtx[b][Len(Vtx[b]) + 1 - n]
        IN  DisconnectBlock(view, b)[n - 1][t] = FromTx(t, Height[b])

-----------------------------------------------------------------------------
(* The pool: p.txs is mapTx, p.next is mapNextTx.                          *)

AddUnchecked(p, t) ==
    [txs |-> p.txs \union {t},
     next |-> [o \in OutPoints |-> IF o \in Inputs(t) THEN t ELSE p.next[o]]]

(* The pool transactions that spend an output of one of S, and so on.      *)
Children(p, S) == {p.next[o] : o \in {o \in OutPoints : o[1] \in S}} \ {Null}
Descendants(p, S) ==
    {t \in S \union p.txs :
        \A D \in SUBSET (S \union p.txs) : S \subseteq D /\ Children(p, D) \subseteq D => t \in D}

Without(p, S) ==
    LET gone == S \intersect p.txs
    IN  [txs |-> p.txs \ gone,
         next |-> [o \in OutPoints |-> IF \E t \in gone : o \in Inputs(t) THEN Null ELSE p.next[o]]]

(* CTxMemPool::remove.                                                     *)
Removed(p, t, recursive) == Without(p, IF recursive THEN Descendants(p, {t}) ELSE {t})

(* removeConflicts.                                                        *)
RemoveConflicts(p, t) == Without(p, Descendants(p, {p.next[o] : o \in Inputs(t)} \ {Null, t}))

(* removeForBlock.                                                         *)
RemoveForBlock(p, vtx) ==
    LET remove[n \in 0 .. Len(vtx)] ==
            IF n = 0 THEN p ELSE RemoveConflicts(Removed(remove[n - 1], vtx[n], FALSE), vtx[n])
    IN  remove[Len(vtx)]

(* Mutant: the height is one too high.                                     *)
RemoveCoinbaseSpendsLate(p, view, h) ==
    LET immature == {t \in p.txs : \E o \in Inputs(t) :
                        /\ o[1] \notin p.txs
                        /\ view[o[1]].vout = {} \/ ~Mature(view[o[1]], h + 1)}
    IN  Without(p, Descendants(p, immature))

(* removeCoinbaseSpends: what spends coins that are gone or are not mature *)
(* any more.                                                               *)
RemoveCoinbaseSpends(p, view, h) ==
    LET immature == {t \in p.txs : \E o \in Inputs(t) :
                        /\ o[1] \notin p.txs
                        /\ view[o[1]].vout = {} \/ ~Mature(view[o[1]], h)}
    IN  Without(p, Descendants(p, immature))

(* CCoinsViewMemPool: what the pool holds counts as coins.                 *)
PoolView(p, view) == [t \in Txs |-> IF t \in p.txs THEN FromTx(t, 0) ELSE view[t]]

MissingInputs(p, view, t) == \E o \in Inputs(t) : PoolView(p, view)[o[1]].vout = {}

(* The reasons of AcceptToMemoryPool to refuse t before it looks for its   *)
(* inputs.                                                                 *)
Unwelcome(p, view, t) ==
    \/ t \in Generated \union p.txs
    \/ t \in Fickle /\ policy[t] = "early"
    \/ \E o \in Inputs(t) : p.next[o] # Null
    \/ PoolView(p, view)[t].vout # {}

(* AcceptToMemoryPool succeeds, or it ends with a DoS score; h is the      *)
(* height of the view's best block.                                        *)
Welcome(p, view, t, h) ==
    /\ ~Unwelcome(p, view, t)
    /\ t \in Fickle => policy[t] # "late"
    /\ Spendable(PoolView(p, view), t, h + 1)
Acceptable(p, view, t, h) == Welcome(p, view, t, h) /\ t \notin Invalid
Punished(p, view, t, h) == Welcome(p, view, t, h) /\ t \in Invalid

-----------------------------------------------------------------------------
(* Orphan transactions.                                                    *)

(* EraseOrphanTx for the transactions of S.                                *)
EraseOrphans(orph, prev, S) ==
    LET erased == {t \in S : orph[t] # Null}
    IN  /\ orphans' = [t \in Txs |-> IF t \in erased THEN Null ELSE orph[t]]
        /\ byPrev' = [p \in Txs |-> prev[p] \ {t \in erased : p \in Parents(t)}]

(* AddOrphanTx, which ignores big ones, and LimitOrphanTxSize, which evicts*)
(* at random.                                                              *)
AddOrphan(t, peer) ==
    LET orph == [orphans EXCEPT ![t] = IF @ = Null /\ t \notin Big THEN peer ELSE @]
        prev == [p \in Txs |-> IF p \in Parents(t) /\ orph[t] # Null THEN byPrev[p] \union {t} ELSE byPrev[p]]
        all == {x \in Txs : orph[x] # Null}
    IN  \E S \in SUBSET all :
            /\ Cardinality(S) = Max({0, Cardinality(all) - MaxOrphans})
            /\ EraseOrphans(orph, prev, S)

(* The work queue of the "tx" handler: orphans that spend an output of an  *)
(* accepted transaction are tried, and those accepted are queued in turn.  *)
(* After an invalid orphan the others of its peer are skipped (w.bad).     *)
TryOrphan(w, t) ==
    LET accepted == Acceptable(w.pool, coins, t, Height[tip])
        missing == ~Unwelcome(w.pool, coins, t) /\ MissingInputs(w.pool, coins, t)
    IN  IF orphans[t] \in w.bad THEN w
        ELSE [pool |-> IF accepted THEN AddUnchecked(w.pool, t) ELSE w.pool,
              queue |-> IF accepted THEN Append(w.queue, t) ELSE w.queue,
              erase |-> IF missing THEN w.erase ELSE w.erase \union {t},
              bad |-> IF Punished(w.pool, coins, t, Height[tip]) THEN w.bad \union {orphans[t]} ELSE w.bad]

(* The orphans of s.left are tried in the order of their hashes.           *)
TryNext(s) ==
    LET t == CHOOSE x \in s.left : \A y \in s.left : HashOrder[x] <= HashOrder[y]
    IN  IF s.left = {} THEN s ELSE [work |-> TryOrphan(s.work, t), left |-> s.left \ {t}]

TryOrphansOf(w, p) ==
    LET try[n \in 0 .. Cardinality(byPrev[p])] ==
            IF n = 0 THEN [work |-> w, left |-> byPrev[p]] ELSE TryNext(try[n - 1])
    IN  try[Cardinality(byPrev[p])].work

TryQueued(w, n) == IF n > Len(w.queue) THEN w ELSE TryOrphansOf(w, w.queue[n])

ProcessOrphans(t) ==
    LET process[n \in 0 .. Cardinality(Txs)] ==
            IF n = 0 THEN [pool |-> AddUnchecked(pool, t), queue |-> <<t>>, erase |-> {}, bad |-> {}]
            ELSE TryQueued(process[n - 1], n)
    IN  process[Cardinality(Txs)]

-----------------------------------------------------------------------------
(* Operations.                                                             *)

(* A "tx" message; when it is refused for anything but missing inputs      *)
(* nothing changes.                                                        *)
ReceiveTx(peer, t) ==
    /\ \/ /\ Acceptable(pool, coins, t, Height[tip])
          /\ LET done == ProcessOrphans(t)
             IN  /\ pool' = done.pool
                 /\ EraseOrphans(orphans, byPrev, done.erase)
       \/ /\ ~Unwelcome(pool, coins, t) /\ MissingInputs(pool, coins, t)
          /\ AddOrphan(t, peer)
          /\ pool' = pool
    /\ UNCHANGED <<tip, coins, undo, policy, unstaked>>

(* sendrawtransaction, the wallet: no orphans.                             *)
SubmitTx(t) ==
    /\ Acceptable(pool, coins, t, Height[tip])
    /\ pool' = AddUnchecked(pool, t)
    /\ UNCHANGED <<tip, coins, undo, orphans, byPrev, policy, unstaked>>

ConnectTip(b) ==
    LET connected == ConnectBlock(coins, b)[Len(Vtx[b])]
    IN  /\ Parent[b] = tip /\ Connects(coins, b)
        /\ tip' = b
        /\ coins' = connected.view
        /\ undo' = [undo EXCEPT ![b] = connected.undo]
        /\ pool' = RemoveForBlock(pool, Vtx[b])
        /\ unstaked' = unstaked \ ToSet(Vtx[b])
        /\ UNCHANGED <<orphans, byPrev, policy>>

Resurrect(p, view, t, h) == IF Acceptable(p, view, t, h) THEN AddUnchecked(p, t) ELSE Removed(p, t, TRUE)

(* Mutant: the block's transactions are tried in reverse order.            *)
ResurrectedBackwards(p, view, b) ==
    LET resurrect[n \in 0 .. Len(Vtx[b])] ==
            IF n = 0 THEN p ELSE Resurrect(resurrect[n - 1], view, Vtx[b][Len(Vtx[b]) + 1 - n], Height[b] - 1)
    IN  resurrect[Len(Vtx[b])]

(* The transactions of a disconnected block go back to the pool or take    *)
(* their descendants with them.                                            *)
Resurrected(p, view, b) ==
    LET resurrect[n \in 0 .. Len(Vtx[b])] ==
            IF n = 0 THEN p ELSE Resurrect(resurrect[n - 1], view, Vtx[b][n], Height[b] - 1)
    IN  resurrect[Len(Vtx[b])]

DisconnectTip ==
    LET view == DisconnectBlock(coins, tip)[Len(Vtx[tip])]
    IN  /\ tip # Root /\ Disconnects(coins, tip)
        /\ coins' = view
        /\ pool' = RemoveCoinbaseSpends(Resurrected(pool, view, tip), view, Height[tip])
        /\ tip' = Parent[tip]
        /\ unstaked' = unstaked \union {t \in CoinStakes : coins[t].vout = {} /\ view[t].vout # {}}
        /\ UNCHANGED <<undo, orphans, byPrev, policy>>

(* Mutant: only the orphans themselves go.                                 *)
EraseOrphansForLeavesIndex(peer) ==
    /\ \E t \in Txs : orphans[t] = peer
    /\ orphans' = [t \in Txs |-> IF orphans[t] = peer THEN Null ELSE orphans[t]]
    /\ UNCHANGED <<tip, coins, undo, pool, byPrev, policy, unstaked>>

(* A peer is finalized.                                                    *)
EraseOrphansFor(peer) ==
    /\ \E t \in Txs : orphans[t] = peer
    /\ EraseOrphans(orphans, byPrev, {t \in Txs : orphans[t] = peer})
    /\ UNCHANGED <<tip, coins, undo, pool, policy, unstaked>>

(* The policy changes its mind.                                            *)
ChangePolicy(t) ==
    /\ policy' \in {[policy EXCEPT ![t] = how] : how \in {"accept", "early", "late"} \ {policy[t]}}
    /\ UNCHANGED <<tip, coins, undo, pool, orphans, byPrev, unstaked>>

-----------------------------------------------------------------------------
(* What the chain alone says.                                              *)

(* The blocks from Root to b.                                              *)
Path(b) ==
    {c \in Blocks : \A P \in SUBSET Blocks : b \in P /\ (\A x \in P \ {Root} : Parent[x] \in P) => c \in P}

Confirmed(b) == UNION {ToSet(Vtx[c]) : c \in Path(b)}

(* The coins that the transactions of the chain up to b leave, when those  *)
(* of U have lost fCoinStake.                                              *)
Unspent(b, U) ==
    LET all == Confirmed(b)
        at(t) == Height[CHOOSE c \in Path(b) : t \in ToSet(Vtx[c])]
        left(t) == {n \in Vout[t] : \A x \in all : <<t, n>> \notin Inputs(x)}
    IN  [t \in Txs |->
            IF t \in all /\ left(t) # {}
            THEN [FromTx(t, at(t)) EXCEPT !.vout = left(t), !.stake = @ /\ t \notin U]
            ELSE Pruned]

-----------------------------------------------------------------------------

MempoolInit ==
    /\ tip = Root /\ coins = Unspent(Root, {}) /\ unstaked = {}
    /\ undo = [b \in Blocks |-> <<>>]
    /\ pool = [txs |-> {}, next |-> [o \in OutPoints |-> Null]]
    /\ orphans = [t \in Txs |-> Null] /\ byPrev = [t \in Txs |-> {}]
    /\ policy = [t \in Fickle |-> "accept"]

MempoolNext ==
    \/ \E t \in Txs : SubmitTx(t) \/ \E peer \in Peers : ReceiveTx(peer, t)
    \/ \E b \in Blocks \ {Root} : ConnectTip(b)
    \/ DisconnectTip
    \/ \E peer \in Peers : EraseOrphansFor(peer)
    \/ \E t \in Fickle : ChangePolicy(t)

MempoolSpec == MempoolInit /\ [][MempoolNext]_mempoolVars

-----------------------------------------------------------------------------

(* However often blocks are connected and disconnected, by way of whichever*)
(* branches, the coins are those that the transactions of the active chain *)
(* alone leave: no output is lost or left over, and the undo data give     *)
(* height and coinbase flag back with the last output. Only fCoinStake may *)
(* be wrong, and exactly for the coinstakes that were wholly spent in a    *)
(* block that was disconnected while they stayed in the chain.             *)
CoinsMatchChain == coins = Unspent(tip, unstaked)

(* "Check that all outputs are available and match the outputs in the block*)
(* itself exactly" finds no mismatch when the tip is disconnected. It is   *)
(* not so once a coinstake of the tip has lost its flag.                   *)
TipDisconnects == tip # Root => Disconnects(coins, tip)

(* CTxMemPool::check: every input of a pool transaction is an output of    *)
(* another one or an unspent, mature coin, and mapNextTx has exactly the   *)
(* inputs of the pool, which never holds a coinbase or coinstake. Blocks,  *)
(* reorganisations and orphans all change the pool; the assertions hold    *)
(* after each.                                                             *)
PoolCheck ==
    /\ pool.txs \subseteq Txs \ Generated
    /\ \A t \in pool.txs : \A o \in Inputs(t) :
          /\ o[1] \notin pool.txs => Available(coins, o) /\ Mature(coins[o[1]], Height[tip] + 1)
          /\ pool.next[o] = t
    /\ \A o \in OutPoints : pool.next[o] # Null => pool.next[o] \in pool.txs /\ o \in Inputs(pool.next[o])

(* mapOrphanTransactionsByPrev lists exactly the orphans by the            *)
(* transactions they wait for (the "tx" handler reads mapOrphanTransactions*)
(* with operator[] for what it finds there), within the limit.             *)
OrphansIndexed ==
    /\ \A p, t \in Txs : t \in byPrev[p] <=> orphans[t] # Null /\ p \in Parents(t)
    /\ Cardinality({t \in Txs : orphans[t] # Null}) <= MaxOrphans

Known == Confirmed(tip) \union pool.txs

(* No step loses a transaction the node had confirmed or pooled, unless it *)
(* is generated, the pool's policy refuses it now, the chain spends one of *)
(* its inputs, or what it spends is lost, or is immature again. ("Resurrect*)
(* mempool transactions from the disconnected block".)                     *)
NoTxLost ==
    [][\A t \in Known \ Known' :
          \/ t \in Generated
          \/ t \in Fickle /\ policy[t] # "accept"
          \/ \E o \in Inputs(t) :
                \/ o[1] \notin Known'
                \/ \E x \in Confirmed(tip') : o \in Inputs(x)
                \/ ~Mature(coins'[o[1]], Height[tip'] + 1)]_mempoolVars

=============================================================================
