------------------------------ MODULE SwiftTX ------------------------------
(***************************************************************************)
(* SwiftTX (src/src/swifttx.cpp): a transaction lock request ("ix") is     *)
(* voted on by the top SWIFTTX_SIGNATURES_TOTAL masternodes; a node that   *)
(* has collected SWIFTTX_SIGNATURES_REQUIRED votes ("txlvote") locks the   *)
(* transaction's inputs, and its memory pool and its block check           *)
(* (main.cpp) refuse what conflicts with them.                             *)
(*                                                                         *)
(* Each node handles its messages in one thread, so a handler is one       *)
(* action. Messages may be lost, duplicated and reordered: a node may      *)
(* receive any request and any vote that exists, at any time and again.    *)
(* The early returns for lite mode, SPORK_2 and an unsynced chain drop the *)
(* message and are part of that loss.                                      *)
(***************************************************************************)
EXTENDS Integers, Sequences, FiniteSets

CONSTANTS
    Nodes,          \* the nodes modelled
    Masternodes,    \* all masternodes; those in Nodes run this code
    RemoteVotes,    \* votes signed by masternodes that are not in Nodes
    Txs,            \* transactions, standing for their hashes
    Outpoints,
    Vin,            \* Vin[tx]: the sequence of outpoints tx spends
    Parent,         \* Parent[o]: the transaction whose output o is
    InputHeight,    \* InputHeight[o]: the height of the block of Parent[o]
    Lists,          \* the sets of masternodes a node may rank at some time
    Score,          \* Score[h][m]: CalculateScore of masternode m at height h
    REQUIRED,       \* SWIFTTX_SIGNATURES_REQUIRED
    TOTAL,          \* SWIFTTX_SIGNATURES_TOTAL
    LOCK_TIME,      \* 60 * 60: how long a lock lives
    BaseHeight,     \* the height of the tip when the model starts
    MaxTime, MaxBlocks, MaxRestarts  \* bounds

ASSUME SizesAssumption ==
    /\ REQUIRED \in Nat \ {0} /\ TOTAL \in Nat /\ LOCK_TIME \in Nat
    /\ BaseHeight \in Nat /\ MaxTime \in Nat /\ MaxBlocks \in Nat /\ MaxRestarts \in Nat
ASSUME TxAssumption ==
    /\ Vin \in [Txs -> Seq(Outpoints) \ {<<>>}]
    /\ InputHeight \in [Outpoints -> Nat]
    /\ DOMAIN Parent = Outpoints

(* nBlockHeight of a lock and of the votes for it; 0 is "not known".       *)
Heights == {0} \union {InputHeight[o] + 3 : o \in Outpoints}
Votes == [mn : Masternodes, tx : Txs, nBlockHeight : Heights]

ASSUME VotesAssumption == RemoteVotes \subseteq Votes
ASSUME MasternodesAssumption ==
    IsFiniteSet(Masternodes) /\ Lists \subseteq SUBSET Masternodes
ASSUME ScoreAssumption == Score \in [Heights -> [Masternodes -> Nat]]

(* A block with no transaction that matters here.                          *)
Empty == "empty"
ASSUME EmptyAssumption == Empty \notin Txs

VARIABLES
    mapTxLockReq,          \* [n][tx] = "full", or "empty" for a default-
                           \* constructed CTransaction
    mapTxLockReqRejected,  \* [n]: set of transactions
    mapTxLockVote,         \* [n]: set of <<mn, tx>>, CConsensusVote::GetHash
    mapTxLocks,            \* [n][tx]: a CTransactionLock
    mapLockedInputs,       \* [n][o]: the transaction that locks o
    mempool,               \* [n]: set of transactions
    blocks,                \* [n]: the active chain since BaseHeight
    list,                  \* [n]: the masternodes n ranks (mnodeman): known, enabled and old enough
    signed,                \* votes signed by masternodes in Nodes
    clock,                 \* GetTime()
    restarts

lockVars == <<mapTxLockReq, mapTxLockReqRejected, mapTxLockVote, mapTxLocks, mapLockedInputs>>
vars == <<lockVars, mempool, blocks, list, signed, clock, restarts>>

Put(f, k, v) == [x \in DOMAIN f \union {k} |-> IF x = k THEN v ELSE f[x]]
Keep(f, S) == [x \in DOMAIN f \intersect S |-> f[x]]

First(S) == CHOOSE i \in S : \A j \in S : i <= j

Inputs(tx) == {Vin[tx][i] : i \in DOMAIN Vin[tx]}
Conflict(x, y) == x # y /\ Inputs(x) \intersect Inputs(y) # {}

-----------------------------------------------------------------------------

Init ==
    /\ mapTxLockReq = [n \in Nodes |-> << >>]
    /\ mapTxLockReqRejected = [n \in Nodes |-> {}]
    /\ mapTxLockVote = [n \in Nodes |-> {}]
    /\ mapTxLocks = [n \in Nodes |-> << >>]
    /\ mapLockedInputs = [n \in Nodes |-> << >>]
    /\ mempool = [n \in Nodes |-> {}]
    /\ blocks = [n \in Nodes |-> << >>]
    /\ list \in [Nodes -> Lists]
    /\ signed = {}
    /\ clock = 0
    /\ restarts = 0

(* Outputs the chain of n has spent.                                       *)
Spent(chain) == UNION {Inputs(chain[i]) : i \in {j \in DOMAIN chain : chain[j] # Empty}}

(* GetInputAge: the coins of the parent are gone once every output of it   *)
(* is spent; until then the age counts from the parent's block.            *)
GetInputAge(n, o) ==
    IF \E q \in Outpoints \ Spent(blocks[n]) : Parent[q] = Parent[o]
    THEN BaseHeight + Len(blocks[n]) + 1 - InputHeight[o]
    ELSE -1

(* Mutant: an input whose coins are gone is not taken for a new one.       *)
LockHeightOfSpent(n, tx) ==
    IF \E o \in Inputs(tx) : GetInputAge(n, o) \in 0 .. 4
    THEN 0
    ELSE BaseHeight + Len(blocks[n]) - GetInputAge(n, Vin[tx][1]) + 4

(* The height CreateNewLock returns: 0 when an input is too new, otherwise *)
(* (tip - age of the first input) + 4.                                     *)
LockHeight(n, tx) ==
    IF \E o \in Inputs(tx) : GetInputAge(n, o) < 5
    THEN 0
    ELSE BaseHeight + Len(blocks[n]) - GetInputAge(n, Vin[tx][1]) + 4

NewLock(h) == [nBlockHeight |-> h, vecConsensusVotes |-> << >>, nExpiration |-> clock + LOCK_TIME]

(* CreateNewLock: the lock map of n afterwards.                            *)
CreateNewLock(n, tx) ==
    LET h == LockHeight(n, tx) IN
    IF h = 0 THEN mapTxLocks[n]
    ELSE Put(mapTxLocks[n], tx,
             IF tx \in DOMAIN mapTxLocks[n]
             THEN [mapTxLocks[n][tx] EXCEPT !.nBlockHeight = h]
             ELSE NewLock(h))

(* CTransactionLock::CountSignatures.                                      *)
CountSignatures(lock) ==
    IF lock.nBlockHeight = 0 THEN -1
    ELSE Cardinality({i \in DOMAIN lock.vecConsensusVotes :
                        lock.vecConsensusVotes[i].nBlockHeight = lock.nBlockHeight})

IsComplete(locks, tx) == tx \in DOMAIN locks /\ CountSignatures(locks[tx]) >= REQUIRED

(* mnodeman.GetMasternodeRank: -1 for a masternode n does not rank.        *)
GetMasternodeRank(n, m, h) ==
    IF m \notin list[n] THEN -1
    ELSE 1 + Cardinality({x \in list[n] : Score[h][x] > Score[h][m]})

(* The inputs of a request that some other transaction has locked.         *)
LockedByOther(tx, vin, locked) ==
    {i \in DOMAIN vin : vin[i] \in DOMAIN locked /\ locked[vin[i]] # tx}

(* CheckForConflictingLocks: both locks expire now (the loop returns at    *)
(* the first conflicting input). vin is empty for a default-constructed    *)
(* transaction.                                                            *)
ExpireConflicting(locks, locked, tx, vin) ==
    LET other == locked[vin[First(LockedByOther(tx, vin, locked))]] IN
    [x \in DOMAIN locks |->
        IF x = tx \/ x = other THEN [locks[x] EXCEPT !.nExpiration = clock] ELSE locks[x]]

(* Inputs not yet locked become locked by tx.                              *)
LockInputs(locked, tx, vin) ==
    LET new == {vin[i] : i \in DOMAIN vin} \ DOMAIN locked IN
    [o \in DOMAIN locked \union new |-> IF o \in new THEN tx ELSE locked[o]]

(* Mutant: the pool's mapNextTx is not consulted.                          *)
AcceptableTwice(tx, pool, locked, chain) ==
    /\ tx \notin pool
    /\ LockedByOther(tx, Vin[tx], locked) = {}
    /\ Inputs(tx) \intersect Spent(chain) = {}

(* AcceptToMemoryPool, as far as double spends and locks decide it.        *)
Acceptable(tx, pool, locked, chain) ==
    /\ tx \notin pool
    /\ LockedByOther(tx, Vin[tx], locked) = {}
    /\ \A p \in pool : ~Conflict(p, tx)
    /\ Inputs(tx) \intersect Spent(chain) = {}

(* CheckBlock's "swiftTX transaction scanning".                            *)
CheckBlock(b, locked) == b # Empty => LockedByOther(b, Vin[b], locked) = {}

(* ReprocessBlocks(15): the last blocks are disconnected, their            *)
(* transactions go back to the pool if it still accepts them, and the      *)
(* blocks that pass CheckBlock under the present locks are connected again *)
(* up to the first that does not. The bound keeps the chain within the     *)
(* sixteen blocks that are disconnected.                                   *)
Reprocessed(chain, locked) ==
    LET bad == {i \in DOMAIN chain : ~CheckBlock(chain[i], locked)} IN
    IF bad = {} THEN chain ELSE SubSeq(chain, 1, First(bad) - 1)

Resurrected(pool, chain, locked) ==
    LET kept == Reprocessed(chain, locked)
        dropped == {chain[i] : i \in (Len(kept) + 1) .. Len(chain)}
    IN  pool \union {tx \in dropped \ {Empty} : Acceptable(tx, pool, locked, kept)}

ReprocessBlocks(n, locked) ==
    /\ blocks' = [blocks EXCEPT ![n] = Reprocessed(@, locked)]
    /\ mempool' = [mempool EXCEPT ![n] = Resurrected(@, blocks[n], locked)]

-----------------------------------------------------------------------------
(* Message handlers.                                                       *)

(* DoConsensusVote: the vote is announced and remembered, but not counted  *)
(* in the masternode's own lock.                                           *)
DoConsensusVote(n, tx, h) ==
    IF n \in Masternodes /\ GetMasternodeRank(n, n, h) \in 1 .. TOTAL
    THEN /\ signed' = signed \union {[mn |-> n, tx |-> tx, nBlockHeight |-> h]}
         /\ mapTxLockVote' = [mapTxLockVote EXCEPT ![n] = @ \union {<<n, tx>>}]
    ELSE UNCHANGED <<signed, mapTxLockVote>>

(* "ix" of a request that passes IsIXTXValid.                              *)
AcceptIX(n, tx) ==
    /\ tx \notin DOMAIN mapTxLockReq[n] \union mapTxLockReqRejected[n]
    /\ Acceptable(tx, mempool[n], mapLockedInputs[n], blocks[n])
    /\ mapTxLocks' = [mapTxLocks EXCEPT ![n] = CreateNewLock(n, tx)]
    /\ mempool' = [mempool EXCEPT ![n] = @ \union {tx}]
    /\ DoConsensusVote(n, tx, LockHeight(n, tx))
    /\ mapTxLockReq' = [mapTxLockReq EXCEPT ![n] = Put(@, tx, "full")]
    /\ UNCHANGED <<mapTxLockReqRejected, mapLockedInputs, blocks, list, clock, restarts>>

RejectIX(n, tx) ==
    /\ tx \notin DOMAIN mapTxLockReq[n] \union mapTxLockReqRejected[n]
    /\ ~Acceptable(tx, mempool[n], mapLockedInputs[n], blocks[n])
    /\ mapTxLockReqRejected' = [mapTxLockReqRejected EXCEPT ![n] = @ \union {tx}]
    /\ LET locks == CreateNewLock(n, tx)
           locked == LockInputs(mapLockedInputs[n], tx, Vin[tx])
           conflict == LockedByOther(tx, Vin[tx], locked) # {}
       IN  /\ mapLockedInputs' = [mapLockedInputs EXCEPT ![n] = locked]
           /\ \/ /\ ~IsComplete(locks, tx)
                 /\ mapTxLocks' = [mapTxLocks EXCEPT ![n] = locks]
                 /\ UNCHANGED <<mapTxLockReq, blocks, mempool>>
              \/ /\ IsComplete(locks, tx) /\ conflict
                 /\ mapTxLocks' = [mapTxLocks EXCEPT
                       ![n] = ExpireConflicting(locks, locked, tx, Vin[tx])]
                 /\ UNCHANGED <<mapTxLockReq, blocks, mempool>>
              \/ /\ IsComplete(locks, tx) /\ ~conflict
                 /\ mapTxLocks' = [mapTxLocks EXCEPT ![n] = locks]
                 /\ ReprocessBlocks(n, locked)
                 /\ mapTxLockReq' = [mapTxLockReq EXCEPT ![n] = Put(@, tx, "full")]
    /\ UNCHANGED <<mapTxLockVote, list, signed, clock, restarts>>

(* The lock map of n after ProcessConsensusVote has added the vote.        *)
AddSignature(n, v) ==
    LET lock == IF v.tx \in DOMAIN mapTxLocks[n] THEN mapTxLocks[n][v.tx] ELSE NewLock(0)
    IN  Put(mapTxLocks[n], v.tx,
            [lock EXCEPT !.vecConsensusVotes = Append(@, [mn |-> v.mn, nBlockHeight |-> v.nBlockHeight])])

(* The lock of v.tx is complete. operator[] puts a default-constructed     *)
(* transaction into mapTxLockReq if the request is not there.              *)
CompleteLock(n, v, locks) ==
    LET req == IF v.tx \in DOMAIN mapTxLockReq[n] THEN mapTxLockReq[n]
               ELSE Put(mapTxLockReq[n], v.tx, "empty")
        vin == IF req[v.tx] = "full" THEN Vin[v.tx] ELSE << >>
        locked == LockInputs(mapLockedInputs[n], v.tx, vin)
    IN  /\ mapTxLockReq' = [mapTxLockReq EXCEPT ![n] = req]
        /\ IF LockedByOther(v.tx, vin, mapLockedInputs[n]) # {}
           THEN /\ mapTxLocks' = [mapTxLocks EXCEPT
                      ![n] = ExpireConflicting(locks, mapLockedInputs[n], v.tx, vin)]
                /\ UNCHANGED <<mapLockedInputs, blocks, mempool>>
           ELSE /\ mapTxLocks' = [mapTxLocks EXCEPT ![n] = locks]
                /\ mapLockedInputs' = [mapLockedInputs EXCEPT ![n] = locked]
                /\ IF v.tx \in mapTxLockReqRejected[n]
                   THEN ReprocessBlocks(n, locked)
                   ELSE UNCHANGED <<blocks, mempool>>

(* Mutant: a vote is not recognised when it comes again.                   *)
ReceiveVoteAgain(n, v) ==
    /\ mapTxLockVote' = [mapTxLockVote EXCEPT ![n] = @ \union {<<v.mn, v.tx>>}]
    /\ GetMasternodeRank(n, v.mn, v.nBlockHeight) \in 1 .. TOTAL
    /\ LET locks == AddSignature(n, v) IN
       IF IsComplete(locks, v.tx)
       THEN CompleteLock(n, v, locks)
       ELSE /\ mapTxLocks' = [mapTxLocks EXCEPT ![n] = locks]
            /\ UNCHANGED <<mapTxLockReq, mapLockedInputs, blocks, mempool>>
    /\ UNCHANGED <<mapTxLockReqRejected, list, signed, clock, restarts>>

(* "txlvote" of a vote whose hash is new. It is remembered before its      *)
(* masternode's rank is looked at.                                         *)
ReceiveVote(n, v) ==
    /\ <<v.mn, v.tx>> \notin mapTxLockVote[n]
    /\ mapTxLockVote' = [mapTxLockVote EXCEPT ![n] = @ \union {<<v.mn, v.tx>>}]
    /\ IF GetMasternodeRank(n, v.mn, v.nBlockHeight) \notin 1 .. TOTAL
       THEN UNCHANGED <<mapTxLockReq, mapTxLocks, mapLockedInputs, blocks, mempool>>
       ELSE LET locks == AddSignature(n, v) IN
            IF IsComplete(locks, v.tx)
            THEN CompleteLock(n, v, locks)
            ELSE /\ mapTxLocks' = [mapTxLocks EXCEPT ![n] = locks]
                 /\ UNCHANGED <<mapTxLockReq, mapLockedInputs, blocks, mempool>>
    /\ UNCHANGED <<mapTxLockReqRejected, list, signed, clock, restarts>>

(* The wallet of n sends tx with "ix": CommitTransaction, then             *)
(* RelayWalletTransaction. insert() keeps an entry that is already there.  *)
WalletSend(n, tx) ==
    /\ Acceptable(tx, mempool[n], mapLockedInputs[n], blocks[n])
    /\ mempool' = [mempool EXCEPT ![n] = @ \union {tx}]
    /\ mapTxLockReq' = [mapTxLockReq EXCEPT
          ![n] = IF tx \in DOMAIN @ THEN @ ELSE Put(@, tx, "full")]
    /\ mapTxLocks' = [mapTxLocks EXCEPT ![n] = CreateNewLock(n, tx)]
    /\ UNCHANGED <<mapTxLockReqRejected, mapTxLockVote, mapLockedInputs, blocks,
                   list, signed, clock, restarts>>

(* CleanTransactionLocksList, once a minute in the obfuscation thread.     *)
CleanTransactionLocksList(n) ==
    LET expired == {tx \in DOMAIN mapTxLocks[n] : clock > mapTxLocks[n][tx].nExpiration}
        known == expired \intersect DOMAIN mapTxLockReq[n]
        full == {tx \in known : mapTxLockReq[n][tx] = "full"}
        counted(tx) == {<<mapTxLocks[n][tx].vecConsensusVotes[i].mn, tx>> :
                           i \in DOMAIN mapTxLocks[n][tx].vecConsensusVotes}
    IN  /\ expired # {}
        /\ mapTxLocks' = [mapTxLocks EXCEPT ![n] = Keep(@, Txs \ expired)]
        /\ mapTxLockReq' = [mapTxLockReq EXCEPT ![n] = Keep(@, Txs \ known)]
        /\ mapTxLockReqRejected' = [mapTxLockReqRejected EXCEPT ![n] = @ \ known]
        /\ mapLockedInputs' = [mapLockedInputs EXCEPT
              ![n] = Keep(@, Outpoints \ UNION {Inputs(tx) : tx \in full})]
        /\ mapTxLockVote' = [mapTxLockVote EXCEPT ![n] = @ \ UNION {counted(tx) : tx \in known}]
        /\ UNCHANGED <<mempool, blocks, list, signed, clock, restarts>>

-----------------------------------------------------------------------------
(* The rest of the node, as far as it touches the state above.             *)

(* An ordinary "tx" message.                                               *)
ReceiveTx(n, tx) ==
    /\ Acceptable(tx, mempool[n], mapLockedInputs[n], blocks[n])
    /\ mempool' = [mempool EXCEPT ![n] = @ \union {tx}]
    /\ UNCHANGED <<lockVars, blocks, list, signed, clock, restarts>>

(* Mutant: removeForBlock forgets what conflicts with the block.           *)
ConnectBlockKeepsConflicts(n, b) ==
    /\ Len(blocks[n]) < MaxBlocks
    /\ CheckBlock(b, mapLockedInputs[n])
    /\ b # Empty => Inputs(b) \intersect Spent(blocks[n]) = {}
    /\ blocks' = [blocks EXCEPT ![n] = Append(@, b)]
    /\ mempool' = [mempool EXCEPT ![n] = @ \ {b}]
    /\ UNCHANGED <<lockVars, list, signed, clock, restarts>>

(* A block on top of n's tip; what it contains and what conflicts with it  *)
(* leaves the pool (removeForBlock).                                       *)
ConnectBlock(n, b) ==
    /\ Len(blocks[n]) < MaxBlocks
    /\ CheckBlock(b, mapLockedInputs[n])
    /\ b # Empty => Inputs(b) \intersect Spent(blocks[n]) = {}
    /\ blocks' = [blocks EXCEPT ![n] = Append(@, b)]
    /\ mempool' = [mempool EXCEPT
          ![n] = IF b = Empty THEN @ ELSE {tx \in @ : tx # b /\ ~Conflict(tx, b)}]
    /\ UNCHANGED <<lockVars, list, signed, clock, restarts>>

(* Masternodes are announced, grow old enough, expire, are removed and     *)
(* come back: what n ranks changes.                                        *)
ChangeList(n, l) ==
    /\ l # list[n]
    /\ list' = [list EXCEPT ![n] = l]
    /\ UNCHANGED <<lockVars, mempool, blocks, signed, clock, restarts>>

Tick ==
    /\ clock < MaxTime
    /\ clock' = clock + 1
    /\ UNCHANGED <<lockVars, mempool, blocks, list, signed, restarts>>

(* All of this state is in memory only; the chain is on disk.              *)
Restart(n) ==
    /\ restarts < MaxRestarts
    /\ restarts' = restarts + 1
    /\ mapTxLockReq' = [mapTxLockReq EXCEPT ![n] = << >>]
    /\ mapTxLockReqRejected' = [mapTxLockReqRejected EXCEPT ![n] = {}]
    /\ mapTxLockVote' = [mapTxLockVote EXCEPT ![n] = {}]
    /\ mapTxLocks' = [mapTxLocks EXCEPT ![n] = << >>]
    /\ mapLockedInputs' = [mapLockedInputs EXCEPT ![n] = << >>]
    /\ mempool' = [mempool EXCEPT ![n] = {}]
    /\ UNCHANGED <<blocks, list, signed, clock>>

Next ==
    \/ \E n \in Nodes :
          \/ \E tx \in Txs : AcceptIX(n, tx) \/ RejectIX(n, tx)
          \/ \E tx \in Txs : WalletSend(n, tx) \/ ReceiveTx(n, tx)
          \/ \E v \in signed \union RemoteVotes : ReceiveVote(n, v)
          \/ CleanTransactionLocksList(n)
          \/ \E b \in Txs \union {Empty} : ConnectBlock(n, b)
          \/ \E l \in Lists : ChangeList(n, l)
          \/ Restart(n)
    \/ Tick

Spec == Init /\ [][Next]_vars

-----------------------------------------------------------------------------
(* Properties.                                                             *)

LockType == [nBlockHeight : Heights,
             vecConsensusVotes : Seq([mn : Masternodes, nBlockHeight : Heights]),
             nExpiration : Nat]

(* The maps of swifttx.cpp, the pool and the chain stay in their types; in *)
(* particular every lock height is 0 or the one its first input fixes.     *)
TypeOK ==
    /\ \A n \in Nodes :
          /\ DOMAIN mapTxLockReq[n] \subseteq Txs
          /\ \A tx \in DOMAIN mapTxLockReq[n] : mapTxLockReq[n][tx] \in {"full", "empty"}
          /\ mapTxLockReqRejected[n] \subseteq Txs
          /\ mapTxLockVote[n] \subseteq Masternodes \X Txs
          /\ DOMAIN mapTxLocks[n] \subseteq Txs
          /\ \A tx \in DOMAIN mapTxLocks[n] :
                mapTxLocks[n][tx] \in LockType
          /\ DOMAIN mapLockedInputs[n] \subseteq Outpoints
          /\ \A o \in DOMAIN mapLockedInputs[n] : o \in Inputs(mapLockedInputs[n][o])
          /\ mempool[n] \subseteq Txs
          /\ blocks[n] \in Seq(Txs \union {Empty})
          /\ list[n] \subseteq Masternodes
    /\ signed \subseteq Votes
    /\ clock \in 0 .. MaxTime /\ restarts \in 0 .. MaxRestarts

(* The masternodes behind the votes that a lock counts, if they signed.    *)
Quorum(tx, lock) ==
    {m \in Masternodes :
        /\ \E i \in DOMAIN lock.vecConsensusVotes :
              lock.vecConsensusVotes[i] = [mn |-> m, nBlockHeight |-> lock.nBlockHeight]
        /\ [mn |-> m, tx |-> tx, nBlockHeight |-> lock.nBlockHeight] \in signed \union RemoteVotes}

(* A lock that CountSignatures calls complete has REQUIRED different       *)
(* masternodes behind it, all of whom signed for the lock's own height:    *)
(* no duplicated message, clean-up, re-created lock or restart lets one    *)
(* vote count twice (mapTxLockVote forgets a vote only with the lock that  *)
(* counts it).                                                             *)
CompleteMeansQuorum ==
    \A n \in Nodes : \A tx \in DOMAIN mapTxLocks[n] :
        CountSignatures(mapTxLocks[n][tx]) >= REQUIRED =>
            Cardinality(Quorum(tx, mapTxLocks[n][tx])) >= REQUIRED

(* Whatever locks, clean-ups and reprocessed blocks do, the pool holds no  *)
(* double spend, neither within itself nor against the chain.              *)
PoolConsistent ==
    \A n \in Nodes :
        /\ \A x, y \in mempool[n] : ~Conflict(x, y)
        /\ \A tx \in mempool[n] : Inputs(tx) \intersect Spent(blocks[n]) = {}

(* Two conflicting transactions that are voted on at the same height, and  *)
(* so by the same masternodes, are never both locked, on whatever nodes,   *)
(* unless some masternode that signed has since lost the transaction from  *)
(* its pool (to a block or a restart): the pool's refusal of double spends *)
(* is all that keeps a masternode from signing both.                       *)
LockAgreement ==
    (\A v \in signed : v.tx \in mempool[v.mn]) =>
        \A n, k \in Nodes : \A x \in DOMAIN mapTxLocks[n], y \in DOMAIN mapTxLocks[k] :
            Conflict(x, y) /\ mapTxLocks[n][x].nBlockHeight = mapTxLocks[k][y].nBlockHeight
                => ~(IsComplete(mapTxLocks[n], x) /\ IsComplete(mapTxLocks[k], y))

(* "if two conflicting locks are approved by the network, they will cancel *)
(* out" (swifttx.h:51).                                                    *)
ConflictingLocksCancelOut ==
    \A n \in Nodes : \A x, y \in DOMAIN mapTxLocks[n] :
        Conflict(x, y) /\ IsComplete(mapTxLocks[n], x) /\ IsComplete(mapTxLocks[n], y)
            /\ {x, y} \subseteq mapTxLockReqRejected[n] \union
                  {tx \in DOMAIN mapTxLockReq[n] : mapTxLockReq[n][tx] = "full"}
        => mapTxLocks[n][x].nExpiration <= clock /\ mapTxLocks[n][y].nExpiration <= clock

(* "only reject blocks when it's based on complete consensus"              *)
(* (main.cpp:3289): what CheckBlock looks at are the locked inputs.        *)
LockedInputsHaveConsensus ==
    \A n \in Nodes : \A o \in DOMAIN mapLockedInputs[n] :
        IsComplete(mapTxLocks[n], mapLockedInputs[n][o])

(* "locks expire after 60 minutes" (swifttx.cpp:236): once the clean-up    *)
(* has dropped a transaction's lock it no longer locks any input.          *)
ExpiredLocksRelease ==
    [][\A n \in Nodes : \A o \in DOMAIN mapLockedInputs'[n] :
         LET tx == mapLockedInputs'[n][o] IN
         tx \in DOMAIN mapTxLocks[n] => tx \in DOMAIN mapTxLocks'[n]]_vars

=============================================================================
