--------------------------- MODULE SwiftTXProofs ---------------------------
(***************************************************************************)
(* SwiftTX for any number of nodes, masternodes, transactions and votes:   *)
(* its type invariant, the quorum behind a complete lock, the absence of   *)
(* double spends from the pools, and the agreement between nodes.          *)
(*                                                                         *)
(* CompleteMeansQuorum is not inductive: that a vote which comes again is  *)
(* not counted again rests on mapTxLockVote remembering every vote that is *)
(* in some lock. VoteInv says so, for each lock of each node. PoolInv and  *)
(* AgreeInv are explained where they are stated.                           *)
(***************************************************************************)
EXTENDS SwiftTX, FiniteSetTheorems, SequenceTheorems, WellFoundedInduction, TLAPS

(* The maps are maps of the nodes.                                         *)
Shape ==
    /\ DOMAIN mapTxLockReq = Nodes /\ DOMAIN mapTxLockReqRejected = Nodes
    /\ DOMAIN mapTxLockVote = Nodes /\ DOMAIN mapTxLocks = Nodes
    /\ DOMAIN mapLockedInputs = Nodes /\ DOMAIN mempool = Nodes
    /\ DOMAIN blocks = Nodes /\ DOMAIN list = Nodes

VoteRec == [mn : Masternodes, nBlockHeight : Heights]

LockMap(locks) ==
    /\ DOMAIN locks \subseteq Txs
    /\ \A tx \in DOMAIN locks : locks[tx] \in LockType

InputMap(locked) ==
    /\ DOMAIN locked \subseteq Outpoints
    /\ \A o \in DOMAIN locked : o \in Inputs(locked[o])

ReqMap(req) ==
    /\ DOMAIN req \subseteq Txs
    /\ \A tx \in DOMAIN req : req[tx] \in {"full", "empty"}

(* Every vote in a lock was signed, is remembered in votes, and is the     *)
(* only one of its masternode in that lock.                                *)
Backed(locks, votes, all) ==
    \A tx \in DOMAIN locks :
        LET vec == locks[tx].vecConsensusVotes IN
        \A i \in DOMAIN vec :
            /\ [mn |-> vec[i].mn, tx |-> tx, nBlockHeight |-> vec[i].nBlockHeight] \in all
            /\ <<vec[i].mn, tx>> \in votes
            /\ \A j \in DOMAIN vec : vec[j].mn = vec[i].mn => j = i

VoteInv ==
    \A n \in Nodes : Backed(mapTxLocks[n], mapTxLockVote[n], signed \union RemoteVotes)

IInv == TypeOK /\ Shape /\ VoteInv

(* Each lock of new is empty or has the votes of the same lock in old.     *)
SameVotes(new, old) ==
    \A tx \in DOMAIN new :
        \/ new[tx].vecConsensusVotes = << >>
        \/ /\ tx \in DOMAIN old
           /\ new[tx].vecConsensusVotes = old[tx].vecConsensusVotes

-----------------------------------------------------------------------------
(* The operators.                                                          *)

(* A set of indices that is not empty has a first one.                     *)
LEMMA FirstIsLeast ==
    ASSUME NEW S \in SUBSET Nat, S # {}
    PROVE  First(S) \in S /\ \A j \in S : First(S) <= j
<1>1. \E m \in S : \A j \in S : ~(<<j, m>> \in OpToRel(<, Nat))
  BY NatLessThanWellFounded, WFMin
<1>2. PICK m \in S : \A j \in S : ~(<<j, m>> \in OpToRel(<, Nat))
  BY <1>1
<1>3. \A j \in S : ~(j < m)
  BY <1>2 DEF OpToRel
<1>4. \A j \in S : m <= j
  BY <1>3
<1>. QED  BY <1>4 DEF First

(* The inputs of a transaction are outpoints, and it has a first one.      *)
LEMMA InputsType ==
    ASSUME NEW tx \in Txs
    PROVE  /\ Inputs(tx) \subseteq Outpoints
           /\ Vin[tx] \in Seq(Outpoints)
           /\ Vin[tx][1] \in Inputs(tx)
           /\ Vin[tx][1] \in Outpoints
<1>1. Vin[tx] \in Seq(Outpoints) /\ Vin[tx] # << >>
  BY TxAssumption
<1>2. 1 \in DOMAIN Vin[tx]
  BY <1>1
<1>3. \A i \in DOMAIN Vin[tx] : Vin[tx][i] \in Outpoints
  BY <1>1, ElementOfSeq, LenProperties
<1>. QED  BY <1>1, <1>2, <1>3 DEF Inputs

(* A lock height is 0, or the one that the first input's block fixes: the  *)
(* length of the chain cancels out.                                        *)
LEMMA LockHeightType ==
    ASSUME TypeOK, NEW n \in Nodes, NEW tx \in Txs
    PROVE  LockHeight(n, tx) \in Heights
<1>1. CASE \E o \in Inputs(tx) : GetInputAge(n, o) < 5
  BY <1>1 DEF LockHeight, Heights
<1>2. CASE ~\E o \in Inputs(tx) : GetInputAge(n, o) < 5
  <2>. DEFINE o1 == Vin[tx][1]
  <2>1. ~(GetInputAge(n, o1) < 5) /\ o1 \in Outpoints
    BY <1>2, InputsType
  <2>2. GetInputAge(n, o1) = BaseHeight + Len(blocks[n]) + 1 - InputHeight[o1]
    BY <2>1 DEF GetInputAge
  <2>3. blocks[n] \in Seq(Txs \union {Empty})
    BY DEF TypeOK
  <2>4. Len(blocks[n]) \in Nat
    BY <2>3, LenProperties
  <2>5. BaseHeight \in Nat /\ InputHeight[o1] \in Nat
    BY SizesAssumption, TxAssumption, <2>1
  <2>6. LockHeight(n, tx) = BaseHeight + Len(blocks[n]) - GetInputAge(n, o1) + 4
    BY <1>2 DEF LockHeight
  <2>7. LockHeight(n, tx) = InputHeight[o1] + 3
    BY <2>2, <2>4, <2>5, <2>6
  <2>. QED  BY <2>1, <2>7 DEF Heights
<1>. QED  BY <1>1, <1>2

(* A lock as CreateNewLock and ProcessConsensusVote first build it.        *)
LEMMA NewLockType ==
    ASSUME TypeOK, NEW h \in Heights
    PROVE  NewLock(h) \in LockType /\ NewLock(h).vecConsensusVotes = << >>
<1>1. clock + LOCK_TIME \in Nat
  BY SizesAssumption DEF TypeOK
<1>2. << >> \in Seq(VoteRec)
  BY EmptySeq
<1>. QED  BY <1>1, <1>2 DEF NewLock, LockType, VoteRec

(* CreateNewLock changes the height of a lock, never its votes.            *)
LEMMA CreateNewLockType ==
    ASSUME TypeOK, NEW n \in Nodes, NEW tx \in Txs
    PROVE  LockMap(CreateNewLock(n, tx)) /\ SameVotes(CreateNewLock(n, tx), mapTxLocks[n])
<1>1. LockMap(mapTxLocks[n])
  BY DEF TypeOK, LockMap
<1>. DEFINE h == LockHeight(n, tx)
<1>2. h \in Heights
  BY LockHeightType
<1>3. CASE h = 0
  BY <1>1, <1>3 DEF CreateNewLock, SameVotes
<1>4. CASE h # 0 /\ tx \in DOMAIN mapTxLocks[n]
  <2>. DEFINE lock == [mapTxLocks[n][tx] EXCEPT !.nBlockHeight = h]
  <2>1. CreateNewLock(n, tx) = Put(mapTxLocks[n], tx, lock)
    BY <1>4 DEF CreateNewLock
  <2>2. mapTxLocks[n][tx] \in LockType
    BY <1>1, <1>4 DEF LockMap
  <2>3. lock \in LockType /\ lock.vecConsensusVotes = mapTxLocks[n][tx].vecConsensusVotes
    BY <1>2, <2>2 DEF LockType
  <2>. HIDE DEF lock
  <2>. QED  BY <1>1, <1>4, <2>1, <2>3 DEF Put, LockMap, SameVotes
<1>5. CASE h # 0 /\ tx \notin DOMAIN mapTxLocks[n]
  <2>1. CreateNewLock(n, tx) = Put(mapTxLocks[n], tx, NewLock(h))
    BY <1>5 DEF CreateNewLock
  <2>. QED  BY <1>1, <1>2, <2>1, NewLockType DEF Put, LockMap, SameVotes
<1>. QED  BY <1>3, <1>4, <1>5

(* Letting locks expire leaves their votes alone.                          *)
LEMMA ExpireType ==
    ASSUME TypeOK, NEW locks, LockMap(locks), NEW locked, NEW tx, NEW vin
    PROVE  /\ LockMap(ExpireConflicting(locks, locked, tx, vin))
           /\ SameVotes(ExpireConflicting(locks, locked, tx, vin), locks)
           /\ DOMAIN ExpireConflicting(locks, locked, tx, vin) = DOMAIN locks
<1>. DEFINE other == locked[vin[First(LockedByOther(tx, vin, locked))]]
            new == [x \in DOMAIN locks |->
                      IF x = tx \/ x = other THEN [locks[x] EXCEPT !.nExpiration = clock]
                      ELSE locks[x]]
<1>1. ExpireConflicting(locks, locked, tx, vin) = new
  BY DEF ExpireConflicting
<1>2. clock \in Nat
  BY SizesAssumption DEF TypeOK
<1>. HIDE DEF other
<1>3. ASSUME NEW x \in DOMAIN locks
      PROVE  new[x] \in LockType /\ new[x].vecConsensusVotes = locks[x].vecConsensusVotes
  BY <1>2, <1>3 DEF LockMap, LockType
<1>4. DOMAIN new = DOMAIN locks
  OBVIOUS
<1>. HIDE DEF new
<1>. QED  BY <1>1, <1>3, <1>4 DEF LockMap, SameVotes

(* Keeping the votes of a lock map composes.                               *)
LEMMA SameVotesTransitive ==
    ASSUME NEW a, NEW b, NEW c, SameVotes(a, b), SameVotes(b, c)
    PROVE  SameVotes(a, c)
  BY DEF SameVotes

(* A lock map keeps its own votes.                                         *)
LEMMA SameVotesReflexive ==
    ASSUME NEW a
    PROVE  SameVotes(a, a)
  BY DEF SameVotes

(* What keeps the votes keeps them backed.                                 *)
LEMMA SameVotesBacked ==
    ASSUME NEW new, NEW old, SameVotes(new, old),
           NEW v, NEW w, NEW all, NEW more, Backed(old, v, all),
           v \subseteq w, all \subseteq more
    PROVE  Backed(new, w, more)
<1>. SUFFICES ASSUME NEW tx \in DOMAIN new,
                     NEW i \in DOMAIN new[tx].vecConsensusVotes
     PROVE  LET vec == new[tx].vecConsensusVotes IN
            /\ [mn |-> vec[i].mn, tx |-> tx, nBlockHeight |-> vec[i].nBlockHeight] \in more
            /\ <<vec[i].mn, tx>> \in w
            /\ \A j \in DOMAIN vec : vec[j].mn = vec[i].mn => j = i
  BY DEF Backed
<1>1. CASE new[tx].vecConsensusVotes = << >>
  BY <1>1
<1>2. CASE tx \in DOMAIN old /\ new[tx].vecConsensusVotes = old[tx].vecConsensusVotes
  BY <1>2 DEF Backed
<1>. QED  BY <1>1, <1>2 DEF SameVotes

(* Inputs are locked only by a transaction that spends them.               *)
LEMMA LockInputsType ==
    ASSUME NEW locked, InputMap(locked), NEW tx \in Txs, NEW vin, vin \in {Vin[tx], << >>}
    PROVE  InputMap(LockInputs(locked, tx, vin))
<1>. DEFINE new == {vin[i] : i \in DOMAIN vin} \ DOMAIN locked
<1>1. new \subseteq Inputs(tx)
  BY DEF Inputs
<1>2. LockInputs(locked, tx, vin) =
        [o \in DOMAIN locked \union new |-> IF o \in new THEN tx ELSE locked[o]]
  BY DEF LockInputs
<1>. HIDE DEF new
<1>. QED  BY <1>1, <1>2, InputsType DEF InputMap

(* Reprocessing keeps a prefix of the chain.                               *)
LEMMA ReprocessedType ==
    ASSUME NEW chain \in Seq(Txs \union {Empty}), NEW locked
    PROVE  Reprocessed(chain, locked) \in Seq(Txs \union {Empty})
<1>. DEFINE bad == {i \in DOMAIN chain : ~CheckBlock(chain[i], locked)}
<1>1. CASE bad = {}
  BY <1>1 DEF Reprocessed
<1>2. CASE bad # {}
  <2>1. DOMAIN chain = 1 .. Len(chain) /\ Len(chain) \in Nat
    BY LenProperties
  <2>2. bad \in SUBSET Nat
    BY <2>1
  <2>3. First(bad) \in bad
    BY <1>2, <2>2, FirstIsLeast
  <2>4. First(bad) \in 1 .. Len(chain)
    BY <2>1, <2>3
  <2>5. Reprocessed(chain, locked) = SubSeq(chain, 1, First(bad) - 1)
    BY <1>2 DEF Reprocessed
  <2>. HIDE DEF bad
  <2>6. \A i \in 1 .. (First(bad) - 1) : chain[i] \in Txs \union {Empty}
    BY <2>4, ElementOfSeq
  <2>. QED  BY <2>4, <2>5, <2>6, SubSeqProperties
<1>. QED  BY <1>1, <1>2

(* What comes back to the pool are transactions.                           *)
LEMMA ResurrectedType ==
    ASSUME NEW pool \in SUBSET Txs, NEW chain \in Seq(Txs \union {Empty}), NEW locked
    PROVE  Resurrected(pool, chain, locked) \subseteq Txs
<1>. DEFINE kept == Reprocessed(chain, locked)
            dropped == {chain[i] : i \in (Len(kept) + 1) .. Len(chain)}
<1>1. Len(kept) \in Nat /\ Len(chain) \in Nat
  BY ReprocessedType, LenProperties
<1>2. dropped \subseteq Txs \union {Empty}
  BY <1>1, ElementOfSeq
<1>3. Resurrected(pool, chain, locked) =
        pool \union {tx \in dropped \ {Empty} : Acceptable(tx, pool, locked, kept)}
  BY DEF Resurrected
<1>. HIDE DEF dropped, kept
<1>. QED  BY <1>2, <1>3

-----------------------------------------------------------------------------
(* The invariant.                                                          *)

(* The locks keep their votes and no vote is forgotten.                    *)
LEMMA VotesKept ==
    ASSUME VoteInv, signed \subseteq signed',
           \A k \in Nodes : /\ SameVotes(mapTxLocks'[k], mapTxLocks[k])
                            /\ mapTxLockVote[k] \subseteq mapTxLockVote'[k]
    PROVE  VoteInv'
<1>. SUFFICES ASSUME NEW k \in Nodes
     PROVE  Backed(mapTxLocks'[k], mapTxLockVote'[k], signed' \union RemoteVotes)
  BY DEF VoteInv
<1>1. Backed(mapTxLocks[k], mapTxLockVote[k], signed \union RemoteVotes)
  BY DEF VoteInv
<1>2. signed \union RemoteVotes \subseteq signed' \union RemoteVotes
  OBVIOUS
<1>. QED  BY <1>1, <1>2, SameVotesBacked

(* TypeOK in the terms of this module.                                     *)
NodeType(n) ==
    /\ ReqMap(mapTxLockReq[n])
    /\ mapTxLockReqRejected[n] \subseteq Txs
    /\ mapTxLockVote[n] \subseteq Masternodes \X Txs
    /\ LockMap(mapTxLocks[n])
    /\ InputMap(mapLockedInputs[n])
    /\ mempool[n] \subseteq Txs
    /\ blocks[n] \in Seq(Txs \union {Empty})
    /\ list[n] \subseteq Masternodes

GlobalType ==
    signed \subseteq Votes /\ clock \in 0 .. MaxTime /\ restarts \in 0 .. MaxRestarts

(* TypeOK, node by node.                                                   *)
LEMMA TypeParts == TypeOK <=> (GlobalType /\ \A n \in Nodes : NodeType(n))
  BY DEF TypeOK, GlobalType, NodeType, ReqMap, LockMap, InputMap

(* The invariant holds when the nodes start.                               *)
LEMMA InitIInv ==
    ASSUME Init
    PROVE  IInv
<1>1. Shape
  BY DEF Init, Shape
<1>2. \A n \in Nodes : NodeType(n)
  <2>. SUFFICES ASSUME NEW n \in Nodes PROVE NodeType(n)
    OBVIOUS
  <2>1. /\ mapTxLockReq[n] = << >> /\ mapTxLocks[n] = << >>
        /\ mapLockedInputs[n] = << >> /\ blocks[n] = << >>
        /\ mapTxLockReqRejected[n] = {} /\ mapTxLockVote[n] = {} /\ mempool[n] = {}
        /\ list[n] \in Lists
    BY DEF Init
  <2>2. DOMAIN << >> = {}
    OBVIOUS
  <2>3. << >> \in Seq(Txs \union {Empty})
    BY EmptySeq
  <2>4. list[n] \subseteq Masternodes
    BY <2>1, MasternodesAssumption
  <2>. QED  BY <2>1, <2>2, <2>3, <2>4 DEF NodeType, ReqMap, LockMap, InputMap
<1>3. GlobalType
  BY SizesAssumption DEF Init, GlobalType
<1>4. VoteInv
  BY DEF Init, VoteInv, Backed
<1>. QED  BY <1>1, <1>2, <1>3, <1>4, TypeParts DEF IInv

(* A masternode signs for a height that is a height, and forgets nothing.  *)
LEMMA DoConsensusVoteType ==
    ASSUME IInv, NEW n \in Nodes, NEW tx \in Txs, NEW h \in Heights, DoConsensusVote(n, tx, h)
    PROVE  /\ signed \subseteq signed' /\ signed' \subseteq Votes
           /\ DOMAIN mapTxLockVote' = Nodes
           /\ \A k \in Nodes : /\ mapTxLockVote[k] \subseteq mapTxLockVote'[k]
                               /\ mapTxLockVote'[k] \subseteq Masternodes \X Txs
<1>1. /\ signed \subseteq Votes /\ DOMAIN mapTxLockVote = Nodes
      /\ \A k \in Nodes : mapTxLockVote[k] \subseteq Masternodes \X Txs
  BY DEF IInv, TypeOK, Shape
<1>2. CASE /\ n \in Masternodes
           /\ signed' = signed \union {[mn |-> n, tx |-> tx, nBlockHeight |-> h]}
           /\ mapTxLockVote' = [mapTxLockVote EXCEPT ![n] = @ \union {<<n, tx>>}]
  BY <1>1, <1>2 DEF Votes
<1>3. CASE UNCHANGED <<signed, mapTxLockVote>>
  BY <1>1, <1>3
<1>. QED  BY <1>2, <1>3 DEF DoConsensusVote

(* ReprocessBlocks leaves a pool and a chain of the right type.            *)
LEMMA ReprocessBlocksType ==
    ASSUME IInv, NEW n \in Nodes, NEW locked, ReprocessBlocks(n, locked)
    PROVE  /\ DOMAIN blocks' = Nodes /\ DOMAIN mempool' = Nodes
           /\ \A k \in Nodes : /\ blocks'[k] \in Seq(Txs \union {Empty})
                               /\ mempool'[k] \subseteq Txs
<1>1. /\ DOMAIN blocks = Nodes /\ DOMAIN mempool = Nodes
      /\ \A k \in Nodes : blocks[k] \in Seq(Txs \union {Empty}) /\ mempool[k] \in SUBSET Txs
  BY DEF IInv, TypeOK, Shape
<1>2. Reprocessed(blocks[n], locked) \in Seq(Txs \union {Empty})
  BY <1>1, ReprocessedType
<1>3. Resurrected(mempool[n], blocks[n], locked) \subseteq Txs
  BY <1>1, ResurrectedType
<1>. QED  BY <1>1, <1>2, <1>3 DEF ReprocessBlocks

(* The whole invariant from its parts in the next state.                   *)
LEMMA Combine ==
    ASSUME GlobalType', Shape', \A k \in Nodes : NodeType(k)', VoteInv'
    PROVE  IInv'
<1>1. TypeOK'
  BY DEF TypeOK, GlobalType, NodeType, ReqMap, LockMap, InputMap
<1>. QED  BY <1>1 DEF IInv

(* "ix", accepted: the lock is created or gets its height.                 *)
LEMMA AcceptIXStep ==
    ASSUME IInv, NEW n \in Nodes, NEW tx \in Txs, AcceptIX(n, tx)
    PROVE  IInv'
<1>1. TypeOK /\ Shape /\ VoteInv /\ GlobalType /\ \A k \in Nodes : NodeType(k)
  BY TypeParts DEF IInv
<1>. DEFINE new == CreateNewLock(n, tx)
<1>2. LockMap(new) /\ SameVotes(new, mapTxLocks[n])
  BY <1>1, CreateNewLockType
<1>3. /\ signed \subseteq signed' /\ signed' \subseteq Votes
      /\ DOMAIN mapTxLockVote' = Nodes
      /\ \A k \in Nodes : /\ mapTxLockVote[k] \subseteq mapTxLockVote'[k]
                          /\ mapTxLockVote'[k] \subseteq Masternodes \X Txs
  BY <1>1, LockHeightType, DoConsensusVoteType DEF AcceptIX
<1>4. /\ mapTxLocks' = [mapTxLocks EXCEPT ![n] = new]
      /\ mempool' = [mempool EXCEPT ![n] = @ \union {tx}]
      /\ mapTxLockReq' = [mapTxLockReq EXCEPT ![n] = Put(@, tx, "full")]
      /\ UNCHANGED <<mapTxLockReqRejected, mapLockedInputs, blocks, list, clock, restarts>>
  BY DEF AcceptIX
<1>. HIDE DEF new
<1>5. Shape'
  BY <1>1, <1>3, <1>4 DEF Shape
<1>6. GlobalType'
  BY <1>1, <1>3, <1>4 DEF GlobalType
<1>7. ASSUME NEW k \in Nodes PROVE NodeType(k)'
  <2>1. ReqMap(mapTxLockReq'[k])
    BY <1>1, <1>4 DEF Shape, NodeType, ReqMap, Put
  <2>2. LockMap(mapTxLocks'[k])
    BY <1>1, <1>2, <1>4 DEF Shape, NodeType
  <2>3. mempool'[k] \subseteq Txs
    BY <1>1, <1>4 DEF Shape, NodeType
  <2>4. NodeType(k)
    BY <1>1
  <2>5. /\ mapTxLockReqRejected'[k] \subseteq Txs /\ InputMap(mapLockedInputs'[k])
        /\ blocks'[k] \in Seq(Txs \union {Empty}) /\ list'[k] \subseteq Masternodes
    BY <1>4, <2>4 DEF NodeType
  <2>. QED  BY <1>3, <2>1, <2>2, <2>3, <2>5 DEF NodeType
<1>8. ASSUME NEW k \in Nodes PROVE SameVotes(mapTxLocks'[k], mapTxLocks[k])
  BY <1>1, <1>2, <1>4, SameVotesReflexive DEF Shape
<1>9. VoteInv'
  BY <1>1, <1>3, <1>8, VotesKept
<1>. QED  BY <1>5, <1>6, <1>7, <1>9, Combine

(* "ix", rejected: inputs are locked, locks may expire.                    *)
LEMMA RejectIXStep ==
    ASSUME IInv, NEW n \in Nodes, NEW tx \in Txs, RejectIX(n, tx)
    PROVE  IInv'
<1>1. TypeOK /\ Shape /\ VoteInv /\ GlobalType /\ \A k \in Nodes : NodeType(k)
  BY TypeParts DEF IInv
<1>. DEFINE locks == CreateNewLock(n, tx)
            locked == LockInputs(mapLockedInputs[n], tx, Vin[tx])
            expired == ExpireConflicting(locks, locked, tx, Vin[tx])
<1>2. LockMap(locks) /\ SameVotes(locks, mapTxLocks[n])
  BY <1>1, CreateNewLockType
<1>3. LockMap(expired) /\ SameVotes(expired, locks)
  BY <1>1, <1>2, ExpireType
<1>4. SameVotes(expired, mapTxLocks[n])
  BY <1>2, <1>3, SameVotesTransitive
<1>5. InputMap(locked)
  BY <1>1, LockInputsType DEF NodeType
<1>6. /\ mapTxLockReqRejected' = [mapTxLockReqRejected EXCEPT ![n] = @ \union {tx}]
      /\ mapLockedInputs' = [mapLockedInputs EXCEPT ![n] = locked]
      /\ \/ mapTxLocks' = [mapTxLocks EXCEPT ![n] = locks]
         \/ mapTxLocks' = [mapTxLocks EXCEPT ![n] = expired]
      /\ \/ UNCHANGED <<mapTxLockReq, blocks, mempool>>
         \/ /\ ReprocessBlocks(n, locked)
            /\ mapTxLockReq' = [mapTxLockReq EXCEPT ![n] = Put(@, tx, "full")]
      /\ UNCHANGED <<mapTxLockVote, list, signed, clock, restarts>>
  BY DEF RejectIX
<1>. HIDE DEF locks, locked, expired
<1>7. /\ DOMAIN blocks' = Nodes /\ DOMAIN mempool' = Nodes
      /\ \A k \in Nodes : blocks'[k] \in Seq(Txs \union {Empty}) /\ mempool'[k] \subseteq Txs
  <2>1. CASE UNCHANGED <<mapTxLockReq, blocks, mempool>>
    BY <1>1, <2>1 DEF Shape, NodeType
  <2>2. CASE ReprocessBlocks(n, locked)
    BY <2>2, ReprocessBlocksType
  <2>. QED  BY <1>6, <2>1, <2>2
<1>8. /\ DOMAIN mapTxLockReq' = Nodes
      /\ \A k \in Nodes : ReqMap(mapTxLockReq'[k])
  <2>1. CASE UNCHANGED mapTxLockReq
    BY <1>1, <2>1 DEF Shape, NodeType
  <2>2. CASE mapTxLockReq' = [mapTxLockReq EXCEPT ![n] = Put(@, tx, "full")]
    BY <1>1, <2>2 DEF Shape, NodeType, ReqMap, Put
  <2>. QED  BY <1>6, <2>1, <2>2
<1>9. /\ DOMAIN mapTxLocks' = Nodes
      /\ \A k \in Nodes : LockMap(mapTxLocks'[k]) /\ SameVotes(mapTxLocks'[k], mapTxLocks[k])
  <2>1. CASE mapTxLocks' = [mapTxLocks EXCEPT ![n] = locks]
    BY <1>1, <1>2, <2>1, SameVotesReflexive DEF Shape, NodeType
  <2>2. CASE mapTxLocks' = [mapTxLocks EXCEPT ![n] = expired]
    BY <1>1, <1>3, <1>4, <2>2, SameVotesReflexive DEF Shape, NodeType
  <2>. QED  BY <1>6, <2>1, <2>2
<1>10. Shape'
  BY <1>1, <1>6, <1>7, <1>8, <1>9 DEF Shape
<1>11. GlobalType'
  BY <1>1, <1>6 DEF GlobalType
<1>12. ASSUME NEW k \in Nodes PROVE NodeType(k)'
  <2>1. NodeType(k)
    BY <1>1
  <2>2. InputMap(mapLockedInputs'[k])
    BY <1>1, <1>5, <1>6, <2>1 DEF Shape, NodeType
  <2>3. mapTxLockReqRejected'[k] \subseteq Txs
    BY <1>1, <1>6, <2>1 DEF Shape, NodeType
  <2>4. mapTxLockVote'[k] \subseteq Masternodes \X Txs /\ list'[k] \subseteq Masternodes
    BY <1>6, <2>1 DEF NodeType
  <2>. QED  BY <1>7, <1>8, <1>9, <2>2, <2>3, <2>4 DEF NodeType
<1>13. VoteInv'
  <2>1. signed \subseteq signed' /\ \A k \in Nodes : mapTxLockVote[k] \subseteq mapTxLockVote'[k]
    BY <1>6
  <2>. QED  BY <1>1, <1>9, <2>1, VotesKept
<1>. QED  BY <1>10, <1>11, <1>12, <1>13, Combine

(* The vote that is added is the first of its masternode in the lock.      *)
LEMMA AddSignatureType ==
    ASSUME IInv, NEW n \in Nodes, NEW v \in signed \union RemoteVotes,
           <<v.mn, v.tx>> \notin mapTxLockVote[n]
    PROVE  /\ LockMap(AddSignature(n, v))
           /\ Backed(AddSignature(n, v), mapTxLockVote[n] \union {<<v.mn, v.tx>>},
                     signed \union RemoteVotes)
<1>1. TypeOK /\ LockMap(mapTxLocks[n])
      /\ Backed(mapTxLocks[n], mapTxLockVote[n], signed \union RemoteVotes)
  BY DEF IInv, TypeOK, LockMap, VoteInv
<1>2. v \in Votes
  BY VotesAssumption DEF IInv, TypeOK
<1>3. v.mn \in Masternodes /\ v.tx \in Txs /\ v.nBlockHeight \in Heights
      /\ v = [mn |-> v.mn, tx |-> v.tx, nBlockHeight |-> v.nBlockHeight]
  BY <1>2 DEF Votes
<1>. DEFINE lock == IF v.tx \in DOMAIN mapTxLocks[n] THEN mapTxLocks[n][v.tx] ELSE NewLock(0)
            vec == lock.vecConsensusVotes
            vote == [mn |-> v.mn, nBlockHeight |-> v.nBlockHeight]
            new == [lock EXCEPT !.vecConsensusVotes = Append(@, vote)]
<1>4. AddSignature(n, v) = Put(mapTxLocks[n], v.tx, new)
  BY DEF AddSignature
<1>5. 0 \in Heights
  BY DEF Heights
<1>6. lock \in LockType
  BY <1>1, <1>5, NewLockType DEF LockMap
<1>7. vec \in Seq(VoteRec) /\ vote \in VoteRec
  BY <1>3, <1>6 DEF LockType, VoteRec
<1>8. \A i \in DOMAIN vec :
        /\ [mn |-> vec[i].mn, tx |-> v.tx, nBlockHeight |-> vec[i].nBlockHeight]
              \in signed \union RemoteVotes
        /\ <<vec[i].mn, v.tx>> \in mapTxLockVote[n]
        /\ \A j \in DOMAIN vec : vec[j].mn = vec[i].mn => j = i
  <2>1. CASE v.tx \in DOMAIN mapTxLocks[n]
    BY <1>1, <2>1 DEF Backed
  <2>2. CASE v.tx \notin DOMAIN mapTxLocks[n]
    <3>1. vec = << >>
      BY <1>1, <1>5, <2>2, NewLockType
    <3>. QED  BY <3>1
  <2>. QED  BY <2>1, <2>2
<1>. HIDE DEF vote
<1>9. new \in LockType /\ new.vecConsensusVotes = Append(vec, vote)
  <2>. HIDE DEF lock
  <2>1. Append(vec, vote) \in Seq(VoteRec)
    BY <1>7, AppendProperties
  <2>. QED  BY <1>6, <2>1 DEF LockType, VoteRec
<1>10. /\ DOMAIN Append(vec, vote) = 1 .. (Len(vec) + 1) /\ DOMAIN vec = 1 .. Len(vec)
       /\ Len(vec) \in Nat
       /\ \A i \in 1 .. Len(vec) : Append(vec, vote)[i] = vec[i]
       /\ Append(vec, vote)[Len(vec) + 1] = vote
  BY <1>7, AppendProperties, LenProperties
<1>. HIDE DEF lock, vec, new
<1>11. LockMap(AddSignature(n, v))
  BY <1>1, <1>3, <1>4, <1>9 DEF LockMap, Put
<1>12. ASSUME NEW i \in DOMAIN new.vecConsensusVotes
       PROVE  LET w == new.vecConsensusVotes IN
              /\ [mn |-> w[i].mn, tx |-> v.tx, nBlockHeight |-> w[i].nBlockHeight]
                    \in signed \union RemoteVotes
              /\ <<w[i].mn, v.tx>> \in mapTxLockVote[n] \union {<<v.mn, v.tx>>}
              /\ \A j \in DOMAIN w : w[j].mn = w[i].mn => j = i
  <2>. DEFINE w == Append(vec, vote)
  <2>1. new.vecConsensusVotes = w
    BY <1>9
  <2>2. w[Len(vec) + 1].mn = v.mn /\ w[Len(vec) + 1].nBlockHeight = v.nBlockHeight
    BY <1>10 DEF vote
  <2>3. \A j \in 1 .. Len(vec) : w[j] = vec[j] /\ w[j].mn # v.mn
    BY <1>8, <1>10
  <2>4. i \in 1 .. (Len(vec) + 1)
    BY <1>10, <2>1
  <2>. HIDE DEF w
  <2>5. CASE i = Len(vec) + 1
    <3>1. \A j \in 1 .. (Len(vec) + 1) : w[j].mn = w[i].mn => j = i
      BY <1>10, <2>2, <2>3, <2>5
    <3>2. DOMAIN w = 1 .. (Len(vec) + 1)
      BY <1>10 DEF w
    <3>. QED  BY <1>3, <2>1, <2>2, <2>5, <3>1, <3>2
  <2>6. CASE i \in 1 .. Len(vec)
    <3>1. ASSUME NEW j \in 1 .. (Len(vec) + 1), w[j].mn = w[i].mn PROVE j = i
      <4>1. j # Len(vec) + 1
        BY <2>2, <2>3, <2>6, <3>1
      <4>2. j \in DOMAIN vec /\ i \in DOMAIN vec
        BY <1>10, <2>6, <4>1
      <4>3. w[j] = vec[j] /\ w[i] = vec[i]
        BY <1>10, <2>3, <4>2
      <4>. QED  BY <1>8, <3>1, <4>2, <4>3
    <3>2. DOMAIN w = 1 .. (Len(vec) + 1)
      BY <1>10 DEF w
    <3>3. /\ [mn |-> w[i].mn, tx |-> v.tx, nBlockHeight |-> w[i].nBlockHeight]
                \in signed \union RemoteVotes
          /\ <<w[i].mn, v.tx>> \in mapTxLockVote[n]
      BY <1>8, <1>10, <2>3, <2>6
    <3>. QED  BY <2>1, <3>1, <3>2, <3>3
  <2>. QED  BY <1>10, <2>4, <2>5, <2>6
<1>13. Backed(AddSignature(n, v), mapTxLockVote[n] \union {<<v.mn, v.tx>>},
              signed \union RemoteVotes)
  <2>1. \A tx \in DOMAIN mapTxLocks[n] \union {v.tx} :
          AddSignature(n, v)[tx] = IF tx = v.tx THEN new ELSE mapTxLocks[n][tx]
    BY <1>4 DEF Put
  <2>2. DOMAIN AddSignature(n, v) = DOMAIN mapTxLocks[n] \union {v.tx}
    BY <1>4 DEF Put
  <2>. QED  BY <1>1, <1>12, <2>1, <2>2 DEF Backed
<1>. QED  BY <1>11, <1>13

(* "txlvote": a vote is added, the lock may become complete.               *)
LEMMA ReceiveVoteStep ==
    ASSUME IInv, NEW n \in Nodes, NEW v \in signed \union RemoteVotes, ReceiveVote(n, v)
    PROVE  IInv'
<1>1. TypeOK /\ Shape /\ VoteInv /\ GlobalType /\ \A k \in Nodes : NodeType(k)
  BY TypeParts DEF IInv
<1>2. v.mn \in Masternodes /\ v.tx \in Txs
  BY <1>1, VotesAssumption DEF TypeOK, Votes
<1>. DEFINE locks == AddSignature(n, v)
            remembered == mapTxLockVote[n] \union {<<v.mn, v.tx>>}
            all == signed \union RemoteVotes
            full == v.tx \in DOMAIN mapTxLockReq[n] /\ mapTxLockReq[n][v.tx] = "full"
            vin == IF full THEN Vin[v.tx] ELSE << >>
            req == IF v.tx \in DOMAIN mapTxLockReq[n] THEN mapTxLockReq[n]
                   ELSE Put(mapTxLockReq[n], v.tx, "empty")
            locked == LockInputs(mapLockedInputs[n], v.tx, vin)
            expired == ExpireConflicting(locks, mapLockedInputs[n], v.tx, vin)
<1>3. /\ <<v.mn, v.tx>> \notin mapTxLockVote[n]
      /\ mapTxLockVote' = [mapTxLockVote EXCEPT ![n] = remembered]
      /\ UNCHANGED <<mapTxLockReqRejected, list, signed, clock, restarts>>
  BY DEF ReceiveVote
<1>4. LockMap(locks) /\ Backed(locks, remembered, all)
  BY <1>3, AddSignatureType
<1>5. LockMap(expired) /\ SameVotes(expired, locks)
  BY <1>1, <1>4, ExpireType
<1>6. Backed(expired, remembered, all)
  BY <1>4, <1>5, SameVotesBacked
<1>7. Backed(mapTxLocks[n], remembered, all)
  <2>1. Backed(mapTxLocks[n], mapTxLockVote[n], all)
    BY <1>1 DEF VoteInv
  <2>. QED  BY <2>1 DEF Backed
<1>8. InputMap(locked)
  BY <1>1, <1>2, LockInputsType DEF NodeType
<1>9. ReqMap(req)
  BY <1>1, <1>2 DEF NodeType, ReqMap, Put
<1>10. /\ \/ UNCHANGED mapTxLocks
          \/ mapTxLocks' = [mapTxLocks EXCEPT ![n] = locks]
          \/ mapTxLocks' = [mapTxLocks EXCEPT ![n] = expired]
       /\ \/ UNCHANGED mapTxLockReq
          \/ mapTxLockReq' = [mapTxLockReq EXCEPT ![n] = req]
       /\ \/ UNCHANGED mapLockedInputs
          \/ mapLockedInputs' = [mapLockedInputs EXCEPT ![n] = locked]
       /\ \/ UNCHANGED <<blocks, mempool>>
          \/ ReprocessBlocks(n, locked)
  <2>1. CASE UNCHANGED <<mapTxLockReq, mapTxLocks, mapLockedInputs, blocks, mempool>>
    BY <2>1
  <2>2. CASE CompleteLock(n, v, locks)
    <3>1. vin = IF req[v.tx] = "full" THEN Vin[v.tx] ELSE << >>
      BY <1>1 DEF Put
    <3>. HIDE DEF vin, locks
    <3>. QED  BY <2>2, <3>1 DEF CompleteLock
  <2>3. CASE /\ mapTxLocks' = [mapTxLocks EXCEPT ![n] = locks]
             /\ UNCHANGED <<mapTxLockReq, mapLockedInputs, blocks, mempool>>
    BY <2>3
  <2>. QED  BY <2>1, <2>2, <2>3 DEF ReceiveVote
<1>. HIDE DEF locks, remembered, full, vin, req, locked, expired
<1>11. /\ DOMAIN mapTxLocks' = Nodes /\ \A k \in Nodes : LockMap(mapTxLocks'[k])
  <2>1. CASE UNCHANGED mapTxLocks
    BY <1>1, <2>1 DEF Shape, NodeType
  <2>2. CASE mapTxLocks' = [mapTxLocks EXCEPT ![n] = locks]
    BY <1>1, <1>4, <2>2 DEF Shape, NodeType
  <2>3. CASE mapTxLocks' = [mapTxLocks EXCEPT ![n] = expired]
    BY <1>1, <1>5, <2>3 DEF Shape, NodeType
  <2>. QED  BY <1>10, <2>1, <2>2, <2>3
<1>12. /\ DOMAIN mapTxLockReq' = Nodes /\ \A k \in Nodes : ReqMap(mapTxLockReq'[k])
  BY <1>1, <1>9, <1>10 DEF Shape, NodeType
<1>13. /\ DOMAIN mapLockedInputs' = Nodes /\ \A k \in Nodes : InputMap(mapLockedInputs'[k])
  BY <1>1, <1>8, <1>10 DEF Shape, NodeType
<1>14. /\ DOMAIN blocks' = Nodes /\ DOMAIN mempool' = Nodes
       /\ \A k \in Nodes : blocks'[k] \in Seq(Txs \union {Empty}) /\ mempool'[k] \subseteq Txs
  <2>1. CASE UNCHANGED <<blocks, mempool>>
    BY <1>1, <2>1 DEF Shape, NodeType
  <2>2. CASE ReprocessBlocks(n, locked)
    BY <2>2, ReprocessBlocksType
  <2>. QED  BY <1>10, <2>1, <2>2
<1>15. /\ DOMAIN mapTxLockVote' = Nodes
       /\ \A k \in Nodes : mapTxLockVote'[k] \subseteq Masternodes \X Txs
  BY <1>1, <1>2, <1>3 DEF Shape, NodeType, remembered
<1>16. Shape'
  BY <1>1, <1>3, <1>11, <1>12, <1>13, <1>14, <1>15 DEF Shape
<1>17. GlobalType'
  BY <1>1, <1>3 DEF GlobalType
<1>18. ASSUME NEW k \in Nodes PROVE NodeType(k)'
  <2>1. NodeType(k)
    BY <1>1
  <2>2. mapTxLockReqRejected'[k] \subseteq Txs /\ list'[k] \subseteq Masternodes
    BY <1>3, <2>1 DEF NodeType
  <2>. QED  BY <1>11, <1>12, <1>13, <1>14, <1>15, <2>2 DEF NodeType
<1>19. VoteInv'
  <2>. SUFFICES ASSUME NEW k \in Nodes
       PROVE  Backed(mapTxLocks'[k], mapTxLockVote'[k], signed' \union RemoteVotes)
    BY DEF VoteInv
  <2>1. signed' \union RemoteVotes = all
    BY <1>3
  <2>2. CASE k = n
    <3>1. mapTxLockVote'[k] = remembered
      BY <1>1, <1>3, <2>2 DEF Shape
    <3>2. mapTxLocks'[k] \in {mapTxLocks[n], locks, expired}
      BY <1>1, <1>10, <2>2 DEF Shape
    <3>. QED  BY <1>4, <1>6, <1>7, <2>1, <3>1, <3>2
  <2>3. CASE k # n
    <3>1. mapTxLockVote'[k] = mapTxLockVote[k]
      BY <1>1, <1>3, <2>3 DEF Shape
    <3>2. mapTxLocks'[k] = mapTxLocks[k]
      BY <1>1, <1>10, <2>3 DEF Shape
    <3>. QED  BY <1>1, <2>1, <3>1, <3>2 DEF VoteInv
  <2>. QED  BY <2>2, <2>3
<1>. QED  BY <1>16, <1>17, <1>18, <1>19, Combine

(* The wallet's own request.                                               *)
LEMMA WalletSendStep ==
    ASSUME IInv, NEW n \in Nodes, NEW tx \in Txs, WalletSend(n, tx)
    PROVE  IInv'
<1>1. TypeOK /\ Shape /\ VoteInv /\ GlobalType /\ \A k \in Nodes : NodeType(k)
  BY TypeParts DEF IInv
<1>. DEFINE new == CreateNewLock(n, tx)
            req == IF tx \in DOMAIN mapTxLockReq[n] THEN mapTxLockReq[n]
                   ELSE Put(mapTxLockReq[n], tx, "full")
<1>2. LockMap(new) /\ SameVotes(new, mapTxLocks[n])
  BY <1>1, CreateNewLockType
<1>3. ReqMap(req)
  BY <1>1 DEF NodeType, ReqMap, Put
<1>4. /\ mapTxLocks' = [mapTxLocks EXCEPT ![n] = new]
      /\ mempool' = [mempool EXCEPT ![n] = @ \union {tx}]
      /\ mapTxLockReq' = [mapTxLockReq EXCEPT ![n] = req]
      /\ UNCHANGED <<mapTxLockReqRejected, mapTxLockVote, mapLockedInputs, blocks, list,
                     signed, clock, restarts>>
  BY <1>1 DEF WalletSend, Shape
<1>. HIDE DEF new, req
<1>5. Shape'
  BY <1>1, <1>4 DEF Shape
<1>6. GlobalType'
  BY <1>1, <1>4 DEF GlobalType
<1>7. ASSUME NEW k \in Nodes PROVE NodeType(k)'
  <2>1. NodeType(k)
    BY <1>1
  <2>2. ReqMap(mapTxLockReq'[k]) /\ LockMap(mapTxLocks'[k]) /\ mempool'[k] \subseteq Txs
    BY <1>1, <1>2, <1>3, <1>4, <2>1 DEF Shape, NodeType
  <2>3. /\ mapTxLockReqRejected'[k] \subseteq Txs /\ InputMap(mapLockedInputs'[k])
        /\ mapTxLockVote'[k] \subseteq Masternodes \X Txs
        /\ blocks'[k] \in Seq(Txs \union {Empty}) /\ list'[k] \subseteq Masternodes
    BY <1>4, <2>1 DEF NodeType
  <2>. QED  BY <2>2, <2>3 DEF NodeType
<1>8. ASSUME NEW k \in Nodes PROVE SameVotes(mapTxLocks'[k], mapTxLocks[k])
  BY <1>1, <1>2, <1>4, SameVotesReflexive DEF Shape
<1>9. signed \subseteq signed' /\ \A k \in Nodes : mapTxLockVote[k] \subseteq mapTxLockVote'[k]
  BY <1>4
<1>10. VoteInv'
  BY <1>1, <1>8, <1>9, VotesKept
<1>. QED  BY <1>5, <1>6, <1>7, <1>10, Combine

(* A vote is forgotten only together with the lock it is in.               *)
LEMMA CleanStep ==
    ASSUME IInv, NEW n \in Nodes, CleanTransactionLocksList(n)
    PROVE  IInv'
<1>1. TypeOK /\ Shape /\ VoteInv /\ GlobalType /\ \A k \in Nodes : NodeType(k)
  BY TypeParts DEF IInv
<1>. DEFINE expired == {tx \in DOMAIN mapTxLocks[n] : clock > mapTxLocks[n][tx].nExpiration}
            known == expired \intersect DOMAIN mapTxLockReq[n]
            full == {tx \in known : mapTxLockReq[n][tx] = "full"}
            counted(tx) == {<<mapTxLocks[n][tx].vecConsensusVotes[i].mn, tx>> :
                               i \in DOMAIN mapTxLocks[n][tx].vecConsensusVotes}
            forgotten == UNION {counted(tx) : tx \in known}
            freed == UNION {Inputs(tx) : tx \in full}
            locks == Keep(mapTxLocks[n], Txs \ expired)
            req == Keep(mapTxLockReq[n], Txs \ known)
            locked == Keep(mapLockedInputs[n], Outpoints \ freed)
<1>2. /\ mapTxLocks' = [mapTxLocks EXCEPT ![n] = locks]
      /\ mapTxLockReq' = [mapTxLockReq EXCEPT ![n] = req]
      /\ mapTxLockReqRejected' = [mapTxLockReqRejected EXCEPT ![n] = @ \ known]
      /\ mapLockedInputs' = [mapLockedInputs EXCEPT ![n] = locked]
      /\ mapTxLockVote' = [mapTxLockVote EXCEPT ![n] = @ \ forgotten]
      /\ UNCHANGED <<mempool, blocks, list, signed, clock, restarts>>
  BY <1>1 DEF CleanTransactionLocksList, Shape
<1>3. \A p \in forgotten : p[2] \in expired
  OBVIOUS
<1>. HIDE DEF expired, full, counted, forgotten, freed
<1>4. /\ DOMAIN locks = DOMAIN mapTxLocks[n] \ expired
      /\ \A tx \in DOMAIN locks : locks[tx] = mapTxLocks[n][tx]
  BY <1>1 DEF Keep, NodeType, LockMap
<1>5. LockMap(locks)
  BY <1>1, <1>4 DEF NodeType, LockMap
<1>6. ReqMap(req)
  BY <1>1 DEF Keep, NodeType, ReqMap
<1>7. InputMap(locked)
  BY <1>1 DEF Keep, NodeType, InputMap
<1>8. Backed(locks, mapTxLockVote[n] \ forgotten, signed \union RemoteVotes)
  <2>. SUFFICES ASSUME NEW tx \in DOMAIN locks,
                       NEW i \in DOMAIN locks[tx].vecConsensusVotes
       PROVE  LET vec == locks[tx].vecConsensusVotes IN
              /\ [mn |-> vec[i].mn, tx |-> tx, nBlockHeight |-> vec[i].nBlockHeight]
                    \in signed \union RemoteVotes
              /\ <<vec[i].mn, tx>> \in mapTxLockVote[n] \ forgotten
              /\ \A j \in DOMAIN vec : vec[j].mn = vec[i].mn => j = i
    BY DEF Backed
  <2>. DEFINE vec == locks[tx].vecConsensusVotes
  <2>1. tx \in DOMAIN mapTxLocks[n] /\ tx \notin expired
        /\ vec = mapTxLocks[n][tx].vecConsensusVotes
    BY <1>4
  <2>. HIDE DEF locks
  <2>2. /\ [mn |-> vec[i].mn, tx |-> tx, nBlockHeight |-> vec[i].nBlockHeight]
              \in signed \union RemoteVotes
        /\ <<vec[i].mn, tx>> \in mapTxLockVote[n]
        /\ \A j \in DOMAIN vec : vec[j].mn = vec[i].mn => j = i
    BY <1>1, <2>1 DEF VoteInv, Backed
  <2>3. <<vec[i].mn, tx>> \notin forgotten
    BY <1>3, <2>1
  <2>. QED  BY <2>2, <2>3
<1>. HIDE DEF known, locks, req, locked
<1>9. Shape'
  BY <1>1, <1>2 DEF Shape
<1>10. GlobalType'
  BY <1>1, <1>2 DEF GlobalType
<1>11. ASSUME NEW k \in Nodes PROVE NodeType(k)'
  <2>1. NodeType(k)
    BY <1>1
  <2>2. ReqMap(mapTxLockReq'[k]) /\ LockMap(mapTxLocks'[k]) /\ InputMap(mapLockedInputs'[k])
    BY <1>1, <1>2, <1>5, <1>6, <1>7, <2>1 DEF Shape, NodeType
  <2>3. mapTxLockReqRejected'[k] \subseteq Txs /\ mapTxLockVote'[k] \subseteq Masternodes \X Txs
    BY <1>1, <1>2, <2>1 DEF Shape, NodeType
  <2>4. /\ mempool'[k] \subseteq Txs
        /\ blocks'[k] \in Seq(Txs \union {Empty}) /\ list'[k] \subseteq Masternodes
    BY <1>2, <2>1 DEF NodeType
  <2>. QED  BY <2>2, <2>3, <2>4 DEF NodeType
<1>12. VoteInv'
  <2>. SUFFICES ASSUME NEW k \in Nodes
       PROVE  Backed(mapTxLocks'[k], mapTxLockVote'[k], signed' \union RemoteVotes)
    BY DEF VoteInv
  <2>1. CASE k = n
    BY <1>1, <1>2, <1>8, <2>1 DEF Shape
  <2>2. CASE k # n
    BY <1>1, <1>2, <2>2 DEF Shape, VoteInv
  <2>. QED  BY <2>1, <2>2
<1>. QED  BY <1>9, <1>10, <1>11, <1>12, Combine

(* The steps that touch only the pool, the chain, the list or the clock.   *)
LEMMA OtherSteps ==
    ASSUME IInv, UNCHANGED <<lockVars, signed>>, GlobalType', Shape',
           \A k \in Nodes : /\ mempool'[k] \subseteq Txs
                            /\ blocks'[k] \in Seq(Txs \union {Empty})
                            /\ list'[k] \subseteq Masternodes
    PROVE  IInv'
<1>1. VoteInv /\ \A k \in Nodes : NodeType(k)
  BY TypeParts DEF IInv
<1>2. UNCHANGED <<mapTxLockReq, mapTxLockReqRejected, mapTxLockVote, mapTxLocks,
                  mapLockedInputs, signed>>
  BY DEF lockVars
<1>3. ASSUME NEW k \in Nodes PROVE NodeType(k)'
  <2>1. NodeType(k)
    BY <1>1
  <2>. QED  BY <1>2, <2>1 DEF NodeType
<1>4. VoteInv'
  BY <1>1, <1>2 DEF VoteInv
<1>. QED  BY <1>3, <1>4, Combine

(* A restart forgets the votes and the locks that count them.              *)
LEMMA RestartStep ==
    ASSUME IInv, NEW n \in Nodes, Restart(n)
    PROVE  IInv'
<1>1. TypeOK /\ Shape /\ VoteInv /\ GlobalType /\ \A k \in Nodes : NodeType(k)
  BY TypeParts DEF IInv
<1>2. Shape'
  BY <1>1 DEF Restart, Shape
<1>3. GlobalType'
  BY <1>1, SizesAssumption DEF Restart, GlobalType
<1>4. DOMAIN << >> = {}
  OBVIOUS
<1>5. ReqMap(<< >>) /\ LockMap(<< >>) /\ InputMap(<< >>)
  BY <1>4 DEF ReqMap, LockMap, InputMap
<1>6. ASSUME NEW k \in Nodes PROVE NodeType(k)'
  <2>1. NodeType(k)
    BY <1>1
  <2>2. CASE k = n
    BY <1>1, <1>5, <2>1, <2>2 DEF Restart, Shape, NodeType
  <2>3. CASE k # n
    BY <1>1, <2>1, <2>3 DEF Restart, Shape, NodeType
  <2>. QED  BY <2>2, <2>3
<1>7. VoteInv'
  <2>. SUFFICES ASSUME NEW k \in Nodes
       PROVE  Backed(mapTxLocks'[k], mapTxLockVote'[k], signed' \union RemoteVotes)
    BY DEF VoteInv
  <2>1. CASE k = n
    BY <1>1, <1>4, <2>1 DEF Restart, Shape, Backed
  <2>2. CASE k # n
    BY <1>1, <2>2 DEF Restart, Shape, VoteInv
  <2>. QED  BY <2>1, <2>2
<1>. QED  BY <1>2, <1>3, <1>6, <1>7, Combine

(* Every step of every node preserves the invariant.                       *)
LEMMA NextIInv ==
    ASSUME IInv, [Next]_vars
    PROVE  IInv'
<1>1. TypeOK /\ Shape /\ VoteInv /\ GlobalType /\ \A k \in Nodes : NodeType(k)
  BY TypeParts DEF IInv
<1>2. CASE \E n \in Nodes, tx \in Txs : AcceptIX(n, tx)
  BY <1>2, AcceptIXStep
<1>3. CASE \E n \in Nodes, tx \in Txs : RejectIX(n, tx)
  BY <1>3, RejectIXStep
<1>4. CASE \E n \in Nodes, tx \in Txs : WalletSend(n, tx)
  BY <1>4, WalletSendStep
<1>5. ASSUME NEW n \in Nodes, NEW tx \in Txs, ReceiveTx(n, tx) PROVE IInv'
  <2>1. Shape' /\ GlobalType' /\ UNCHANGED <<lockVars, signed>>
    BY <1>1, <1>5 DEF ReceiveTx, Shape, GlobalType, lockVars
  <2>2. \A k \in Nodes : /\ mempool'[k] \subseteq Txs
                         /\ blocks'[k] \in Seq(Txs \union {Empty})
                         /\ list'[k] \subseteq Masternodes
    BY <1>1, <1>5 DEF ReceiveTx, Shape, NodeType
  <2>. QED  BY <2>1, <2>2, OtherSteps
<1>6. CASE \E n \in Nodes : \E v \in signed \union RemoteVotes : ReceiveVote(n, v)
  BY <1>6, ReceiveVoteStep
<1>7. CASE \E n \in Nodes : CleanTransactionLocksList(n)
  BY <1>7, CleanStep
<1>8. ASSUME NEW n \in Nodes, NEW b \in Txs \union {Empty}, ConnectBlock(n, b) PROVE IInv'
  <2>1. Shape' /\ GlobalType' /\ UNCHANGED <<lockVars, signed>>
    BY <1>1, <1>8 DEF ConnectBlock, Shape, GlobalType, lockVars
  <2>2. Append(blocks[n], b) \in Seq(Txs \union {Empty})
    BY <1>1, AppendProperties DEF NodeType
  <2>3. \A k \in Nodes : /\ mempool'[k] \subseteq Txs
                         /\ blocks'[k] \in Seq(Txs \union {Empty})
                         /\ list'[k] \subseteq Masternodes
    BY <1>1, <1>8, <2>2 DEF ConnectBlock, Shape, NodeType
  <2>. QED  BY <2>1, <2>3, OtherSteps
<1>9. ASSUME NEW n \in Nodes, NEW l \in Lists, ChangeList(n, l) PROVE IInv'
  <2>1. Shape' /\ GlobalType' /\ UNCHANGED <<lockVars, signed>>
    BY <1>1, <1>9 DEF ChangeList, Shape, GlobalType, lockVars
  <2>2. \A k \in Nodes : /\ mempool'[k] \subseteq Txs
                         /\ blocks'[k] \in Seq(Txs \union {Empty})
                         /\ list'[k] \subseteq Masternodes
    BY <1>1, <1>9, MasternodesAssumption DEF ChangeList, Shape, NodeType
  <2>. QED  BY <2>1, <2>2, OtherSteps
<1>10. CASE \E n \in Nodes : Restart(n)
  BY <1>10, RestartStep
<1>11. CASE Tick \/ UNCHANGED vars
  <2>1. Shape' /\ GlobalType' /\ UNCHANGED <<lockVars, signed>>
    BY <1>1, <1>11, SizesAssumption DEF Tick, vars, Shape, GlobalType, lockVars
  <2>2. \A k \in Nodes : /\ mempool'[k] \subseteq Txs
                         /\ blocks'[k] \in Seq(Txs \union {Empty})
                         /\ list'[k] \subseteq Masternodes
    BY <1>1, <1>11 DEF Tick, vars, NodeType
  <2>. QED  BY <2>1, <2>2, OtherSteps
<1>. QED
  BY <1>2, <1>3, <1>4, <1>5, <1>6, <1>7, <1>8, <1>9, <1>10, <1>11 DEF Next

(* A lock whose votes are backed and that counts REQUIRED of them has as   *)
(* many masternodes: the index of a vote determines its masternode and the *)
(* other way round.                                                        *)
LEMMA QuorumOfLock ==
    ASSUME IInv, NEW n \in Nodes, NEW tx \in DOMAIN mapTxLocks[n],
           CountSignatures(mapTxLocks[n][tx]) >= REQUIRED
    PROVE  Cardinality(Quorum(tx, mapTxLocks[n][tx])) >= REQUIRED
<1>. DEFINE lock == mapTxLocks[n][tx]
            vec == lock.vecConsensusVotes
            h == lock.nBlockHeight
            C == {i \in DOMAIN vec : vec[i].nBlockHeight = h}
            Q == Quorum(tx, lock)
            f == [i \in C |-> vec[i].mn]
<1>1. lock \in LockType /\ Backed(mapTxLocks[n], mapTxLockVote[n], signed \union RemoteVotes)
  BY DEF IInv, TypeOK, VoteInv
<1>2. vec \in Seq(VoteRec)
  BY <1>1 DEF LockType, VoteRec
<1>3. ASSUME NEW i \in C PROVE f[i] \in Q
  <2>1. vec[i] \in VoteRec
    BY <1>2, ElementOfSeq, LenProperties
  <2>2. vec[i] = [mn |-> vec[i].mn, nBlockHeight |-> h] /\ vec[i].mn \in Masternodes
    BY <2>1 DEF VoteRec
  <2>3. [mn |-> vec[i].mn, tx |-> tx, nBlockHeight |-> h] \in signed \union RemoteVotes
    BY <1>1 DEF Backed
  <2>. QED  BY <2>2, <2>3 DEF Quorum
<1>4. \A i, j \in C : f[i] = f[j] => i = j
  BY <1>1 DEF Backed
<1>5. f \in Injection(C, Q)
  <2>. HIDE DEF C, Q
  <2>1. f \in [C -> Q]
    BY <1>3
  <2>. QED  BY <1>4, <2>1 DEF Injection, IsInjective
<1>6. IsFiniteSet(Q)
  BY MasternodesAssumption, FS_Subset DEF Quorum
<1>7. IsFiniteSet(C) /\ Cardinality(C) <= Cardinality(Q)
  BY <1>5, <1>6, FS_Injection
<1>8. Cardinality(C) \in Nat /\ Cardinality(Q) \in Nat
  BY <1>6, <1>7, FS_CardinalityType
<1>9. CountSignatures(lock) = IF h = 0 THEN -1 ELSE Cardinality(C)
  BY DEF CountSignatures
<1>10. REQUIRED \in Nat \ {0} /\ CountSignatures(lock) >= REQUIRED
  BY SizesAssumption
<1>. HIDE DEF C, Q, h, lock
<1>11. Cardinality(Q) >= REQUIRED
  BY <1>7, <1>8, <1>9, <1>10
<1>. QED  BY <1>11 DEF Q, lock

-----------------------------------------------------------------------------

(* The invariant holds in every reachable state.                           *)
THEOREM Invariance == Spec => []IInv
<1>1. Init => IInv
  BY InitIInv
<1>2. IInv /\ [Next]_vars => IInv'
  BY NextIInv
<1>. QED  BY <1>1, <1>2, PTL DEF Spec

(* The maps of swifttx.cpp keep their types; a lock height never depends   *)
(* on the length of the chain a node happens to have.                      *)
THEOREM TypeCorrect == Spec => []TypeOK
<1>1. IInv => TypeOK
  BY DEF IInv
<1>. QED  BY <1>1, Invariance, PTL

(* A complete lock has SWIFTTX_SIGNATURES_REQUIRED different masternodes   *)
(* behind it, however votes are duplicated, delayed or sent again and      *)
(* whatever the clean-up and restarts forget.                              *)
THEOREM QuorumTheorem == Spec => []CompleteMeansQuorum
<1>1. IInv => CompleteMeansQuorum
  BY QuorumOfLock DEF CompleteMeansQuorum
<1>. QED  BY <1>1, Invariance, PTL

-----------------------------------------------------------------------------
(* No double spends in the pool. PoolConsistent is not inductive: two      *)
(* transactions that ReprocessBlocks takes out of the chain come back into *)
(* the pool without being compared with each other, so the chain itself    *)
(* must be free of double spends.                                          *)

ChainOK(chain) ==
    \A i, j \in DOMAIN chain :
        i # j /\ chain[i] # Empty /\ chain[j] # Empty
            => Inputs(chain[i]) \intersect Inputs(chain[j]) = {}

PoolOK(pool, chain) ==
    /\ \A x, y \in pool : ~Conflict(x, y)
    /\ \A tx \in pool : Inputs(tx) \intersect Spent(chain) = {}

PoolInv == \A n \in Nodes : ChainOK(blocks[n]) /\ PoolOK(mempool[n], blocks[n])

(* What a chain has spent, input by input.                                 *)
LEMMA SpentMember ==
    ASSUME NEW chain, NEW o
    PROVE  o \in Spent(chain) <=>
              \E i \in DOMAIN chain : chain[i] # Empty /\ o \in Inputs(chain[i])
  BY DEF Spent

(* What the pool accepts leaves it without double spends.                  *)
LEMMA AcceptedOK ==
    ASSUME NEW pool, NEW chain, NEW locked, NEW tx, PoolOK(pool, chain),
           Acceptable(tx, pool, locked, chain)
    PROVE  PoolOK(pool \union {tx}, chain)
  BY DEF PoolOK, Acceptable, Conflict

(* A block that spends nothing twice extends the chain, and what conflicts *)
(* with it has left the pool.                                              *)
LEMMA ConnectedOK ==
    ASSUME NEW chain \in Seq(Txs \union {Empty}), NEW b \in Txs \union {Empty}, NEW pool,
           ChainOK(chain), PoolOK(pool, chain),
           b # Empty => Inputs(b) \intersect Spent(chain) = {}
    PROVE  /\ ChainOK(Append(chain, b))
           /\ PoolOK(IF b = Empty THEN pool ELSE {tx \in pool : tx # b /\ ~Conflict(tx, b)},
                     Append(chain, b))
<1>. DEFINE new == Append(chain, b)
            left == IF b = Empty THEN pool ELSE {tx \in pool : tx # b /\ ~Conflict(tx, b)}
<1>1. /\ DOMAIN chain = 1 .. Len(chain) /\ Len(chain) \in Nat
      /\ DOMAIN new = 1 .. (Len(chain) + 1)
      /\ \A i \in DOMAIN chain : new[i] = chain[i]
      /\ new[Len(chain) + 1] = b
  BY AppendProperties, LenProperties
<1>2. \A i \in DOMAIN new : i \in DOMAIN chain \/ i = Len(chain) + 1
  BY <1>1
<1>. HIDE DEF new
<1>3. \A i \in DOMAIN chain : b # Empty /\ chain[i] # Empty
                                 => Inputs(chain[i]) \intersect Inputs(b) = {}
  BY SpentMember
<1>4. ChainOK(new)
  BY <1>1, <1>2, <1>3 DEF ChainOK
<1>5. ASSUME NEW o \in Spent(new) PROVE o \in Spent(chain) \/ (b # Empty /\ o \in Inputs(b))
  <2>1. PICK i \in DOMAIN new : new[i] # Empty /\ o \in Inputs(new[i])
    BY <1>5, SpentMember
  <2>2. CASE i \in DOMAIN chain
    BY <1>1, <2>1, <2>2, SpentMember
  <2>3. CASE i = Len(chain) + 1
    BY <1>1, <2>1, <2>3
  <2>. QED  BY <1>2, <2>2, <2>3
<1>6. left \subseteq pool /\ \A tx \in left : b # Empty => Inputs(tx) \intersect Inputs(b) = {}
  BY DEF Conflict
<1>. HIDE DEF left
<1>7. PoolOK(left, new)
  BY <1>5, <1>6 DEF PoolOK
<1>. QED  BY <1>4, <1>7 DEF new, left

(* What ReprocessBlocks keeps are the first blocks of the chain.           *)
LEMMA ReprocessedPrefix ==
    ASSUME NEW chain \in Seq(Txs \union {Empty}), NEW locked
    PROVE  LET kept == Reprocessed(chain, locked) IN
           /\ DOMAIN kept \subseteq DOMAIN chain
           /\ \A i \in DOMAIN kept : kept[i] = chain[i]
<1>. DEFINE bad == {i \in DOMAIN chain : ~CheckBlock(chain[i], locked)}
<1>1. CASE bad = {}
  BY <1>1 DEF Reprocessed
<1>2. CASE bad # {}
  <2>1. DOMAIN chain = 1 .. Len(chain) /\ Len(chain) \in Nat
    BY LenProperties
  <2>2. bad \in SUBSET Nat
    BY <2>1
  <2>3. First(bad) \in bad
    BY <1>2, <2>2, FirstIsLeast
  <2>4. First(bad) \in 1 .. Len(chain)
    BY <2>1, <2>3
  <2>5. Reprocessed(chain, locked) = SubSeq(chain, 1, First(bad) - 1)
    BY <1>2 DEF Reprocessed
  <2>. HIDE DEF bad
  <2>6. \A i \in 1 .. (First(bad) - 1) : chain[i] \in Txs \union {Empty}
    BY <2>4, ElementOfSeq
  <2>. QED  BY <2>1, <2>4, <2>5, <2>6, SubSeqProperties
<1>. QED  BY <1>1, <1>2

(* Reprocessing takes transactions from the chain back into the pool, and  *)
(* neither of them has a double spend afterwards.                          *)
LEMMA ReprocessOK ==
    ASSUME NEW chain \in Seq(Txs \union {Empty}), NEW locked, NEW pool,
           ChainOK(chain), PoolOK(pool, chain)
    PROVE  /\ ChainOK(Reprocessed(chain, locked))
           /\ PoolOK(Resurrected(pool, chain, locked), Reprocessed(chain, locked))
<1>. DEFINE kept == Reprocessed(chain, locked)
            dropped == {chain[i] : i \in (Len(kept) + 1) .. Len(chain)}
            back == {tx \in dropped \ {Empty} : Acceptable(tx, pool, locked, kept)}
<1>1. DOMAIN kept \subseteq DOMAIN chain /\ \A i \in DOMAIN kept : kept[i] = chain[i]
  BY ReprocessedPrefix
<1>2. Resurrected(pool, chain, locked) = pool \union back
  BY DEF Resurrected
<1>3. Len(kept) \in Nat /\ Len(chain) \in Nat /\ DOMAIN chain = 1 .. Len(chain)
  BY ReprocessedType, LenProperties
<1>4. (Len(kept) + 1) .. Len(chain) \subseteq DOMAIN chain
  BY <1>3
<1>5. \A x, y \in dropped \ {Empty} : ~Conflict(x, y)
  <2>1. \A x \in dropped : \E i \in DOMAIN chain : x = chain[i]
    BY <1>4
  <2>. HIDE DEF dropped
  <2>. QED  BY <2>1 DEF ChainOK, Conflict
<1>. HIDE DEF kept, dropped
<1>6. Spent(kept) \subseteq Spent(chain)
  BY <1>1, SpentMember
<1>7. ChainOK(kept)
  BY <1>1 DEF ChainOK
<1>8. ASSUME NEW x \in pool \union back, NEW y \in pool \union back
      PROVE  ~Conflict(x, y)
  <2>1. CASE x \in pool /\ y \in pool
    BY <2>1 DEF PoolOK
  <2>2. CASE x \in pool /\ y \in back
    BY <2>2 DEF Acceptable
  <2>3. CASE x \in back /\ y \in pool
    BY <2>3 DEF Acceptable, Conflict
  <2>4. CASE x \in back /\ y \in back
    BY <1>5, <2>4
  <2>. QED  BY <1>8, <2>1, <2>2, <2>3, <2>4
<1>9. ASSUME NEW x \in pool \union back
      PROVE  Inputs(x) \intersect Spent(kept) = {}
  BY <1>6 DEF PoolOK, Acceptable
<1>10. PoolOK(pool \union back, kept)
  BY <1>8, <1>9 DEF PoolOK
<1>. QED  BY <1>2, <1>7, <1>10 DEF kept

(* Chains and pools that stay as they are keep the invariant.              *)
LEMMA PoolUnchanged ==
    ASSUME PoolInv, UNCHANGED <<blocks, mempool>>
    PROVE  PoolInv'
  BY DEF PoolInv

(* A handler that only adds an accepted transaction to the pool.           *)
LEMMA PoolAccept ==
    ASSUME PoolInv, Shape, NEW n \in Nodes, NEW tx,
           Acceptable(tx, mempool[n], mapLockedInputs[n], blocks[n]),
           mempool' = [mempool EXCEPT ![n] = @ \union {tx}], blocks' = blocks
    PROVE  PoolInv'
<1>1. PoolOK(mempool[n] \union {tx}, blocks[n])
  BY AcceptedOK DEF PoolInv
<1>. QED  BY <1>1 DEF PoolInv, Shape

(* A handler that reprocesses the last blocks.                             *)
LEMMA PoolReprocess ==
    ASSUME PoolInv, TypeOK, Shape, NEW n \in Nodes, NEW locked, ReprocessBlocks(n, locked)
    PROVE  PoolInv'
<1>1. blocks[n] \in Seq(Txs \union {Empty})
  BY DEF TypeOK
<1>2. /\ ChainOK(Reprocessed(blocks[n], locked))
      /\ PoolOK(Resurrected(mempool[n], blocks[n], locked), Reprocessed(blocks[n], locked))
  BY <1>1, ReprocessOK DEF PoolInv
<1>. QED  BY <1>2 DEF PoolInv, Shape, ReprocessBlocks

(* Every step leaves every pool without double spends.                     *)
LEMMA NextPoolInv ==
    ASSUME IInv, PoolInv, [Next]_vars
    PROVE  PoolInv'
<1>1. TypeOK /\ Shape
  BY DEF IInv
<1>2. ASSUME NEW n \in Nodes, NEW tx \in Txs,
             AcceptIX(n, tx) \/ WalletSend(n, tx) \/ ReceiveTx(n, tx)
      PROVE  PoolInv'
  BY <1>1, <1>2, PoolAccept DEF AcceptIX, WalletSend, ReceiveTx
<1>3. ASSUME NEW n \in Nodes, NEW tx \in Txs, RejectIX(n, tx) PROVE PoolInv'
  <2>. DEFINE locked == LockInputs(mapLockedInputs[n], tx, Vin[tx])
  <2>1. UNCHANGED <<blocks, mempool>> \/ ReprocessBlocks(n, locked)
    BY <1>3 DEF RejectIX
  <2>. QED  BY <1>1, <2>1, PoolUnchanged, PoolReprocess
<1>4. ASSUME NEW n \in Nodes, NEW v \in signed \union RemoteVotes, ReceiveVote(n, v)
      PROVE  PoolInv'
  <2>1. UNCHANGED <<blocks, mempool>> \/ \E locks : CompleteLock(n, v, locks)
    BY <1>4 DEF ReceiveVote
  <2>2. ASSUME NEW locks, CompleteLock(n, v, locks)
        PROVE  UNCHANGED <<blocks, mempool>> \/ \E locked : ReprocessBlocks(n, locked)
    BY <2>2 DEF CompleteLock
  <2>. QED  BY <1>1, <2>1, <2>2, PoolUnchanged, PoolReprocess
<1>5. ASSUME NEW n \in Nodes, NEW b \in Txs \union {Empty}, ConnectBlock(n, b)
      PROVE  PoolInv'
  <2>. DEFINE left == IF b = Empty THEN mempool[n]
                      ELSE {tx \in mempool[n] : tx # b /\ ~Conflict(tx, b)}
  <2>1. blocks[n] \in Seq(Txs \union {Empty})
    BY <1>1 DEF TypeOK
  <2>2. ChainOK(Append(blocks[n], b)) /\ PoolOK(left, Append(blocks[n], b))
    BY <1>5, <2>1, ConnectedOK DEF PoolInv, ConnectBlock
  <2>3. /\ blocks' = [blocks EXCEPT ![n] = Append(@, b)]
        /\ mempool' = [mempool EXCEPT ![n] = left]
    BY <1>1, <1>5 DEF ConnectBlock, Shape
  <2>. HIDE DEF left
  <2>. QED  BY <1>1, <2>2, <2>3 DEF PoolInv, Shape
<1>6. ASSUME NEW n \in Nodes, Restart(n) PROVE PoolInv'
  BY <1>1, <1>6 DEF Restart, PoolInv, PoolOK, Shape
<1>7. CASE \/ \E n \in Nodes : \/ CleanTransactionLocksList(n)
                               \/ \E l \in Lists : ChangeList(n, l)
           \/ Tick \/ UNCHANGED vars
  BY <1>7, PoolUnchanged DEF CleanTransactionLocksList, ChangeList, Tick, vars
<1>. QED  BY <1>2, <1>3, <1>4, <1>5, <1>6, <1>7 DEF Next

(* Neither votes, clean-ups, reprocessed blocks nor restarts put a double  *)
(* spend into a node's pool, within it or against its chain.               *)
THEOREM PoolTheorem == Spec => []PoolConsistent
<1>1. Init => PoolInv
  BY DEF Init, PoolInv, ChainOK, PoolOK
<1>2. IInv /\ PoolInv /\ [Next]_vars => PoolInv'
  BY NextPoolInv
<1>3. PoolInv => PoolConsistent
  BY DEF PoolInv, PoolOK, PoolConsistent
<1>. QED  BY <1>1, <1>2, <1>3, Invariance, PTL DEF Spec

-----------------------------------------------------------------------------
(* Agreement between nodes. Two conflicting transactions locked at the     *)
(* same height have two quorums; a masternode in both signed both, so both *)
(* are in its pool, which PoolInv excludes. What this needs of the         *)
(* constants is stated as the two hypotheses of the theorem.               *)

(* The masternodes that rank among the first TOTAL at height h in a list   *)
(* that a node may have.                                                   *)
Voters(h) ==
    {m \in Masternodes :
        \E L \in Lists :
            /\ m \in L
            /\ 1 + Cardinality({x \in L : Score[h][x] > Score[h][m]}) <= TOTAL}

(* Any two quorums among the masternodes that may vote at a height meet.   *)
QuorumsMeet == \A h \in Heights : Cardinality(Voters(h)) < 2 * REQUIRED

(* The masternodes that do not run this code keep its rule: none of them   *)
(* signs two conflicting transactions for one height, or in the name of a  *)
(* node.                                                                   *)
RemotesVoteOnce ==
    /\ \A v \in RemoteVotes : v.mn \notin Nodes
    /\ \A v, w \in RemoteVotes :
          v.mn = w.mn /\ v.nBlockHeight = w.nBlockHeight => ~Conflict(v.tx, w.tx)

(* A set of masternodes that is not empty has one of least score.          *)
LEMMA LeastScore ==
    ASSUME NEW h \in Heights, NEW S \in SUBSET Masternodes, S # {}
    PROVE  \E m \in S : \A x \in S : Score[h][m] <= Score[h][x]
<1>. DEFINE scores == {Score[h][m] : m \in S}
<1>1. \A m \in S : Score[h][m] \in Nat
  BY ScoreAssumption
<1>2. scores \in SUBSET Nat /\ scores # {}
  BY <1>1
<1>3. First(scores) \in scores /\ \A j \in scores : First(scores) <= j
  <2>. HIDE DEF scores
  <2>. QED  BY <1>2, FirstIsLeast
<1>. QED  BY <1>3

(* The deployed network: every node knows every masternode, no two have    *)
(* the same score, and 6 of 10 is more than a half.                        *)
LEMMA MajorityOfTotal ==
    ASSUME Lists = {Masternodes}, TOTAL < 2 * REQUIRED,
           \A h \in Heights : \A m, x \in Masternodes : Score[h][m] = Score[h][x] => m = x
    PROVE  QuorumsMeet
<1>. SUFFICES ASSUME NEW h \in Heights PROVE Cardinality(Voters(h)) < 2 * REQUIRED
  BY DEF QuorumsMeet
<1>. DEFINE V == Voters(h)
            Above(m) == {x \in Masternodes : Score[h][x] > Score[h][m]}
<1>1. ASSUME NEW m \in V PROVE m \in Masternodes /\ 1 + Cardinality(Above(m)) <= TOTAL
  <2>1. PICK L \in Lists :
           1 + Cardinality({x \in L : Score[h][x] > Score[h][m]}) <= TOTAL
    BY DEF Voters
  <2>2. L = Masternodes
    BY <2>1
  <2>. QED  BY <2>1, <2>2 DEF Voters
<1>2. IsFiniteSet(V) /\ V \in SUBSET Masternodes
  BY MasternodesAssumption, FS_Subset DEF Voters
<1>. HIDE DEF V
<1>3. CASE V = {}
  BY <1>3, FS_EmptySet, SizesAssumption DEF V
<1>4. CASE V # {}
  <2>1. PICK m \in V : \A x \in V : Score[h][m] <= Score[h][x]
    BY <1>2, <1>4, LeastScore
  <2>2. \A x \in V : x # m => x \in Above(m)
    BY <1>2, <2>1, ScoreAssumption
  <2>3. IsFiniteSet(Above(m))
    BY MasternodesAssumption, FS_Subset
  <2>4. V \ {m} \in SUBSET Above(m)
    BY <2>2
  <2>5. Cardinality(V \ {m}) <= Cardinality(Above(m))
    BY <2>3, <2>4, FS_Subset
  <2>6. Cardinality(V \ {m}) = Cardinality(V) - 1
    BY <1>2, <2>1, FS_RemoveElement
  <2>7. 1 + Cardinality(Above(m)) <= TOTAL
    BY <1>1, <2>1
  <2>8. Cardinality(V) \in Nat /\ Cardinality(Above(m)) \in Nat
    BY <1>2, <2>3, FS_CardinalityType
  <2>. HIDE DEF Above
  <2>. QED  BY <2>5, <2>6, <2>7, <2>8, SizesAssumption DEF V
<1>. QED  BY <1>3, <1>4

(* The votes in a lock are of masternodes that may vote at their height.   *)
FromVoters(locks) ==
    \A tx \in DOMAIN locks : \A i \in DOMAIN locks[tx].vecConsensusVotes :
        locks[tx].vecConsensusVotes[i].mn \in Voters(locks[tx].vecConsensusVotes[i].nBlockHeight)

AgreeInv ==
    /\ \A v \in signed : v.mn \in Nodes
    /\ \A n \in Nodes : list[n] \in Lists
    /\ \A n \in Nodes : FromVoters(mapTxLocks[n])

(* What keeps the votes of a lock map keeps their origin.                  *)
LEMMA SameVotesFrom ==
    ASSUME NEW new, NEW old, SameVotes(new, old), FromVoters(old)
    PROVE  FromVoters(new)
<1>. SUFFICES ASSUME NEW tx \in DOMAIN new, NEW i \in DOMAIN new[tx].vecConsensusVotes
     PROVE  new[tx].vecConsensusVotes[i].mn \in Voters(new[tx].vecConsensusVotes[i].nBlockHeight)
  BY DEF FromVoters
<1>1. CASE new[tx].vecConsensusVotes = << >>
  BY <1>1
<1>2. CASE tx \in DOMAIN old /\ new[tx].vecConsensusVotes = old[tx].vecConsensusVotes
  BY <1>2 DEF FromVoters
<1>. QED  BY <1>1, <1>2 DEF SameVotes

(* A vote is added only if its masternode ranks in the list of the node.   *)
LEMMA AddSignatureFrom ==
    ASSUME IInv, AgreeInv, NEW n \in Nodes, NEW v \in signed \union RemoteVotes,
           GetMasternodeRank(n, v.mn, v.nBlockHeight) \in 1 .. TOTAL
    PROVE  FromVoters(AddSignature(n, v))
<1>1. TypeOK /\ LockMap(mapTxLocks[n]) /\ FromVoters(mapTxLocks[n]) /\ list[n] \subseteq Masternodes
  BY DEF IInv, TypeOK, LockMap, AgreeInv
<1>2. v \in Votes
  BY VotesAssumption DEF IInv, TypeOK
<1>3. v.mn \in Masternodes /\ v.tx \in Txs /\ v.nBlockHeight \in Heights
  BY <1>2 DEF Votes
<1>4. v.mn \in Voters(v.nBlockHeight)
  <2>1. v.mn \in list[n]
    BY DEF GetMasternodeRank
  <2>2. 1 + Cardinality({x \in list[n] : Score[v.nBlockHeight][x] > Score[v.nBlockHeight][v.mn]})
           <= TOTAL
    BY <2>1, SizesAssumption DEF GetMasternodeRank
  <2>3. list[n] \in Lists
    BY DEF AgreeInv
  <2>. QED  BY <1>1, <1>3, <2>1, <2>2, <2>3 DEF Voters
<1>. DEFINE lock == IF v.tx \in DOMAIN mapTxLocks[n] THEN mapTxLocks[n][v.tx] ELSE NewLock(0)
            vec == lock.vecConsensusVotes
            vote == [mn |-> v.mn, nBlockHeight |-> v.nBlockHeight]
            new == [lock EXCEPT !.vecConsensusVotes = Append(@, vote)]
<1>5. AddSignature(n, v) = Put(mapTxLocks[n], v.tx, new)
  BY DEF AddSignature
<1>6. 0 \in Heights
  BY DEF Heights
<1>7. lock \in LockType
  BY <1>1, <1>6, NewLockType DEF LockMap
<1>8. vec \in Seq(VoteRec) /\ vote \in VoteRec
  BY <1>3, <1>7 DEF LockType, VoteRec
<1>9. \A i \in DOMAIN vec : vec[i].mn \in Voters(vec[i].nBlockHeight)
  <2>1. CASE v.tx \in DOMAIN mapTxLocks[n]
    BY <1>1, <2>1 DEF FromVoters
  <2>2. CASE v.tx \notin DOMAIN mapTxLocks[n]
    <3>1. vec = << >>
      BY <1>1, <1>6, <2>2, NewLockType
    <3>. QED  BY <3>1
  <2>. QED  BY <2>1, <2>2
<1>10. vote.mn \in Voters(vote.nBlockHeight)
  BY <1>4
<1>11. new.vecConsensusVotes = Append(vec, vote)
  <2>. HIDE DEF lock, vote
  <2>. QED  BY <1>7 DEF LockType
<1>. HIDE DEF vote, vec, lock, new
<1>12. /\ DOMAIN Append(vec, vote) = 1 .. (Len(vec) + 1) /\ DOMAIN vec = 1 .. Len(vec)
       /\ Len(vec) \in Nat
       /\ \A i \in 1 .. Len(vec) : Append(vec, vote)[i] = vec[i]
       /\ Append(vec, vote)[Len(vec) + 1] = vote
  BY <1>8, AppendProperties, LenProperties
<1>13. ASSUME NEW i \in DOMAIN Append(vec, vote)
       PROVE  Append(vec, vote)[i].mn \in Voters(Append(vec, vote)[i].nBlockHeight)
  <2>1. i \in DOMAIN vec \/ i = Len(vec) + 1
    BY <1>12
  <2>. QED  BY <1>9, <1>10, <1>12, <2>1
<1>14. /\ DOMAIN AddSignature(n, v) = DOMAIN mapTxLocks[n] \union {v.tx}
       /\ \A tx \in DOMAIN mapTxLocks[n] \union {v.tx} :
            AddSignature(n, v)[tx] = IF tx = v.tx THEN new ELSE mapTxLocks[n][tx]
  BY <1>5 DEF Put
<1>. QED  BY <1>1, <1>11, <1>13, <1>14 DEF FromVoters

(* The steps of one node that change its lock map to new.                  *)
LEMMA AgreeStep ==
    ASSUME AgreeInv, Shape, NEW n \in Nodes, NEW new, FromVoters(new),
           mapTxLocks' = [mapTxLocks EXCEPT ![n] = new], list' = list,
           \A v \in signed' : v \in signed \/ v.mn = n
    PROVE  AgreeInv'
  BY DEF AgreeInv, Shape

(* Every step of every node.                                               *)
LEMMA NextAgreeInv ==
    ASSUME IInv, AgreeInv, [Next]_vars
    PROVE  AgreeInv'
<1>1. TypeOK /\ Shape /\ \A n \in Nodes : FromVoters(mapTxLocks[n])
  BY DEF IInv, AgreeInv
<1>2. ASSUME NEW n \in Nodes, NEW tx \in Txs, AcceptIX(n, tx) \/ WalletSend(n, tx)
      PROVE  AgreeInv'
  <2>. DEFINE new == CreateNewLock(n, tx)
  <2>1. FromVoters(new)
    BY <1>1, CreateNewLockType, SameVotesFrom
  <2>2. mapTxLocks' = [mapTxLocks EXCEPT ![n] = new] /\ list' = list
    BY <1>2 DEF AcceptIX, WalletSend
  <2>3. \A v \in signed' : v \in signed \/ v.mn = n
    BY <1>2 DEF AcceptIX, WalletSend, DoConsensusVote
  <2>. HIDE DEF new
  <2>. QED  BY <1>1, <2>1, <2>2, <2>3, AgreeStep
<1>3. ASSUME NEW n \in Nodes, NEW tx \in Txs, RejectIX(n, tx) PROVE AgreeInv'
  <2>. DEFINE locks == CreateNewLock(n, tx)
              locked == LockInputs(mapLockedInputs[n], tx, Vin[tx])
              expired == ExpireConflicting(locks, locked, tx, Vin[tx])
  <2>1. LockMap(locks) /\ FromVoters(locks)
    BY <1>1, CreateNewLockType, SameVotesFrom
  <2>2. SameVotes(expired, locks)
    BY <1>1, <2>1, ExpireType
  <2>3. FromVoters(expired)
    BY <2>1, <2>2, SameVotesFrom
  <2>4. /\ \/ mapTxLocks' = [mapTxLocks EXCEPT ![n] = locks]
           \/ mapTxLocks' = [mapTxLocks EXCEPT ![n] = expired]
        /\ UNCHANGED <<list, signed>>
    BY <1>3 DEF RejectIX
  <2>. HIDE DEF locks, locked, expired
  <2>. QED  BY <1>1, <2>1, <2>3, <2>4, AgreeStep
<1>4. ASSUME NEW n \in Nodes, NEW v \in signed \union RemoteVotes, ReceiveVote(n, v)
      PROVE  AgreeInv'
  <2>1. UNCHANGED <<list, signed>>
    BY <1>4 DEF ReceiveVote
  <2>2. CASE GetMasternodeRank(n, v.mn, v.nBlockHeight) \notin 1 .. TOTAL
    BY <1>4, <2>1, <2>2 DEF ReceiveVote, AgreeInv
  <2>3. CASE GetMasternodeRank(n, v.mn, v.nBlockHeight) \in 1 .. TOTAL
    <3>. DEFINE locks == AddSignature(n, v)
    <3>1. <<v.mn, v.tx>> \notin mapTxLockVote[n]
      BY <1>4 DEF ReceiveVote
    <3>2. LockMap(locks)
      BY <3>1, AddSignatureType
    <3>3. FromVoters(locks)
      BY <2>3, AddSignatureFrom
    <3>4. \/ mapTxLocks' = [mapTxLocks EXCEPT ![n] = locks]
          \/ CompleteLock(n, v, locks)
      BY <1>4, <2>3 DEF ReceiveVote
    <3>. HIDE DEF locks
    <3>5. \/ mapTxLocks' = [mapTxLocks EXCEPT ![n] = locks]
          \/ \E vin : mapTxLocks' = [mapTxLocks EXCEPT
                        ![n] = ExpireConflicting(locks, mapLockedInputs[n], v.tx, vin)]
      BY <3>4 DEF CompleteLock
    <3>6. ASSUME NEW vin
          PROVE  FromVoters(ExpireConflicting(locks, mapLockedInputs[n], v.tx, vin))
      BY <1>1, <3>2, <3>3, ExpireType, SameVotesFrom
    <3>. QED  BY <1>1, <2>1, <3>3, <3>5, <3>6, AgreeStep
  <2>. QED  BY <2>2, <2>3
<1>5. ASSUME NEW n \in Nodes, CleanTransactionLocksList(n) PROVE AgreeInv'
  <2>. DEFINE expired == {tx \in DOMAIN mapTxLocks[n] : clock > mapTxLocks[n][tx].nExpiration}
              left == Keep(mapTxLocks[n], Txs \ expired)
  <2>1. mapTxLocks' = [mapTxLocks EXCEPT ![n] = left] /\ UNCHANGED <<list, signed>>
    BY <1>1, <1>5 DEF CleanTransactionLocksList, Shape
  <2>. HIDE DEF expired
  <2>2. SameVotes(left, mapTxLocks[n])
    BY DEF Keep, SameVotes
  <2>3. FromVoters(left)
    BY <1>1, <2>2, SameVotesFrom
  <2>. HIDE DEF left
  <2>. QED  BY <1>1, <2>1, <2>3, AgreeStep
<1>6. ASSUME NEW n \in Nodes, Restart(n) PROVE AgreeInv'
  <2>1. FromVoters(<< >>)
    BY DEF FromVoters
  <2>2. mapTxLocks' = [mapTxLocks EXCEPT ![n] = << >>] /\ UNCHANGED <<list, signed>>
    BY <1>6 DEF Restart
  <2>. QED  BY <1>1, <2>1, <2>2, AgreeStep
<1>7. ASSUME NEW n \in Nodes, NEW l \in Lists, ChangeList(n, l) PROVE AgreeInv'
  <2>1. /\ list' = [list EXCEPT ![n] = l]
        /\ UNCHANGED <<mapTxLocks, signed>>
    BY <1>7 DEF ChangeList, lockVars
  <2>2. \A k \in Nodes : list'[k] \in Lists
    BY <1>1, <2>1 DEF Shape, AgreeInv
  <2>. QED  BY <2>1, <2>2 DEF AgreeInv
<1>8. CASE UNCHANGED <<mapTxLocks, list, signed>>
  BY <1>8 DEF AgreeInv
<1>. QED
  BY <1>2, <1>3, <1>4, <1>5, <1>6, <1>7, <1>8
  DEF Next, ReceiveTx, ConnectBlock, Tick, vars, lockVars

(* A complete lock counts votes of voters for its own height.              *)
LEMMA QuorumVotes ==
    ASSUME AgreeInv, NEW n \in Nodes, NEW tx \in DOMAIN mapTxLocks[n]
    PROVE  Quorum(tx, mapTxLocks[n][tx]) \subseteq Voters(mapTxLocks[n][tx].nBlockHeight)
  BY DEF AgreeInv, FromVoters, Quorum

(* No two conflicting locks are complete while the masternodes that signed *)
(* keep what they signed in their pools.                                   *)
LEMMA Agreement ==
    ASSUME QuorumsMeet, RemotesVoteOnce, IInv, PoolInv, AgreeInv
    PROVE  LockAgreement
<1>. SUFFICES ASSUME \A v \in signed : v.tx \in mempool[v.mn],
                     NEW n \in Nodes, NEW k \in Nodes,
                     NEW x \in DOMAIN mapTxLocks[n], NEW y \in DOMAIN mapTxLocks[k],
                     Conflict(x, y),
                     mapTxLocks[n][x].nBlockHeight = mapTxLocks[k][y].nBlockHeight,
                     IsComplete(mapTxLocks[n], x), IsComplete(mapTxLocks[k], y)
     PROVE  FALSE
  BY DEF LockAgreement
<1>. DEFINE h == mapTxLocks[n][x].nBlockHeight
            Qx == Quorum(x, mapTxLocks[n][x])
            Qy == Quorum(y, mapTxLocks[k][y])
<1>1. Cardinality(Qx) >= REQUIRED /\ Cardinality(Qy) >= REQUIRED
  BY QuorumOfLock DEF IsComplete
<1>2. h \in Heights
  BY DEF IInv, TypeOK, LockType
<1>3. Qx \subseteq Voters(h) /\ Qy \subseteq Voters(h)
  BY QuorumVotes
<1>4. IsFiniteSet(Voters(h)) /\ Cardinality(Voters(h)) < 2 * REQUIRED
  BY <1>2, MasternodesAssumption, FS_Subset DEF Voters, QuorumsMeet
<1>5. Cardinality(Qx) + Cardinality(Qy) > Cardinality(Voters(h))
  <2>. HIDE DEF Qx, Qy, h
  <2>1. Qx \in SUBSET Voters(h) /\ Qy \in SUBSET Voters(h)
    BY <1>3
  <2>2. IsFiniteSet(Qx) /\ IsFiniteSet(Qy)
    BY <1>4, <2>1, FS_Subset
  <2>3. Cardinality(Qx) \in Nat /\ Cardinality(Qy) \in Nat /\ Cardinality(Voters(h)) \in Nat
    BY <1>4, <2>2, FS_CardinalityType
  <2>. QED  BY <1>1, <1>4, <2>3, SizesAssumption
<1>6. PICK m : m \in Qx /\ m \in Qy
  <2>. HIDE DEF Qx, Qy, h
  <2>. QED  BY <1>3, <1>4, <1>5, FS_MajoritiesIntersect
<1>. DEFINE vx == [mn |-> m, tx |-> x, nBlockHeight |-> h]
            vy == [mn |-> m, tx |-> y, nBlockHeight |-> h]
<1>7. vx \in signed \union RemoteVotes /\ vy \in signed \union RemoteVotes
  BY <1>6 DEF Quorum
<1>8. CASE vx \in signed /\ vy \in signed
  <2>1. m \in Nodes
    BY <1>8 DEF AgreeInv
  <2>2. x \in mempool[m] /\ y \in mempool[m]
    BY <1>8
  <2>. QED  BY <2>1, <2>2 DEF PoolInv, PoolOK
<1>9. CASE vx \in RemoteVotes /\ vy \in RemoteVotes
  BY <1>9 DEF RemotesVoteOnce
<1>10. CASE vx \in signed /\ vy \in RemoteVotes
  BY <1>10 DEF AgreeInv, RemotesVoteOnce
<1>11. CASE vx \in RemoteVotes /\ vy \in signed
  BY <1>11 DEF AgreeInv, RemotesVoteOnce
<1>. QED  BY <1>7, <1>8, <1>9, <1>10, <1>11

(* Conflicting transactions voted on at the same height are never both     *)
(* locked, on whatever nodes, while the masternodes that signed keep the   *)
(* transactions in their pools: for any network in which the quorums of    *)
(* the voters meet and the other masternodes keep the rule of this code.   *)
THEOREM AgreementTheorem ==
    ASSUME QuorumsMeet, RemotesVoteOnce
    PROVE  Spec => []LockAgreement
<1>1. Init => PoolInv /\ AgreeInv
  BY DEF Init, PoolInv, ChainOK, PoolOK, AgreeInv, FromVoters
<1>2. IInv /\ PoolInv /\ AgreeInv /\ [Next]_vars => PoolInv' /\ AgreeInv'
  BY NextPoolInv, NextAgreeInv
<1>3. IInv /\ PoolInv /\ AgreeInv => LockAgreement
  BY Agreement
<1>. QED  BY <1>1, <1>2, <1>3, Invariance, PTL DEF Spec

(* The same for the deployed network, in which every node knows every      *)
(* masternode, scores differ and more than half of the                     *)
(* SWIFTTX_SIGNATURES_TOTAL masternodes must sign.                         *)
THEOREM DeployedAgreement ==
    ASSUME Lists = {Masternodes}, TOTAL < 2 * REQUIRED,
           \A h \in Heights : \A m, x \in Masternodes : Score[h][m] = Score[h][x] => m = x,
           RemotesVoteOnce
    PROVE  Spec => []LockAgreement
<1>1. QuorumsMeet
  BY MajorityOfTotal
<1>. QED  BY <1>1, AgreementTheorem

=============================================================================
