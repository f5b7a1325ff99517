# hbcur: TLA+ models and proofs

TLA+ models of the core of the hbcur node (a Bitcoin Core 0.10 / Dash / PIVX
derivative, C++ under `src/src/`), TLC configurations that check them on small
instances, and TLAPS proofs of the most important properties for every value of
the constants. `PROJECT.json` maps every definition to the lines it models.

    tlc -workers 2 -config MCSwiftTX_node.cfg MCSwiftTX     # one run
    tlapm SwiftTXProofs.tla                                 # one set of proofs

## 1. The system and its parts

| Part | State | Operations | Talks to |
|---|---|---|---|
| Script check queue (`checkqueue.h`) | queue, nIdle, nTotal, fAllOk, nTodo, fQuit, three condition variables' waiters | Add, Wait, Loop, IsIdle | ConnectBlock (master), the script threads |
| SwiftTX (`swifttx.cpp`) | requests, rejected requests, votes, locks, locked inputs | "ix", "txlvote", wallet send, voting, completion, clean-up | memory pool, block check, chain activation, masternode list |
| Masternode sync (`masternode-sync.cpp`) | stage, attempts, time stamps, counts of items seen, per-peer flags | Process, Reset, GetNextAsset, Added..., IsBlockchainSynced | peers, masternode list, payments, budget, sporks |
| Sporks (`spork.cpp`) | messages by hash, message in force by id | "spork", "getsporks", the `spork` RPC, ExecuteSpork | every part that asks IsSporkActive |
| Memory pool (`txmempool.cpp`) | mapTx, mapNextTx | addUnchecked, remove, removeForBlock, removeConflicts | AcceptToMemoryPool, ConnectTip, DisconnectTip |
| Chain activation (`main.cpp`) | block index, active chain, candidate tips, coins | ProcessNewBlock, ActivateBestChain, InvalidateBlock, ReconsiderBlock, FlushStateToDisk | pool, coins, check queue, SwiftTX, payments |
| Coins cache (`coins.cpp`) | entries with DIRTY/FRESH | Fetch, Modify, BatchWrite, Flush | chain activation, pool |
| Masternode list (`masternodeman.cpp`, `masternode.cpp`, `activemasternode.cpp`) | entries, seen broadcasts and pings, who asked whom | "mnb", "mnp", "dseg", CheckAndRemove, ranks | sync, payments, SwiftTX |
| Masternode payments (`masternode-payments.cpp`) | votes, payees by block | "mnw", "mnget", ProcessBlock, IsTransactionValid | sync, block check, miner |
| Budget (`masternode-budget.cpp`) | proposals, finalized budgets, votes, orphans | eight messages, CheckAndRemove, SubmitFinalBudget | sync, payments, sporks |
| Obfuscation (`obfuscation.cpp`) | mixing session, queue | a dozen messages, CheckTimeout, DoAutomaticDenominating | wallet, masternode list |
| Network, address manager, wallet, staking, RPC, start-up, GUI | see `PROJECT.json` | | |

What is hard in this code:

* threads: script workers and master; the message thread, the obfuscation thread
  and RPC threads, which share most masternode state without a common lock and
  use `TRY_LOCK` that may silently fail;
* messages: each is announced, fetched and relayed by every peer, so it is lost,
  duplicated and reordered as a matter of course;
* restarts: sporks, locks and votes are in memory only;
* time: retries, time-outs and expiry, all against one clock with a resolution
  of a second;
* sequences: a completed lock disconnects blocks, a sleep resets a sync whose
  requests are still being answered.

`PROJECT.json` ("hazards") lists these at the lines where they bite.

What makes each part correct:

* check queue: the verdict is the conjunction of all checks of the block, none is
  lost or run twice, the master is never left waiting;
* SwiftTX: a lock stands for a quorum, conflicting transactions are not both
  locked, the pool never holds a double spend, locks are released;
* sync: a node that enforces payments has the data it enforces, and it comes to
  an end, with a retry after a failure;
* sporks: the newest value wins on every node, and all nodes come to agree;
* coins: the caches are invisible, in memory and after a crash;
* chain: an idle node is on the best chain it may use, the disk can be loaded at
  any moment, activation ends;
* pool: every input of a pool transaction is there, unspent and mature, and a
  reorganisation loses no transaction that is still valid;
* payments and budget: every vote a node keeps is counted once, and a node
  accepts the block it would make itself;
* masternode list: no step back to older data, and a masternode that runs is
  listed by everybody again.

## 2. Modules

`X.tla` is a component, `MCX.tla` its instances for TLC, `XProofs.tla` its
theorems; those of CheckQueue and Mempool are in `ValidationProofs`, those of
Spork and Budget in `GovernanceProofs`. Definitions called "Mutant" are
deliberately wrong versions of an operator; they show that a property depends on
the code it is about and are used by no specification.

### CheckQueue

One master and a set of workers. Every stretch the code runs under the queue's
mutex is one action (`Enter`, `Complete`, `Resume`, `Add`); `Execute`, which runs
without the mutex, is another, so that all interleavings at lock granularity are
there. Condition variables are sets of waiters, with `notify_one`, spurious
wake-ups and `boost::thread_interrupted`, which leaves `nIdle` and `nTotal`
counting a thread that is gone. The queue is a set: the order of checks does not
matter to the verdict.

### SwiftTX

A set of nodes, some of which are masternodes, each with the maps of
`swifttx.cpp`, a pool and the chain since a base height. A handler is one action,
because one thread handles all messages. `AcceptIX` and `RejectIX` are the two
branches of "ix"; `ReceiveVote` is "txlvote" with `ProcessConsensusVote`;
`WalletSend`, `CleanTransactionLocksList`, `ConnectBlock`, `ReceiveTx`,
`ChangeList` and `Restart` are what else touches this state. `ChangeList` gives a
node any other masternode list of the constant `Lists`: masternodes come, expire
and are removed, and a rank is one among those in the list. The network has no
state of its own: a node may receive any request and any signed vote at any time
and any number of times. A default-constructed `CTransaction`, which
`operator[]` inserts, is the entry "empty".

Abstractions: transactions spend confirmed outputs (no chains of unconfirmed
transactions, no orphans); the hash of a vote is the pair of masternode and
transaction, as in `CConsensusVote::GetHash`; scores are a constant for every
height (at height 0 the code takes the tip's hash); signatures are valid; a block
holds at most one transaction that matters.

### MasternodeSync

One node and its peers. `Process` is split by the branch it takes
(`ProcessIdle`, `ProcessStart`, `ProcessWait`, `ProcessSporks`, `ProcessAsset`,
`ProcessBudget`); whether a `TRY_LOCK` succeeds is a parameter. One step of
`Process` is one period of five seconds, and time stamps are ages in that unit,
capped where no test tells them apart any more. `Answer` and `Relayed` are what
peers send, `Sleep` and `MnsyncReset` the two resets from outside, `Connect`,
`Disconnect`, `NewTip` and `Change` the environment. The regtest branch and the
"ssc" sums are left out.

### Spork

A set of nodes, some with the spork key. A message is sent once per peer and may
arrive in any order; a restart empties both maps, drops what was under way and
sends "getsporks". `ToInt` is the narrowing conversion of the RPC's `get_int` and
of `ExecuteSpork`'s parameter, of a width that is a constant.

### Coins and UtxoMap

`Coins` is the stack that connecting a block uses: the database, `pcoinsTip`, and
the short-lived cache above it, with the DIRTY and FRESH flags of every entry.
Reads are actions, because `FetchCoins` fills each cache on its way down.
`Restart` drops both caches. `UtxoMap` is what the stack promises: three plain
maps with their best blocks, where a flush copies a whole map down. `Coins`
implements it with each layer seen as "its own entry, else what is below"
(`Abs == INSTANCE UtxoMap WITH ...`). Coins are opaque values, and pruned coins
equal absent ones, which is how every caller treats them.

### ChainState

The block tree, `setBlockIndexCandidates`, `mapBlocksUnlinked`, the status flags,
the active chain and what of it is on disk. One action per stretch that holds
`cs_main`, and within such a stretch one per block, so that the process can die
in the middle: `StepDisconnect`, `StepConnect` and `StepInvalid` are
`ActivateBestChainStep`; `Release` is where `ActivateBestChain` lets other
threads in. `CrashInFlush` stops `FlushStateToDisk` between two of its writes:
after the file information, or after any part of the dirty index entries in the
order of their pointers (`WrittenUpTo`), each of which the code writes by itself;
and `Load`, `StartNode`, `StartRecovery`, `RecoveryEnd` and `RecoveryAbort` are
`LoadBlockIndexDB`. `Bar` and `Unbar` stand for the reasons of `CheckBlock` that
come and go (transaction locks, payment votes). The coins are the block they are
the state of. The contents of blocks are a constant (`Bad`). A step whose chain
is a part of the active one, as after a block has been invalidated, ends with
its last disconnection. `skipped` is a history variable that records where the
code is known not to make candidates of blocks that could be active.

### Mempool

Pool, orphans, coins and undo data while any child of the tip is connected and
the tip is disconnected. `ReceiveTx` is the whole "tx" handler including the
loop that resolves orphans, `ConnectTip` and `DisconnectTip` include
`removeForBlock`, the resurrection and `removeCoinbaseSpends`. Undo data keep
height, coinbase and coinstake flag only with the last output spent, as
`CCoins::Spend` does, and `DisconnectBlock` gives height and coinbase flag back
but not `fCoinStake`; the history variable `unstaked` has the coinstakes that lost
it. `DisconnectTip` fails when the outputs do not match the block. Orphans that
are too big are refused, and in the loop over the orphans a peer that sent an
invalid one is passed over from then on. Transactions may have no spendable
output. Size and fee rules are a `policy` that changes at will. A
loop of the code is a recursive function of the number of rounds: `ConnectBlock`
and `DisconnectBlock` give the coins after each transaction, because the code
tests a transaction with the coins it finds at that moment (`Connects`,
`Disconnects`). `Unspent` says without any order what a chain leaves.

### Payments

The votes of masternodes for the payee of a block ten blocks ahead, on one node
that may run a masternode. `AddWinningMasternode` and `CountVote` are the two
halves of one function: the tally is changed after the locks are released. Two
threads use it, the message thread ("net") and the one that processes a block
("block": message, staking, miner or RPC thread), and in between the other
thread, a new tip, a change of the list and `CleanPaymentList` may come. `still`
has the threads that saw none of the changes while they were between the halves,
and `torn` the heights that were cleaned there. A masternode is off, young or
stable; `Rank` is the place among the stable ones by a constant score, or -1; the
masternode to be paid is any enabled one of `Queue` that is not scheduled, and
`IsScheduled` also says no when its `TRY_LOCK` fails. SPORK_8 goes on and off; it
decides whether a wrong payment is refused and whether the reward, the table of
`GetMasternodePayment`, counts the stable masternodes or all (`Count`). `mnpayments.dat` is written in the
clean-up thread and read at a restart, which may find an old file.

### MasternodeList

One masternode in the lists of several nodes and on the node that runs it. Ages
stand for time stamps: a tick is the validity of a ping. `ReceiveBroadcast` is
"mnb" with both of its halves, `ReceivePing` is "mnp", `AnswerDseg` the answer to
a request for one entry, `CheckAndRemove` with its forgetting of what was seen,
`ManageStatus` and `Register` the running node and the cold wallet;
`ManageStatusUnsynced`, `InputTooNew` and `StartFromWallet` are the other ways
`ManageStatus` ends: the blockchain is not synced, the collateral is too new, the
coins are in the node's own wallet. The `TRY_LOCK` in `Check` may fail and leave
the state as it was. `Restart` reads mncache.dat, `Crash` finds none. The rare
events (restart, crash, spent collateral and the like) happen `MaxEvents` times in
all. Once `steady` everything that can happen in a tick does; before that anything
may be lost.

### Budget

One node. A proposal and a finalized budget are both items, because the code
treats their fees, votes and orphan votes alike (`CBudgetProposal` and
`CFinalizedBudget` have the same functions twice). Time is counted in blocks: the
clock `now` is the greatest height so far, and the height itself moves back in a
reorganisation. A fee is in the block of a height or in none (`mined`) and may be
locked by SwiftTX (`locked`), which counts as `SwiftDepth` confirmations for as
long as the lock lasts (`GetIXConfirmations`). A vote whose signature does not fit
the list of the moment is marked as seen all the same (`Unsigned`). A masternode
may vote through several wallets and at any times.
`NewBlock` is `CBudgetManager::NewBlock` with everything it calls; it may run at
any height and late, because it depends on a `TRY_LOCK`. `SubmitBudget` and
`VoteLocal` are the RPCs, `Clear` is SPORK_11, `Reload` reads `budget.dat`. The
loops of `GetBudget` and of the payees of a superblock are recursive functions.
`lost` is a history variable that names the votes the code gives up: with a
signature that did not fit, before their item and during the sync, as an orphan
that another one replaced, from the future, or too soon after the vote that is
counted.

### How they fit together

Each module takes from the others only what its source calls. ChainState leaves
the coins to Coins and Mempool; Mempool connects and disconnects in any order
ChainState could choose; Payments and Budget see the tip move forth and back;
SwiftTX composes its locks with a pool, block checks and several nodes; Spork and
MasternodeList are networks of nodes. Where a module takes an input from another
component (the masternode list in Payments and Budget, the state of the sync in
Budget) the input changes at any time.

## 3. Runs

| Run | Question | Size |
|---|---|---|
| checkqueue | verdict, bookkeeping, `assert(isIdle)`, and the master returns | 2 workers, 4 checks, batches of 2; 179,000 states |
| swifttx_node | quorum behind every complete lock, pool without double spends, types | 1 node, 3 remote masternodes, 2 lists, 2 conflicting requests, 1 block, 1 restart; 2.17 million states |
| swifttx_net | conflicting transactions are not both locked | 3 nodes, 2 of them masternodes, 1 restart; 512,000 states |
| sync_safety | enforced means received; stamps and counts go together | 2 peers (1 outdated) that come and go; 2.35 million states |
| sync_live | the sync comes to a verdict | 3 peers, the thresholds of the code; 337,000 states |
| spork | the newest wins; all nodes agree in the end | 3 nodes, 2 signers, 2 sporks, 2 updates, 1 restart; 392,000 states |
| coins | caching is invisible (refinement of UtxoMap); the flags are honest | 2 transactions, 2 values, 2 blocks; 37,000 states |
| chain | best chain, open way to it, loadable disk, links, activation ends | 2 threads, 2 branches of 2 blocks, 1 bad; 369,000 states |
| mempool | `CTxMemPool::check`, exact undo, orphan index, nothing lost in a reorganisation | 14 transactions, branches of 3 blocks and of 1, 2 peers; 19,000 states |
| payments | each vote counted once; own block accepted by lists of similar size | 3 masternodes, 4 votes for 2 heights, SPORK_8 on and off, 1 restart; 937,000 states |
| mnlist | no step back; a running masternode comes back into every list | 2 nodes, 2 broadcasts, 1 rare event; 747,000 states |
| budget | no vote or item lost; sound budgets only; own superblock accepted | 2 proposals, 1 remote budget, 2 remote votes and the node's own, 3 heights, 1 rare event; 780,000 states |

Why the bounds are enough. Two workers and the master give a last worker that
notifies while another waits; four checks with batches of two give two batches,
one of which may hold a bad check that the other must not hide. Two transactions
that share one input, one of them with a second input that is too young for a
lock until the next block, are the smallest conflict with two lock heights; three
masternodes with two required leave a vote too many; times 0 to 2 with a life of
1 let a lock expire, be cleaned up and come back. In the sync one outdated and
one recent peer exercise the version tests, and thresholds of 1 every comparison;
sync_live takes the code's own thresholds and the three peers that leaving SPORKS
takes. Three spork nodes let a relay overtake the original; an `int` of four bits
overflows as one of 32 does.

Coins: entries of different transactions do not interact except through the best
block, and two values tell a change from a repetition. Chain: two branches of
equal work give ties, a reorganisation, a child before its parent, a bad block
behind a good one and a crash half way; each outside event happens once and all
of them together twice. Mempool: a transaction with two inputs from one
transaction (undo order), a chain of two, a spend of a coinbase with a child, a
conflict between the branches, a coinstake both of whose outputs, the marker
included, are spent two blocks later by a transaction that has no output itself,
more dependent transactions than the two orphan places, one of which is too big,
and an invalid one. Payments: two required votes of three masternodes, one of
which comes and goes and changes its key; the tip moves one block ahead and back;
a vote for height 1 is one that the handler takes at the first tip and the
clean-up, whose limit is four blocks, removes at the next. Masternode list: every age threshold is one
tick apart from the next; two broadcasts overtake each other. Budget: a vote
before and after its item, a vote from the future, a "no" that replaces a "yes",
a superblock budget of exactly the total, and a list that loses a voter while the
enabled masternodes go from nine to ten, across the rounding of the threshold. One
of a reset, a restart, a reorganisation, a lock, a change of the list and a
forgetting of what was seen happens. The lock is what lets the fee of the node's
own suggestion, paid in the run, count enough confirmations at the last height, so
that the suggestion is announced; the automatic vote needs no event. An item that is invalid when it arrives does not occur in this
instance (it is marked as seen and nothing else happens).

Deadlock checking is off where the bounds, not the system, end a behaviour
(`MaxTime`, `MaxUpdates`, `MaxHeight`, `MaxRestarts`, `MaxEvents`, `Limit`), and in sync_live,
whose specification stops at the verdict because nothing after it matters.

## 4. Fairness

* CheckQueue: weak fairness of each thread's steps (the scheduler runs a thread
  that can run); none for spurious wake-ups or interruption, and no fairness
  makes the master start another round.
* MasternodeSync: weak fairness of a call of `Process` that gets its locks (the
  thread calls it every second and other threads hold `cs_vNodes` and `cs_main`
  for a while only), of the check of the chain, of a new tip, and of an answer of
  each peer to a request. In MCMasternodeSync_retry and _timeout peers do not
  answer at all, which TCP does not forbid.
* Spork: messages on an open connection arrive, "getsporks" is answered.
* ChainState: weak fairness of each thread's own steps and of the start-up. The
  outside events are bounded, so that a thread is overtaken finitely often, as
  blocks come minutes apart and a step takes milliseconds.
* MasternodeList: from some moment on the network is steady: what nodes send
  arrives, and pings and checks are made, before the next tick. Nothing makes
  that moment come, and the property is about behaviours in which it does.
* SwiftTX, Coins, Mempool, Payments, Budget: none; their properties are safety
  properties.

## 5. Proofs

`ValidationProofs` for CheckQueue (787 of its 3650 obligations): `TypeCorrect`,
`VerdictTheorem`, `TodoTheorem` and `IdleTheorem`, for any finite number of
workers, any finite set of checks and any batch size. The verdict alone is not inductive: `fAllOk` says
nothing of a batch whose result has not been merged. The invariant adds where a
thread that holds a batch can be (`PcInv`), that `nTotal` exceeds `nIdle` by the
threads at work although interrupted threads stay counted in both (`CountInv`),
what `fAllOk` and the threads' own `fOk` say of the checks completed so far
(`ResultInv`), and that nothing is left over between two rounds (`OutInv`).

`SwiftTXProofs` (1403 obligations): `TypeCorrect`, `QuorumTheorem`, `PoolTheorem`,
`AgreementTheorem` and `DeployedAgreement`, for any nodes, masternodes,
transactions, votes and scores. The assumptions are the named `ASSUME`s of
`SwiftTX.tla`: a transaction has an input, the number of required signatures is
positive, masternodes are finite. `CompleteMeansQuorum` rests on
`VoteInv`: no masternode occurs twice in a lock's vector, every vote in it was
signed, and every vote in it is still in `mapTxLockVote`. The last part is what
makes it inductive: `AddSignature` appends without looking, and only the filter
in "txlvote" keeps a vote from being counted twice. `CleanStep` shows that the
clean-up forgets a vote only together with the lock that counts it. That a
voting height is 0 or an input's height plus three (`TypeCorrect`) needs the
length of the chain to cancel out (`LockHeightType`).

`PoolConsistent` needs that the chain holds no double spend either (`ChainOK`):
a reprocessed block puts its transaction back into the pool. `LockAgreement` is
about two nodes; its invariant (`AgreeInv`) says that the votes in a lock come
from masternodes that rank high enough in some list a node may have
(`FromVoters`), that every node's list is one of `Lists`, and that what is signed
was signed by a node. Two quorums among fewer than `2 * REQUIRED` voters share a
masternode; it signed both transactions, and by the property's condition both are
still in its pool, which `PoolConsistent` excludes. The theorem has
two hypotheses, which are not properties of this code but of the network:
`QuorumsMeet` (the masternodes that may vote for one height, over all of `Lists`,
are fewer than `2 * REQUIRED`) and `RemotesVoteOnce` (masternodes
outside the model keep the rule of the code). `DeployedAgreement` derives the
first from what is deployed: the nodes have the same list, scores are distinct,
and 6 of the 10 best have to sign (`MajorityOfTotal`). For nodes whose lists
differ by more than the hypothesis allows nothing is proved.

`GovernanceProofs` for Spork (326 of its 2586 obligations): `TypeCorrect` and
`NewestTheorem`, for any nodes,
signers, sporks, values and width of an `int`. A message that arrives is compared
with the one in force, but the RPC stores without comparing; what makes
`ActiveIsNewest` inductive is `StampInv`: no message, held or under way, bears a
time later than the clock. The theorem therefore assumes one clock; a signer whose
clock runs behind would replace a newer spork by an older one.

`MasternodeSyncProofs` (618 obligations): `TypeCorrect`, `ReceivedTheorem` and
`StampTheorem`, for any peers, items and thresholds. The three invariants are
inductive together: a stage is left through `Complete`, which reads the time
stamp, or through `Stalled`, which with payments enforced leads to FAILED, and a
stamp goes back to "never" only in `Reset`, which also sets the stage back.
`GetNextAssetStep` is that argument; `AddedStep` shows that a stamp is set exactly
when a count grows.

`CoinsProofs` (619 obligations): `TypeCorrect`, `FlagsTheorem` and `Refinement`
(`Spec => Transparent`, every behaviour of the caches is one of the plain maps),
for any transactions, coins and blocks. The invariant is `FlagsHonest` with the
types: a FRESH entry has nothing unspent below it, an entry that is not DIRTY
equals the one below, and an entry of the upper cache that is not FRESH has one
below it. Without the last part `BatchWrite` could drop a spent coin that the
database still has. The refinement has one step per action: reads stutter,
because what `FetchCoins` adds equals what the mapping already saw; `Modify`
changes one point of the upper map; `Flush` and `FlushTip` copy a map down, which
is where each flag combination of `BatchWrite` is a case of its own.

`ChainStateProofs` (3401 obligations): `TypeCorrect`, `LinkedTheorem`,
`DiskTheorem`, `ReachTheorem` and `TipTheorem`, for every finite block tree, any
threads, sporks, number of outside events and orders of pointers. `TreeAssumption`
says that the blocks are a tree rooted in the genesis block in which work grows
towards the leaves; everything about ancestors, the next block on a path and the
order of candidates is a lemma from that (`Tree`, `AncFacts`, `TowardFacts`,
`WorseOrder`). The invariant `IInv` has eight parts:

* `LinkedInv` is `LinkedHonest` for every block. `StoreLinked` shows that
  following `mapBlocksUnlinked` links exactly the blocks whose chain has become
  complete.
* `DiskInv` makes `DiskConsistent` inductive: the chain of the coins in memory is
  marked as connected, what memory knows and the disk does not is dirty, and no
  mark but the failure marks is ever taken back. `WriteDisk`, `KeepDisk` and
  `TouchDisk` are the ways the databases change; `FlushedSafe` shows that any
  part of the dirty entries, written before the chain of the coins, leaves them
  sound.
* `ReachInv` is what replaces `BestReachable`, which is not inductive: the usable
  candidate for a block may be refused in the next step, and what it stood for
  would be uncovered. A block that is not marked invalid is a candidate itself,
  or worse than the tip, or not better than a candidate whose chain was connected
  before (`Sound`); should such a block be refused after all, `skipped` is set.
  The case that decides is `StepDisconnect`: the old tip was connected, so it is
  a sound candidate or no better than one, and that candidate covers every block
  that had been left out for being worse than the old tip.
* `StepInv` says that no usable candidate is better than the chain a step is
  activating, `QuietInv` that some thread has still to look for candidates or
  none is better than the tip; together with `ReachInv` they give `TipIsBest`.
* `BusyInv` and `RunInv` say who holds `cs_main`, and what is in memory when the
  node is down.

The proof changed the model in two places. `TipIsBest` does not hold, for more
outside events than the run allows, when the process dies within
`InvalidateBlock` (the invalid block stays in the active chain) and another block
is invalidated after the restart; the history variable `skipped` now records
that. And a step whose target is a part of the active chain has to end with its
last disconnection.

`PaymentsProofs` (1248 obligations): `TypeCorrect`, `CountTheorem` and
`OwnBlockTheorem`, for any masternodes, votes, heights and restarts.
`VotesCounted` needs one entry per payee and height (`Unique`: `AddPayee` adds to
every entry of the payee), with each thread that is between its two steps counted
apart (`Counts`), and the same of the file (`DiskInv`). `AddingInv` says what the
clean-up leaves alone: as long as neither the tip nor the list has moved since the
first step, the vote is within `CleanLimit`. Where one has moved the theorem makes
its exception (`torn`). `OwnBlockAccepted` needs that the table of
`GetMasternodePayment` falls as the count grows (`SharesFall`, `TimesMonotone`),
and is about both settings of SPORK_8. The assumptions say that votes are accepted
at least as far ahead as they are made, that a vote is made for a height ahead of
the tip which the search for scheduled payees does not pass, that the allowed
drift is positive, and that scores differ.

`MasternodeListProofs` (703 obligations): `TypeCorrect` and `NoStepBackTheorem`,
an action property, for any nodes, broadcasts and ages with the order of the
thresholds that the code has (ping, expiration, removal, forgetting). Each action
is shown to be a step that keeps or raises the number of an entry (`Good`), which
needs that `CheckAndRemove` never revives a spent entry in place.

`ValidationProofs` for Mempool (2863 obligations): `CoinsTheorem`,
`PoolCheckTheorem`, `OrphansTheorem` and the action property `NoTxLostTheorem`, for
any finite set of transactions, any block tree, peers, maturity and orphan limit.
The invariant `MempoolInv` has four parts:

* `ChainInv`: the coins are those of the tip; along the active chain no output is
  spent twice and none before it exists (`SoundChain`), and for each of its
  blocks the undo data are what connecting the block to the coins of its parent
  produced. The last part makes `CoinsMatchChain` inductive. All views in between
  have the form `CoinView(C, H, B, S)`: transactions `C` confirmed at heights `H`,
  of which the outputs `B` are spent, with the coinstake flag gone from `S`. Spending an input adds to `B` (`SpendOne`),
  restoring it takes it out again (`RestoreOne`), provided the metadata lie with
  the output that was spent last and come back first: that is where the order of
  the undo loop is used. `ConnectForm` and `DisconnectForm` carry this through
  a block.
* `GoodPool`: mapNextTx has exactly the inputs of the pool, these are in the pool
  or mature coins, and nothing in the pool is confirmed. `BlockRemoved` and
  `AcceptKeeps` show that it survives a new block and a new transaction. While
  a block's transactions are resurrected the pool is not good: it may spend what
  is still to be tried, or coins that are not mature any more. `Reviving` says
  what holds in between, and `BlockRevived` that `removeCoinbaseSpends` removes
  the rest.
* `OrphanInv` (the index with its types) and `PolicyType`.

`NoTxLost` follows a transaction through the loops: `RefusedBecause` lists why the
pool refuses one, `RemoveStep` and `ReviveStep` why one leaves it. Assumptions
(`TxAssumption`, `BlockAssumption`): a transaction has no repeated input, only a
coinbase has no inputs; the transactions of the part of the chain that stays are closed and
free of conflicts; and a coinbase occurs at one height and position.
The last one is what this program produces, which puts the height into every
coinbase (`miner.cpp:351` and `387`) where `CheckBlock` wants it (first); it is not
tested when a block arrives, since BIP30 is enforced for templates only
(`main.cpp:2279`). For blocks of other software that repeat a coinbase nothing is
proved.

`GovernanceProofs` for Budget (2260 obligations): `BudgetTypeCorrect`,
`VotesAreCounted`, `OwnBlocksAccepted`, and the action properties
`SoundBudgetsOnly` and `ItemsAreKept`, for any proposals, budgets, votes,
masternode lists, heights and restarts. The invariant `BudgetInv` adds to
`SeenVotesCounted` that the time of a counted vote is one the voter gave and is
not further ahead than a vote may be (`KnownInv`); an earlier vote of the same
masternode is replaced only by a later one, and one that is refused as too soon is
in `lost`. An orphan vote is filed under its own item (`OrphanInv`), and a fee is
in no block above the tip (`ChainInv`). `Grows` is what every part of `NewBlock`
does to the map: no item goes and no vote gets older, apart from what `lost`
records. `OwnBlockAccepted` and `OnlySoundBudgets` are about the loops that choose
the proposals and add them up: by `GetBudgetChooses` a budget is affordable, made
of eligible proposals with the best supported first, and what is left out did not
fit next to better ones.

Loops. Neither proof uses the library's induction theorems, whose operator
parameter the provers do not instantiate. `LeastNumber` (a non-empty set of
natural numbers has a least element) comes from the well-foundedness of `<`, which
takes a set. From it follows `Recursion`, which takes the step of a loop as a
function and what is shown of its n-th value as a set `I[n]`. Each loop of these
two models is a recursive function over `0 .. N`, so that it is an instance.

Only model-checked: the liveness properties (`WaitReturns` of CheckQueue,
`SyncDecides`, `Convergence` of Spork, `ActivationEnds`, `Recovers` of
MasternodeList), which need fairness and are out of the prover's reach. Every
other property of the runs is a theorem.

## 6. What the code does that its text does not say

Each of these has a configuration of its own. TLC ends it with a violation, and
its trace is the scenario described (`tlc -config MCSwiftTX_cancel.cfg
MCSwiftTX`). Where the regular runs meet the same behaviour, their property
names it as an exception.

1. `MCSwiftTX_cancel`: "if two conflicting locks are approved by the network,
   they will cancel out" (`swifttx.h:51`). A vote that completes a rejected
   request looks it up with `operator[]` in the wrong map (`swifttx.cpp:348`),
   gets an empty transaction, and finds no conflict.
2. `MCSwiftTX_consensus`: "only reject blocks when it's based on complete
   consensus" (`main.cpp:3289`). A rejected request locks its inputs without a
   vote (`swifttx.cpp:101`).
3. `MCSwiftTX_expiry`: "locks expire after 60 minutes" (`swifttx.cpp:236`).
   Inputs of a rejected request are not released (`swifttx.cpp:430`).
4. `MCMasternodeSync_retry`: "try syncing again" (`masternode-sync.cpp:250`). If
   the `TRY_LOCK` in `ClearFulfilledRequest` (line 223) fails, the node waits in
   SPORKS for a peer it has not asked.
5. `MCMasternodeSync_timeout`: "timeout" (`masternode-sync.cpp:310`). The test is
   behind a `continue` (line 307) and not made once all peers have been asked.
6. `MCSpork_off`: 4070908800 is "OFF" (`spork.h:50`). The RPC truncates it to an
   `int` (`rpcmisc.cpp:264`), a date in the past, and the spork is on.
7. `MCChainState_recovery`: "The block and the index should both be intact
   [...] and the block will be reprocessed" (`main.cpp:3840`). The recovery
   takes a height for an index into `vSortedByHeight`. When the file information
   was written and the index entry was not, that index is past the end; with a
   fork it names another block. Either way the start fails until `-reindex`.
8. `MCChainState_best`: "Return the tip of the chain with the most work in it,
   that isn't known to be invalid" (`main.cpp:2747`). `ReprocessBlocks`
   (`spork.cpp:146`) takes the chain back and `ReconsiderBlock`
   (`main.cpp:3005`) clears ancestors; neither puts the blocks that
   `PruneBlockIndexCandidates` removed back among the candidates.
9. `MCPayments_record`: "record this masternode voted"
   (`masternode-payments.h:279`). `CanVote` records the vote before its signature
   is checked; when the key in the list was outdated ("it could just be a
   non-synced masternode", `masternode-payments.cpp:409`) the same vote is
   refused for good after the list has been brought up to date.
10. `MCMasternodeList_remote`: "Hot node, waiting for remote activation."
    (`activemasternode.cpp:51`). A node that was started once and fell back is
    not started by a new broadcast: it takes itself for "already activated"
    (`masternode.cpp:558`) by its `vin` and does nothing.
11. `MCPayments_stable`: "as count increases, the reward decreases"
    (`masternode-payments.cpp:533`), so that a node which counts a few more is
    paid enough. At a count of 0 it does not: with SPORK_8 and masternodes of
    which none is stable yet, `GetMasternodePayment` gives 0, the check asks for
    90 % of the block, and a node refuses its own block.
12. `MCPayments_torn`: "keep up to five cycles for historical sake"
    (`masternode-payments.cpp:631`). The locks are released between
    `masternode-payments.cpp:509` and `511`. When the tip advances there, a vote
    at the far end of what "mnw" takes is cleaned up and then counted: the height
    has a payee and no vote.
13. `MCMempool_stake`: "Check that all outputs are available and match the outputs
    in the block itself exactly" (`main.cpp:2135`). When both outputs of a
    coinstake were spent, `DisconnectBlock` restores height and coinbase flag but
    not `fCoinStake` (`main.cpp:2171`); the block of that coinstake then does not
    match and cannot be disconnected, and its outputs count as mature.

Seen while modelling the budget: the tolerance of ten per cent in
`IsTransactionValid` (`masternode-budget.cpp:624`) is an integer division under a
strict comparison, so that with fewer than ten enabled masternodes no budget
passes, the node's own included (`OwnBlockAccepted` says so);
`CFinalizedBudget::GetVoteCount` counts the votes of masternodes that have left
the list.

## 7. Not modelled

* Obfuscation: the session between mixing clients and a masternode. Its thread's
  loop is in MasternodeSync, SwiftTX and MasternodeList as far as it calls them.
* Network layer: sockets and threads; messages are lost, duplicated and reordered
  where the code allows it.
* Address manager, wallet, staking and mining, script interpreter: sequential
  data structures and pure functions over byte strings and probabilities.
* Start-up apart from loading the block index, the caches and the masternode
  files; RPC apart from the commands that change modelled state.
* Inside modelled components: the regtest branch and the "ssc" sums of the sync;
  "mnget" and the `Sync` functions of payments and budget, which only send; a
  failed sync in the budget run; the messages of old masternode protocols; headers
  download, checkpoints and `VerifyDB`.
* A crash that leaves the mncache.dat of an earlier orderly stop; a crash after
  the index entry of a block was written and before its parent's, where
  `InsertBlockIndex` makes a blank entry (`main.cpp:3734`).
* `masternodeman.cpp:319` reads an iterator after it was erased and advanced: it
  forgets the broadcast of another entry, or ends the process. The model forgets
  what the code means to.
* Payments: scores do not depend on the height; the tally is changed at
  `masternode-payments.cpp:511` without the lock of its map, where the model has
  one atomic step.
* Budget: the payments of a finalized budget are those of proposals, so that the
  comparison of payee and amount in `AutoCheck` (`masternode-budget.cpp:1750`)
  cannot fail; the hash of a proposal does not tell two fees apart; the depth of a
  lock is less than the confirmations a fee needs, as it is by default;
  `OnlySoundBudgets` does not ask for proposals that were not valid when
  `CheckAndRemove` last looked, because `AutoCheck` runs before the flags are
  renewed (`masternode-budget.cpp:425`).
* Data races on the maps of SwiftTX between the message thread and the obfuscation
  thread: every handler is atomic.
* Vendored code, the GUI and the mobile applications are outside the project.

## 8. Plan

1. Done: the twelve runs of section 3 and the proofs of section 5.
2. Proofs: a refinement of an abstract chain (a tip that moves only along valid
   blocks) by ChainState; the safety half of `SyncDecides`.
3. Obfuscation: the session state machine of pool and client with its time-outs.
4. Address manager: consistency of the tried and new tables.
