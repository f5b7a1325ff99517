----------------------------- MODULE ChainState -----------------------------
(***************************************************************************)
(* The block tree and the active chain (main.cpp): accepting blocks, the   *)
(* candidates, ActivateBestChain and its steps, InvalidateBlock,           *)
(* ReconsiderBlock, ReprocessBlocks, what is written to disk when, and     *)
(* what LoadBlockIndexDB makes of it after a crash.                        *)
(*                                                                         *)
(* Threads share cs_main. What one holds the lock for is an action, except *)
(* for the work that the process can die in the middle of: a step of       *)
(* ActivateBestChain, InvalidateBlock and DisconnectBlocksAndReprocess     *)
(* take one action per block, with `busy` holding the lock in between.     *)
(*                                                                         *)
(* The coins are represented by the block they are the state of; that      *)
(* connecting and disconnecting blocks keeps them right is in Mempool, and *)
(* that the caches are maps is in Coins. No block file is ever deleted, so *)
(* the branch of FindMostWorkChain for missing data is dead and left out.  *)
(***************************************************************************)
EXTENDS Integers, FiniteSets, FiniteSetsExt

CONSTANTS
    Blocks, Genesis,
    Parent,         \* [Blocks \ {Genesis} -> Blocks]
    Anc,            \* [Blocks -> SUBSET Blocks], a block and its ancestors
    Height,         \* [Blocks -> Nat]
    Work,           \* [Blocks -> Nat], nChainWork
    Bad,            \* the blocks whose transactions ConnectBlock refuses
    Threads,
    Peers,          \* threads that get blocks and sporks (message handler, miner)
    Loader,         \* the thread of AppInit2 and ThreadImport
    Orders,         \* orders of the CBlockIndex objects in memory
    ReprocessDepths,\* values of SPORK_12_RECONSIDER_BLOCKS
    MaxReorgDepth,  \* Params().MaxReorganizationDepth()
    Limit,          \* how often each kind of outside event happens
    None

ASSUME TreeAssumption ==
    /\ IsFiniteSet(Blocks)
    /\ Genesis \in Blocks /\ None \notin Blocks /\ Genesis \notin Bad
    /\ Parent \in [Blocks \ {Genesis} -> Blocks] /\ Anc \in [Blocks -> SUBSET Blocks]
    /\ Height \in [Blocks -> Nat] /\ Work \in [Blocks -> Nat]
    /\ Anc[Genesis] = {Genesis} /\ Height[Genesis] = 0
    /\ \A b \in Blocks \ {Genesis} :
          /\ Work[Parent[b]] < Work[b]
          /\ Anc[b] = Anc[Parent[b]] \union {b} /\ Height[b] = Height[Parent[b]] + 1

ASSUME ParameterAssumption ==
    /\ Loader \in Threads /\ Peers \subseteq Threads
    /\ Orders # {} /\ \A order \in Orders : order \in [Blocks -> Int]
    /\ ReprocessDepths \subseteq Nat

Flag == {"tree", "data", "undo", "scripts", "failedValid", "failedChild"}
FAILED_MASK == {"failedValid", "failedChild"}

VARIABLES
    status,     \* nStatus; without "tree" the block is not in mapBlockIndex
    seq,        \* nSequenceId
    linked,     \* the blocks with nChainTx # 0
    unlinked,   \* mapBlocksUnlinked, by its values
    candidates, \* setBlockIndexCandidates
    dirty,      \* setDirtyBlockIndex
    tip,        \* chainActive.Tip()
    coins,      \* the best block of pcoinsTip
    info,       \* vinfoBlockFile[nLastBlockFile].nHeightLast
    disk,       \* the block tree database, the coin database and the shutdown flag
    addr,       \* the order of the pointers, a member of Orders
    run,        \* "up", "recovering" in LoadBlockIndexDB, "down" or "aborted"
    busy,       \* what the holder of cs_main is in the middle of
    thread,     \* where each thread is
    barred,     \* blocks that conflict with a transaction lock or a payee vote
    rejected,   \* mapRejectedBlocks
    left,       \* outside events still allowed
    skipped     \* history: a block better than the tip became valid again
                \* and was not made a candidate

index == <<status, seq, linked, unlinked, candidates, dirty, skipped>>
vars == <<index, tip, coins, info, disk, addr, run, busy, thread, barred, rejected, left>>

Free == [op |-> "none"]
Idle == [pc |-> "idle", want |-> None, todo |-> {}]

-----------------------------------------------------------------------------

Index == {b \in Blocks : "tree" \in status[b]}
Failed(b) == status[b] \intersect FAILED_MASK # {}
Active == Anc[tip]

(* CBlockIndexWorkComparator: a sorts before b.                            *)
Worse(a, b) ==
    \/ Work[a] < Work[b]
    \/ Work[a] = Work[b] /\ seq[a] > seq[b]
    \/ Work[a] = Work[b] /\ seq[a] = seq[b] /\ addr[a] > addr[b]

Mark(st, S, flags) == [b \in Blocks |-> IF b \in S THEN st[b] \union flags ELSE st[b]]
Clear(st, S) == [b \in Blocks |-> IF b \in S THEN st[b] \ FAILED_MASK ELSE st[b]]

(* The next block on the way from an ancestor a of b to b.                 *)
Toward(a, b) == CHOOSE c \in Anc[b] \ {Genesis} : Parent[c] = a

(* FlushStateToDisk when it writes: file info, dirty index entries, coins. *)
Flushed(st, changed, best) ==
    [disk EXCEPT !.status = [b \in Blocks |-> IF b \in changed THEN st[b] ELSE disk.status[b]],
                 !.info = info, !.best = best]

Start(t, pc) == [thread EXCEPT ![t] = [Idle EXCEPT !.pc = pc]]

(* cs_main is free, and t may use it.                                      *)
Lock(t) ==
    /\ busy = Free
    /\ \/ run = "up"
       \/ run = "recovering" /\ t = Loader

(* An outside event, within the bounds of Limit on its kind and on all.    *)
Spend(kind) ==
    /\ left[kind] > 0 /\ left.all > 0
    /\ left' = [left EXCEPT ![kind] = @ - 1, !.all = @ - 1]

-----------------------------------------------------------------------------
(* Accepting blocks.                                                       *)

(* Mutant: the blocks that waited for b are not looked for.                *)
NewlyLinkedAlone(b) ==
    IF b # Genesis /\ Parent[b] \notin linked THEN {} ELSE {b}

(* ReceivedBlockTransactions follows mapBlocksUnlinked: what is linked once*)
(* b has its data.                                                         *)
NewlyLinked(b) ==
    IF b # Genesis /\ Parent[b] \notin linked
    THEN {}
    ELSE {b} \union {c \in unlinked : b \in Anc[c] /\ Anc[c] \ Anc[b] \subseteq unlinked}

(* AcceptBlockHeader and AcceptBlock for a block without known data whose  *)
(* CheckBlock passes. Of blocks with the work of the tip the later one     *)
(* sorts worse and is no candidate.                                        *)
StoreBlock(b) ==
    LET new == NewlyLinked(b)
        next == Max({seq[c] : c \in Blocks}) + 1
        order == CHOOSE f \in [new -> 0 .. Cardinality(new) - 1] :
                    /\ IsInjective(f)
                    /\ \A c, d \in new : Height[c] < Height[d] => f[c] < f[d]
    IN  /\ status' = Mark(status, {b}, {"tree", "data"})
        /\ linked' = linked \union new
        /\ seq' = [c \in Blocks |-> IF c \in new THEN next + order[c] ELSE seq[c]]
        /\ unlinked' = IF new = {} THEN unlinked \union {b} ELSE unlinked \ new
        /\ candidates' = candidates \union {c \in new : Work[c] > Work[tip]}
        /\ dirty' = dirty \union {b}
        /\ info' = Max({info, Height[b]})
        /\ UNCHANGED skipped

(* The header is refused: the parent or the block itself is known to be    *)
(* invalid, or the fork is too deep.                                       *)
HeaderRefused(b) ==
    \/ Failed(Parent[b])
    \/ b \in Index /\ Failed(b)
    \/ b \notin Index /\ Height[tip] - Height[b] >= MaxReorgDepth

(* ProcessNewBlock, up to ActivateBestChain. CheckBlock passed when it was *)
(* called first, without the lock; by now b may be barred.                 *)
ProcessNewBlock(t, b) ==
    /\ Lock(t) /\ run = "up" /\ thread[t] = Idle
    /\ Parent[b] \in Index /\ ~HeaderRefused(b)
    /\ CASE "data" \in status[b] ->
            /\ thread' = Start(t, "find")
            /\ UNCHANGED <<index, info, rejected>>
       [] "data" \notin status[b] /\ b \in barred ->
            /\ status' = Mark(status, {b}, {"tree", "failedValid"})
            /\ dirty' = dirty \union {b}
            /\ rejected' = rejected \union {b}
            /\ UNCHANGED <<seq, linked, unlinked, skipped, candidates, info, thread>>
       [] OTHER ->
            /\ StoreBlock(b)
            /\ thread' = Start(t, "find")
            /\ UNCHANGED rejected
    /\ UNCHANGED <<tip, coins, disk, addr, run, busy, barred, left>>

(* CheckBlock fails at the start of ProcessNewBlock.                       *)
RejectBlock(b) ==
    /\ run = "up" /\ b \in barred \ rejected
    /\ rejected' = rejected \union {b}
    /\ UNCHANGED <<index, tip, coins, info, disk, addr, run, busy, thread, barred, left>>

(* A transaction lock completes, or payee votes arrive, that b violates.   *)
Bar(b) ==
    /\ run = "up" /\ b \notin barred /\ Spend("bar")
    /\ barred' = barred \union {b}
    /\ UNCHANGED <<index, tip, coins, info, disk, addr, run, busy, thread, rejected>>

(* The lock expires, or the votes are outvoted.                            *)
Unbar(b) ==
    /\ run = "up" /\ b \in barred
    /\ barred' = barred \ {b}
    /\ UNCHANGED <<index, tip, coins, info, disk, addr, run, busy, thread, rejected, left>>

-----------------------------------------------------------------------------
(* ActivateBestChain.                                                      *)

(* The blocks off the active chain that keep c from being activated; the   *)
(* highest one is where FindMostWorkChain stops.                           *)
Obstacles(c) == {x \in Anc[c] \ Active : Failed(x)}
Obstacle(c) == CHOOSE x \in Obstacles(c) : \A y \in Obstacles(c) : Height[y] <= Height[x]
Usable == {c \in candidates : Obstacles(c) = {}}
MostWork == IF Usable = {} THEN None ELSE CHOOSE c \in Usable : \A d \in Usable : ~Worse(c, d)

(* FindMostWorkChain: every better candidate on an invalid chain is        *)
(* dropped, with its path down to the invalid block.                       *)
Dropped == {c \in candidates \ Usable : MostWork = None \/ Worse(MostWork, c)}
FailedPath(c) == {y \in Anc[c] : Height[y] > Height[Obstacle(c)]}

FindMostWorkChain(t) ==
    /\ Lock(t) /\ thread[t].pc = "find"
    /\ status' = Mark(status, UNION {FailedPath(c) : c \in Dropped}, {"failedChild"})
    /\ candidates' = candidates \ UNION {FailedPath(c) \union {Obstacle(c)} : c \in Dropped}
    /\ IF MostWork \in {None, tip}
       THEN thread' = Start(t, "idle") /\ busy' = busy
       ELSE /\ thread' = [thread EXCEPT ![t].want = MostWork]
            /\ busy' = [op |-> "step", by |-> t, from |-> tip]
    /\ UNCHANGED <<seq, linked, unlinked, skipped, dirty, tip, coins, info, disk, addr, run, barred, rejected, left>>

(* DisconnectTip, with its FLUSH_STATE_ALWAYS; without undo data (the      *)
(* genesis block) nothing happens.                                         *)
DisconnectTip(changed) ==
    /\ coins = tip /\ "undo" \in status[tip]
    /\ tip' = Parent[tip]
    /\ coins' = Parent[tip]
    /\ disk' = Flushed(status', dirty \union changed, Parent[tip])
    /\ dirty' = {}

(* The end of a step: the lock is released and listeners are told.         *)
Release(t) == busy' = Free /\ thread' = [thread EXCEPT ![t].pc = "notify"]

(* The blocks off the chain to activate go first; when that chain is a part*)
(* of the active one there is nothing to connect.                          *)
StepDisconnect ==
    LET want == thread[busy.by].want
    IN  /\ busy.op = "step"
        /\ tip \notin Anc[want]
        /\ status' = status
        /\ DisconnectTip({})
        /\ IF tip' = want THEN Release(busy.by) ELSE UNCHANGED <<busy, thread>>
        /\ UNCHANGED <<seq, linked, unlinked, skipped, candidates, info, addr, run, barred, rejected, left>>

(* Mutant: the tip itself goes too.                                        *)
PrunedTip(b) == {c \in candidates : Worse(b, c)}

(* PruneBlockIndexCandidates, with b the new tip.                          *)
Pruned(b) == {c \in candidates : ~Worse(c, b)}

(* ConnectTip of the next block succeeds. PruneBlockIndexCandidates        *)
(* follows, and the step ends as soon as there is progress.                *)
StepConnect ==
    LET t == busy.by
        b == Toward(tip, thread[t].want)
    IN  /\ busy.op = "step"
        /\ tip \in Anc[thread[t].want]
        /\ coins = tip /\ b \notin barred \union Bad
        /\ status' = Mark(status, {b}, {"undo", "scripts"})
        /\ tip' = b /\ coins' = b
        /\ candidates' = Pruned(b)
        /\ \/ disk' = [disk EXCEPT !.status[b] = status[b]] /\ dirty' = dirty \union {b}
           \/ disk' = Flushed(status', dirty \union {b}, b) /\ dirty' = {}
        /\ IF Work[b] > Work[busy.from] \/ b = thread[t].want
           THEN Release(t)
           ELSE UNCHANGED <<busy, thread>>
        /\ UNCHANGED <<seq, linked, unlinked, skipped, info, addr, run, barred, rejected, left>>

(* Mutant: the block is not remembered as invalid.                         *)
InvalidBlockFoundForgets(b) == UNCHANGED <<status, dirty, candidates>>

InvalidBlockFound(b) ==
    /\ status' = Mark(status, {b}, {"failedValid"})
    /\ dirty' = dirty \union {b}
    /\ candidates' = candidates \ {b}

(* ConnectBlock finds the next block invalid, in CheckBlock or later, after*)
(* the index entry has been written.                                       *)
StepInvalid ==
    LET t == busy.by
        b == Toward(tip, thread[t].want)
    IN  /\ busy.op = "step"
        /\ tip \in Anc[thread[t].want]
        /\ coins = tip
        /\ \/ b \in barred /\ rejected' = rejected \union {b} /\ disk' = disk
           \/ b \in Bad \ barred /\ rejected' = rejected
              /\ disk' = [disk EXCEPT !.status[b] = status[b]]
        /\ InvalidBlockFound(b)
        /\ skipped' = (skipped \/ "scripts" \in status[b])
        /\ Release(t)
        /\ UNCHANGED <<seq, linked, unlinked, tip, coins, info, addr, run, barred, left>>

(* The loop ends when the chain found is the active one, as read without   *)
(* the lock.                                                               *)
Notify(t) ==
    /\ run \in {"up", "recovering"} /\ thread[t].pc = "notify"
    /\ thread' = [thread EXCEPT ![t].pc = IF thread[t].want # tip THEN "find" ELSE "flush"]
    /\ UNCHANGED <<index, tip, coins, info, disk, addr, run, busy, barred, rejected, left>>

(* FLUSH_STATE_PERIODIC, which writes or does not.                         *)
PeriodicFlush(t) ==
    /\ Lock(t) /\ thread[t].pc = "flush"
    /\ \/ dirty' = {} /\ disk' = Flushed(status, dirty, coins)
       \/ UNCHANGED <<dirty, disk>>
    /\ thread' = Start(t, "idle")
    /\ UNCHANGED <<status, seq, linked, unlinked, skipped, candidates, tip, coins, info, addr, run, busy, barred, rejected, left>>
-----------------------------------------------------------------------------
(* InvalidateBlock, ReconsiderBlock and ReprocessBlocks.                   *)

(* The RPC invalidateblock. The chain is taken back block by block.        *)
InvalidateBlock(t, b) ==
    /\ Lock(t) /\ run = "up" /\ thread[t] = Idle
    /\ b \in Index \ {Genesis} /\ Spend("invalidate")
    /\ status' = Mark(status, {b}, {"failedValid"})
    /\ dirty' = dirty \union {b}
    /\ candidates' = candidates \ {b}
    /\ thread' = Start(t, "invalidate")
    /\ busy' = [op |-> "invalidate", by |-> t, block |-> b]
    /\ UNCHANGED <<seq, linked, unlinked, skipped, tip, coins, info, disk, addr, run, barred, rejected>>

InvalidateDisconnect ==
    /\ busy.op = "invalidate" /\ busy.block \in Active
    /\ status' = Mark(status, {tip}, {"failedChild"})
    /\ candidates' = candidates \ {tip}
    /\ DisconnectTip({tip})
    /\ UNCHANGED <<seq, linked, unlinked, skipped, info, addr, run, busy, thread, barred, rejected, left>>

(* Mutant: nothing is added again.                                         *)
ReaddedNone == {}

(* The blocks that are now at least as good as the tip.                    *)
Readded == {c \in linked : ~Failed(c) /\ "data" \in status[c] /\ ~Worse(c, tip)}

(* They become candidates again; then ActivateBestChain.                   *)
InvalidateEnd ==
    /\ busy.op = "invalidate" /\ busy.block \notin Active
    /\ candidates' = candidates \union Readded
    /\ skipped' = \E a \in Active : Failed(a)
    /\ busy' = Free
    /\ thread' = Start(busy.by, "find")
    /\ UNCHANGED <<status, seq, linked, unlinked, dirty, tip, coins, info, disk, addr, run, barred, rejected, left>>

(* Mutant: nChainTx is not looked at.                                      *)
ReconsideredUnlinked(S) == {c \in S : Worse(tip, c)}

(* Of the blocks it clears, those that ReconsiderBlock makes candidates.   *)
Reconsidered(S) == {c \in S \intersect linked : "data" \in status[c] /\ Worse(tip, c)}

(* ReconsiderBlock clears the block, its descendants and its ancestors; of *)
(* the ones it clears the block and its descendants may become candidates. *)
ReconsiderBlock(b) ==
    LET below == {c \in Index : b \in Anc[c] /\ (Failed(c) \/ "data" \notin status[c])}
        cleared == below \union {a \in Anc[b] : Failed(a)}
    IN  /\ status' = Clear(status, cleared)
        /\ dirty' = dirty \union cleared
        /\ candidates' = candidates \union Reconsidered(below)
        /\ skipped' = (skipped \/ \E a \in (cleared \intersect linked) \ candidates' : ~Worse(a, tip))
        /\ UNCHANGED <<seq, linked, unlinked>>

(* The RPC reconsiderblock.                                                *)
Reconsider(t, b) ==
    /\ Lock(t) /\ run = "up" /\ thread[t] = Idle
    /\ b \in Index \ {Genesis} /\ Spend("reconsider")
    /\ ReconsiderBlock(b)
    /\ thread' = Start(t, "find")
    /\ UNCHANGED <<tip, coins, info, disk, addr, run, busy, barred, rejected>>

(* ReprocessBlocks, for SPORK_12: the rejected blocks of the time window   *)
(* are reconsidered, each under its own lock.                              *)
ReprocessBlocks(t) ==
    /\ run = "up" /\ thread[t] = Idle /\ Spend("reprocess")
    /\ \E S \in SUBSET (rejected \intersect Index) :
          thread' = [thread EXCEPT ![t] = [pc |-> "reconsider", want |-> None, todo |-> S]]
    /\ UNCHANGED <<index, tip, coins, info, disk, addr, run, busy, barred, rejected>>

ReprocessReconsider(t, b) ==
    /\ Lock(t) /\ thread[t].pc = "reconsider" /\ b \in thread[t].todo
    /\ ReconsiderBlock(b)
    /\ thread' = [thread EXCEPT ![t].todo = @ \ {b}]
    /\ UNCHANGED <<tip, coins, info, disk, addr, run, busy, barred, rejected, left>>

(* DisconnectBlocksAndReprocess takes the lock and disconnects one block   *)
(* more than it is told to.                                                *)
ReprocessStart(t, n) ==
    /\ Lock(t) /\ thread[t].pc = "reconsider" /\ thread[t].todo = {}
    /\ busy' = [op |-> "reprocess", by |-> t, blocks |-> n + 1]
    /\ UNCHANGED <<index, tip, coins, info, disk, addr, run, thread, barred, rejected, left>>

ReprocessDisconnect ==
    /\ busy.op = "reprocess" /\ busy.blocks > 0
    /\ status' = status
    /\ DisconnectTip({})
    /\ skipped' = TRUE
    /\ busy' = [busy EXCEPT !.blocks = @ - 1]
    /\ UNCHANGED <<seq, linked, unlinked, candidates, info, addr, run, thread, barred, rejected, left>>

(* The genesis block stays.                                                *)
ReprocessEnd ==
    /\ busy.op = "reprocess" /\ (busy.blocks = 0 \/ "undo" \notin status[tip])
    /\ busy' = Free
    /\ thread' = Start(busy.by, "find")
    /\ UNCHANGED <<index, tip, coins, info, disk, addr, run, barred, rejected, left>>

-----------------------------------------------------------------------------
(* Shutdown, crash and start.                                              *)

(* Nothing is left in memory.                                              *)
Down(state) ==
    /\ run' = state
    /\ status' = [b \in Blocks |-> {}] /\ seq' = [b \in Blocks |-> 0]
    /\ linked' = {} /\ unlinked' = {} /\ candidates' = {} /\ dirty' = {}
    /\ skipped' = FALSE
    /\ tip' = Genesis /\ coins' = Genesis /\ info' = 0
    /\ busy' = Free /\ thread' = [t \in Threads |-> Idle]
    /\ barred' = {} /\ rejected' = {}
    /\ addr' = addr

(* PrepareShutdown.                                                        *)
Shutdown ==
    /\ run = "up" /\ busy = Free /\ Spend("stop")
    /\ disk' = [Flushed(status, dirty, coins) EXCEPT !.clean = TRUE]
    /\ Down("down")

(* The process dies.                                                       *)
Crash ==
    /\ run \in {"up", "recovering"} /\ Spend("stop")
    /\ disk' = disk
    /\ Down("down")

(* Mutant: the coins are written first.                                    *)
PartlyFlushedCoinsFirst == {[disk EXCEPT !.best = coins]}

OnDisk == {b \in Blocks : "tree" \in disk.status[b]}

(* The entries that have been written once b has: setDirtyBlockIndex is a  *)
(* set of pointers.                                                        *)
WrittenUpTo(b) == {c \in dirty : addr[c] <= addr[b]}

(* The databases after the file info, and also some of the index or all of *)
(* it, has been written. Left out are those with a block whose parent is   *)
(* not yet written: InsertBlockIndex would make a blank entry of it.       *)
PartlyFlushed ==
    {[disk EXCEPT !.info = info]} \union
    {Flushed(status, WrittenUpTo(b), disk.best) :
        b \in {a \in dirty : \A c \in WrittenUpTo(a) \ {Genesis} :
                               Parent[c] \in OnDisk \union WrittenUpTo(a)}}

(* The process dies within FlushStateToDisk.                               *)
CrashInFlush ==
    /\ run \in {"up", "recovering"} /\ Spend("stop")
    /\ busy # Free \/ \E t \in Threads : thread[t].pc \in {"notify", "flush"}
    /\ disk' \in PartlyFlushed
    /\ Down("down")

(* An assertion fails or LoadBlockIndexDB calls abort().                   *)
Abort == Down("aborted") /\ UNCHANGED left

(* The coins are not those of the tip, which DisconnectBlock and           *)
(* ConnectBlock assert before they do anything.                            *)
StepAssert ==
    /\ busy.op = "step" /\ coins # tip
    /\ disk' = disk
    /\ Abort

DiskLinked == {b \in Blocks : \A a \in Anc[b] : "data" \in disk.status[a]}

(* vSortedByHeight: by height, then by pointer.                            *)
Before(order, a, b) ==
    \/ Height[a] < Height[b]
    \/ Height[a] = Height[b] /\ order[a] < order[b]
Position(order, b) == Cardinality({a \in OnDisk : Before(order, a, b)})
Highest(order, S) == CHOOSE b \in S : \A a \in S : ~Before(order, b, a)

(* "Inconsistent State Detected".                                          *)
Inconsistent ==
    ~disk.clean /\ Cardinality(OnDisk) # disk.info + 1 /\ disk.info # 0

(* The block that is processed again: the first one past the recorded ones *)
(* that is higher than the coins, or else the last one.                    *)
LastMeta(order) ==
    LET past == {b \in OnDisk : Position(order, b) > disk.info /\ Height[b] > Height[disk.best]}
    IN  IF past = {} THEN Highest(order, OnDisk)
        ELSE CHOOSE b \in past : \A a \in past : ~Before(order, a, b)

(* LoadBlockIndexDB reads the index.                                       *)
Load(order) ==
    /\ addr' = order
    /\ status' = disk.status /\ seq' = [b \in Blocks |-> 0]
    /\ linked' = DiskLinked
    /\ unlinked' = {b \in OnDisk : "data" \in disk.status[b]} \ DiskLinked
    /\ dirty' = {} /\ info' = disk.info /\ coins' = disk.best
    /\ UNCHANGED <<busy, barred, rejected, left>>

Loaded == {b \in DiskLinked : disk.status[b] \intersect FAILED_MASK = {}}

(* The end of LoadBlockIndexDB: the tip is the block of the coins, and     *)
(* worse candidates go; an assertion wants one to be left.                 *)
(* ActivateBestChain is called next.                                       *)
LoadChain(st, best) ==
    /\ tip' = best
    /\ skipped' = (skipped \/ \E a \in Anc[best] : st[a] \intersect FAILED_MASK # {})
    /\ run' = "up"
    /\ thread' = [t \in Threads |-> IF t = Loader THEN [Idle EXCEPT !.pc = "find"] ELSE Idle]

StartNode(order) ==
    LET good == {c \in Loaded : \/ Work[c] > Work[disk.best]
                                \/ Work[c] = Work[disk.best] /\ order[c] <= order[disk.best]}
    IN  /\ run = "down" /\ ~Inconsistent
        /\ disk' = [disk EXCEPT !.clean = FALSE]
        /\ IF good = {}
           THEN Abort
           ELSE Load(order) /\ LoadChain(disk.status, disk.best) /\ candidates' = good

(* The recovery: the active chain is set to the parent of LastMeta, which  *)
(* is handed to ProcessNewBlock.                                           *)
StartRecovery(order) ==
    LET last == LastMeta(order)
    IN  /\ run = "down" /\ Inconsistent
        /\ Cardinality(OnDisk) > disk.info + 1
        /\ "data" \in disk.status[last]
        /\ Load(order)
        /\ tip' = Parent[last]
        /\ skipped' = \E a \in Anc[Parent[last]] : disk.status[a] \intersect FAILED_MASK # {}
        /\ candidates' = Loaded
        /\ run' = "recovering"
        /\ thread' = [thread EXCEPT ![Loader] =
                         IF (disk.status[last] \union disk.status[Parent[last]]) \intersect FAILED_MASK = {}
                         THEN [Idle EXCEPT !.pc = "find"] ELSE Idle]
        /\ disk' = disk

(* There is no block past the recorded ones, which reads beyond the end of *)
(* the vector, or the block cannot be read.                                *)
StartAbort(order) ==
    /\ run = "down" /\ Inconsistent
    /\ \/ Cardinality(OnDisk) <= disk.info + 1
       \/ "data" \notin disk.status[LastMeta(order)]
    /\ disk' = disk
    /\ Abort

(* The recovery has run: the coins must be at the highest block.           *)
RecoveryEnd ==
    LET last == Highest(addr, Index)
    IN  /\ run = "recovering" /\ busy = Free /\ thread[Loader] = Idle
        /\ coins = last
        /\ info' = Height[last]
        /\ disk' = [Flushed(status, dirty, coins) EXCEPT !.clean = FALSE, !.info = Height[last]]
        /\ dirty' = {}
        /\ LoadChain(status, coins)
        /\ candidates' = Pruned(coins)
        /\ UNCHANGED <<status, seq, linked, unlinked, coins, addr, busy, barred, rejected, left>>

RecoveryAbort ==
    /\ run = "recovering" /\ busy = Free /\ thread[Loader] = Idle
    /\ LET last == Highest(addr, Index)
       IN  /\ coins # last
           /\ disk' = [Flushed(status, dirty, coins) EXCEPT !.info = Height[last]]
    /\ Abort

(* -reindex: the databases are wiped and the blocks are read again.        *)
Reindex ==
    /\ run = "aborted"
    /\ run' = "up"
    /\ status' = [b \in Blocks |-> IF b = Genesis THEN {"tree", "data"} ELSE {}]
    /\ linked' = {Genesis} /\ candidates' = {Genesis}
    /\ disk' = [status |-> status', info |-> 0, best |-> Genesis, clean |-> FALSE]
    /\ UNCHANGED <<seq, unlinked, dirty, skipped, tip, coins, info, addr, busy, thread, barred, rejected, left>>
-----------------------------------------------------------------------------

(* A new data directory: InitBlockIndex has stored the genesis block. The  *)
(* pointers matter only for blocks read from disk.                         *)
Init ==
    /\ status = [b \in Blocks |-> IF b = Genesis THEN {"tree", "data"} ELSE {}]
    /\ seq = [b \in Blocks |-> 0]
    /\ linked = {Genesis} /\ unlinked = {} /\ candidates = {Genesis} /\ dirty = {}
    /\ tip = Genesis /\ coins = Genesis /\ info = 0
    /\ disk = [status |-> status, info |-> 0, best |-> Genesis, clean |-> FALSE]
    /\ addr = CHOOSE order \in Orders : TRUE
    /\ run = "up" /\ busy = Free /\ thread = [t \in Threads |-> Idle]
    /\ barred = {} /\ rejected = {} /\ left = Limit /\ skipped = FALSE

(* What goes on by itself once started.                                    *)
Activate(t) == FindMostWorkChain(t) \/ Notify(t) \/ PeriodicFlush(t)
Reprocess(t) ==
    \/ \E b \in Blocks : ReprocessReconsider(t, b)
    \/ \E n \in ReprocessDepths : ReprocessStart(t, n)
Holder ==
    \/ StepDisconnect \/ StepConnect \/ StepInvalid \/ StepAssert
    \/ InvalidateDisconnect \/ InvalidateEnd
    \/ ReprocessDisconnect \/ ReprocessEnd
StartUp ==
    \/ \E order \in Orders : StartNode(order) \/ StartRecovery(order) \/ StartAbort(order)
    \/ RecoveryEnd \/ RecoveryAbort \/ Reindex

(* What comes from outside.                                                *)
Outside ==
    \/ \E t \in Peers, b \in Blocks \ {Genesis} : ProcessNewBlock(t, b)
    \/ \E t \in Peers : ReprocessBlocks(t)
    \/ \E t \in Threads \ Peers, b \in Blocks \ {Genesis} : InvalidateBlock(t, b) \/ Reconsider(t, b)
    \/ \E b \in Blocks \ (Bad \union {Genesis}) : Bar(b) \/ Unbar(b) \/ RejectBlock(b)
    \/ Shutdown \/ Crash \/ CrashInFlush

Next ==
    \/ \E t \in Threads : Activate(t) \/ Reprocess(t)
    \/ Holder \/ StartUp \/ Outside

(* A thread that waits for cs_main gets it, and goes on when it has it.    *)
Fairness ==
    /\ WF_vars(StartUp)
    /\ \A t \in Threads : WF_vars(Activate(t) \/ Reprocess(t) \/ (Holder /\ busy.by = t))

Spec == Init /\ [][Next]_vars /\ Fairness

-----------------------------------------------------------------------------

(* The variables have their types, and every candidate has the data of its *)
(* whole chain: FindMostWorkChain asserts it.                              *)
TypeOK ==
    /\ status \in [Blocks -> SUBSET Flag]
    /\ seq \in [Blocks -> Nat]
    /\ UNION {linked, unlinked, dirty, barred, rejected} \subseteq Blocks
    /\ candidates \subseteq linked
    /\ {tip, coins} \subseteq Blocks
    /\ info \in Nat
    /\ disk \in [status : [Blocks -> SUBSET Flag], info : Nat, best : Blocks, clean : BOOLEAN]
    /\ run \in {"up", "recovering", "down", "aborted"}
    /\ thread \in [Threads -> [pc : {"idle", "find", "notify", "flush", "reconsider", "invalidate"},
                               want : Blocks \union {None}, todo : SUBSET Blocks]]
    /\ skipped \in BOOLEAN

(* The blocks that could be on the active chain.                           *)
Valid == {b \in linked : \A a \in Anc[b] : ~Failed(a)}

Quiet == run = "up" /\ busy = Free /\ \A t \in Threads : thread[t] = Idle

(* When every ActivateBestChain has returned, no valid block sorts better  *)
(* than the tip, whatever was received, refused, invalidated, reconsidered *)
(* or lost in a crash in between. The history variable excludes what the   *)
(* code does not provide for: ReprocessBlocks takes the chain back without *)
(* looking for candidates again, ReconsiderBlock clears ancestors without  *)
(* making them candidates, a block that was once connected turns invalid   *)
(* (CheckBlock depends on locks and votes), and a crash within             *)
(* InvalidateBlock leaves the invalid block active, which the next start   *)
(* and the next InvalidateBlock do not see to.                             *)
TipIsBest == Quiet /\ ~skipped => \A b \in Valid : ~Worse(tip, b)

(* Whenever cs_main is free, also between the steps of a reorganisation    *)
(* that another thread sees half done, the way to the best chain is open:  *)
(* for every valid block better than the tip there is a candidate at least *)
(* as good whose chain is not known to be invalid.                         *)
BestReachable ==
    run = "up" /\ busy = Free /\ ~skipped =>
        \A b \in Valid : Worse(tip, b) => \E c \in Usable : ~Worse(c, b)

(* At any moment the process may die: the block of the coin database and   *)
(* all its ancestors are in the block index on disk, with their data and   *)
(* what is needed to disconnect them. ("Finally flush the chainstate       *)
(* (which may refer to block index entries)").                             *)
DiskConsistent ==
    \A a \in Anc[disk.best] :
        /\ {"tree", "data"} \subseteq disk.status[a]
        /\ a # Genesis => "undo" \in disk.status[a]

(* nChainTx and mapBlocksUnlinked, as CheckBlockIndex asserts them: a block*)
(* is linked exactly when its chain has all its data, and waits for it in  *)
(* mapBlocksUnlinked exactly when it has data and its chain has not.       *)
LinkedHonest ==
    run = "up" =>
        \A b \in Index : /\ b \in linked <=> \A a \in Anc[b] : "data" \in status[a]
                         /\ b \in unlinked <=> "data" \in status[b] /\ b \notin linked

(* "The result is either failure or an activated best chain": a thread that*)
(* entered ActivateBestChain, InvalidateBlock or ReprocessBlocks returns,  *)
(* although it lets others take the lock between its steps.                *)
ActivationEnds == \A t \in Threads : thread[t] # Idle ~> thread[t] = Idle

(* "Return the tip of the chain with the most work in it, that isn't known *)
(* to be invalid": TipIsBest without exceptions.                           *)
MostWorkActive == Quiet => \A b \in Valid : ~Worse(tip, b)

(* After an unclean end "the block and the index should both be intact     *)
(* [...] and the block will be reprocessed": the node comes up again.      *)
Recovers == run # "aborted"

=============================================================================
