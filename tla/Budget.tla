------------------------------- MODULE Budget -------------------------------
(***************************************************************************)
(* The masternode budget on one node (masternode-budget.cpp): proposals,   *)
(* finalized budgets, the votes on both, and the superblocks that pay a    *)
(* finalized budget.                                                       *)
(*                                                                         *)
(* A proposal and a finalized budget are items: both wait for the          *)
(* confirmations of their fee, collect votes by the same rules, and keep   *)
(* votes that come before them as orphans. Messages come in any order, are *)
(* lost and come again. Time is counted in blocks: the clock stands at the *)
(* greatest height the chain has had, which a reorganisation leaves alone. *)
(***************************************************************************)
EXTENDS Integers, FiniteSets, Sequences, FiniteSetsExt, Functions

CONSTANTS
    Proposals,              \* CBudgetProposal::GetHash
    Start, End, Amount,     \* nBlockStart, nBlockEnd and nAmount of each proposal
    FeeRank,                \* the order of the proposals' nFeeTXHash
    RemoteFinals,           \* finalized budgets suggested by other nodes
    PaidAt,                 \* the first block that may hold the fee of a proposal or remote budget
    Masternodes, Self,      \* Self is the masternode this node runs
    RemoteVotes,            \* the votes of the other masternodes
    LocalItems,             \* what Self votes on by command
    LocalChoices,           \* and how
    Lists, FirstList,       \* values of mnodeman's list and its CountEnabled, and the first
    SyncEnds,               \* how the sync ends
    Cycle,                  \* GetBudgetPaymentCycleBlocks
    Window,                 \* Cycle / 30 * 2: when budgets are suggested
    Every,                  \* 14: NewBlock does most of its work in every 14th block
    Confirmations,          \* BUDGET_FEE_CONFIRMATIONS
    SwiftDepth,             \* nSwiftTXDepth: the confirmations a transaction lock is worth
    UpdateMin,              \* BUDGET_VOTE_UPDATE_MIN
    Ahead,                  \* how far in the future a vote may be
    Day,                    \* the age of an established proposal
    Late,                   \* 100: how long a finalized budget stays valid
    TotalBudget,            \* GetTotalBudget
    FirstHeight, MaxHeight, \* bounds of the chain
    MaxEvents               \* bound of the restarts, resets, reorganisations, locks, changes of the list

Finals == [start : {h \in 1 .. MaxHeight + Cycle : h % Cycle = 0},
           payments : UNION {{s \in [1 .. n -> Proposals] : IsInjective(s)} : n \in 0 .. Cardinality(Proposals)}]
Items == Proposals \union Finals
Fees == Items \X (0 .. MaxEvents + 1)
Votes == [mn : Masternodes, item : Items, time : 0 .. MaxHeight, choice : {"YES", "NO"}]

ASSUME ConstantAssumption ==
    /\ IsFiniteSet(Proposals) /\ IsFiniteSet(Masternodes) /\ Self \in Masternodes
    /\ Lists \subseteq [list : SUBSET Masternodes, enabled : Nat] /\ FirstList \in Lists
    /\ SyncEnds \subseteq {"FAILED", "FINISHED"}
    /\ RemoteFinals \subseteq Finals /\ RemoteVotes \subseteq Votes
    /\ LocalItems \subseteq Items /\ LocalChoices \subseteq {"YES", "NO"}
(* The hashes tell proposals and finalized budgets apart.                  *)
ASSUME HashAssumption == Proposals \intersect Finals = {}
(* By default a lock is worth five confirmations and six are needed.       *)
ASSUME NumberAssumption ==
    /\ Start \in [Proposals -> Int] /\ End \in [Proposals -> Int]
    /\ Amount \in [Proposals -> Int] /\ FeeRank \in [Proposals -> Int]
    /\ PaidAt \in [Proposals \union RemoteFinals -> Nat]
    /\ Cycle \in Nat \ {0} /\ Every \in Nat \ {0} /\ Confirmations \in Nat \ {0}
    /\ SwiftDepth \in 0 .. Confirmations - 1
    /\ UpdateMin \in Nat /\ Ahead \in Nat /\ TotalBudget \in Nat
    /\ Window \in Int /\ Day \in Int /\ Late \in Int /\ MaxEvents \in Nat
    /\ FirstHeight \in Nat /\ MaxHeight \in Nat /\ FirstHeight <= MaxHeight

VARIABLES
    known,      \* mapProposals and mapFinalizedBudgets
    seen, seenVotes,    \* mapSeen... of the items and of the votes
    orphan,     \* mapOrphan...Votes: at most one vote for each item
    immature,   \* vecImmature...
    fee,        \* mapCollateralTxids: the fees of own suggestions
    submitted,  \* nSubmittedHeight
    height, now,
    mined,      \* the heights of the fees that are in the chain
    locked,     \* the fees that SwiftTX has locked
    sync,       \* RequestedMasternodeAssets
    mode,       \* strBudgetMode
    enabled, list,  \* mnodeman.CountEnabled and the list
    lost,       \* history: the seen votes that were given up
    events

node == <<known, seen, seenVotes, orphan, immature, fee, submitted, lost>>
chain == <<height, now, mined, locked>>
world == <<chain, sync, mode, enabled, list, events>>
budgetVars == <<node, world>>

Put(f, k, v) == [x \in DOMAIN f \union {k} |-> IF x = k THEN v ELSE f[x]]
Drop(f, S) == [x \in DOMAIN f \ S |-> f[x]]

-----------------------------------------------------------------------------
(* Items.                                                                  *)

(* The fee that the author of an item has paid, and the one this node pays *)
(* now: a suggestion that is made again after a restart has another fee.   *)
Theirs(i) == <<i, 0>>
Ours(f) == <<f, events + 1>>

(* GetIXConfirmations.                                                     *)
GetIXConfirmations(t) == IF t \in locked THEN SwiftDepth ELSE 0

(* IsBudgetCollateralValid: the confirmations by a lock and by the chain.  *)
Conf(t) == GetIXConfirmations(t) + (IF t \in DOMAIN mined THEN height - mined[t] + 1 ELSE 0)
IsBudgetCollateralValid(t) == Conf(t) >= Confirmations

(* CountVotes of one choice, GetYeas and GetNays.                          *)
Count(r, choice) == Cardinality({m \in DOMAIN r.votes : r.votes[m].choice = choice /\ r.votes[m].valid})
Net(r) == Count(r, "YES") - Count(r, "NO")

(* CFinalizedBudget::GetVoteCount: every vote, valid or not.               *)
GetVoteCount(k, f) == Cardinality(DOMAIN k[f].votes)
GetBlockEnd(f) == f.start + Len(f.payments) - 1

(* CFinalizedBudget::GetTotalPayout.                                       *)
Payout(s) ==
    LET sum[n \in 0 .. Len(s)] == IF n = 0 THEN 0 ELSE sum[n - 1] + Amount[s[n]]
    IN  sum[Len(s)]

(* CBudgetProposal::IsValid and CFinalizedBudget::IsValid of the object r: *)
(* what they ask but for the fee, and with it.                             *)
Permitted(i, r) ==
    IF i \in Proposals
    THEN /\ -Net(r) <= enabled \div 10
         /\ Amount[i] <= TotalBudget
         /\ End[i] >= height - Cycle \div 2
    ELSE /\ i.start # 0 /\ Len(i.payments) <= 100
         /\ Payout(i.payments) <= TotalBudget
         /\ i.start >= height - Late

IsValid(i, r) == Permitted(i, r) /\ IsBudgetCollateralValid(r.fee)

(* nTime, the time of the fee's block, which IsBudgetCollateralValid       *)
(* writes when it finds the block in the chain.                            *)
FeeTime(t, old) == IF t \in DOMAIN mined THEN mined[t] ELSE old

New(t) == [fee |-> t, time |-> FeeTime(t, 0), valid |-> TRUE, votes |-> << >>, checked |-> FALSE]

(* AddProposal, AddFinalizedBudget.                                        *)
Added(k, i, t) == IF i \in DOMAIN k \/ ~IsValid(i, New(t)) THEN k ELSE Put(k, i, New(t))

-----------------------------------------------------------------------------
(* Votes.                                                                  *)

(* Mutant: a vote from the future is taken.                                *)
TakesFuture(r, v) == v.mn \in DOMAIN r.votes => v.time - r.votes[v.mn].time >= UpdateMin

(* AddOrUpdateVote: is the vote taken?                                     *)
Takes(r, v) ==
    /\ v.mn \in DOMAIN r.votes => v.time - r.votes[v.mn].time >= UpdateMin
    /\ v.time <= now + Ahead

(* Two of its reasons to refuse a vote: the third is that it is older.     *)
InFuture(v) == v.time > now + Ahead
TooSoon(r, v) == v.mn \in DOMAIN r.votes /\ v.time - r.votes[v.mn].time \in 1 .. UpdateMin - 1

WithVote(k, v) ==
    [k EXCEPT ![v.item].votes = Put(@, v.mn, [time |-> v.time, choice |-> v.choice, valid |-> TRUE])]

(* CleanAndRemove(false) of the votes on the items of S.                   *)
Cleaned(k, S) ==
    [i \in DOMAIN k |->
        IF i \in S
        THEN [k[i] EXCEPT !.votes = [m \in DOMAIN k[i].votes |-> [k[i].votes[m] EXCEPT !.valid = m \in list]]]
        ELSE k[i]]

(* Mutant: an orphan vote is dropped even if it is not taken.              *)
CheckOrphanVotesDrops(k) ==
    LET ready == {i \in DOMAIN orphan : i \in DOMAIN k /\ Takes(k[i], orphan[i])}
    IN  /\ known' = [i \in DOMAIN k |-> IF i \in ready THEN WithVote(k, orphan[i])[i] ELSE k[i]]
        /\ orphan' = << >>

(* CheckOrphanVotes.                                                       *)
CheckOrphanVotes(k) ==
    LET ready == {i \in DOMAIN orphan : i \in DOMAIN k /\ Takes(k[i], orphan[i])}
    IN  /\ known' = [i \in DOMAIN k |-> IF i \in ready THEN WithVote(k, orphan[i])[i] ELSE k[i]]
        /\ orphan' = Drop(orphan, ready)

-----------------------------------------------------------------------------
(* GetBudget, and what it decides.                                         *)

(* GetBudget's period, the next one.                                       *)
BlockStart == height - (height % Cycle) + Cycle

(* sortProposalsByVotes.                                                   *)
Before(k, p, q) == Net(k[p]) > Net(k[q]) \/ (Net(k[p]) = Net(k[q]) /\ FeeRank[p] > FeeRank[q])

(* Mutant: the support need only reach the threshold.                      *)
EligibleAtThreshold(k, p) ==
    /\ k[p].valid
    /\ Start[p] <= BlockStart /\ End[p] >= BlockStart + Cycle - 1
    /\ Net(k[p]) >= enabled \div 10
    /\ k[p].time < now - Day

(* A proposal of the period with the support of a tenth of the masternodes *)
(* that is established.                                                    *)
Eligible(k, p) ==
    /\ k[p].valid
    /\ Start[p] <= BlockStart /\ End[p] >= BlockStart + Cycle - 1
    /\ Net(k[p]) > enabled \div 10
    /\ k[p].time < now - Day

(* One step of GetBudget's loop, for the best of the proposals that are    *)
(* left: it is taken if it has enough support and fits. Which one comes    *)
(* first of two with the same votes and the same fee transaction is up to  *)
(* the sort.                                                               *)
Grab(k, s) ==
    LET best == CHOOSE q \in s.left : \A r \in s.left : ~Before(k, r, q)
        fits == Eligible(k, best) /\ Amount[best] + s.allocated <= TotalBudget
    IN  IF s.left = {} THEN s
        ELSE [left |-> s.left \ {best},
              allocated |-> IF fits THEN s.allocated + Amount[best] ELSE s.allocated,
              budget |-> IF fits THEN Append(s.budget, best) ELSE s.budget]

(* GetBudget of votes that are cleaned.                                    *)
GetBudget(k) ==
    LET all == DOMAIN k \intersect Proposals
        loop[n \in 0 .. Cardinality(all)] ==
            IF n = 0 THEN [left |-> all, allocated |-> 0, budget |-> << >>] ELSE Grab(k, loop[n - 1])
    IN  loop[Cardinality(all)].budget

(* SubmitFinalBudget in mode "suggest": the fee is paid first, and the     *)
(* budget is announced when the fee has one confirmation more than needed. *)
SubmitFinalBudget ==
    LET k == Cleaned(known, Proposals)
        f == [start |-> BlockStart, payments |-> GetBudget(k)]
        looked == [known |-> k, seen |-> seen, fee |-> fee, submitted |-> submitted]
    IN  IF submitted >= BlockStart \/ BlockStart - height > Window THEN [looked EXCEPT !.known = known]
        ELSE IF f.payments = << >> THEN looked
        ELSE IF f \in seen THEN [looked EXCEPT !.submitted = height]
        ELSE IF f \notin DOMAIN fee THEN [looked EXCEPT !.fee = Put(fee, f, Ours(f))]
        ELSE IF Conf(fee[f]) >= Confirmations + 1 /\ IsValid(f, New(fee[f]))
             THEN [known |-> Added(k, f, fee[f]), seen |-> seen \union {f}, fee |-> fee, submitted |-> height]
        ELSE looked

(* What it leaves in another mode or when it does not get cs_main.         *)
NotSubmitted == [known |-> known, seen |-> seen, fee |-> fee, submitted |-> submitted]

(* CheckAndRemove: AutoCheck of the finalized budgets in S (the others     *)
(* wait for another block) and the valid flags. A masternode votes for a   *)
(* budget that is exactly its own.                                         *)
OwnVote(i, choice) == [mn |-> Self, item |-> i, time |-> now, choice |-> choice]

Unchecked(k) == {f \in DOMAIN k \ Proposals : IsValid(f, k[f]) /\ ~k[f].checked}

Matches(f, budget) == budget # << >> /\ f.payments = budget

AutoVotes(k, S) ==
    IF mode # "auto" THEN {}
    ELSE LET budget == GetBudget(Cleaned(k, Proposals))
         IN  {OwnVote(f, "YES") : f \in {g \in S : Matches(g, budget) /\ Takes(k[g], OwnVote(g, "YES"))}}

CheckedAndRemoved(k, S) ==
    LET votes == AutoVotes(k, S)
        c == IF mode = "auto" /\ S # {} THEN Cleaned(k, Proposals) ELSE k
        flagged(i, r) == [r EXCEPT !.valid = IsValid(i, r), !.time = FeeTime(r.fee, @), !.checked = @ \/ i \in S]
    IN  [i \in DOMAIN k |->
            flagged(i, IF OwnVote(i, "YES") \in votes THEN WithVote(c, OwnVote(i, "YES"))[i] ELSE c[i])]

(* Mutant: the vectors are emptied after the loops.                        *)
MaturedForgets(k) ==
    LET take == {i \in immature \ DOMAIN k : IsValid(i, New(Theirs(i)))}
    IN  [known |-> [i \in DOMAIN k \union take |-> IF i \in take THEN New(Theirs(i)) ELSE k[i]],
         immature |-> {}]

(* The vecImmature... loops of NewBlock.                                   *)
Matured(k) ==
    LET ripe == {i \in immature : IsBudgetCollateralValid(Theirs(i))}
        take == {i \in ripe : i \notin DOMAIN k /\ IsValid(i, New(Theirs(i)))}
    IN  [known |-> [i \in DOMAIN k \union take |-> IF i \in take THEN New(Theirs(i)) ELSE k[i]],
         immature |-> immature \ ripe]

-----------------------------------------------------------------------------
(* Superblocks.                                                            *)

(* The finalized budgets that pay in the block of height h.                *)
Covering(h) == {f \in DOMAIN known \ Proposals : f.start <= h /\ h <= GetBlockEnd(f)}
HighestCount(h) == Max({0} \union {GetVoteCount(known, f) : f \in Covering(h)})
PaidBy(f, h) == f.payments[h - f.start + 1]

IsBudgetPaymentBlock(h) == HighestCount(h) > enabled \div 20

(* FillBlockPayee: the payment of the budget with the most votes; which of *)
(* several depends on their hashes.                                        *)
FillBlockPayee(h) ==
    {PaidBy(f, h) : f \in {g \in Covering(h) : GetVoteCount(known, g) = HighestCount(h)}}

(* Mutant: the tolerance is half of what it should be.                     *)
IsTransactionValidStrict(p, h) ==
    /\ HighestCount(h) >= enabled \div 20
    /\ \E f \in Covering(h) :
          GetVoteCount(known, f) > HighestCount(h) - enabled \div 20 /\ PaidBy(f, h) = p

(* IsTransactionValid for a block that pays p: "check the highest          *)
(* finalized budgets (+/- 10% to assist in consensus)".                    *)
IsTransactionValid(p, h) ==
    /\ HighestCount(h) >= enabled \div 20
    /\ \E f \in Covering(h) :
          GetVoteCount(known, f) > HighestCount(h) - enabled \div 10 /\ PaidBy(f, h) = p

-----------------------------------------------------------------------------
(* Blocks.                                                                 *)

(* The fees that are not in the chain and may get into the next block.     *)
Unmined ==
    LET paid == {i \in Proposals \union RemoteFinals : PaidAt[i] <= height + 1}
    IN  ({Theirs(i) : i \in paid} \union Range(fee) \union {known[i].fee : i \in DOMAIN known}) \ DOMAIN mined

ConnectTip(S) ==
    /\ height < MaxHeight
    /\ height' = height + 1 /\ now' = Max({now, height'})
    /\ mined' = [t \in DOMAIN mined \union S |-> IF t \in S THEN height' ELSE mined[t]]
    /\ UNCHANGED <<node, locked, sync, mode, enabled, list, events>>

(* A reorganisation: the block and the fees in it are taken back.          *)
DisconnectTip ==
    /\ height > FirstHeight
    /\ events < MaxEvents /\ events' = events + 1
    /\ height' = height - 1
    /\ mined' = Drop(mined, {t \in DOMAIN mined : mined[t] = height})
    /\ UNCHANGED <<node, now, locked, sync, mode, enabled, list>>

(* A fee, sent as "ix", is locked; the lock expires.                       *)
Lock(t) ==
    /\ events < MaxEvents /\ events' = events + 1
    /\ t \notin locked /\ locked' = locked \union {t}
    /\ UNCHANGED <<node, height, now, mined, sync, mode, enabled, list>>

Expire(t) ==
    /\ t \in locked /\ locked' = locked \ {t}
    /\ UNCHANGED <<node, height, now, mined, sync, mode, enabled, list, events>>

(* CBudgetManager::NewBlock. It runs some time after a block is processed, *)
(* whether or not that block became the tip, and not at all when another   *)
(* thread holds cs: at any time, that is. a is what SubmitFinalBudget did,  *)
(* S are the budgets AutoCheck looks at now, and forget is the random      *)
(* ClearSeen.                                                              *)
NewBlock(a, S, forget) ==
    LET m == Matured(Cleaned(CheckedAndRemoved(a.known, S), Items))
    IN  /\ sync # "BUSY"
        /\ fee' = a.fee /\ submitted' = a.submitted
        /\ \/ /\ height % Every # 0 /\ S = {} /\ ~forget
              /\ known' = a.known /\ seen' = a.seen
              /\ UNCHANGED <<seenVotes, immature, lost, events>>
           \/ /\ height % Every = 0
              /\ forget => sync = "FINISHED" /\ events < MaxEvents
              /\ events' = IF forget THEN events + 1 ELSE events
              /\ known' = m.known /\ immature' = m.immature
              /\ seen' = IF forget THEN {} ELSE a.seen
              /\ seenVotes' = (IF forget THEN {} ELSE seenVotes) \union AutoVotes(a.known, S)
              /\ lost' = IF forget THEN {} ELSE lost
        /\ UNCHANGED <<orphan, chain, sync, mode, enabled, list>>

-----------------------------------------------------------------------------
(* Messages and commands.                                                  *)

(* "mprop" and "fbs".                                                      *)
ReceiveItem(i) ==
    /\ i \notin seen
    /\ IF ~IsBudgetCollateralValid(Theirs(i))
       THEN /\ Conf(Theirs(i)) >= 1
            /\ immature' = immature \union {i}
            /\ UNCHANGED <<known, seen, orphan>>
       ELSE /\ seen' = seen \union {i}
            /\ IF IsValid(i, New(Theirs(i)))
               THEN CheckOrphanVotes(Added(known, i, Theirs(i)))
               ELSE UNCHANGED <<known, orphan>>
            /\ UNCHANGED immature
    /\ UNCHANGED <<seenVotes, fee, submitted, lost, world>>

(* "mvote" and "fbvote". A vote that is not seen, of a masternode that is  *)
(* in the list, is marked as seen and given up if its signature does not   *)
(* fit the key in the list.                                                *)
Unsigned(v) ==
    /\ lost' = lost \union {v}
    /\ UNCHANGED <<known, orphan>>

(* UpdateProposal, UpdateFinalizedBudget: a vote whose item is not there   *)
(* is only kept after the sync, and only one.                              *)
Update(v) ==
    IF v.item \in DOMAIN known
    THEN /\ known' = IF Takes(known[v.item], v) THEN WithVote(known, v) ELSE known
         /\ lost' = IF InFuture(v) \/ TooSoon(known[v.item], v) THEN lost \union {v} ELSE lost
         /\ UNCHANGED orphan
    ELSE /\ orphan' = IF sync = "FINISHED" THEN Put(orphan, v.item, v) ELSE orphan
         /\ lost' = IF sync # "FINISHED" THEN lost \union {v}
                    ELSE lost \union ({orphan[i] : i \in {v.item} \intersect DOMAIN orphan} \intersect seenVotes)
         /\ UNCHANGED known

ReceiveVote(v) ==
    /\ v \notin seenVotes /\ v.mn \in list
    /\ seenVotes' = seenVotes \union {v}
    /\ Unsigned(v) \/ Update(v)
    /\ UNCHANGED <<seen, immature, fee, submitted, world>>

(* The commands mnbudgetvote and mnfinalbudget.                            *)
VoteLocal(i, choice) ==
    LET v == OwnVote(i, choice)
    IN  /\ Self \in list /\ i \in DOMAIN known /\ Takes(known[i], v)
        /\ known' = WithVote(known, v)
        /\ seenVotes' = seenVotes \union {v}
        /\ UNCHANGED <<seen, orphan, immature, fee, submitted, lost, world>>

(* The command submitbudget.                                               *)
SubmitBudget(p) ==
    /\ IsBudgetCollateralValid(Theirs(p))
    /\ seen' = seen \union {p}
    /\ known' = Added(known, p, Theirs(p))
    /\ UNCHANGED <<seenVotes, orphan, immature, fee, submitted, lost, world>>

(* The command checkbudgets.                                               *)
CheckAndRemove(S) ==
    /\ S \subseteq Unchecked(known)
    /\ known' = CheckedAndRemoved(known, S)
    /\ seenVotes' = seenVotes \union AutoVotes(known, S)
    /\ UNCHANGED <<seen, orphan, immature, fee, submitted, lost, world>>

(* SPORK_11_RESET_BUDGET.                                                  *)
Clear ==
    /\ events < MaxEvents /\ events' = events + 1
    /\ known' = << >> /\ seen' = {} /\ seenVotes' = {} /\ orphan' = << >> /\ lost' = {}
    /\ UNCHANGED <<immature, fee, submitted, chain, sync, mode, enabled, list>>

(* budget.dat is written and read again: the flags in it are not kept, as  *)
(* the copies into the maps set them anew, and the seen maps are cleared.  *)
Reloaded(k) ==
    [i \in DOMAIN k |->
        [k[i] EXCEPT !.checked = FALSE,
                     !.votes = [m \in DOMAIN k[i].votes |-> [k[i].votes[m] EXCEPT !.valid = TRUE]]]]

Reload ==
    /\ events < MaxEvents /\ events' = events + 1
    /\ known' = CheckedAndRemoved(Reloaded(known), {})
    /\ seen' = {} /\ seenVotes' = {} /\ lost' = {} /\ immature' = {} /\ fee' = << >>
    /\ submitted' = 0 /\ sync' = "BUSY"
    /\ UNCHANGED <<orphan, chain, mode, enabled, list>>

(* The sync and the masternode list.                                       *)
Sync ==
    /\ sync = "BUSY" /\ sync' \in SyncEnds
    /\ UNCHANGED <<node, chain, mode, enabled, list, events>>

ListChange ==
    /\ events < MaxEvents /\ events' = events + 1
    /\ \E l \in Lists \ {[list |-> list, enabled |-> enabled]} : list' = l.list /\ enabled' = l.enabled
    /\ UNCHANGED <<node, chain, sync, mode>>

-----------------------------------------------------------------------------

BudgetInit ==
    /\ known = << >> /\ seen = {} /\ seenVotes = {} /\ orphan = << >> /\ immature = {} /\ fee = << >> /\ lost = {}
    /\ submitted = 0 /\ height = FirstHeight /\ now = FirstHeight /\ locked = {} /\ sync = "BUSY"
    /\ LET old == {i \in Proposals \union RemoteFinals : PaidAt[i] <= FirstHeight}
       IN  mined = [t \in {Theirs(i) : i \in old} |-> PaidAt[t[1]]]
    /\ mode \in {"auto", "suggest"}
    /\ list = FirstList.list /\ enabled = FirstList.enabled
    /\ events = 0

Work ==
    \E a \in {NotSubmitted} \union (IF mode = "suggest" THEN {SubmitFinalBudget} ELSE {}) :
        \E S \in SUBSET Unchecked(a.known), forget \in BOOLEAN : NewBlock(a, S, forget)

BudgetNext ==
    \/ Work
    \/ \E S \in SUBSET Unmined : ConnectTip(S)
    \/ DisconnectTip
    \/ \E t \in Unmined \union DOMAIN mined : Lock(t)
    \/ \E t \in locked : Expire(t)
    \/ \E i \in Proposals \union RemoteFinals : ReceiveItem(i)
    \/ \E v \in RemoteVotes : ReceiveVote(v)
    \/ \E i \in LocalItems, choice \in LocalChoices : VoteLocal(i, choice)
    \/ \E p \in Proposals : SubmitBudget(p)
    \/ \E S \in SUBSET Unchecked(known) : CheckAndRemove(S)
    \/ Clear \/ Reload \/ Sync \/ ListChange

BudgetSpec == BudgetInit /\ [][BudgetNext]_budgetVars

-----------------------------------------------------------------------------
(* Properties.                                                             *)

Records == [fee : Fees, time : 0 .. MaxHeight, valid : BOOLEAN, checked : BOOLEAN]

(* The maps hold objects of their types, and every vote counted is one the *)
(* rules of AddOrUpdateVote allow.                                         *)
BudgetTypeOK ==
    /\ DOMAIN known \subseteq Items
    /\ \A i \in DOMAIN known :
          /\ [fee |-> known[i].fee, time |-> known[i].time,
              valid |-> known[i].valid, checked |-> known[i].checked] \in Records
          /\ DOMAIN known[i].votes \subseteq Masternodes
          /\ \A m \in DOMAIN known[i].votes : known[i].votes[m].time <= now + Ahead
          /\ known[i].checked => i \in Finals
    /\ seen \subseteq Items /\ seenVotes \subseteq Votes /\ lost \subseteq seenVotes
    /\ DOMAIN orphan \subseteq Items /\ \A i \in DOMAIN orphan : orphan[i].item = i
    /\ immature \subseteq Proposals \union RemoteFinals
    /\ DOMAIN fee \subseteq Finals /\ \A f \in DOMAIN fee : fee[f][1] = f
    /\ height \in FirstHeight .. now /\ now <= MaxHeight /\ submitted \in 0 .. now
    /\ DOMAIN mined \subseteq Fees /\ \A t \in DOMAIN mined : mined[t] <= height
    /\ locked \subseteq Fees
    /\ sync \in {"BUSY", "FAILED", "FINISHED"} /\ mode \in {"auto", "suggest"}

(* A vote that a node will not look at again, because it has seen it, is   *)
(* counted, or one of its masternode that is no older is, or it waits as   *)
(* an orphan. The votes that are given up are those whose signature did    *)
(* not fit the list of that moment, those that came during the sync before *)
(* their item, those that another orphan of the item replaced, those from  *)
(* the future, and those signed too soon after the one that was counted;   *)
(* nothing else loses a vote: no orphan that is tried again, no AutoCheck  *)
(* and no cleaning up, in whatever order items and votes come.             *)
SeenVotesCounted ==
    \A v \in seenVotes \ lost :
        v.item \in DOMAIN known =>
            \/ v.mn \in DOMAIN known[v.item].votes /\ known[v.item].votes[v.mn].time >= v.time
            \/ v.item \in DOMAIN orphan /\ orphan[v.item] = v

(* The superblock that a node makes pays a budget and passes the node's    *)
(* own check, if there are enough masternodes for the tolerance not to be  *)
(* rounded to nothing.                                                     *)
OwnBlockAccepted ==
    LET h == height + 1
    IN  enabled >= 10 /\ IsBudgetPaymentBlock(h) =>
            FillBlockPayee(h) # {} /\ \A p \in FillBlockPayee(h) : IsTransactionValid(p, h)

(* What a budget should be, without GetBudget: affordable, of supported    *)
(* and established proposals of the period, the best first, and nothing    *)
(* left out that would have fitted, but for the proposals that were not    *)
(* valid when CheckAndRemove last looked: AutoCheck runs before it renews  *)
(* their flags.                                                            *)
Support(p) ==
    LET by(choice) == {m \in DOMAIN known[p].votes \intersect list : known[p].votes[m].choice = choice}
    IN  Cardinality(by("YES")) - Cardinality(by("NO"))

Supported(p) ==
    /\ p \in DOMAIN known /\ Support(p) > enabled \div 10
    /\ Start[p] <= BlockStart /\ End[p] >= BlockStart + Cycle - 1
    /\ known[p].time < now - Day

Sound(s) ==
    /\ Payout(s) <= TotalBudget
    /\ \A i \in DOMAIN s : Supported(s[i])
    /\ \A i, j \in DOMAIN s : i < j => Support(s[i]) >= Support(s[j])
    /\ \A p \in Proposals \ Range(s) :
          Supported(p) /\ known[p].valid =>
              \E m \in 0 .. Len(s) :
                  /\ \A i \in 1 .. m : Support(s[i]) >= Support(p)
                  /\ Payout(SubSeq(s, 1, m)) + Amount[p] > TotalBudget

(* What a node does without a command that names a budget.                 *)
ByItself == Work \/ \E S \in SUBSET Unchecked(known) : CheckAndRemove(S)

(* The budget that a node suggests, or that its masternode votes for by    *)
(* itself, is sound by the votes it has and the list of that moment,       *)
(* however stale the flags of the votes are.                               *)
OnlySoundBudgets ==
    [][\A f \in Finals :
         /\ f \in seen' \ seen \/ OwnVote(f, "YES") \in seenVotes' \ seenVotes
         /\ ByItself
         => Sound(f.payments)]_budgetVars

(* A node that has accepted a proposal or a budget, and be it while its    *)
(* fee still lacked confirmations, does not forget it: until a reset or a  *)
(* restart it waits or is in the maps, however often its fee gains and     *)
(* loses confirmations, unless it expired while it waited.                 *)
ItemsKept ==
    [][events' = events =>
         \A i \in immature \union DOMAIN known :
             i \in immature' \union DOMAIN known' \/ ~Permitted(i, New(Theirs(i)))]_budgetVars

=============================================================================
