------------------------------ MODULE Payments ------------------------------
(***************************************************************************)
(* Masternode payments (masternode-payments.cpp) on one node, which may run*)
(* a masternode: ten blocks ahead the masternodes with the best ranks vote *)
(* for the payee of a block ("mnw"), the votes are counted by payee, and a *)
(* block must pay a payee with enough votes at least the reward that       *)
(* GetMasternodePayment (main.cpp) computes from the masternode count.     *)
(*                                                                         *)
(* The other masternodes sign what they like, and the network delivers any *)
(* signed vote at any time, again and again or never. Adding a vote takes  *)
(* two steps: a thread counts it after it released the locks, and until    *)
(* then the tip may move, the obfuscation thread may clean the lists and   *)
(* another thread may add a vote. Which masternode is next in the queue    *)
(* depends on ages that are not modelled: any enabled one that is not      *)
(* scheduled may be next, or none.                                         *)
(*                                                                         *)
(* `torn` and the field `still` are history: they record what happened and *)
(* no action looks at them.                                                *)
(***************************************************************************)
EXTENDS Integers, Sequences, FiniteSets

CONSTANTS
    Masternodes, Me,    \* Me is the masternode of this node
    Score,              \* [Masternodes -> Nat], CalculateScore
    Total, Required,    \* MNPAYMENTS_SIGNATURES_TOTAL, _REQUIRED
    Lead, Look, Future, \* 10 blocks ahead, IsScheduled's 8, the handler's 20
    Limit,              \* CleanPaymentList's 1000 blocks
    BudgetBlocks,       \* IsBudgetPaymentBlock
    OtherVotes,         \* what the other masternodes vote for
    Unsteady,           \* the masternodes that come and go and change their keys
    Queue,              \* the masternodes whose ages let them be next in the queue
    Grades,             \* what the list may say of the unsteady ones
    Sporks,             \* the values SPORK_8 may have
    FirstTip, MaxTip,   \* the heights of the tip
    BlockValue, NodeCoins, MoneySupply, Drift,
    MaxKey, MaxSigned, MaxOwn, MaxRestarts, \* bounds
    None

Heights == 0 .. MaxTip + Lead
Votes == [mn : Masternodes, height : Heights, payee : Masternodes \union {None}]

(* The threads that add votes: the message thread, and the one that stakes,*)
(* mines or serves the RPC that made a block.                              *)
Threads == {"net", "block"}

(* A vote between the two steps that add it, with the height for           *)
(* nLastBlockHeight (0 for none). Still: the tip and the list are as they  *)
(* were when it was added, and it was not too old to be kept even then.    *)
Pending == [vote : Votes, next : Heights, still : BOOLEAN]

ASSUME ConstantAssumption ==
    /\ IsFiniteSet(Masternodes) /\ Me \in Masternodes /\ Unsteady \union Queue \subseteq Masternodes
    /\ None \notin Masternodes /\ None \notin Pending
    /\ Score \in [Masternodes -> Nat]
    /\ \A m, n \in Masternodes : Score[m] = Score[n] => m = n
    /\ {Total, Required, Lead, Look, Future, Limit, FirstTip, MaxTip, BlockValue, NodeCoins, MoneySupply, Drift} \subseteq Nat
    /\ {MaxSigned, MaxOwn, MaxRestarts} \subseteq Nat /\ MaxKey \in Nat \ {0}
    /\ OtherVotes \subseteq Votes /\ \A v \in OtherVotes : v.mn # Me
    /\ FirstTip <= MaxTip /\ Lead > 0 /\ Look <= Lead /\ Future >= Lead
    /\ Drift > 0
    /\ Grades \subseteq {"off", "young", "stable"} /\ Sporks \subseteq BOOLEAN /\ FALSE \in Sporks

VARIABLES
    tip,
    key,        \* the key each masternode signs with
    list,       \* mnodeman: the key of each masternode this node knows, else 0
    grade,      \* not enabled, enabled and signed not long ago, enabled and stable
    spork8,     \* SPORK_8_MASTERNODE_PAYMENT_ENFORCEMENT
    signed,     \* the votes that were signed, with the key
    votes,      \* mapMasternodePayeeVotes
    blocks,     \* mapMasternodeBlocks: the payees of a height with their votes, by arrival
    lastVote,   \* mapMasternodesLastVote, 0 for none
    lastBlock,  \* nLastBlockHeight
    adding,     \* the vote each thread has put in votes and not yet in blocks
    torn,       \* heights cleaned while a vote for them was being added
    disk,       \* mnpayments.dat
    restarts    \* counts the restarts, for the bound

vars == <<tip, key, list, grade, spork8, signed, votes, blocks, lastVote, lastBlock, adding,
          torn, disk, restarts>>
listVars == <<key, list, grade, spork8>>

Signed(v, k) == [vote |-> v, key |-> k]

-----------------------------------------------------------------------------
(* The masternode list, as the payments use it.                            *)

Listed == {m \in Masternodes : list[m] # 0}
Size == Cardinality(Listed)
Enabled == {m \in Listed : grade[m] # "off"}

(* The masternodes that have a rank, and that stable_size counts.          *)
Ranked == {m \in Enabled : spork8 => grade[m] = "stable"}

(* GetMasternodeRank.                                                      *)
Rank(m) ==
    IF m \in Ranked THEN 1 + Cardinality({n \in Ranked : Score[n] > Score[m]}) ELSE -1

(* The count that the reward depends on.                                   *)
Count == IF spork8 THEN Cardinality(Ranked) ELSE Size

(* How far back the "mnw" handler takes votes: int(tip - 1.25 * enabled).  *)
Reach == (5 * Cardinality(Enabled) + 3) \div 4

(* How far back CleanPaymentList keeps them.                               *)
CleanLimit == IF (5 * Size) \div 4 > Limit THEN (5 * Size) \div 4 ELSE Limit

-----------------------------------------------------------------------------
(* The reward.                                                             *)

(* The table of GetMasternodePayment: up to Bounds[i] thousandths of the   *)
(* supply the masternode gets Shares[i] hundredths of the block's value.   *)
Bounds ==
    [i \in 1 .. 85 |->
        CASE i <= 35 -> 10 * i
          [] i > 35 /\ i <= 80 -> 350 + 13 * (i - 35)
          [] i > 80 -> <<945, 961, 974, 987, 990>>[i - 80]]
Shares == [i \in 1 .. 86 |-> CASE i = 1 -> 90 [] i > 1 /\ i <= 85 -> 90 - i [] i = 86 -> 1]

(* GetMasternodePayment.                                                   *)
GetMasternodePayment(count) ==
    LET row == 1 + Cardinality({i \in 1 .. 85 : Bounds[i] * MoneySupply < 1000 * count * NodeCoins})
    IN  IF count = 0 THEN 0 ELSE (BlockValue * Shares[row]) \div 100

-----------------------------------------------------------------------------
(* The votes for one height, CMasternodeBlockPayees.                       *)

(* Mutant: the first vote only makes the entry.                            *)
AddPayeeZero(payments, p) ==
    IF \E i \in DOMAIN payments : payments[i].payee = p
    THEN [i \in DOMAIN payments |->
            IF payments[i].payee = p THEN [payments[i] EXCEPT !.votes = @ + 1] ELSE payments[i]]
    ELSE Append(payments, [payee |-> p, votes |-> 0])

AddPayee(payments, p) ==
    IF \E i \in DOMAIN payments : payments[i].payee = p
    THEN [i \in DOMAIN payments |->
            IF payments[i].payee = p THEN [payments[i] EXCEPT !.votes = @ + 1] ELSE payments[i]]
    ELSE Append(payments, [payee |-> p, votes |-> 1])

(* Mutant: ties and all else go to the last one.                           *)
GetPayeeLast(payments) == payments[Len(payments)].payee

(* GetPayee, for a height that has payees: the first with the most votes.  *)
GetPayee(payments) ==
    payments[CHOOSE i \in DOMAIN payments :
                /\ \A j \in DOMAIN payments : payments[j].votes <= payments[i].votes
                /\ \A j \in 1 .. i - 1 : payments[j].votes < payments[i].votes].payee

Enough(payments) == {i \in DOMAIN payments : payments[i].votes >= Required}

(* IsTransactionValid, for a node that counts `count` masternodes.         *)
IsTransactionValid(h, paid, count) ==
    \/ Enough(blocks[h]) = {}
    \/ /\ \E i \in Enough(blocks[h]) : blocks[h][i].payee = paid.payee
       /\ paid.value >= GetMasternodePayment(count + Drift)

(* IsBlockPayeeValid, for a block without budget payments.                 *)
IsBlockPayeeValid(h, paid, count) == IsTransactionValid(h, paid, count) \/ ~spork8

(* FillBlockPayee, for the block after the tip. Without votes the miner    *)
(* pays GetCurrentMasterNode.                                              *)
FillBlockPayee ==
    [payee |-> IF blocks[tip + 1] # <<>> THEN GetPayee(blocks[tip + 1])
               ELSE IF Enabled = {} THEN None
               ELSE CHOOSE m \in Enabled : \A n \in Enabled : Score[n] <= Score[m],
     value |-> GetMasternodePayment(Count)]

(* IsScheduled: no masternode is while another thread has cs_main.         *)
IsScheduled(m, not, locked) ==
    /\ locked
    /\ \E h \in (tip .. tip + Look) \ {not} : blocks[h] # <<>> /\ GetPayee(blocks[h]) = m

-----------------------------------------------------------------------------
(* Adding votes.                                                           *)

Known(v) == \E s \in votes : s.vote = v

(* AddWinningMasternode as far as it holds the locks.                      *)
AddWinningMasternode(t, v, k, next) ==
    /\ ~Known(v)
    /\ votes' = votes \union {Signed(v, k)}
    /\ adding' = [adding EXCEPT ![t] = [vote |-> v, next |-> next, still |-> Reach <= CleanLimit]]

(* The rest of AddWinningMasternode, with mapMasternodeBlocks[height] made *)
(* again if it is gone, and of ProcessBlock.                               *)
CountVote(t) ==
    /\ adding[t] # None
    /\ LET v == adding[t].vote
       IN  blocks' = [blocks EXCEPT ![v.height] = AddPayee(@, v.payee)]
    /\ lastBlock' = IF adding[t].next # 0 THEN adding[t].next ELSE lastBlock
    /\ adding' = [adding EXCEPT ![t] = None]
    /\ UNCHANGED <<tip, listVars, signed, votes, lastVote, torn, disk, restarts>>

(* The vote ProcessBlock signs for height h: for a masternode that is next *)
(* in the queue, or, when there is none and for a budget block, for nobody *)
(* and height 0.                                                           *)
NewWinner(h, v) ==
    \/ /\ h \notin BudgetBlocks
       /\ \E p \in Enabled \intersect Queue, locked \in BOOLEAN :
             ~IsScheduled(p, h, locked) /\ v = [mn |-> Me, height |-> h, payee |-> p]
    \/ v = [mn |-> Me, height |-> 0, payee |-> None]

(* The tests of ProcessBlock.                                              *)
MayVote(h) == Rank(Me) # -1 /\ Rank(Me) <= Total /\ h > lastBlock

(* A thread has processed a block, on the tip or on a branch, and calls    *)
(* ProcessBlock(tip + 10). It does not ask CanVote.                        *)
ProcessBlock(t) ==
    /\ adding[t] = None
    /\ MayVote(tip + Lead) /\ Cardinality({s \in signed : s.vote.mn = Me}) < MaxOwn
    /\ \E v \in Votes :
          /\ NewWinner(tip + Lead, v)
          /\ AddWinningMasternode(t, v, key[Me], tip + Lead)
          /\ signed' = signed \union {Signed(v, key[Me])}
    /\ UNCHANGED <<tip, listVars, blocks, lastVote, lastBlock, torn, disk, restarts>>

(* History: the tip or the list is no longer what it was.                  *)
Moved ==
    [t \in Threads |-> IF adding[t] = None THEN None ELSE [adding[t] EXCEPT !.still = FALSE]]

(* A block on the tip; a reorganisation to a branch with more work and one *)
(* block less. Neither waits for a vote that is being added.               *)
MoveTip(h) ==
    /\ tip' = h /\ adding' = Moved
    /\ UNCHANGED <<listVars, signed, votes, blocks, lastVote, lastBlock, torn, disk, restarts>>
ExtendTip == tip < MaxTip /\ MoveTip(tip + 1)
Reorganise == tip > FirstTip /\ MoveTip(tip - 1)

(* The tests of the "mnw" handler before CanVote. IsValid takes a vote of  *)
(* a listed masternode without a rank, as -1 is not over Total.            *)
Receivable(s) ==
    /\ ~Known(s.vote)
    /\ s.vote.height >= tip - Reach
    /\ s.vote.height <= tip + Future
    /\ s.vote.mn \in Listed /\ Rank(s.vote.mn) <= Total

CanVote(s) == lastVote[s.vote.mn] # s.vote.height

(* "mnw": CanVote records the height before the signature is looked at.    *)
ReceiveWinner(s) ==
    /\ adding["net"] = None
    /\ Receivable(s) /\ CanVote(s)
    /\ lastVote' = [lastVote EXCEPT ![s.vote.mn] = s.vote.height]
    /\ IF list[s.vote.mn] = s.key
       THEN AddWinningMasternode("net", s.vote, s.key, 0)
       ELSE UNCHANGED <<votes, adding>>
    /\ UNCHANGED <<tip, listVars, signed, blocks, lastBlock, torn, disk, restarts>>

(* Mutant: votes go one block before the range of the handler ends.        *)
CleanedEarly(S) == {s \in S : tip - s.vote.height >= Reach}

(* The votes CleanPaymentList removes.                                     *)
Cleaned(S) == {s \in S : tip - s.vote.height > CleanLimit}

(* CleanPaymentList, every minute in the obfuscation thread.               *)
CleanPaymentList ==
    LET gone == Cleaned(votes)
    IN  /\ gone # {}
        /\ votes' = votes \ gone
        /\ blocks' = [h \in Heights |-> IF \E s \in gone : s.vote.height = h THEN <<>> ELSE blocks[h]]
        /\ torn' = torn \union {adding[t].vote.height : t \in
                {t \in Threads : adding[t] # None /\ ~adding[t].still
                                 /\ \E s \in gone : s.vote.height = adding[t].vote.height}}
        /\ UNCHANGED <<tip, listVars, signed, lastVote, lastBlock, adding, disk, restarts>>

-----------------------------------------------------------------------------
(* Restarts.                                                               *)

Empty == [votes |-> {}, blocks |-> [h \in Heights |-> <<>>]]

(* DumpMasternodePayments: a file that cannot be read is left alone.       *)
Dumped == IF disk = None THEN None ELSE [votes |-> votes, blocks |-> blocks]

(* Read, and the cleaning that follows it.                                 *)
Load(file) ==
    LET read == IF file = None THEN Empty ELSE file
        gone == Cleaned(read.votes)
    IN  /\ votes' = read.votes \ gone
        /\ blocks' = [h \in Heights |-> IF \E s \in gone : s.vote.height = h THEN <<>> ELSE read.blocks[h]]
        /\ lastVote' = [m \in Masternodes |-> 0] /\ lastBlock' = 0
        /\ adding' = [t \in Threads |-> None]

(* The node stops and starts again: after Shutdown, after a crash, after a *)
(* crash while the file was written.                                       *)
Restart ==
    /\ restarts < MaxRestarts
    /\ restarts' = restarts + 1
    /\ \E file \in {Dumped, disk, None} :
          /\ file = Dumped => \A t \in Threads : adding[t] = None
          /\ disk' = file
          /\ Load(file)
    /\ UNCHANGED <<tip, listVars, signed, torn>>

-----------------------------------------------------------------------------
(* The environment: the masternode list and the other masternodes.         *)

(* A masternode is announced with its present key, or removed.             *)
UpdateList(m) ==
    /\ list' \in {[list EXCEPT ![m] = k] : k \in {0, key[m]} \ {list[m]}}
    /\ grade' = IF list'[m] = 0 THEN [grade EXCEPT ![m] = "off"] ELSE grade
    /\ adding' = Moved
    /\ UNCHANGED <<tip, key, spork8, signed, votes, blocks, lastVote, lastBlock, torn, disk,
                   restarts>>

(* A masternode expires, comes back or grows old enough.                   *)
UpdateGrade(m) ==
    /\ m \in Listed
    /\ grade' \in {[grade EXCEPT ![m] = g] : g \in Grades \ {grade[m]}}
    /\ UNCHANGED <<tip, key, list, spork8, signed, votes, blocks, lastVote, lastBlock, adding, torn,
                   disk, restarts>>

(* The spork is switched on or off.                                        *)
Switch ==
    /\ spork8' \in Sporks \ {spork8}
    /\ UNCHANGED <<tip, key, list, grade, signed, votes, blocks, lastVote, lastBlock, adding, torn,
                   disk, restarts>>

(* A masternode is started again with a new key.                           *)
NewKey(m) ==
    /\ m # Me /\ key[m] < MaxKey
    /\ key' = [key EXCEPT ![m] = @ + 1]
    /\ UNCHANGED <<tip, list, grade, spork8, signed, votes, blocks, lastVote, lastBlock, adding, torn,
                   disk, restarts>>

(* Another masternode signs a vote.                                        *)
SignVote(v) ==
    /\ Cardinality({s \in signed : s.vote.mn # Me}) < MaxSigned
    /\ signed' = signed \union {Signed(v, key[v.mn])}
    /\ UNCHANGED <<tip, listVars, votes, blocks, lastVote, lastBlock, adding, torn, disk, restarts>>

Init ==
    /\ tip = FirstTip
    /\ key = [m \in Masternodes |-> 1] /\ list = key
    /\ grade = [m \in Masternodes |-> "stable"] /\ spork8 = FALSE
    /\ signed = {} /\ votes = {} /\ blocks = [h \in Heights |-> <<>>]
    /\ lastVote = [m \in Masternodes |-> 0] /\ lastBlock = 0
    /\ adding = [t \in Threads |-> None] /\ torn = {}
    /\ disk = Empty
    /\ restarts = 0

Next ==
    \/ ExtendTip \/ Reorganise
    \/ \E t \in Threads : ProcessBlock(t) \/ CountVote(t)
    \/ CleanPaymentList
    \/ Restart
    \/ \E s \in signed : ReceiveWinner(s)
    \/ \E m \in Unsteady : UpdateList(m) \/ UpdateGrade(m) \/ NewKey(m)
    \/ Switch
    \/ \E v \in OtherVotes : SignVote(v)

Spec == Init /\ [][Next]_vars

-----------------------------------------------------------------------------

(* The variables have their types.                                         *)
TypeOK ==
    /\ tip \in FirstTip .. MaxTip
    /\ key \in [Masternodes -> 1 .. MaxKey] /\ list \in [Masternodes -> 0 .. MaxKey]
    /\ grade \in [Masternodes -> {"off", "young", "stable"}] /\ spork8 \in BOOLEAN
    /\ \A s \in signed \union votes : s.vote \in Votes /\ s.key \in 1 .. MaxKey
    /\ votes \subseteq signed
    /\ \A h \in Heights : \A i \in DOMAIN blocks[h] :
          blocks[h][i].payee \in Masternodes \union {None} /\ blocks[h][i].votes \in Nat \ {0}
    /\ lastVote \in [Masternodes -> Heights] /\ lastBlock \in Heights
    /\ adding \in [Threads -> Pending \union {None}] /\ torn \subseteq Heights

(* What blocks says of a height and a payee.                               *)
Tally(h, p) ==
    LET of == {i \in DOMAIN blocks[h] : blocks[h][i].payee = p}
    IN  IF of = {} THEN 0 ELSE blocks[h][CHOOSE i \in of : TRUE].votes

(* The threads that have yet to count a vote for p at h.                   *)
Uncounted(h, p) ==
    {t \in Threads : adding[t] # None /\ adding[t].vote.height = h /\ adding[t].vote.payee = p}

(* Each vote in mapMasternodePayeeVotes is counted once, whatever arrives  *)
(* twice, whatever two threads add and a third cleans between the steps    *)
(* that add a vote, and after a restart. The exception is a height that    *)
(* was cleaned between the two steps for one of its votes, after the tip   *)
(* or the list had changed in between; height 0, which stands for no vote, *)
(* is not looked at.                                                       *)
VotesCounted ==
    \A h \in Heights \ (torn \union {0}), p \in Masternodes \union {None} :
        Tally(h, p) + Cardinality(Uncounted(h, p))
            = Cardinality({s \in votes : s.vote.height = h /\ s.vote.payee = p})

(* The block of a node that counts masternodes is valid for it and for     *)
(* every node with these votes that counts at most Drift fewer, with       *)
(* SPORK_8 and without: GetPayee and IsTransactionValid agree, and the     *)
(* reward does not grow with the count, unless the count is 0.             *)
OwnBlockAccepted ==
    Count > 0 => \A count \in (Count - Drift) .. (Count + 1) :
                    count >= 0 => IsTransactionValid(tip + 1, FillBlockPayee, count)

(* "as count increases, the reward decreases" (masternode-payments.cpp:533)*)
(* means that a node accepts its own block also when it knows masternodes  *)
(* and counts none of them as stable.                                      *)
OwnBlockAlwaysAccepted == IsBlockPayeeValid(tip + 1, FillBlockPayee, Count)

(* CleanPaymentList keeps "up to five cycles" and so never the height of a *)
(* vote that is just being added.                                          *)
NeverTorn == torn \subseteq {0}

(* "record this masternode voted" (masternode-payments.h): CanVote refuses *)
(* a masternode only if the vote it sent for that height is counted.       *)
RecordedMeansCounted ==
    \A s \in signed :
        /\ Receivable(s) /\ ~CanVote(s) /\ list[s.vote.mn] = s.key
        => \E t \in votes : t.vote.mn = s.vote.mn /\ t.vote.height = s.vote.height

=============================================================================
