--------------------------- MODULE MasternodeSync ---------------------------
(***************************************************************************)
(* CMasternodeSync (src/src/masternode-sync.cpp): a node fetches sporks,   *)
(* the masternode list, the payment winners and the budget from its peers, *)
(* one asset after the other.                                              *)
(*                                                                         *)
(* Process() runs every MASTERNODE_SYNC_TIMEOUT seconds; one such period   *)
(* is the unit of time, and the time stamps of the code are ages in that   *)
(* unit, capped where the code no longer tells them apart. A TRY_LOCK that *)
(* fails is a Boolean parameter. The "ssc" counters (sum..., count...) and *)
(* nCountFailures are only reported, never tested, and are left out.       *)
(***************************************************************************)
EXTENDS Integers, Sequences, FiniteSets

CONSTANTS
    Peers,       \* nodes that can be connected
    InitialPeers, \* values vNodes may start with
    OldPeers,    \* peers below GetMinMasternodePaymentsProto/ActiveProtocol
    Items,       \* hashes of list entries, winners or budget items
    THRESHOLD,   \* MASTERNODE_SYNC_THRESHOLD, 2
    IDLE,        \* 2: MASTERNODE_SYNC_TIMEOUT * 2 without a new item
    STALL,       \* 5: MASTERNODE_SYNC_TIMEOUT * 5 without any item
    RETRY,       \* 12: 60 seconds after a failure
    Churn,       \* may peers come and go, the client sleep, the user reset?
    SporkChanges, \* may SPORK_8 be switched while the node runs?
    RelayedAssets, \* assets that are also relayed without being asked for
    Answers      \* do peers answer the requests they get?

ASSUME PeersAssumption ==
    IsFiniteSet(Peers) /\ OldPeers \subseteq Peers /\ InitialPeers \subseteq Seq(Peers)
ASSUME SyncAssumption ==
    /\ THRESHOLD \in Nat \ {0} /\ IDLE \in Nat /\ STALL \in Nat /\ RETRY \in Nat
    /\ RelayedAssets \subseteq {"LIST", "MNW", "BUDGET"}
    /\ Churn \in BOOLEAN /\ SporkChanges \in BOOLEAN /\ Answers \in BOOLEAN

Assets == {"LIST", "MNW", "BUDGET"}
Stages == {"INITIAL", "SPORKS", "LIST", "MNW", "BUDGET", "FAILED", "FINISHED"}
Never == -1

VARIABLES
    stage,              \* RequestedMasternodeAssets
    attempt,            \* RequestedMasternodeAttempt
    last,               \* age of lastMasternodeList/Winner/BudgetItem
    started,            \* age of nAssetSyncStarted
    failure,            \* age of lastFailure
    seen,               \* mapSeenSyncMNB/MNW/Budget
    fulfilled,          \* <<peer, asset>>: FulfilledRequest flags
    vNodes,             \* the connected peers, in the order of the vector
    asked,              \* peers in mWeAskedForMasternodeList
    owed,               \* <<peer, asset>>: requests a peer has not answered
    fBlockchainSynced,  \* IsBlockchainSynced's static
    recent,             \* the tip is less than an hour old
    enabled,            \* mnodeman.CountEnabled() > 0
    enforced            \* SPORK_8_MASTERNODE_PAYMENT_ENFORCEMENT is active

clocks == <<last, started, failure>>
env == <<vNodes, recent, enforced>>
vars == <<stage, attempt, clocks, seen, fulfilled, asked, owed, fBlockchainSynced, enabled, env>>

NoItems == [a \in Assets |-> [i \in Items |-> 0]]

Init ==
    /\ stage = "INITIAL"
    /\ attempt = 0
    /\ last = [a \in Assets |-> Never]
    /\ started = 0
    /\ failure = 0
    /\ seen = NoItems
    /\ fulfilled = {}
    /\ vNodes \in InitialPeers
    /\ asked \in IF Churn THEN SUBSET (Peers \ OldPeers) ELSE {{}}   \* kept in mncache.dat
    /\ owed = {}
    /\ fBlockchainSynced = FALSE
    /\ recent \in BOOLEAN
    /\ enabled \in BOOLEAN                              \* so is the list
    /\ enforced \in BOOLEAN

-----------------------------------------------------------------------------

(* The assets whose time stamp the stage, or one to come, looks at.        *)
Pending ==
    CASE stage = "MNW" -> {"MNW", "BUDGET"} [] stage = "BUDGET" -> {"BUDGET"}
      [] stage = "FINISHED" -> {} [] OTHER -> Assets

(* One unit of time later. An age that nothing looks at stands at 0.       *)
Older(age, cap) == IF age = Never \/ age > cap THEN age ELSE age + 1
lastNow == [a \in Assets |->
    IF a \in Pending \/ last[a] = Never THEN Older(last[a], IDLE) ELSE 0]
startedNow == IF stage \in Assets THEN Older(started, STALL) ELSE 0
failureNow == IF stage = "FAILED" THEN Older(failure, RETRY) ELSE 0

Elapse == last' = lastNow /\ started' = startedNow /\ failure' = failureNow

(* GetNextAsset from SPORKS on.                                            *)
NextOf(s) ==
    CASE s = "SPORKS" -> "LIST" [] s = "LIST" -> "MNW"
      [] s = "MNW" -> "BUDGET" [] s = "BUDGET" -> "FINISHED"

GetNextAsset ==
    /\ stage' = NextOf(stage)
    /\ attempt' = 0
    /\ started' = 0
    /\ last' = lastNow /\ failure' = failureNow
    /\ UNCHANGED <<asked, owed>>

(* IsBlockchainSynced, called by Process: cs_main may be taken.            *)
CheckBlockchain(mainFree) ==
    fBlockchainSynced' = (fBlockchainSynced \/ (mainFree /\ recent))

(* Mutant: the items seen so far are not forgotten.                        *)
ResetKeepsSeen ==
    /\ last' = [a \in Assets |-> Never]
    /\ failure' = 0
    /\ UNCHANGED seen

(* Reset, all but the stage, the attempts and nAssetSyncStarted, which     *)
(* every caller but the RPC and IsBlockchainSynced sets again at once.     *)
Reset ==
    /\ last' = [a \in Assets |-> Never]
    /\ failure' = 0
    /\ seen' = NoItems

(* Process returns without doing anything: synced, or waiting to retry.    *)
ProcessIdle ==
    /\ \/ stage = "FINISHED" /\ enabled
       \/ stage = "FAILED" /\ failureNow <= RETRY
    /\ Elapse
    /\ UNCHANGED <<stage, attempt, seen, fulfilled, asked, owed, fBlockchainSynced, enabled, env>>

(* The peers of vNodes that are recent enough for the assets.              *)
RecentPeers == {vNodes[i] : i \in DOMAIN vNodes} \ OldPeers

(* The peer the loop over vNodes stops at: the first that has not had the  *)
(* request of the stage. The set is empty if all have.                     *)
NextPeer(s, flags) ==
    LET may == {i \in DOMAIN vNodes :
                  /\ <<vNodes[i], s>> \notin flags
                  /\ s = "SPORKS" \/ vNodes[i] \notin OldPeers}
    IN  {vNodes[i] : i \in {k \in may : \A j \in may : k <= j}}

(* The first call, a retry after a failure, or a resync after all          *)
(* masternodes are gone: Reset (unless the state is fresh), GetNextAsset   *)
(* with ClearFulfilledRequest, then the first request of the new stage.    *)
(* cleared and locked: the two TRY_LOCKs of cs_vNodes.                     *)
ProcessStart(cleared, locked, mainFree) ==
    /\ \/ /\ stage = "INITIAL"
          /\ last' = lastNow /\ failure' = failureNow
          /\ UNCHANGED seen
       \/ stage = "FINISHED" /\ ~enabled /\ Reset
       \/ stage = "FAILED" /\ failureNow > RETRY /\ Reset
    /\ stage' = "SPORKS"
    /\ started' = 0
    /\ CheckBlockchain(mainFree)
    /\ LET flags == IF cleared THEN {} ELSE fulfilled
           next == NextPeer("SPORKS", flags)
       IN  IF locked /\ next # {}
           THEN \E p \in next :
                   fulfilled' = flags \union {<<p, "SPORKS">>} /\ attempt' = 1
           ELSE fulfilled' = flags /\ attempt' = 0
    /\ UNCHANGED <<asked, owed, enabled, env>>

(* Process in a stage returns early: the chain is not synced, vNodes is    *)
(* locked, or no peer is left to ask.                                      *)
Waits(locked, synced) ==
    \/ ~synced /\ stage # "SPORKS"
    \/ ~locked

ProcessWait(locked, mainFree) ==
    /\ stage \in {"SPORKS"} \union Assets
    /\ CheckBlockchain(mainFree)
    /\ Waits(locked, fBlockchainSynced')
    /\ Elapse
    /\ UNCHANGED <<stage, attempt, seen, fulfilled, asked, owed, enabled, env>>

(* "getsporks" to a peer that has not had it; the third one moves on.      *)
ProcessSporks(mainFree) ==
    /\ stage = "SPORKS"
    /\ CheckBlockchain(mainFree)
    /\ \/ /\ NextPeer("SPORKS", fulfilled) = {}
          /\ Elapse
          /\ UNCHANGED <<stage, attempt, fulfilled, asked, owed>>
       \/ \E p \in NextPeer("SPORKS", fulfilled) :
             /\ fulfilled' = fulfilled \union {<<p, "SPORKS">>}
             /\ IF attempt >= 2
                THEN /\ stage' = "LIST" /\ attempt' = 1 /\ started' = 0
                     /\ last' = lastNow /\ failure' = failureNow
                ELSE /\ attempt' = attempt + 1
                     /\ Elapse
                     /\ UNCHANGED stage
             /\ UNCHANGED <<asked, owed>>
    /\ UNCHANGED <<seen, enabled, env>>

(* Nothing new for a while after enough requests: the asset is complete.   *)
Complete(s) ==
    lastNow[s] # Never /\ lastNow[s] > IDLE /\ attempt >= THRESHOLD

(* Nothing at all after many requests or a long time.                      *)
Stalled(s) ==
    lastNow[s] = Never /\ (attempt >= 3 * THRESHOLD \/ startedNow > STALL)

Fail ==
    /\ stage' = "FAILED"
    /\ attempt' = 0
    /\ failure' = 0
    /\ last' = lastNow /\ started' = startedNow
    /\ UNCHANGED <<asked, owed>>

(* The request for the asset: DsegUpdate asks a peer for its list once in  *)
(* MASTERNODES_DSEG_SECONDS; "mnget" and "mnvs" are always sent.           *)
Ask(p, s) ==
    /\ attempt' = attempt + 1
    /\ Elapse
    /\ UNCHANGED stage
    /\ IF s = "LIST" /\ p \in asked
       THEN UNCHANGED <<asked, owed>>
       ELSE /\ owed' = owed \union {<<p, s>>}
            /\ asked' = IF s = "LIST" THEN asked \union {p} ELSE asked

NothingToDo ==
    Elapse /\ UNCHANGED <<stage, attempt, asked, owed>>

(* LIST and MNW: the loop over the peers stops at the first peer that is   *)
(* recent enough if the asset is complete, otherwise at the first that has *)
(* not been asked. The timeout is only looked at for such a peer.          *)
ProcessAsset(s, mainFree) ==
    /\ stage = s
    /\ CheckBlockchain(mainFree)
    /\ fBlockchainSynced'
    /\ IF Complete(s) /\ RecentPeers # {}
       THEN GetNextAsset /\ UNCHANGED fulfilled
       ELSE \/ /\ NextPeer(s, fulfilled) = {}
               /\ NothingToDo
               /\ UNCHANGED fulfilled
            \/ \E p \in NextPeer(s, fulfilled) :
                  /\ fulfilled' = fulfilled \union {<<p, s>>}
                  /\ \/ Stalled(s) /\ enforced /\ Fail
                     \/ Stalled(s) /\ ~enforced /\ GetNextAsset
                     \/ ~Stalled(s) /\ attempt >= 3 * THRESHOLD /\ NothingToDo
                     \/ ~Stalled(s) /\ attempt < 3 * THRESHOLD /\ Ask(p, s)
    /\ UNCHANGED <<seen, enabled, env>>

(* BUDGET: the timeout comes before the peer's flag.                       *)
ProcessBudget(mainFree) ==
    /\ stage = "BUDGET"
    /\ CheckBlockchain(mainFree)
    /\ fBlockchainSynced'
    /\ IF (Complete("BUDGET") \/ Stalled("BUDGET")) /\ RecentPeers # {}
       THEN GetNextAsset /\ UNCHANGED fulfilled
       ELSE \/ /\ NextPeer("BUDGET", fulfilled) = {}
               /\ NothingToDo
               /\ UNCHANGED fulfilled
            \/ \E p \in NextPeer("BUDGET", fulfilled) :
                  /\ fulfilled' = fulfilled \union {<<p, "BUDGET">>}
                  /\ \/ attempt >= 3 * THRESHOLD /\ NothingToDo
                     \/ attempt < 3 * THRESHOLD /\ Ask(p, "BUDGET")
    /\ UNCHANGED <<seen, enabled, env>>

-----------------------------------------------------------------------------
(* What arrives from the peers, and the environment.                       *)

(* Mutant: an item is news whenever it comes.                              *)
AddedAlways(s, new) ==
    /\ last' = [last EXCEPT ![s] = IF new # {} THEN 0 ELSE @]
    /\ seen' = [seen EXCEPT ![s] = [i \in Items |->
          IF i \in new /\ seen[s][i] < THRESHOLD THEN seen[s][i] + 1 ELSE seen[s][i]]]

(* Mutant: the count of an item has no limit.                              *)
AddedUncapped(s, new) ==
    /\ last' = [last EXCEPT ![s] = IF new # {} THEN 0 ELSE @]
    /\ seen' = [seen EXCEPT ![s] = [i \in Items |->
          IF i \in new THEN seen[s][i] + 1 ELSE seen[s][i]]]

(* AddedMasternodeList, AddedMasternodeWinner, AddedBudgetItem: an item    *)
(* counts as news THRESHOLD times.                                         *)
Added(s, new) ==
    /\ last' = [last EXCEPT ![s] = IF \E i \in new : seen[s][i] < THRESHOLD THEN 0 ELSE @]
    /\ seen' = [seen EXCEPT ![s] = [i \in Items |->
          IF i \in new /\ seen[s][i] < THRESHOLD THEN seen[s][i] + 1 ELSE seen[s][i]]]

(* A peer answers a request with everything it has. The handlers drop it   *)
(* while the chain is not synced.                                          *)
Answer(p, s) ==
    /\ Answers
    /\ <<p, s>> \in owed
    /\ owed' = owed \ {<<p, s>>}
    /\ CheckBlockchain(TRUE)
    /\ Added(s, IF fBlockchainSynced' THEN Items ELSE {})
    /\ enabled' = (enabled \/ (s = "LIST" /\ fBlockchainSynced' /\ Items # {}))
    /\ UNCHANGED <<stage, attempt, started, failure, fulfilled, asked, env>>

(* An item that is new comes by relay, or (fresh = FALSE) an "inv" of one  *)
(* the node has: AlreadyHave counts it in any state of the chain.          *)
Relayed(s, i, fresh) ==
    /\ fresh => fBlockchainSynced
    /\ Added(s, {i})
    /\ enabled' = (enabled \/ (s = "LIST" /\ fresh))
    /\ UNCHANGED <<stage, attempt, started, failure, fulfilled, asked, owed,
                   fBlockchainSynced, env>>

(* The thread that calls Process asks for the chain every second.          *)
CheckChain ==
    /\ ~fBlockchainSynced /\ recent
    /\ CheckBlockchain(TRUE)
    /\ UNCHANGED <<stage, attempt, clocks, seen, fulfilled, asked, owed, enabled, env>>

Connect(p) ==
    /\ Churn /\ \A i \in DOMAIN vNodes : vNodes[i] # p
    /\ vNodes' = Append(vNodes, p)
    /\ UNCHANGED <<stage, attempt, clocks, seen, fulfilled, asked, owed,
                   fBlockchainSynced, enabled, recent, enforced>>

(* A CNode and its flags are gone; the address stays in mnodeman's map.    *)
Disconnect(p) ==
    /\ Churn
    /\ \E i \in DOMAIN vNodes :
          /\ vNodes[i] = p
          /\ vNodes' = SubSeq(vNodes, 1, i - 1) \o SubSeq(vNodes, i + 1, Len(vNodes))
    /\ fulfilled' = {f \in fulfilled : f[1] # p}
    /\ owed' = {f \in owed : f[1] # p}
    /\ UNCHANGED <<stage, attempt, clocks, seen, asked, fBlockchainSynced,
                   enabled, recent, enforced>>

NewTip ==
    /\ ~recent /\ recent' = TRUE
    /\ UNCHANGED <<stage, attempt, clocks, seen, fulfilled, asked, owed,
                   fBlockchainSynced, enabled, vNodes, enforced>>

(* Mutant: the stage survives the reset.                                   *)
ResetAllKeepsStage ==
    /\ Reset
    /\ attempt' = 0 /\ started' = 0
    /\ UNCHANGED stage

(* Reset() from outside Process.                                           *)
ResetAll ==
    /\ Reset
    /\ stage' = "INITIAL" /\ attempt' = 0 /\ started' = 0

(* More than an hour between two calls of IsBlockchainSynced.              *)
Sleep ==
    /\ Churn
    /\ ResetAll
    /\ fBlockchainSynced' = FALSE
    /\ recent' = FALSE
    /\ UNCHANGED <<fulfilled, asked, owed, enabled, vNodes, enforced>>

(* The RPC "mnsync reset".                                                 *)
MnsyncReset ==
    /\ Churn
    /\ ResetAll
    /\ UNCHANGED <<fulfilled, asked, owed, fBlockchainSynced, enabled, env>>

(* All masternodes have expired; MASTERNODES_DSEG_SECONDS have passed for  *)
(* a peer; the spork changes.                                              *)
Change ==
    /\ \/ Churn /\ enabled /\ enabled' = FALSE /\ UNCHANGED <<asked, enforced>>
       \/ \E p \in asked : Churn /\ asked' = asked \ {p} /\ UNCHANGED <<enabled, enforced>>
       \/ SporkChanges /\ enforced' = ~enforced /\ UNCHANGED <<enabled, asked>>
    /\ UNCHANGED <<stage, attempt, clocks, seen, fulfilled, owed,
                   fBlockchainSynced, vNodes, recent>>

-----------------------------------------------------------------------------

(* A call of Process that gets the locks it tries.                         *)
ProcessLocked ==
    \/ ProcessIdle
    \/ \E cleared \in BOOLEAN : ProcessStart(cleared, TRUE, TRUE)
    \/ ProcessWait(TRUE, TRUE)
    \/ ProcessSporks(TRUE)
    \/ \E s \in {"LIST", "MNW"} : ProcessAsset(s, TRUE)
    \/ ProcessBudget(TRUE)

(* A call of Process that finds cs_vNodes or cs_main taken.                *)
ProcessUnlocked ==
    \/ \E cleared, locked, mainFree \in BOOLEAN :
          ~(locked /\ mainFree) /\ ProcessStart(cleared, locked, mainFree)
    \/ \E locked, mainFree \in BOOLEAN :
          ~(locked /\ mainFree) /\ ProcessWait(locked, mainFree)
    \/ ProcessSporks(FALSE)
    \/ \E s \in {"LIST", "MNW"} : ProcessAsset(s, FALSE)
    \/ ProcessBudget(FALSE)

Next ==
    \/ ProcessLocked
    \/ ProcessUnlocked
    \/ CheckChain
    \/ \E p \in Peers, s \in Assets : Answer(p, s)
    \/ \E s \in RelayedAssets, i \in Items, fresh \in BOOLEAN : Relayed(s, i, fresh)
    \/ \E p \in Peers : Connect(p) \/ Disconnect(p)
    \/ NewTip \/ Sleep \/ MnsyncReset \/ Change

Spec == Init /\ [][Next]_vars

(* Process runs again and again and other threads hold its locks only for  *)
(* a while; blocks keep coming; a peer that is asked answers.              *)
FairSpec ==
    /\ Spec
    /\ WF_vars(ProcessLocked) /\ WF_vars(CheckChain) /\ WF_vars(NewTip)
    /\ \A p \in Peers, s \in Assets : WF_vars(Answer(p, s))

-----------------------------------------------------------------------------
(* Properties.                                                             *)

Ages(cap) == Never .. (cap + 1)

(* The fields of CMasternodeSync stay in range; no stage asks more than    *)
(* 3 * MASTERNODE_SYNC_THRESHOLD times.                                    *)
TypeOK ==
    /\ stage \in Stages
    /\ attempt \in 0 .. 3 * THRESHOLD
    /\ last \in [Assets -> Ages(IDLE)]
    /\ started \in Ages(STALL) /\ failure \in Ages(RETRY)
    /\ seen \in [Assets -> [Items -> 0 .. THRESHOLD]]
    /\ fulfilled \subseteq Peers \X (Assets \union {"SPORKS"})
    /\ vNodes \in Seq(Peers) /\ asked \subseteq Peers
    /\ owed \subseteq Peers \X Assets
    /\ {fBlockchainSynced, recent, enabled, enforced} \subseteq BOOLEAN

(* While payments are enforced, a node is past the list only if it has     *)
(* received some of it since the last Reset, and past the winners only if  *)
(* it has received some of those: whatever time-outs, sleeps, resets and   *)
(* lost peers happen on the way, it does not enforce what it never got.    *)
EnforcedMeansReceived ==
    enforced /\ ~SporkChanges =>
        /\ stage \in {"MNW", "BUDGET", "FINISHED"} => last["LIST"] # Never
        /\ stage \in {"BUDGET", "FINISHED"} => last["MNW"] # Never

(* The time stamp of an asset and the counts of its items are forgotten    *)
(* together: items counted before a resync are news again after it, or     *)
(* the resync would take the asset for missing.                            *)
StampedIffSeen ==
    \A s \in Assets : (last[s] # Never) <=> (\E i \in Items : seen[s][i] > 0)

(* With three peers that answer, the sync comes to a verdict, however      *)
(* often Process misses its locks and items are relayed again.             *)
SyncDecides == <>(stage \in {"FINISHED", "FAILED"})

(* "try syncing again" (masternode-sync.cpp:250): after a failure the node *)
(* gets to ask its peers for the list again.                               *)
RetryReachesList == stage = "FAILED" ~> stage = "LIST"

(* "timeout" (masternode-sync.cpp:310): a node that gets no list does not  *)
(* wait for it forever.                                                    *)
ListTimesOut ==
    stage = "LIST" /\ last["LIST"] = Never ~> stage # "LIST" \/ last["LIST"] # Never

=============================================================================
