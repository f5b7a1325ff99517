------------------------ MODULE MasternodeSyncProofs ------------------------
(***************************************************************************)
(* Proofs about MasternodeSync, for any peers, items and thresholds: a     *)
(* node that enforces payments is never past an asset it has received      *)
(* nothing of, and time stamps and counts are forgotten together.          *)
(***************************************************************************)
EXTENDS MasternodeSync, SequenceTheorems, TLAPS

(* The inductive invariant.                                                *)
IInv == TypeOK /\ EnforcedMeansReceived /\ StampedIffSeen

(* The fields of CMasternodeSync, and the rest of TypeOK.                  *)
FieldsType ==
    /\ stage \in Stages
    /\ attempt \in 0 .. 3 * THRESHOLD
    /\ started \in Ages(STALL) /\ failure \in Ages(RETRY)
    /\ fulfilled \subseteq Peers \X (Assets \union {"SPORKS"})

LastType == last \in [Assets -> Ages(IDLE)]
SeenType == seen \in [Assets -> [Items -> 0 .. THRESHOLD]]
RequestType == asked \subseteq Peers /\ owed \subseteq Peers \X Assets
EnvType ==
    /\ vNodes \in Seq(Peers)
    /\ fBlockchainSynced \in BOOLEAN /\ recent \in BOOLEAN
    /\ enabled \in BOOLEAN /\ enforced \in BOOLEAN

(* TypeOK by parts.                                                        *)
LEMMA TypeParts == TypeOK <=> FieldsType /\ LastType /\ SeenType /\ RequestType /\ EnvType
BY DEF TypeOK, FieldsType, LastType, SeenType, RequestType, EnvType

(* An asset has arrived: its stamp is set, and stays so.                   *)
SameStamps == \A a \in Assets : (last'[a] = Never) <=> (last[a] = Never)

-----------------------------------------------------------------------------
(* Time.                                                                   *)

(* An age grows within its cap, and "never" stays "never".                 *)
LEMMA OlderType ==
    ASSUME NEW cap \in Nat, NEW age \in Ages(cap)
    PROVE  /\ Older(age, cap) \in Ages(cap)
           /\ (Older(age, cap) = Never) <=> (age = Never)
           /\ 0 \in Ages(cap) /\ 0 # Never
BY DEF Ages, Older, Never

(* The ages one period later.                                              *)
LEMMA NowType ==
    ASSUME IInv
    PROVE  /\ lastNow \in [Assets -> Ages(IDLE)]
           /\ \A a \in Assets : (lastNow[a] = Never) <=> (last[a] = Never)
           /\ startedNow \in Ages(STALL) /\ failureNow \in Ages(RETRY)
           /\ 0 \in Ages(STALL) /\ 0 \in Ages(RETRY)
<1>1. LastType /\ FieldsType
  BY TypeParts DEF IInv
<1>2. IDLE \in Nat /\ STALL \in Nat /\ RETRY \in Nat
  BY SyncAssumption
<1>3. \A a \in Assets : /\ Older(last[a], IDLE) \in Ages(IDLE)
                        /\ (Older(last[a], IDLE) = Never) <=> (last[a] = Never)
  BY <1>1, <1>2, OlderType DEF LastType
<1>4. 0 \in Ages(IDLE) /\ 0 \in Ages(STALL) /\ 0 \in Ages(RETRY) /\ 0 # Never
  BY <1>2 DEF Ages, Never
<1>5. Older(started, STALL) \in Ages(STALL) /\ Older(failure, RETRY) \in Ages(RETRY)
  BY <1>1, <1>2, OlderType DEF FieldsType
<1>. QED  BY <1>3, <1>4, <1>5 DEF lastNow, startedNow, failureNow

(* Elapse keeps types and stamps.                                          *)
LEMMA ElapseStep ==
    ASSUME IInv, last' = lastNow
    PROVE  LastType' /\ SameStamps
BY NowType DEF LastType, SameStamps

-----------------------------------------------------------------------------
(* The invariant in the next state.                                        *)

(* While neither stamps nor counts change, they go on going together.      *)
LEMMA KeepStamps ==
    ASSUME IInv, SameStamps, seen' = seen
    PROVE  StampedIffSeen'
BY DEF IInv, SameStamps, StampedIffSeen

(* A stage that does not move past an asset needs nothing new.             *)
LEMMA KeepStage ==
    ASSUME IInv, SameStamps, enforced' = enforced \/ SporkChanges,
           stage' = stage \/ stage' \in {"INITIAL", "SPORKS", "LIST", "FAILED"}
    PROVE  EnforcedMeansReceived'
BY DEF IInv, SameStamps, EnforcedMeansReceived, Assets

(* Reset forgets stamps and counts.                                        *)
LEMMA ResetStep ==
    ASSUME Reset, stage' \in {"INITIAL", "SPORKS"}
    PROVE  LastType' /\ SeenType' /\ StampedIffSeen' /\ EnforcedMeansReceived'
           /\ failure' \in Ages(RETRY)
<1>1. IDLE \in Nat /\ RETRY \in Nat /\ THRESHOLD \in Nat
  BY SyncAssumption
<1>2. last' = [a \in Assets |-> Never] /\ seen' = NoItems /\ failure' = 0
  BY DEF Reset
<1>3. LastType' /\ failure' \in Ages(RETRY)
  BY <1>1, <1>2 DEF LastType, Ages, Never
<1>4. SeenType'
  BY <1>1, <1>2 DEF SeenType, NoItems
<1>5. StampedIffSeen'
  BY <1>2 DEF StampedIffSeen, NoItems
<1>6. EnforcedMeansReceived'
  BY DEF EnforcedMeansReceived
<1>. QED  BY <1>3, <1>4, <1>5, <1>6

(* All parts make the invariant.                                           *)
LEMMA Combine ==
    ASSUME FieldsType', LastType', SeenType', RequestType', EnvType',
           EnforcedMeansReceived', StampedIffSeen'
    PROVE  IInv'
<1>1. TypeOK'
  BY DEF TypeOK, FieldsType, LastType, SeenType, RequestType, EnvType
<1>. QED  BY <1>1 DEF IInv

(* IsBlockchainSynced leaves a Boolean.                                    *)
LEMMA ChainType ==
    ASSUME IInv, NEW free \in BOOLEAN, CheckBlockchain(free)
    PROVE  fBlockchainSynced' \in BOOLEAN
BY DEF CheckBlockchain

(* The peers Process loops over are peers.                                 *)
LEMMA NextPeerType ==
    ASSUME IInv, NEW s, NEW flags
    PROVE  NextPeer(s, flags) \subseteq Peers
<1>1. vNodes \in Seq(Peers)
  BY TypeParts DEF IInv, EnvType
<1>2. \A i \in DOMAIN vNodes : vNodes[i] \in Peers
  BY <1>1, ElementOfSeq, LenProperties
<1>. QED  BY <1>2 DEF NextPeer

(* What all branches of Process within a stage have in common.             *)
LEMMA ProcessCommon ==
    ASSUME IInv, last' = lastNow, seen' = seen, UNCHANGED <<enabled, env>>,
           fBlockchainSynced' \in BOOLEAN,
           FieldsType', RequestType', EnforcedMeansReceived'
    PROVE  IInv'
<1>1. SeenType /\ EnvType
  BY TypeParts DEF IInv
<1>2. LastType' /\ SameStamps
  BY ElapseStep
<1>3. SeenType' /\ EnvType'
  BY <1>1 DEF SeenType, EnvType, env
<1>4. StampedIffSeen'
  BY <1>2, KeepStamps
<1>. QED  BY <1>2, <1>3, <1>4, Combine

-----------------------------------------------------------------------------
(* The actions.                                                            *)

(* Process returns at once.                                                *)
LEMMA ProcessIdleStep ==
    ASSUME IInv, ProcessIdle
    PROVE  IInv'
<1>1. FieldsType /\ RequestType /\ EnvType
  BY TypeParts DEF IInv
<1>2. /\ last' = lastNow /\ started' = startedNow /\ failure' = failureNow
      /\ UNCHANGED <<stage, attempt, seen, fulfilled, asked, owed, fBlockchainSynced, enabled, env>>
  BY DEF ProcessIdle, Elapse
<1>3. FieldsType' /\ RequestType' /\ fBlockchainSynced' \in BOOLEAN
  BY <1>1, <1>2, NowType DEF FieldsType, RequestType, EnvType
<1>4. EnforcedMeansReceived'
  BY <1>2, ElapseStep, KeepStage DEF env
<1>. QED  BY <1>2, <1>3, <1>4, ProcessCommon

(* Process waits for the chain or for cs_vNodes.                           *)
LEMMA ProcessWaitStep ==
    ASSUME IInv, NEW locked \in BOOLEAN, NEW free \in BOOLEAN, ProcessWait(locked, free)
    PROVE  IInv'
<1>1. FieldsType /\ RequestType
  BY TypeParts DEF IInv
<1>2. /\ last' = lastNow /\ started' = startedNow /\ failure' = failureNow
      /\ UNCHANGED <<stage, attempt, seen, fulfilled, asked, owed, enabled, env>>
  BY DEF ProcessWait, Elapse
<1>3. FieldsType' /\ RequestType'
  BY <1>1, <1>2, NowType DEF FieldsType, RequestType
<1>4. fBlockchainSynced' \in BOOLEAN
  BY ChainType DEF ProcessWait
<1>5. EnforcedMeansReceived'
  BY <1>2, ElapseStep, KeepStage DEF env
<1>. QED  BY <1>2, <1>3, <1>4, <1>5, ProcessCommon

(* "getsporks" to the next peer, or to nobody.                             *)
LEMMA ProcessSporksStep ==
    ASSUME IInv, NEW free \in BOOLEAN, ProcessSporks(free)
    PROVE  IInv'
<1>1. FieldsType /\ RequestType
  BY TypeParts DEF IInv
<1>2. fBlockchainSynced' \in BOOLEAN
  BY ChainType DEF ProcessSporks
<1>3. /\ last' = lastNow /\ failure' = failureNow
      /\ started' = startedNow \/ started' = 0
      /\ UNCHANGED <<seen, enabled, env, asked, owed>>
      /\ stage' = stage \/ stage' = "LIST"
      /\ attempt' = attempt \/ attempt' = 1 \/ (attempt < 2 /\ attempt' = attempt + 1)
  <2>1. attempt \in Nat
    BY <1>1, SyncAssumption DEF FieldsType
  <2>. QED  BY <2>1 DEF ProcessSporks, Elapse
<1>4. fulfilled' \subseteq Peers \X (Assets \union {"SPORKS"})
  BY <1>1, NextPeerType DEF ProcessSporks, FieldsType
<1>5. attempt' \in 0 .. 3 * THRESHOLD
  BY <1>1, <1>3, SyncAssumption DEF FieldsType
<1>6. FieldsType'
  BY <1>1, <1>3, <1>4, <1>5, NowType DEF FieldsType, Stages
<1>7. EnforcedMeansReceived'
  BY <1>3, ElapseStep, KeepStage DEF env
<1>8. RequestType'
  BY <1>1, <1>3 DEF RequestType
<1>. QED  BY <1>2, <1>3, <1>6, <1>7, <1>8, ProcessCommon

(* The start of a sync, with or without Reset.                             *)
LEMMA ProcessStartStep ==
    ASSUME IInv, NEW cleared \in BOOLEAN, NEW locked \in BOOLEAN, NEW free \in BOOLEAN,
           ProcessStart(cleared, locked, free)
    PROVE  IInv'
<1>1. FieldsType /\ RequestType /\ EnvType /\ SeenType
  BY TypeParts DEF IInv
<1>2. stage' = "SPORKS" /\ started' = 0 /\ UNCHANGED <<asked, owed, enabled, env>>
  BY DEF ProcessStart
<1>3. fBlockchainSynced' \in BOOLEAN
  BY ChainType DEF ProcessStart
<1>4. EnvType' /\ RequestType'
  BY <1>1, <1>2, <1>3 DEF EnvType, RequestType, env
<1>5. attempt' \in {0, 1}
  BY DEF ProcessStart
<1>6. fulfilled' \subseteq Peers \X (Assets \union {"SPORKS"})
  BY <1>1, NextPeerType DEF ProcessStart, FieldsType
<1>7. failure' \in Ages(RETRY) => FieldsType'
  BY <1>2, <1>5, <1>6, NowType, SyncAssumption DEF FieldsType, Stages
<1>8. CASE Reset
  BY <1>2, <1>4, <1>7, <1>8, ResetStep, Combine
<1>9. CASE last' = lastNow /\ failure' = failureNow /\ UNCHANGED seen
  <2>1. EnforcedMeansReceived'
    BY <1>2, <1>9, ElapseStep, KeepStage DEF env
  <2>. QED  BY <1>2, <1>3, <1>4, <1>7, <1>9, <2>1, NowType, ProcessCommon
<1>. QED  BY <1>8, <1>9 DEF ProcessStart

(* What a branch for one asset may do to the fields.                       *)
Branch ==
    /\ last' = lastNow
    /\ started' \in {startedNow, 0} /\ failure' \in {failureNow, 0}
    /\ attempt' \in {attempt, 0} \/ (attempt < 3 * THRESHOLD /\ attempt' = attempt + 1)
    /\ RequestType'

(* The request of an asset adds to what the peers owe.                     *)
LEMMA AskBranch ==
    ASSUME IInv, NEW p \in Peers, NEW s \in Assets, Ask(p, s), attempt < 3 * THRESHOLD
    PROVE  Branch /\ stage' = stage
<1>1. RequestType
  BY TypeParts DEF IInv
<1>2. RequestType'
  BY <1>1 DEF RequestType, Ask
<1>. QED  BY <1>2 DEF Branch, Ask, Elapse

(* The other branches leave the requests alone.                            *)
LEMMA QuietBranch ==
    ASSUME IInv, NothingToDo \/ Fail \/ GetNextAsset
    PROVE  Branch
<1>1. RequestType
  BY TypeParts DEF IInv
<1>2. RequestType'
  BY <1>1 DEF RequestType, NothingToDo, Fail, GetNextAsset
<1>. QED  BY <1>2 DEF Branch, NothingToDo, Fail, GetNextAsset, Elapse

(* The next stage is open once the asset has arrived, or is not enforced.  *)
LEMMA GetNextAssetStep ==
    ASSUME IInv, NEW s \in Assets, stage = s, GetNextAsset,
           lastNow[s] # Never \/ ~enforced \/ s = "BUDGET",
           enforced' = enforced
    PROVE  EnforcedMeansReceived' /\ stage' \in Stages
<1>1. SameStamps /\ last' = lastNow
  BY ElapseStep DEF GetNextAsset
<1>2. CASE s = "LIST"
  BY <1>1, <1>2 DEF GetNextAsset, NextOf, EnforcedMeansReceived, Stages
<1>3. CASE s = "MNW"
  BY <1>1, <1>3 DEF GetNextAsset, NextOf, EnforcedMeansReceived, IInv, SameStamps, Stages, Assets
<1>4. CASE s = "BUDGET"
  BY <1>1, <1>4 DEF GetNextAsset, NextOf, EnforcedMeansReceived, IInv, SameStamps, Stages, Assets
<1>. QED  BY <1>2, <1>3, <1>4 DEF Assets

(* A branch that keeps the rule on stages keeps the invariant.             *)
LEMMA BranchStep ==
    ASSUME IInv, Branch, stage' \in Stages, EnforcedMeansReceived',
           fulfilled' \subseteq Peers \X (Assets \union {"SPORKS"}),
           fBlockchainSynced' \in BOOLEAN, UNCHANGED <<seen, enabled, env>>
    PROVE  IInv'
<1>1. FieldsType
  BY TypeParts DEF IInv
<1>2. attempt' \in 0 .. 3 * THRESHOLD
  BY <1>1, SyncAssumption DEF FieldsType, Branch
<1>3. started' \in Ages(STALL) /\ failure' \in Ages(RETRY)
  BY NowType DEF Branch
<1>4. FieldsType'
  BY <1>2, <1>3 DEF FieldsType
<1>. QED  BY <1>4, ProcessCommon DEF Branch

(* LIST and MNW: only a stage that has arrived, or that is not enforced,   *)
(* is left for the next one.                                               *)
LEMMA ProcessAssetStep ==
    ASSUME IInv, NEW s \in {"LIST", "MNW"}, NEW free \in BOOLEAN, ProcessAsset(s, free)
    PROVE  IInv'
<1>1. FieldsType
  BY TypeParts DEF IInv
<1>2. fBlockchainSynced' \in BOOLEAN /\ UNCHANGED <<seen, enabled, env>> /\ enforced' = enforced
  BY ChainType DEF ProcessAsset, env
<1>3. stage = s /\ s \in Assets
  BY DEF ProcessAsset, Assets
<1>4. fulfilled' \subseteq Peers \X (Assets \union {"SPORKS"})
  BY <1>1, <1>3, NextPeerType DEF ProcessAsset, FieldsType
<1>5. \/ GetNextAsset /\ (lastNow[s] # Never \/ ~enforced)
      \/ NothingToDo \/ Fail
      \/ \E p \in NextPeer(s, fulfilled) : attempt < 3 * THRESHOLD /\ Ask(p, s)
  BY DEF ProcessAsset, Complete
<1>6. CASE GetNextAsset /\ (lastNow[s] # Never \/ ~enforced)
  BY <1>2, <1>3, <1>4, <1>6, GetNextAssetStep, QuietBranch, BranchStep
<1>7. ASSUME Branch, stage' = stage \/ stage' = "FAILED"
      PROVE  IInv'
  <2>1. EnforcedMeansReceived'
    BY <1>2, <1>7, ElapseStep, KeepStage DEF Branch
  <2>2. stage' \in Stages
    BY <1>1, <1>7 DEF FieldsType, Stages
  <2>. QED  BY <1>2, <1>4, <1>7, <2>1, <2>2, BranchStep
<1>8. CASE NothingToDo
  BY <1>7, <1>8, QuietBranch DEF NothingToDo
<1>9. CASE Fail
  BY <1>7, <1>9, QuietBranch DEF Fail
<1>10. CASE \E p \in NextPeer(s, fulfilled) : attempt < 3 * THRESHOLD /\ Ask(p, s)
  BY <1>3, <1>7, <1>10, NextPeerType, AskBranch
<1>. QED  BY <1>5, <1>6, <1>8, <1>9, <1>10

(* BUDGET: the last stage may be left with nothing received.               *)
LEMMA ProcessBudgetStep ==
    ASSUME IInv, NEW free \in BOOLEAN, ProcessBudget(free)
    PROVE  IInv'
<1>1. FieldsType
  BY TypeParts DEF IInv
<1>2. fBlockchainSynced' \in BOOLEAN /\ UNCHANGED <<seen, enabled, env>> /\ enforced' = enforced
  BY ChainType DEF ProcessBudget, env
<1>3. stage = "BUDGET" /\ "BUDGET" \in Assets
  BY DEF ProcessBudget, Assets
<1>4. fulfilled' \subseteq Peers \X (Assets \union {"SPORKS"})
  BY <1>1, <1>3, NextPeerType DEF ProcessBudget, FieldsType
<1>5. \/ GetNextAsset \/ NothingToDo
      \/ \E p \in NextPeer("BUDGET", fulfilled) : attempt < 3 * THRESHOLD /\ Ask(p, "BUDGET")
  BY DEF ProcessBudget
<1>6. CASE GetNextAsset
  BY <1>2, <1>3, <1>4, <1>6, GetNextAssetStep, QuietBranch, BranchStep
<1>7. ASSUME Branch, stage' = stage
      PROVE  IInv'
  <2>1. EnforcedMeansReceived'
    BY <1>2, <1>7, ElapseStep, KeepStage DEF Branch
  <2>2. stage' \in Stages
    BY <1>1, <1>7 DEF FieldsType
  <2>. QED  BY <1>2, <1>4, <1>7, <2>1, <2>2, BranchStep
<1>8. CASE NothingToDo
  BY <1>7, <1>8, QuietBranch DEF NothingToDo
<1>9. CASE \E p \in NextPeer("BUDGET", fulfilled) : attempt < 3 * THRESHOLD /\ Ask(p, "BUDGET")
  BY <1>3, <1>7, <1>9, NextPeerType, AskBranch
<1>. QED  BY <1>5, <1>6, <1>8, <1>9

(* AddedMasternodeList and its like: the stamp is set exactly when a count *)
(* grows.                                                                  *)
LEMMA AddedStep ==
    ASSUME IInv, NEW s \in Assets, NEW new \in SUBSET Items, Added(s, new),
           stage' = stage, enforced' = enforced
    PROVE  LastType' /\ SeenType' /\ StampedIffSeen' /\ EnforcedMeansReceived'
<1>. DEFINE news == \E i \in new : seen[s][i] < THRESHOLD
<1>1. LastType /\ SeenType /\ StampedIffSeen /\ EnforcedMeansReceived
  BY TypeParts DEF IInv
<1>2. THRESHOLD \in Nat \ {0} /\ IDLE \in Nat
  BY SyncAssumption
<1>3. /\ last' = [last EXCEPT ![s] = IF news THEN 0 ELSE @]
      /\ seen' = [seen EXCEPT ![s] = [i \in Items |->
            IF i \in new /\ seen[s][i] < THRESHOLD THEN seen[s][i] + 1 ELSE seen[s][i]]]
  BY DEF Added
<1>4. /\ \A a \in Assets \ {s} : last'[a] = last[a] /\ seen'[a] = seen[a]
      /\ last'[s] = IF news THEN 0 ELSE last[s]
      /\ \A i \in Items : seen'[s][i] =
            IF i \in new /\ seen[s][i] < THRESHOLD THEN seen[s][i] + 1 ELSE seen[s][i]
  BY <1>1, <1>3 DEF LastType, SeenType
<1>5. \A i \in Items : seen[s][i] \in 0 .. THRESHOLD
  BY <1>1 DEF SeenType
<1>6. LastType'
  BY <1>1, <1>2, <1>3 DEF LastType, Ages, Never
<1>7. SeenType'
  <2>1. [i \in Items |->
            IF i \in new /\ seen[s][i] < THRESHOLD THEN seen[s][i] + 1 ELSE seen[s][i]]
          \in [Items -> 0 .. THRESHOLD]
    BY <1>2, <1>5
  <2>. QED  BY <1>1, <1>3, <2>1 DEF SeenType
<1>8. (last'[s] # Never) <=> (\E i \in Items : seen'[s][i] > 0)
  <2>1. (last[s] # Never) <=> (\E i \in Items : seen[s][i] > 0)
    BY <1>1 DEF StampedIffSeen
  <2>2. CASE news
    <3>1. PICK i \in new : seen[s][i] < THRESHOLD
      BY <2>2
    <3>2. seen'[s][i] > 0
      BY <1>4, <1>5, <3>1
    <3>. QED  BY <1>4, <2>2, <3>2 DEF Never
  <2>3. CASE ~news
    BY <1>4, <2>1, <2>3
  <2>. QED  BY <2>2, <2>3
<1>9. StampedIffSeen'
  BY <1>1, <1>4, <1>8 DEF StampedIffSeen
<1>10. EnforcedMeansReceived'
  <2>1. \A a \in Assets : last[a] # Never => last'[a] # Never
    BY <1>4 DEF Never
  <2>. QED  BY <1>1, <2>1 DEF EnforcedMeansReceived, Assets
<1>. QED  BY <1>6, <1>7, <1>9, <1>10

(* A peer answers.                                                         *)
LEMMA AnswerStep ==
    ASSUME IInv, NEW p \in Peers, NEW s \in Assets, Answer(p, s)
    PROVE  IInv'
<1>1. FieldsType /\ RequestType /\ EnvType
  BY TypeParts DEF IInv
<1>2. UNCHANGED <<stage, attempt, started, failure, fulfilled, asked, env>> /\ owed' \subseteq owed
  BY DEF Answer
<1>3. fBlockchainSynced' \in BOOLEAN /\ enabled' \in BOOLEAN
  BY ChainType DEF Answer
<1>4. \E new \in SUBSET Items : Added(s, new)
  BY DEF Answer
<1>5. LastType' /\ SeenType' /\ StampedIffSeen' /\ EnforcedMeansReceived'
  BY <1>2, <1>4, AddedStep DEF env
<1>6. FieldsType' /\ RequestType' /\ EnvType'
  BY <1>1, <1>2, <1>3 DEF FieldsType, RequestType, EnvType, env
<1>. QED  BY <1>5, <1>6, Combine

(* An item is relayed or announced.                                        *)
LEMMA RelayedStep ==
    ASSUME IInv, NEW s \in RelayedAssets, NEW i \in Items, NEW fresh \in BOOLEAN,
           Relayed(s, i, fresh)
    PROVE  IInv'
<1>1. FieldsType /\ RequestType /\ EnvType
  BY TypeParts DEF IInv
<1>2. UNCHANGED <<stage, attempt, started, failure, fulfilled, asked, owed, fBlockchainSynced, env>>
  BY DEF Relayed
<1>3. enabled' \in BOOLEAN
  BY DEF Relayed
<1>4. s \in Assets /\ Added(s, {i})
  BY SyncAssumption DEF Relayed, Assets
<1>5. LastType' /\ SeenType' /\ StampedIffSeen' /\ EnforcedMeansReceived'
  BY <1>2, <1>4, AddedStep DEF env
<1>6. FieldsType' /\ RequestType' /\ EnvType'
  BY <1>1, <1>2, <1>3 DEF FieldsType, RequestType, EnvType, env
<1>. QED  BY <1>5, <1>6, Combine

(* The environment: peers, the chain, the spork.                           *)
LEMMA EnvironmentStep ==
    ASSUME IInv, UNCHANGED <<stage, attempt, clocks, seen>>,
           fulfilled' \subseteq fulfilled, asked' \subseteq Peers, owed' \subseteq owed,
           vNodes' \in Seq(Peers), fBlockchainSynced' \in BOOLEAN, recent' \in BOOLEAN,
           enabled' \in BOOLEAN, enforced' \in BOOLEAN,
           enforced' = enforced \/ SporkChanges
    PROVE  IInv'
<1>1. FieldsType /\ LastType /\ SeenType /\ RequestType
  BY TypeParts DEF IInv
<1>2. SameStamps /\ LastType' /\ SeenType'
  BY <1>1 DEF SameStamps, clocks, LastType, SeenType
<1>3. FieldsType' /\ RequestType' /\ EnvType'
  BY <1>1 DEF FieldsType, RequestType, EnvType, clocks
<1>4. EnforcedMeansReceived' /\ StampedIffSeen'
  BY <1>2, KeepStage, KeepStamps
<1>. QED  BY <1>2, <1>3, <1>4, Combine

(* Removing one peer from vNodes leaves a sequence of peers.               *)
LEMMA RemoveType ==
    ASSUME NEW q \in Seq(Peers), NEW i \in DOMAIN q
    PROVE  SubSeq(q, 1, i - 1) \o SubSeq(q, i + 1, Len(q)) \in Seq(Peers)
<1>1. Len(q) \in Nat /\ i \in 1 .. Len(q) /\ \A j \in 1 .. Len(q) : q[j] \in Peers
  BY LenProperties, ElementOfSeq
<1>2. SubSeq(q, 1, i - 1) \in Seq(Peers)
  BY <1>1, SubSeqProperties
<1>3. SubSeq(q, i + 1, Len(q)) \in Seq(Peers)
  BY <1>1, SubSeqProperties
<1>. QED  BY <1>2, <1>3, ConcatProperties

(* Reset() from outside Process, after a sleep or by RPC.                  *)
LEMMA ResetAllStep ==
    ASSUME IInv, ResetAll, UNCHANGED <<fulfilled, asked, owed, enabled, vNodes, enforced>>,
           fBlockchainSynced' \in BOOLEAN, recent' \in BOOLEAN
    PROVE  IInv'
<1>1. FieldsType /\ RequestType /\ EnvType
  BY TypeParts DEF IInv
<1>2. Reset /\ stage' = "INITIAL" /\ attempt' = 0 /\ started' = 0
  BY DEF ResetAll
<1>3. /\ LastType' /\ SeenType' /\ StampedIffSeen' /\ EnforcedMeansReceived'
      /\ failure' \in Ages(RETRY)
  BY <1>2, ResetStep
<1>4. 0 \in Ages(STALL) /\ 0 \in 0 .. 3 * THRESHOLD
  BY NowType, SyncAssumption
<1>5. FieldsType'
  BY <1>1, <1>2, <1>3, <1>4 DEF FieldsType, Stages
<1>6. RequestType' /\ EnvType'
  BY <1>1 DEF RequestType, EnvType
<1>. QED  BY <1>3, <1>5, <1>6, Combine

-----------------------------------------------------------------------------
(* The specification.                                                      *)

(* The invariant holds when the node starts.                               *)
LEMMA InitIInv == Init => IInv
<1>. SUFFICES ASSUME Init PROVE IInv
  OBVIOUS
<1>1. THRESHOLD \in Nat /\ IDLE \in Nat /\ STALL \in Nat /\ RETRY \in Nat
  BY SyncAssumption
<1>2. FieldsType
  BY <1>1 DEF Init, FieldsType, Stages, Ages, Never
<1>3. LastType /\ SeenType
  BY <1>1 DEF Init, LastType, SeenType, NoItems, Ages, Never
<1>4. RequestType
  BY DEF Init, RequestType
<1>5. EnvType
  BY PeersAssumption DEF Init, EnvType
<1>6. EnforcedMeansReceived
  BY DEF Init, EnforcedMeansReceived
<1>7. StampedIffSeen
  BY DEF Init, StampedIffSeen, NoItems
<1>. QED  BY <1>2, <1>3, <1>4, <1>5, <1>6, <1>7, TypeParts DEF IInv

(* A call of Process, with or without its locks.                           *)
LEMMA ProcessStep ==
    ASSUME IInv, ProcessLocked \/ ProcessUnlocked
    PROVE  IInv'
<1>1. CASE ProcessIdle
  BY <1>1, ProcessIdleStep
<1>2. CASE \E cleared, locked, free \in BOOLEAN : ProcessStart(cleared, locked, free)
  BY <1>2, ProcessStartStep
<1>3. CASE \E locked, free \in BOOLEAN : ProcessWait(locked, free)
  BY <1>3, ProcessWaitStep
<1>4. CASE \E free \in BOOLEAN : ProcessSporks(free)
  BY <1>4, ProcessSporksStep
<1>5. CASE \E s \in {"LIST", "MNW"}, free \in BOOLEAN : ProcessAsset(s, free)
  BY <1>5, ProcessAssetStep
<1>6. CASE \E free \in BOOLEAN : ProcessBudget(free)
  BY <1>6, ProcessBudgetStep
<1>7. TRUE \in BOOLEAN /\ FALSE \in BOOLEAN
  OBVIOUS
<1>8. CASE ProcessLocked
  BY <1>1, <1>2, <1>3, <1>4, <1>5, <1>6, <1>7, <1>8, Zenon DEF ProcessLocked
<1>9. CASE ProcessUnlocked
  BY <1>2, <1>3, <1>4, <1>5, <1>6, <1>7, <1>9, Zenon DEF ProcessUnlocked
<1>. QED  BY <1>8, <1>9

(* Every step preserves the invariant.                                     *)
LEMMA NextIInv == IInv /\ [Next]_vars => IInv'
<1>. SUFFICES ASSUME IInv, [Next]_vars PROVE IInv'
  OBVIOUS
<1>0. FieldsType /\ RequestType /\ EnvType
  BY TypeParts DEF IInv
<1>1. CASE ProcessLocked \/ ProcessUnlocked
  BY <1>1, ProcessStep
<1>2. CASE CheckChain
  <2>1. fBlockchainSynced' \in BOOLEAN
    BY <1>2, ChainType DEF CheckChain
  <2>. QED  BY <1>0, <1>2, <2>1, EnvironmentStep DEF CheckChain, RequestType, EnvType, env
<1>3. ASSUME NEW p \in Peers, NEW s \in Assets, Answer(p, s)
      PROVE  IInv'
  BY <1>3, AnswerStep
<1>4. ASSUME NEW s \in RelayedAssets, NEW i \in Items, NEW fresh \in BOOLEAN, Relayed(s, i, fresh)
      PROVE  IInv'
  BY <1>4, RelayedStep
<1>5. ASSUME NEW p \in Peers, Connect(p)
      PROVE  IInv'
  <2>1. vNodes' \in Seq(Peers)
    BY <1>0, <1>5, AppendProperties DEF Connect, EnvType
  <2>. QED  BY <1>0, <1>5, <2>1, EnvironmentStep DEF Connect, RequestType, EnvType
<1>6. ASSUME NEW p \in Peers, Disconnect(p)
      PROVE  IInv'
  <2>1. vNodes' \in Seq(Peers)
    BY <1>0, <1>6, RemoveType DEF Disconnect, EnvType
  <2>2. fulfilled' \subseteq fulfilled /\ owed' \subseteq owed
    BY <1>6 DEF Disconnect
  <2>. QED  BY <1>0, <1>6, <2>1, <2>2, EnvironmentStep DEF Disconnect, RequestType, EnvType
<1>7. CASE NewTip
  BY <1>0, <1>7, EnvironmentStep DEF NewTip, RequestType, EnvType
<1>8. CASE Sleep
  BY <1>8, ResetAllStep DEF Sleep
<1>9. CASE MnsyncReset
  <2>1. ResetAll /\ UNCHANGED <<fulfilled, asked, owed, fBlockchainSynced, enabled, env>>
    BY <1>9 DEF MnsyncReset
  <2>. QED  BY <1>0, <2>1, ResetAllStep DEF EnvType, env
<1>10. CASE Change
  <2>1. /\ UNCHANGED <<stage, attempt, clocks, seen, fulfilled, owed, fBlockchainSynced, vNodes, recent>>
        /\ asked' \subseteq asked /\ enabled' \in BOOLEAN /\ enforced' \in BOOLEAN
        /\ enforced' = enforced \/ SporkChanges
    BY <1>0, <1>10 DEF Change, EnvType
  <2>. QED  BY <1>0, <2>1, EnvironmentStep DEF RequestType, EnvType
<1>11. CASE UNCHANGED vars
  BY <1>0, <1>11, EnvironmentStep DEF vars, RequestType, EnvType, env
<1>. QED  BY <1>1, <1>2, <1>3, <1>4, <1>5, <1>6, <1>7, <1>8, <1>9, <1>10, <1>11 DEF Next

(* The invariant holds in every reachable state.                           *)
THEOREM Invariance == Spec => []IInv
BY InitIInv, NextIInv, PTL DEF Spec

(* The fields of CMasternodeSync stay in range; no stage makes more than   *)
(* 3 * MASTERNODE_SYNC_THRESHOLD requests.                                 *)
THEOREM TypeCorrect == Spec => []TypeOK
<1>1. IInv => TypeOK
  BY DEF IInv
<1>. QED  BY <1>1, Invariance, PTL

(* A node that enforces payments is past an asset only if some of it has   *)
(* arrived since the last Reset, whatever peers, locks and sleeps do to    *)
(* Process on the way.                                                     *)
THEOREM ReceivedTheorem == Spec => []EnforcedMeansReceived
<1>1. IInv => EnforcedMeansReceived
  BY DEF IInv
<1>. QED  BY <1>1, Invariance, PTL

(* lastMasternodeList and its like are set exactly when some item has been *)
(* counted since the last Reset.                                           *)
THEOREM StampTheorem == Spec => []StampedIffSeen
<1>1. IInv => StampedIffSeen
  BY DEF IInv
<1>. QED  BY <1>1, Invariance, PTL

=============================================================================
