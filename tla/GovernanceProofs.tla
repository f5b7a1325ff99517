-------------------------- MODULE GovernanceProofs --------------------------
(***************************************************************************)
(* Proofs about Spork and Budget, the two components by which the network  *)
(* is governed. Of Spork, for any nodes, signers, sporks, values and width *)
(* of an int: the spork in force on a node is the newest it has been sent. *)
(* Of Budget, for any proposals, votes, masternodes and heights: no vote   *)
(* is lost, the budgets a node suggests or votes for are sound, and it     *)
(* accepts the superblock it makes.                                        *)
(***************************************************************************)
EXTENDS Spork, Budget, TLAPS, FiniteSetTheorems, WellFoundedInduction, NaturalsInduction

-----------------------------------------------------------------------------
(* Sporks.                                                                 *)

(* The maps are maps from nodes.                                           *)
Shape ==
    /\ DOMAIN mapSporks = Nodes /\ DOMAIN mapSporksActive = Nodes
    /\ DOMAIN executed = Nodes

(* Nothing is signed in the future: what a signer signs now is at least as *)
(* new as anything it holds.                                               *)
StampInv ==
    /\ \A n \in Nodes : \A m \in mapSporks[n] : m.nTimeSigned <= clock
    /\ \A t \in net : t[3].nTimeSigned <= clock

(* The inductive invariant.                                                *)
IInv == TypeOK /\ Shape /\ StampInv /\ ActiveIsNewest

(* The conjuncts of TypeOK that are about one node, and those that are not.*)
NodeType(n) ==
    /\ mapSporks[n] \subseteq Message
    /\ DOMAIN mapSporksActive[n] \subseteq SporkIDs
    /\ \A id \in DOMAIN mapSporksActive[n] :
          mapSporksActive[n][id] \in mapSporks[n] /\ mapSporksActive[n][id].nSporkID = id
    /\ \A m \in mapSporks[n] : Tasks(m.nSporkID, m.nValue) \subseteq executed[n]

GlobalType ==
    /\ net \subseteq Nodes \X Nodes \X Message
    /\ asked \subseteq Nodes \X Nodes
    /\ clock \in StartTime .. MaxTime
    /\ updates \in 0 .. MaxUpdates /\ restarts \in 0 .. MaxRestarts

(* ActiveIsNewest and the first part of StampInv, for one node.            *)
NodeNewest(n) ==
    \A m \in mapSporks[n] :
        /\ m.nSporkID \in DOMAIN mapSporksActive[n]
        /\ mapSporksActive[n][m.nSporkID].nTimeSigned >= m.nTimeSigned

(* TypeOK, node by node.                                                   *)
LEMMA TypeParts == TypeOK <=> (GlobalType /\ \A n \in Nodes : NodeType(n))
BY DEF TypeOK, GlobalType, NodeType

(* Time stamps are numbers, and signing gives a message its type.          *)
LEMMA MessageType ==
    /\ \A m \in Message : m.nTimeSigned \in Nat /\ m.nSporkID \in SporkIDs
    /\ clock \in StartTime .. MaxTime =>
         \A id \in SporkIDs, v \in Inputs :
            [nSporkID |-> id, nValue |-> ToInt(v), nTimeSigned |-> clock] \in Message
<1>1. StartTime .. MaxTime \subseteq Nat
  BY NumbersAssumption
<1>. QED  BY <1>1 DEF Message

-----------------------------------------------------------------------------

(* A message that is no older than the one in force is stored and acted    *)
(* upon: the node's maps stay well formed and the newest stays in force.   *)
LEMMA StoreStep ==
    ASSUME IInv, NEW n \in Nodes, NEW m \in Message,
           m.nTimeSigned <= clock,
           m.nSporkID \in DOMAIN mapSporksActive[n] =>
               mapSporksActive[n][m.nSporkID].nTimeSigned <= m.nTimeSigned,
           Store(n, m), ExecuteSpork(n, m)
    PROVE  /\ Shape'
           /\ \A k \in Nodes : NodeType(k)' /\ NodeNewest(k)'
           /\ \A k \in Nodes : \A x \in mapSporks'[k] : x.nTimeSigned <= clock
<1>1. Shape'
  BY DEF IInv, Shape, Store, ExecuteSpork
<1>2. \A k \in Nodes \ {n} : /\ mapSporks'[k] = mapSporks[k]
                             /\ mapSporksActive'[k] = mapSporksActive[k]
                             /\ executed'[k] = executed[k]
  BY DEF IInv, Shape, Store, ExecuteSpork
<1>3. /\ mapSporks'[n] = mapSporks[n] \union {m}
      /\ executed'[n] = executed[n] \union Tasks(m.nSporkID, m.nValue)
  BY DEF IInv, Shape, Store, ExecuteSpork
<1>4. mapSporksActive'[n] = [id \in DOMAIN mapSporksActive[n] \union {m.nSporkID} |->
                               IF id = m.nSporkID THEN m ELSE mapSporksActive[n][id]]
  BY DEF IInv, Shape, Store
<1>5. \A k \in Nodes : NodeType(k) /\ NodeNewest(k)
  BY TypeParts DEF IInv, ActiveIsNewest, NodeNewest
<1>6. \A k \in Nodes \ {n} : NodeType(k)' /\ NodeNewest(k)'
  BY <1>2, <1>5 DEF NodeType, NodeNewest
<1>7. NodeType(n)'
  <2>1. mapSporks'[n] \subseteq Message
    BY <1>3, <1>5 DEF NodeType
  <2>2. DOMAIN mapSporksActive'[n] \subseteq SporkIDs
    BY <1>4, <1>5, MessageType DEF NodeType
  <2>3. \A id \in DOMAIN mapSporksActive'[n] :
           mapSporksActive'[n][id] \in mapSporks'[n] /\ mapSporksActive'[n][id].nSporkID = id
    BY <1>3, <1>4, <1>5 DEF NodeType
  <2>4. \A x \in mapSporks'[n] : Tasks(x.nSporkID, x.nValue) \subseteq executed'[n]
    BY <1>3, <1>5 DEF NodeType
  <2>. QED  BY <2>1, <2>2, <2>3, <2>4 DEF NodeType
<1>8. NodeNewest(n)'
  <2>. SUFFICES ASSUME NEW x \in mapSporks'[n]
                PROVE  /\ x.nSporkID \in DOMAIN mapSporksActive'[n]
                       /\ mapSporksActive'[n][x.nSporkID].nTimeSigned >= x.nTimeSigned
    BY DEF NodeNewest
  <2>1. x \in Message /\ x.nTimeSigned \in Nat /\ m.nTimeSigned \in Nat
    BY <1>3, <1>5, MessageType DEF NodeType
  <2>2. CASE x = m
    BY <1>4, <2>1, <2>2
  <2>3. CASE x \in mapSporks[n]
    <3>1. /\ x.nSporkID \in DOMAIN mapSporksActive[n]
          /\ mapSporksActive[n][x.nSporkID].nTimeSigned >= x.nTimeSigned
      BY <1>5, <2>3 DEF NodeNewest
    <3>2. mapSporksActive[n][x.nSporkID].nTimeSigned \in Nat
      BY <1>5, <3>1, MessageType DEF NodeType
    <3>3. CASE x.nSporkID = m.nSporkID
      BY <1>4, <2>1, <3>1, <3>2, <3>3
    <3>4. CASE x.nSporkID # m.nSporkID
      BY <1>4, <3>1, <3>4
    <3>. QED  BY <3>3, <3>4
  <2>. QED  BY <1>3, <2>2, <2>3
<1>9. \A k \in Nodes : \A x \in mapSporks'[k] : x.nTimeSigned <= clock
  BY <1>2, <1>3 DEF IInv, StampInv
<1>. QED  BY <1>1, <1>6, <1>7, <1>8, <1>9

(* The invariant in the next state from its parts.                         *)
LEMMA Combine ==
    ASSUME GlobalType', Shape', StampInv',
           \A k \in Nodes : NodeType(k)' /\ NodeNewest(k)'
    PROVE  IInv'
<1>1. TypeOK'
  BY DEF TypeOK, GlobalType, NodeType
<1>2. ActiveIsNewest'
  BY DEF ActiveIsNewest, NodeNewest
<1>. QED  BY <1>1, <1>2 DEF IInv

(* The invariant holds when the nodes start.                               *)
LEMMA InitIInv == Init => IInv
<1>. SUFFICES ASSUME Init PROVE IInv
  OBVIOUS
<1>1. \A n \in Nodes : mapSporks[n] = {} /\ mapSporksActive[n] = << >>
  BY DEF Init
<1>2. \A n \in Nodes : NodeType(n)
  BY <1>1, DOMAIN << >> = {} DEF NodeType
<1>3. GlobalType
  BY NumbersAssumption DEF Init, GlobalType
<1>4. Shape /\ StampInv /\ ActiveIsNewest
  BY <1>1 DEF Init, Shape, StampInv, ActiveIsNewest
<1>. QED  BY <1>2, <1>3, <1>4, TypeParts DEF IInv

(* Relaying adds messages to others.                                       *)
LEMMA RelayType ==
    ASSUME NEW n \in Nodes, NEW m \in Message
    PROVE  /\ Relay(n, m) \subseteq Nodes \X Nodes \X Message
           /\ \A t \in Relay(n, m) : t[3] = m
BY DEF Relay

(* The RPC: the signer's clock is no older than anything it holds.         *)
LEMMA UpdateSporkStep ==
    ASSUME IInv, NEW n \in Nodes, NEW id \in SporkIDs, NEW v \in Inputs,
           UpdateSpork(n, id, v)
    PROVE  IInv'
<1>. DEFINE m == [nSporkID |-> id, nValue |-> ToInt(v), nTimeSigned |-> clock]
<1>1. GlobalType /\ NodeType(n)
  BY TypeParts DEF IInv
<1>2. m \in Message /\ clock \in Nat /\ m.nTimeSigned = clock /\ m.nSporkID = id
  BY <1>1, MessageType, NumbersAssumption DEF GlobalType
<1>3. Store(n, m) /\ ExecuteSpork(n, m) /\ net' = net \union Relay(n, m)
  BY DEF UpdateSpork
<1>4. id \in DOMAIN mapSporksActive[n] => mapSporksActive[n][id].nTimeSigned <= clock
  BY <1>1 DEF IInv, StampInv, NodeType
<1>5. UNCHANGED <<asked, clock, restarts>> /\ updates < MaxUpdates /\ updates' = updates + 1
  BY DEF UpdateSpork
<1>. HIDE DEF m
<1>6. /\ Shape'
      /\ \A k \in Nodes : NodeType(k)' /\ NodeNewest(k)'
      /\ \A k \in Nodes : \A x \in mapSporks'[k] : x.nTimeSigned <= clock
  BY <1>2, <1>3, <1>4, StoreStep
<1>7. GlobalType'
  <2>1. net' \subseteq Nodes \X Nodes \X Message
    BY <1>1, <1>2, <1>3, RelayType DEF GlobalType
  <2>2. updates' \in 0 .. MaxUpdates
    BY <1>1, <1>5, NumbersAssumption DEF GlobalType
  <2>. QED  BY <1>1, <1>5, <2>1, <2>2 DEF GlobalType
<1>8. StampInv'
  <2>1. \A t \in net' : t[3].nTimeSigned <= clock
    BY <1>2, <1>3, RelayType DEF IInv, StampInv
  <2>. QED  BY <1>5, <1>6, <2>1 DEF StampInv
<1>. QED  BY <1>6, <1>7, <1>8, Combine

(* "spork": Stale has turned away whatever is not newer.                   *)
LEMMA ProcessSporkStep ==
    ASSUME IInv, NEW t \in net, ProcessSpork(t[1], t[2], t[3])
    PROVE  IInv'
<1>. DEFINE n == t[2]
            m == t[3]
<1>1. GlobalType /\ \A k \in Nodes : NodeType(k)
  BY TypeParts DEF IInv
<1>2. n \in Nodes /\ m \in Message /\ m.nTimeSigned <= clock
  BY <1>1 DEF GlobalType, IInv, StampInv
<1>3. /\ Store(n, m) /\ ExecuteSpork(n, m) /\ ~Stale(n, m)
      /\ net' = (net \ {<<t[1], t[2], t[3]>>}) \union Relay(n, m)
      /\ UNCHANGED <<asked, clock, updates, restarts>>
  BY DEF ProcessSpork
<1>4. m.nSporkID \in DOMAIN mapSporksActive[n] =>
         mapSporksActive[n][m.nSporkID].nTimeSigned <= m.nTimeSigned
  <2>. SUFFICES ASSUME m.nSporkID \in DOMAIN mapSporksActive[n]
                PROVE  mapSporksActive[n][m.nSporkID].nTimeSigned <= m.nTimeSigned
    OBVIOUS
  <2>1. mapSporksActive[n][m.nSporkID] \in Message
    BY <1>1, <1>2 DEF NodeType
  <2>2. mapSporksActive[n][m.nSporkID].nTimeSigned \in Nat /\ m.nTimeSigned \in Nat
    BY <1>2, <2>1, MessageType
  <2>3. ~(mapSporksActive[n][m.nSporkID].nTimeSigned >= m.nTimeSigned)
    BY <1>3 DEF Stale
  <2>. QED  BY <2>2, <2>3
<1>. HIDE DEF n, m
<1>5. /\ Shape'
      /\ \A k \in Nodes : NodeType(k)' /\ NodeNewest(k)'
      /\ \A k \in Nodes : \A x \in mapSporks'[k] : x.nTimeSigned <= clock
  BY <1>2, <1>3, <1>4, StoreStep
<1>6. GlobalType'
  BY <1>1, <1>2, <1>3, RelayType DEF GlobalType
<1>7. StampInv'
  <2>1. \A u \in net' : u[3].nTimeSigned <= clock
    BY <1>2, <1>3, RelayType DEF IInv, StampInv
  <2>. QED  BY <1>3, <1>5, <2>1 DEF StampInv
<1>. QED  BY <1>5, <1>6, <1>7, Combine

(* The steps that change neither map.                                      *)
LEMMA OtherSteps ==
    ASSUME IInv, UNCHANGED <<sporks, executed>>,
           clock' \in Int, clock <= clock',
           GlobalType', \A t \in net' : t[3].nTimeSigned <= clock
    PROVE  IInv'
<1>1. GlobalType /\ \A k \in Nodes : NodeType(k)
  BY TypeParts DEF IInv
<1>2. \A k \in Nodes : NodeType(k)' /\ NodeNewest(k)'
  BY <1>1 DEF IInv, sporks, NodeType, NodeNewest, ActiveIsNewest
<1>3. Shape'
  BY DEF IInv, Shape, sporks
<1>4. StampInv'
  <2>1. clock \in Nat
    BY <1>1, NumbersAssumption DEF GlobalType
  <2>2. \A k \in Nodes : \A x \in mapSporks[k] : x.nTimeSigned \in Nat /\ x.nTimeSigned <= clock
    BY <1>1, MessageType DEF NodeType, IInv, StampInv
  <2>3. \A t \in net' : t[3].nTimeSigned \in Nat
    <3>1. \A t \in net' : t[3] \in Message
      BY DEF GlobalType
    <3>. QED  BY <3>1, MessageType
  <2>. QED  BY <2>1, <2>2, <2>3 DEF StampInv, sporks
<1>. QED  BY <1>2, <1>3, <1>4, Combine

(* A restart empties the maps of one node and drops what concerns it.      *)
LEMMA RestartStep ==
    ASSUME IInv, NEW n \in Nodes, Restart(n)
    PROVE  IInv'
<1>1. GlobalType /\ \A k \in Nodes : NodeType(k) /\ NodeNewest(k)
  BY TypeParts DEF IInv, ActiveIsNewest, NodeNewest
<1>2. Shape'
  BY DEF IInv, Shape, Restart
<1>3. mapSporks'[n] = {} /\ mapSporksActive'[n] = << >>
  BY DEF IInv, Shape, Restart
<1>4. \A k \in Nodes \ {n} : /\ mapSporks'[k] = mapSporks[k]
                             /\ mapSporksActive'[k] = mapSporksActive[k]
                             /\ executed'[k] = executed[k]
  BY DEF IInv, Shape, Restart
<1>5. NodeType(n)' /\ NodeNewest(n)'
  BY <1>3, DOMAIN << >> = {} DEF NodeType, NodeNewest
<1>6. \A k \in Nodes \ {n} : NodeType(k)' /\ NodeNewest(k)'
  BY <1>1, <1>4 DEF NodeType, NodeNewest
<1>7. net' \subseteq net /\ UNCHANGED <<clock, updates>>
  BY DEF Restart
<1>8. GlobalType'
  <2>1. asked' \subseteq Nodes \X Nodes
    BY <1>1 DEF Restart, GlobalType
  <2>2. restarts' \in 0 .. MaxRestarts
    BY <1>1, NumbersAssumption DEF Restart, GlobalType
  <2>. QED  BY <1>1, <1>7, <2>1, <2>2 DEF GlobalType
<1>9. StampInv'
  BY <1>3, <1>4, <1>7 DEF IInv, StampInv
<1>. QED  BY <1>2, <1>5, <1>6, <1>8, <1>9, Combine

(* "getsporks": the answer is made of messages the peer holds.             *)
LEMMA GetSporksStep ==
    ASSUME IInv, NEW n \in Nodes, NEW k \in Nodes, GetSporks(n, k)
    PROVE  IInv'
<1>. DEFINE answer == {<<k, n, mapSporksActive[k][id]>> : id \in DOMAIN mapSporksActive[k]}
<1>1. GlobalType /\ NodeType(k) /\ clock \in Nat
  BY TypeParts, NumbersAssumption DEF IInv, GlobalType
<1>2. \A id \in DOMAIN mapSporksActive[k] :
         mapSporksActive[k][id] \in Message /\ mapSporksActive[k][id].nTimeSigned <= clock
  BY <1>1 DEF NodeType, IInv, StampInv
<1>3. answer \subseteq Nodes \X Nodes \X Message /\ \A t \in answer : t[3].nTimeSigned <= clock
  BY <1>2
<1>4. /\ net' = net \union answer /\ asked' \subseteq asked
      /\ UNCHANGED <<sporks, executed, clock, updates, restarts>>
  BY DEF GetSporks
<1>. HIDE DEF answer
<1>5. GlobalType'
  BY <1>1, <1>3, <1>4 DEF GlobalType
<1>6. \A t \in net' : t[3].nTimeSigned <= clock
  BY <1>3, <1>4 DEF IInv, StampInv
<1>. QED  BY <1>1, <1>4, <1>5, <1>6, OtherSteps

(* Every step of every node preserves the invariant.                       *)
LEMMA NextIInv == IInv /\ [Next]_vars => IInv'
<1>. SUFFICES ASSUME IInv, [Next]_vars PROVE IInv'
  OBVIOUS
<1>0. GlobalType /\ clock \in Nat /\ \A t \in net : t[3].nTimeSigned <= clock
  BY TypeParts, NumbersAssumption DEF IInv, GlobalType, StampInv
<1>1. ASSUME NEW n \in Nodes, NEW id \in SporkIDs, NEW v \in Inputs, UpdateSpork(n, id, v)
      PROVE  IInv'
  BY <1>1, UpdateSporkStep
<1>2. ASSUME NEW n \in Nodes, Restart(n)
      PROVE  IInv'
  BY <1>2, RestartStep
<1>3. ASSUME NEW n \in Nodes, NEW k \in Nodes, GetSporks(n, k)
      PROVE  IInv'
  BY <1>3, GetSporksStep
<1>4. ASSUME NEW t \in net, ProcessSpork(t[1], t[2], t[3])
      PROVE  IInv'
  BY <1>4, ProcessSporkStep
<1>5. ASSUME NEW t \in net, IgnoreSpork(t[1], t[2], t[3])
      PROVE  IInv'
  <2>1. net' \subseteq net /\ UNCHANGED <<sporks, executed, asked, clock, updates, restarts>>
    BY <1>5 DEF IgnoreSpork
  <2>2. GlobalType'
    BY <1>0, <2>1 DEF GlobalType
  <2>. QED  BY <1>0, <2>1, <2>2, OtherSteps
<1>6. CASE Tick
  <2>1. clock' = clock + 1 /\ UNCHANGED <<sporks, executed, net, asked, updates, restarts>>
    BY <1>6 DEF Tick
  <2>2. GlobalType'
    BY <1>0, <1>6, <2>1, NumbersAssumption DEF GlobalType, Tick
  <2>. QED  BY <1>0, <2>1, <2>2, OtherSteps
<1>7. CASE UNCHANGED vars
  <2>1. UNCHANGED <<sporks, executed, net, asked, clock, updates, restarts>>
    BY <1>7 DEF vars
  <2>2. GlobalType'
    BY <1>0, <2>1 DEF GlobalType
  <2>. QED  BY <1>0, <2>1, <2>2, OtherSteps
<1>. QED  BY <1>1, <1>2, <1>3, <1>4, <1>5, <1>6, <1>7 DEF Next

-----------------------------------------------------------------------------

(* The invariant holds in every reachable state.                           *)
THEOREM Invariance == Spec => []IInv
BY InitIInv, NextIInv, PTL DEF Spec

(* mapSporks and mapSporksActive stay well formed, what is in force can    *)
(* be served to peers, and ExecuteSpork has run for every message taken.   *)
THEOREM TypeCorrect == Spec => []TypeOK
<1>1. IInv => TypeOK
  BY DEF IInv
<1>. QED  BY <1>1, Invariance, PTL

(* ProcessSpork's comparison of time stamps suffices: in whatever order    *)
(* relays and answers arrive, the spork in force is the newest one known.  *)
THEOREM NewestTheorem == Spec => []ActiveIsNewest
<1>1. IInv => ActiveIsNewest
  BY DEF IInv
<1>. QED  BY <1>1, Invariance, PTL

-----------------------------------------------------------------------------
(* The budget. First, what recursive functions and finite sets have.       *)

(* A non-empty set of natural numbers has a least element.                 *)
LEMMA LeastNumber ==
    ASSUME NEW T \in SUBSET Nat, T # {}
    PROVE  \E n \in T : \A m \in T : n <= m
<1>1. PICK n \in T : \A m \in T : ~(<<m, n>> \in OpToRel(<, Nat))
  BY NatLessThanWellFounded, WFMin
<1>2. \A m \in T : ~(m < n)
  BY <1>1 DEF OpToRel
<1>3. \A m \in T : n <= m
  BY <1>2
<1>. QED  BY <1>3

(* Recursion over 0 .. N. The step from n - 1 to n is the function f, and  *)
(* I[n] is a set that the value at n is shown to be in.                    *)
Leads(N, I, f) == \A n \in 1 .. N : \A y \in I[n - 1] : f[<<n, y>>] \in I[n]
Recurs(g, N, f, x) == g = [n \in 0 .. N |-> IF n = 0 THEN x ELSE f[<<n, g[n - 1]>>]]
Within(g, N, I) == \A n \in 0 .. N : g[n] \in I[n]

(* When every step leads from I[n - 1] to I[n], a recursive function       *)
(* exists, and its values are in I.                                        *)
LEMMA Recursion ==
    ASSUME NEW N \in Nat, NEW I, NEW f, NEW x \in I[0], Leads(N, I, f)
    PROVE  \E g : Recurs(g, N, f, x) /\ Within(g, N, I)
<1>. USE DEF Leads, Recurs, Within
<1>. DEFINE Run(h, n) == /\ h = [m \in 0 .. n |-> IF m = 0 THEN x ELSE f[<<m, h[m - 1]>>]]
                         /\ \A m \in 0 .. n : h[m] \in I[m]
            T == {n \in 0 .. N : ~ \E h : Run(h, n)}
<1>. SUFFICES ASSUME T # {} PROVE FALSE
  OBVIOUS
<1>1. PICK n \in T : \A m \in T : n <= m
  <2>1. T \in SUBSET Nat
    OBVIOUS
  <2>. HIDE DEF T
  <2>. QED  BY <2>1, LeastNumber
<1>2. n # 0
  <2>1. Run([m \in 0 .. 0 |-> x], 0)
    OBVIOUS
  <2>. QED  BY <2>1
<1>3. n \in 1 .. N /\ n - 1 \in 0 .. N /\ n - 1 \notin T
  <2>1. n \in 0 .. N
    OBVIOUS
  <2>. HIDE DEF T
  <2>. QED  BY <1>1, <1>2, <2>1
<1>4. PICK h : Run(h, n - 1)
  BY <1>3
<1>. DEFINE e == [m \in 0 .. n |-> IF m = n THEN f[<<n, h[n - 1]>>] ELSE h[m]]
<1>5. DOMAIN h = 0 .. n - 1 /\ h[0] = x /\ \A m \in 1 .. n - 1 : h[m] = f[<<m, h[m - 1]>>]
  BY <1>3, <1>4
<1>. HIDE DEF T, Run
<1>6. ASSUME NEW m \in 0 .. n PROVE e[m] = IF m = 0 THEN x ELSE f[<<m, e[m - 1]>>]
  <2>1. CASE m = 0
    BY <1>3, <1>5, <2>1
  <2>2. CASE m = n
    <3>1. e[n - 1] = h[n - 1]
      BY <1>3
    <3>. QED  BY <1>3, <2>2, <3>1
  <2>3. CASE m # 0 /\ m # n
    <3>1. e[m - 1] = h[m - 1] /\ e[m] = h[m] /\ m \in 1 .. n - 1
      BY <1>3, <2>3
    <3>. QED  BY <1>5, <2>3, <3>1
  <2>. QED  BY <2>1, <2>2, <2>3
<1>7. ASSUME NEW m \in 0 .. n PROVE e[m] \in I[m]
  <2>1. CASE m = n
    <3>1. h[n - 1] \in I[n - 1]
      BY <1>3, <1>4 DEF Run
    <3>. QED  BY <1>3, <2>1, <3>1
  <2>2. CASE m # n
    <3>1. m \in 0 .. n - 1
      BY <1>3, <2>2
    <3>. QED  BY <1>4, <2>2, <3>1 DEF Run
  <2>. QED  BY <2>1, <2>2
<1>8. e = [m \in 0 .. n |-> IF m = 0 THEN x ELSE f[<<m, e[m - 1]>>]]
  <2>1. DOMAIN e = 0 .. n /\ e = [m \in 0 .. n |-> e[m]]
    OBVIOUS
  <2>. HIDE DEF e
  <2>. QED  BY <1>6, <2>1
<1>9. Run(e, n)
  <2>. HIDE DEF e
  <2>. QED  BY <1>7, <1>8 DEF Run
<1>. QED  BY <1>3, <1>9 DEF T

(* Among finitely many things there is one of the greatest value.          *)
LEMMA Greatest ==
    ASSUME NEW S, IsFiniteSet(S), S # {}, NEW v, \A a \in S : v[a] \in Int
    PROVE  \E m \in S : \A d \in S : v[m] >= v[d]
<1>. DEFINE Has(T) == \E m \in T : \A d \in T : v[m] >= v[d]
            Wrong == {T \in SUBSET S : T # {} /\ ~Has(T)}
<1>. SUFFICES ASSUME Wrong # {} PROVE FALSE
  OBVIOUS
<1>1. IsWellFoundedOn(StrictSubsetOrdering(S), SUBSET S)
  BY FS_StrictSubsetOrderingWellFounded, FS_FiniteSubsetsOfFinite
<1>2. PICK T \in Wrong : \A U \in Wrong : ~(<<U, T>> \in StrictSubsetOrdering(S))
  <2>1. Wrong \subseteq SUBSET S
    OBVIOUS
  <2>. HIDE DEF Wrong
  <2>. QED  BY <1>1, <2>1, WFMin
<1>3. T \subseteq S /\ T # {} /\ ~Has(T)
  OBVIOUS
<1>4. PICK x \in T : TRUE
  BY <1>3
<1>5. <<T \ {x}, T>> \in StrictSubsetOrdering(S)
  BY <1>3, <1>4 DEF StrictSubsetOrdering
<1>6. T \ {x} \notin Wrong
  BY <1>2, <1>5
<1>7. CASE T \ {x} = {}
  <2>1. T = {x} /\ v[x] \in Int
    BY <1>3, <1>4, <1>7
  <2>. QED  BY <1>3, <2>1
<1>8. CASE T \ {x} # {}
  <2>1. PICK m \in T \ {x} : \A d \in T \ {x} : v[m] >= v[d]
    BY <1>3, <1>6, <1>8
  <2>2. \A d \in T : v[d] \in Int
    BY <1>3
  <2>3. CASE v[m] >= v[x]
    BY <1>3, <2>1, <2>3
  <2>4. CASE ~(v[m] >= v[x])
    <3>1. \A d \in T : v[x] >= v[d]
      BY <1>4, <2>1, <2>2, <2>4
    <3>. QED  BY <1>3, <1>4, <3>1
  <2>. QED  BY <2>3, <2>4
<1>. QED  BY <1>7, <1>8

-----------------------------------------------------------------------------
(* Sums.                                                                   *)

(* The recursive function in Payout.                                       *)
Sums(g, s) == g = [n \in 0 .. Len(s) |-> IF n = 0 THEN 0 ELSE g[n - 1] + Amount[s[n]]]

(* GetTotalPayout adds up the amounts.                                     *)
LEMMA PayoutSums ==
    ASSUME NEW s \in Seq(Proposals)
    PROVE  \E g : Sums(g, s) /\ g \in [0 .. Len(s) -> Int] /\ Payout(s) = g[Len(s)]
<1>. DEFINE N == Len(s)
            I == [n \in 0 .. N |-> Int]
            f == [x \in (1 .. N) \X Int |-> x[2] + Amount[s[x[1]]]]
<1>1. N \in Nat /\ \A n \in 1 .. N : Amount[s[n]] \in Int
  BY NumberAssumption
<1>2. \A n \in 1 .. N : \A y \in I[n - 1] : f[<<n, y>>] = y + Amount[s[n]] /\ f[<<n, y>>] \in I[n]
  BY <1>1
<1>3. 0 \in I[0]
  OBVIOUS
<1>. HIDE DEF f
<1>4. PICK g : Recurs(g, N, f, 0) /\ Within(g, N, I)
  <2>1. N \in Nat /\ Leads(N, I, f)
    BY <1>1, <1>2 DEF Leads
  <2>. HIDE DEF I, N
  <2>. QED  BY <2>1, <1>3, Recursion
<1>5. \A n \in 1 .. N : n - 1 \in 0 .. N /\ g[n - 1] \in I[n - 1]
  BY <1>4 DEF Within
<1>6. Sums(g, s)
  <2>1. ASSUME NEW n \in 0 .. N
        PROVE  (IF n = 0 THEN 0 ELSE f[<<n, g[n - 1]>>]) = IF n = 0 THEN 0 ELSE g[n - 1] + Amount[s[n]]
    BY <1>2, <1>5
  <2>. QED  BY <1>4, <2>1 DEF Sums, Recurs
<1>. DEFINE h == CHOOSE h : Sums(h, s)
<1>7. Sums(h, s)
  BY <1>6
<1>8. Payout(s) = h[Len(s)]
  BY DEF Payout, Sums
<1>. HIDE DEF h
<1>9. h \in [0 .. Len(s) -> Int]
  <2>. DEFINE T == {n \in 0 .. N : h[n] \notin Int}
  <2>. SUFFICES ASSUME T # {} PROVE FALSE
    BY <1>7 DEF Sums
  <2>1. T \in SUBSET Nat
    OBVIOUS
  <2>2. PICK n \in T : \A m \in T : n <= m
    <3>. HIDE DEF T
    <3>. QED  BY <2>1, LeastNumber
  <2>3. n # 0
    BY <1>7 DEF Sums
  <2>4. n \in 1 .. N /\ n - 1 \in 0 .. N /\ n - 1 \notin T
    BY <2>2, <2>3
  <2>5. h[n] = h[n - 1] + Amount[s[n]]
    BY <1>7, <2>4 DEF Sums
  <2>. QED  BY <1>1, <2>4, <2>5
<1>. QED  BY <1>7, <1>8, <1>9

(* Two sums agree as far as the amounts do.                                *)
LEMMA SumsAgree ==
    ASSUME NEW s, NEW t, NEW g, NEW h, Sums(g, s), Sums(h, t), Len(s) \in Nat, Len(t) \in Nat, Len(s) <= Len(t),
           \A n \in 1 .. Len(s) : s[n] = t[n]
    PROVE  \A n \in 0 .. Len(s) : g[n] = h[n]
<1>. DEFINE T == {n \in 0 .. Len(s) : g[n] # h[n]}
<1>. SUFFICES ASSUME T # {} PROVE FALSE
  OBVIOUS
<1>1. T \in SUBSET Nat
  OBVIOUS
<1>2. PICK n \in T : \A m \in T : n <= m
  <2>. HIDE DEF T
  <2>. QED  BY <1>1, LeastNumber
<1>3. n # 0
  BY DEF Sums
<1>4. n \in 1 .. Len(s) /\ n \in 1 .. Len(t) /\ n - 1 \in 0 .. Len(s) /\ n - 1 \notin T
  BY <1>2, <1>3
<1>5. g[n - 1] = h[n - 1]
  BY <1>4
<1>6. g[n] = g[n - 1] + Amount[s[n]] /\ h[n] = h[n - 1] + Amount[t[n]]
  BY <1>4 DEF Sums
<1>. QED  BY <1>4, <1>5, <1>6

(* The payout of nothing, of one payment more and of the same payments.    *)
LEMMA PayoutFacts ==
    /\ Payout(<< >>) = 0
    /\ \A s \in Seq(Proposals) : Payout(s) \in Int
    /\ \A s \in Seq(Proposals), p \in Proposals : Payout(Append(s, p)) = Payout(s) + Amount[p]
<1>1. Payout(<< >>) = 0
  <2>1. << >> \in Seq(Proposals) /\ Len(<< >>) = 0
    OBVIOUS
  <2>2. PICK g : Sums(g, << >>) /\ Payout(<< >>) = g[Len(<< >>)]
    BY <2>1, PayoutSums
  <2>. QED  BY <2>1, <2>2 DEF Sums
<1>2. ASSUME NEW s \in Seq(Proposals) PROVE Payout(s) \in Int
  <2>1. Len(s) \in Nat /\ Len(s) \in 0 .. Len(s)
    OBVIOUS
  <2>. QED  BY <2>1, PayoutSums
<1>3. ASSUME NEW s \in Seq(Proposals), NEW p \in Proposals
      PROVE  Payout(Append(s, p)) = Payout(s) + Amount[p]
  <2>. DEFINE t == Append(s, p)
  <2>1. /\ t \in Seq(Proposals) /\ Len(s) \in Nat /\ Len(t) = Len(s) + 1 /\ t[Len(t)] = p
        /\ \A n \in 1 .. Len(s) : s[n] = t[n]
    OBVIOUS
  <2>. HIDE DEF t
  <2>2. PICK g : Sums(g, s) /\ Payout(s) = g[Len(s)]
    BY PayoutSums
  <2>3. PICK h : Sums(h, t) /\ Payout(t) = h[Len(t)]
    BY <2>1, PayoutSums
  <2>4. g[Len(s)] = h[Len(s)]
    BY <2>1, <2>2, <2>3, SumsAgree
  <2>5. h[Len(t)] = h[Len(t) - 1] + Amount[t[Len(t)]]
    BY <2>1, <2>3 DEF Sums
  <2>6. Len(t) - 1 = Len(s)
    BY <2>1
  <2>7. Payout(t) = Payout(s) + Amount[p]
    BY <2>1, <2>2, <2>3, <2>4, <2>5, <2>6
  <2>. QED  BY <2>7 DEF t
<1>. QED  BY <1>1, <1>2, <1>3

(* The first m payments.                                                   *)
LEMMA FirstPayments ==
    ASSUME NEW s \in Seq(Proposals), NEW p \in Proposals, NEW m \in 0 .. Len(s)
    PROVE  SubSeq(Append(s, p), 1, m) = SubSeq(s, 1, m) /\ SubSeq(s, 1, Len(s)) = s
           /\ SubSeq(s, 1, m) \in Seq(Proposals)
OBVIOUS

-----------------------------------------------------------------------------
(* GetBudget.                                                              *)

(* The types of a vote that is counted, of mapVotes and of an item.        *)
VoteRecord == [time : 0 .. MaxHeight, choice : {"YES", "NO"}, valid : BOOLEAN]
Ballots == UNION {[D -> VoteRecord] : D \in SUBSET Masternodes}
Object == [fee : Fees, time : 0 .. MaxHeight, valid : BOOLEAN, votes : Ballots, checked : BOOLEAN]

(* The map k holds objects.                                                *)
Objects(k) == DOMAIN k \subseteq Items /\ IsFiniteSet(DOMAIN k) /\ k \in [DOMAIN k -> Object]

(* Ballots are votes of masternodes.                                       *)
LEMMA BallotsDef ==
    \A b : b \in Ballots <=> DOMAIN b \subseteq Masternodes /\ b \in [DOMAIN b -> VoteRecord]
BY DEF Ballots

(* The support of a proposal is a number.                                  *)
LEMMA NetType ==
    ASSUME NEW r \in Object
    PROVE  Net(r) \in Int
<1>1. r.votes \in Ballots
  BY DEF Object
<1>2. DOMAIN r.votes \subseteq Masternodes
  BY <1>1, BallotsDef
<1>3. \A choice : Count(r, choice) \in Nat
  <2>. SUFFICES ASSUME NEW choice PROVE Count(r, choice) \in Nat
    OBVIOUS
  <2>. DEFINE C == {m \in DOMAIN r.votes : r.votes[m].choice = choice /\ r.votes[m].valid}
  <2>1. C \in SUBSET Masternodes
    BY <1>2
  <2>. HIDE DEF C
  <2>2. Cardinality(C) \in Nat
    BY <2>1, ConstantAssumption, FS_Subset, FS_CardinalityType
  <2>. QED  BY <2>2 DEF Count, C
<1>. QED  BY <1>3 DEF Net

(* There is a best proposal.                                               *)
LEMMA Best ==
    ASSUME NEW k, Objects(k), NEW S, S \subseteq DOMAIN k \intersect Proposals, S # {}
    PROVE  \E q \in S : \A r \in S : ~Before(k, r, q)
<1>1. \A p \in S : Net(k[p]) \in Int /\ FeeRank[p] \in Int
  BY NetType, NumberAssumption DEF Objects
<1>2. IsFiniteSet(S)
  BY FS_Subset DEF Objects
<1>. DEFINE nets == [p \in S |-> Net(k[p])]
<1>3. PICK a \in S : \A p \in S : nets[a] >= nets[p]
  <2>1. \A p \in S : nets[p] \in Int
    BY <1>1
  <2>. HIDE DEF nets
  <2>. QED  BY <1>2, <2>1, Greatest
<1>. DEFINE T == {p \in S : Net(k[p]) = Net(k[a])}
<1>4. T \subseteq S /\ T # {} /\ IsFiniteSet(T)
  BY <1>2, FS_Subset
<1>5. PICK q \in T : \A p \in T : FeeRank[q] >= FeeRank[p]
  <2>. HIDE DEF T
  <2>. QED  BY <1>1, <1>4, Greatest
<1>6. ASSUME NEW r \in S, Before(k, r, q) PROVE FALSE
  <2>1. Net(k[q]) >= Net(k[r]) /\ Net(k[q]) \in Int /\ Net(k[r]) \in Int
    BY <1>1, <1>3
  <2>2. Net(k[r]) = Net(k[q]) /\ FeeRank[r] > FeeRank[q]
    BY <1>6, <2>1 DEF Before
  <2>3. FeeRank[q] >= FeeRank[r]
    BY <1>5, <2>2
  <2>. QED  BY <1>1, <2>2, <2>3
<1>. QED  BY <1>6

(* What GetBudget's loop has done: a proposal that is left out did not fit *)
(* next to better ones.                                                    *)
LeftOut(k, b, p) ==
    \E m \in 0 .. Len(b) :
        /\ \A i \in 1 .. m : Net(k[b[i]]) >= Net(k[p])
        /\ Payout(SubSeq(b, 1, m)) + Amount[p] > TotalBudget

(* The budget so far: affordable, of eligible proposals, the best first.   *)
Chosen(k, b) ==
    /\ \A i, j \in DOMAIN b : b[i] = b[j] => i = j
    /\ Payout(b) <= TotalBudget
    /\ \A i \in DOMAIN b : Eligible(k, b[i])
    /\ \A i, j \in DOMAIN b : i < j => Net(k[b[i]]) >= Net(k[b[j]])

(* The loop's invariant: those left are no better than those chosen.       *)
Loop(k, s) ==
    /\ Chosen(k, s.budget) /\ s.allocated = Payout(s.budget)
    /\ \A i \in DOMAIN s.budget : s.budget[i] \notin s.left /\ \A q \in s.left : Net(k[s.budget[i]]) >= Net(k[q])
    /\ \A p \in (DOMAIN k \intersect Proposals) \ s.left :
          Eligible(k, p) => LeftOut(k, s.budget, p) \/ \E i \in DOMAIN s.budget : s.budget[i] = p

(* The type of the loop's state.                                           *)
LoopState(k) ==
    LET all == DOMAIN k \intersect Proposals
    IN  [left : SUBSET all, allocated : Int, budget : Seq(all)]

(* One step of the loop.                                                   *)
LEMMA GrabStep ==
    ASSUME NEW k, Objects(k), NEW s \in LoopState(k), Loop(k, s), s.left # {}
    PROVE  /\ Grab(k, s) \in LoopState(k) /\ Loop(k, Grab(k, s))
           /\ \E p \in s.left : Grab(k, s).left = s.left \ {p}
<1>. DEFINE all == DOMAIN k \intersect Proposals
            p == CHOOSE q \in s.left : \A r \in s.left : ~Before(k, r, q)
            b == s.budget
            fits == Eligible(k, p) /\ Amount[p] + s.allocated <= TotalBudget
            t == Grab(k, s)
<1>1. s.left \subseteq all /\ b \in Seq(all) /\ b \in Seq(Proposals) /\ s.allocated \in Int
  BY DEF LoopState
<1>2. p \in s.left /\ \A r \in s.left : ~Before(k, r, p)
  BY <1>1, Best
<1>3. t = [left |-> s.left \ {p}, allocated |-> IF fits THEN s.allocated + Amount[p] ELSE s.allocated,
           budget |-> IF fits THEN Append(b, p) ELSE b]
  BY DEF Grab
<1>. HIDE DEF p
<1>4. \A q \in all : Net(k[q]) \in Int
  BY NetType DEF Objects
<1>5. \A q \in s.left : Net(k[p]) >= Net(k[q])
  BY <1>1, <1>2, <1>4 DEF Before
<1>6. p \in Proposals /\ p \in all /\ Amount[p] \in Int /\ Len(b) \in Nat /\ TotalBudget \in Nat
  BY <1>1, <1>2, NumberAssumption
<1>7. Payout(b) \in Int /\ Payout(Append(b, p)) = Payout(b) + Amount[p]
  BY <1>1, <1>6, PayoutFacts
<1>8. \A i \in DOMAIN b : b[i] \in all /\ b[i] # p /\ Net(k[b[i]]) >= Net(k[p])
  BY <1>1, <1>2 DEF Loop
<1>. HIDE DEF t, fits
<1>9. CASE fits
  <2>. DEFINE c == Append(b, p)
  <2>1. t.left = s.left \ {p} /\ t.allocated = s.allocated + Amount[p] /\ t.budget = c /\ t \in LoopState(k)
    BY <1>1, <1>3, <1>6, <1>9 DEF LoopState
  <2>2. /\ c \in Seq(all) /\ DOMAIN c = 1 .. Len(b) + 1 /\ Len(c) = Len(b) + 1 /\ DOMAIN b = 1 .. Len(b)
        /\ c[Len(b) + 1] = p /\ \A i \in DOMAIN b : c[i] = b[i]
    BY <1>1, <1>6
  <2>3. \A i \in DOMAIN c : i = Len(b) + 1 \/ i \in DOMAIN b
    BY <1>6, <2>2
  <2>4. Payout(c) <= TotalBudget /\ t.allocated = Payout(c)
    BY <1>1, <1>6, <1>7, <1>9, <2>1 DEF Loop, fits
  <2>. HIDE DEF c
  <2>5. Chosen(k, c)
    <3>1. \A i, j \in DOMAIN c : c[i] = c[j] => i = j
      BY <1>8, <2>2, <2>3 DEF Loop, Chosen
    <3>2. \A i \in DOMAIN c : Eligible(k, c[i])
      BY <1>9, <2>2, <2>3 DEF Loop, Chosen, fits
    <3>3. ASSUME NEW i \in DOMAIN c, NEW j \in DOMAIN c, i < j PROVE Net(k[c[i]]) >= Net(k[c[j]])
      <4>1. i \in DOMAIN b
        BY <1>6, <2>2, <3>3
      <4>. QED  BY <1>8, <2>2, <2>3, <3>3, <4>1 DEF Loop, Chosen
    <3>. QED  BY <2>4, <3>1, <3>2, <3>3 DEF Chosen
  <2>6. ASSUME NEW i \in DOMAIN c
        PROVE  c[i] \notin t.left /\ \A q \in t.left : Net(k[c[i]]) >= Net(k[q])
    <3>1. CASE i \in DOMAIN b
      BY <2>1, <2>2, <3>1 DEF Loop
    <3>2. CASE i = Len(b) + 1
      BY <1>5, <2>1, <2>2, <3>2
    <3>. QED  BY <2>3, <3>1, <3>2
  <2>7. ASSUME NEW q \in all \ t.left, Eligible(k, q)
        PROVE  LeftOut(k, c, q) \/ \E i \in DOMAIN c : c[i] = q
    <3>1. CASE q = p
      BY <1>6, <2>2, <3>1
    <3>2. CASE q # p
      <4>1. LeftOut(k, b, q) \/ \E i \in DOMAIN b : b[i] = q
        BY <2>1, <2>7, <3>2 DEF Loop
      <4>2. CASE \E i \in DOMAIN b : b[i] = q
        BY <1>6, <2>2, <4>2
      <4>3. CASE LeftOut(k, b, q)
        <5>1. PICK m \in 0 .. Len(b) : /\ \A i \in 1 .. m : Net(k[b[i]]) >= Net(k[q])
                                       /\ Payout(SubSeq(b, 1, m)) + Amount[q] > TotalBudget
          BY <4>3 DEF LeftOut
        <5>2. SubSeq(c, 1, m) = SubSeq(b, 1, m)
          BY <1>1, <1>6, FirstPayments DEF c
        <5>3. m \in 0 .. Len(c) /\ \A i \in 1 .. m : c[i] = b[i]
          BY <1>6, <2>2
        <5>. QED  BY <5>1, <5>2, <5>3 DEF LeftOut
      <4>. QED  BY <4>1, <4>2, <4>3
    <3>. QED  BY <3>1, <3>2
  <2>8. Loop(k, t)
    BY <2>1, <2>4, <2>5, <2>6, <2>7 DEF Loop
  <2>. QED  BY <1>2, <2>1, <2>8 DEF t
<1>10. CASE ~fits
  <2>1. t.left = s.left \ {p} /\ t.allocated = s.allocated /\ t.budget = b /\ t \in LoopState(k)
    BY <1>1, <1>3, <1>10 DEF LoopState
  <2>2. ASSUME NEW q \in all \ t.left, Eligible(k, q)
        PROVE  LeftOut(k, b, q) \/ \E i \in DOMAIN b : b[i] = q
    <3>1. CASE q # p
      BY <2>1, <2>2, <3>1 DEF Loop
    <3>2. CASE q = p
      <4>1. Payout(b) + Amount[p] > TotalBudget
        BY <1>1, <1>6, <1>7, <1>10, <2>2, <3>2 DEF fits, Loop
      <4>2. SubSeq(b, 1, Len(b)) = b /\ Len(b) \in 0 .. Len(b) /\ DOMAIN b = 1 .. Len(b)
        BY <1>1, <1>6
      <4>. QED  BY <1>8, <3>2, <4>1, <4>2 DEF LeftOut
    <3>. QED  BY <3>1, <3>2
  <2>3. Loop(k, t)
    BY <2>1, <2>2 DEF Loop
  <2>. QED  BY <1>2, <2>1, <2>3 DEF t
<1>. QED  BY <1>9, <1>10

(* GetBudget takes eligible proposals, each once, the best first and as    *)
(* many as fit.                                                            *)
LEMMA GetBudgetChooses ==
    ASSUME NEW k, Objects(k)
    PROVE  /\ GetBudget(k) \in Seq(DOMAIN k \intersect Proposals) /\ Chosen(k, GetBudget(k))
           /\ \A p \in DOMAIN k \intersect Proposals :
                 Eligible(k, p) => LeftOut(k, GetBudget(k), p) \/ \E i \in DOMAIN GetBudget(k) : GetBudget(k)[i] = p
<1>. DEFINE all == DOMAIN k \intersect Proposals
            N == Cardinality(all)
            x == [left |-> all, allocated |-> 0, budget |-> << >>]
            I == [n \in 0 .. N |-> {s \in LoopState(k) : Loop(k, s) /\ Cardinality(s.left) = N - n}]
            f == [y \in (1 .. N) \X LoopState(k) |-> Grab(k, y[2])]
            Is(g) == g = [n \in 0 .. N |-> IF n = 0 THEN x ELSE Grab(k, g[n - 1])]
<1>1. IsFiniteSet(all) /\ N \in Nat
  BY FS_Subset, FS_CardinalityType DEF Objects
<1>2. x \in I[0]
  <2>1. x \in LoopState(k) /\ x.left = all /\ x.budget = << >> /\ x.allocated = 0
    BY DEF LoopState
  <2>2. Payout(<< >>) = 0 /\ 0 <= TotalBudget /\ DOMAIN << >> = {}
    BY PayoutFacts, NumberAssumption
  <2>3. Loop(k, x)
    BY <2>1, <2>2 DEF Loop, Chosen
  <2>4. Cardinality(x.left) = N - 0 /\ 0 \in 0 .. N
    BY <1>1, <2>1
  <2>. HIDE DEF x, N
  <2>. QED  BY <2>1, <2>3, <2>4
<1>3. ASSUME NEW n \in 1 .. N, NEW s \in I[n - 1]
      PROVE  Grab(k, s) \in I[n] /\ f[<<n, s>>] = Grab(k, s)
  <2>1. s \in LoopState(k) /\ Loop(k, s) /\ Cardinality(s.left) = N - (n - 1)
    BY <1>1
  <2>. HIDE DEF I
  <2>2. s.left \subseteq all
    BY <2>1 DEF LoopState
  <2>. HIDE DEF all, N
  <2>3. IsFiniteSet(s.left) /\ s.left # {}
    BY <1>1, <2>1, <2>2, FS_Subset, FS_EmptySet
  <2>4. PICK p \in s.left : Grab(k, s).left = s.left \ {p}
    BY <2>1, <2>3, GrabStep
  <2>5. Cardinality(Grab(k, s).left) = Cardinality(s.left) - 1
    BY <2>3, <2>4, FS_RemoveElement
  <2>6. Cardinality(Grab(k, s).left) = N - n
    BY <1>1, <2>1, <2>5
  <2>7. Grab(k, s) \in LoopState(k) /\ Loop(k, Grab(k, s))
    BY <2>1, <2>3, GrabStep
  <2>8. n \in 0 .. N
    BY <1>1
  <2>. QED  BY <2>1, <2>6, <2>7, <2>8 DEF I
<1>. HIDE DEF f, x, I, N
<1>4. PICK g : Recurs(g, N, f, x) /\ Within(g, N, I)
  <2>1. Leads(N, I, f)
    BY <1>3 DEF Leads
  <2>. QED  BY <1>1, <1>2, <2>1, Recursion
<1>5. Is(g)
  <2>1. ASSUME NEW n \in 0 .. N
        PROVE  (IF n = 0 THEN x ELSE f[<<n, g[n - 1]>>]) = IF n = 0 THEN x ELSE Grab(k, g[n - 1])
    <3>1. CASE n # 0
      <4>1. n \in 1 .. N /\ n - 1 \in 0 .. N
        BY <1>1, <3>1
      <4>2. g[n - 1] \in I[n - 1]
        BY <1>4, <4>1 DEF Within
      <4>. QED  BY <1>3, <4>1, <4>2
    <3>. QED  BY <3>1
  <2>. QED  BY <1>4, <2>1 DEF Recurs
<1>. DEFINE h == CHOOSE h : Is(h)
<1>6. GetBudget(k) = h[N].budget
  BY DEF GetBudget, N, x
<1>7. Is(h)
  BY <1>5
<1>. HIDE DEF h
<1>8. \A n \in 0 .. N : h[n] \in I[n]
  <2>. DEFINE T == {n \in 0 .. N : h[n] \notin I[n]}
  <2>. SUFFICES ASSUME T # {} PROVE FALSE
    OBVIOUS
  <2>1. T \in SUBSET Nat
    OBVIOUS
  <2>2. PICK n \in T : \A m \in T : n <= m
    <3>. HIDE DEF T
    <3>. QED  BY <2>1, LeastNumber
  <2>3. n # 0
    BY <1>2, <1>7
  <2>4. n \in 1 .. N /\ n - 1 \in 0 .. N /\ n - 1 \notin T
    BY <1>1, <2>2, <2>3
  <2>5. h[n] = Grab(k, h[n - 1])
    BY <1>7, <2>4
  <2>. QED  BY <1>3, <2>4, <2>5
<1>9. N \in 0 .. N /\ N - N = 0
  BY <1>1
<1>10. h[N] \in LoopState(k) /\ Loop(k, h[N]) /\ Cardinality(h[N].left) = 0
  BY <1>8, <1>9 DEF I
<1>11. h[N].left \subseteq all /\ h[N].budget \in Seq(all)
  BY <1>10 DEF LoopState
<1>12. h[N].left = {}
  BY <1>1, <1>10, <1>11, FS_Subset, FS_EmptySet
<1>. QED  BY <1>6, <1>10, <1>11, <1>12 DEF Loop

(* The start of a period is a multiple of its length.                      *)
LEMMA MultipleOf ==
    ASSUME NEW q \in Nat, NEW C \in Nat \ {0}
    PROVE  (C * q) % C = 0
<1>. DEFINE y == (C * q) \div C
            r == (C * q) % C
<1>1. C * q = C * y + r /\ r \in 0 .. C - 1 /\ y \in Nat
  <2>1. C * q \in Nat
    OBVIOUS
  <2>. QED  BY <2>1
<1>. HIDE DEF y, r
<1>2. C * q - C * y = C * (q - y)
  BY <1>1
<1>3. r = C * (q - y)
  BY <1>1, <1>2
<1>4. q - y = 0
  BY <1>1, <1>3
<1>5. r = 0
  BY <1>3, <1>4
<1>. QED  BY <1>5 DEF r

(* A period starts within Cycle blocks.                                    *)
LEMMA BlockStartType ==
    ASSUME height \in FirstHeight .. MaxHeight
    PROVE  BlockStart \in 1 .. MaxHeight + Cycle /\ BlockStart % Cycle = 0
<1>1. height \in Nat /\ height <= MaxHeight /\ Cycle \in Nat \ {0} /\ MaxHeight \in Nat
  BY NumberAssumption
<1>2. height = Cycle * (height \div Cycle) + (height % Cycle) /\ height \div Cycle \in Nat /\ height % Cycle \in 0 .. Cycle - 1
  BY <1>1
<1>3. PICK q \in Nat : q = (height \div Cycle) + 1
  BY <1>2
<1>4. BlockStart = Cycle * q
  BY <1>1, <1>2, <1>3 DEF BlockStart
<1>5. BlockStart % Cycle = 0
  BY <1>1, <1>4, MultipleOf
<1>6. height % Cycle <= height
  BY <1>1, <1>2
<1>. QED  BY <1>1, <1>2, <1>5, <1>6 DEF BlockStart

(* What GetBudget returns is a finalized budget of the next period.        *)
LEMMA BudgetType ==
    ASSUME height \in FirstHeight .. MaxHeight, NEW k, Objects(k)
    PROVE  [start |-> BlockStart, payments |-> GetBudget(k)] \in Finals
<1>. DEFINE b == GetBudget(k)
            n == Len(b)
<1>1. b \in Seq(Proposals) /\ \A i, j \in DOMAIN b : b[i] = b[j] => i = j
  <2>1. b \in Seq(DOMAIN k \intersect Proposals) /\ Chosen(k, b)
    BY GetBudgetChooses
  <2>. HIDE DEF b
  <2>. QED  BY <2>1 DEF Chosen
<1>. HIDE DEF b
<1>2. n \in Nat /\ b \in [1 .. n -> Proposals] /\ DOMAIN b = 1 .. n
  BY <1>1
<1>3. IsInjective(b)
  BY <1>1 DEF IsInjective
<1>4. n <= Cardinality(Proposals) /\ Cardinality(Proposals) \in Nat
  <2>1. IsFiniteSet(1 .. n) /\ Cardinality(1 .. n) = n
    <3>1. n \in Nat /\ 1 \in Int
      BY <1>2
    <3>. HIDE DEF n
    <3>2. IsFiniteSet(1 .. n) /\ Cardinality(1 .. n) = IF 1 > n THEN 0 ELSE n - 1 + 1
      BY <3>1, FS_Interval
    <3>. QED  BY <3>1, <3>2
  <2>2. b \in Injection(1 .. n, Proposals)
    BY <1>1, <1>2 DEF Injection, IsInjective
  <2>. QED  BY <2>1, <2>2, FS_Injection, ConstantAssumption, FS_CardinalityType
<1>5. n \in 0 .. Cardinality(Proposals)
  BY <1>2, <1>4
<1>6. b \in UNION {{s \in [1 .. m -> Proposals] : IsInjective(s)} : m \in 0 .. Cardinality(Proposals)}
  BY <1>2, <1>3, <1>5
<1>. QED  BY <1>6, BlockStartType DEF Finals, b

-----------------------------------------------------------------------------
(* The maps of items.                                                      *)

(* The chain that the node reads.                                          *)
ChainInv ==
    /\ height \in Nat /\ FirstHeight <= height /\ height <= now /\ now \in Nat /\ now <= MaxHeight
    /\ DOMAIN mined \subseteq Fees /\ \A t \in DOMAIN mined : mined[t] \in Nat /\ mined[t] <= height
    /\ locked \subseteq Fees

(* The objects of k, their flags, and the times of the votes in them.      *)
KnownInv(k) ==
    /\ Objects(k)
    /\ \A i \in DOMAIN k : k[i].checked => i \in Finals
    /\ \A i \in DOMAIN k : \A m \in DOMAIN k[i].votes : k[i].votes[m].time <= now + Ahead

(* No vote of k is missing in l, or is replaced by an older one.           *)
Grows(k, l) ==
    /\ DOMAIN k \subseteq DOMAIN l
    /\ \A i \in DOMAIN k : \A m \in DOMAIN k[i].votes :
          m \in DOMAIN l[i].votes /\ l[i].votes[m].time >= k[i].votes[m].time

(* The vote v, or a newer one of its masternode, is counted in k.          *)
Counted(k, v) ==
    v.item \in DOMAIN k /\ v.mn \in DOMAIN k[v.item].votes /\ k[v.item].votes[v.mn].time >= v.time

(* The parts of an object.                                                 *)
LEMMA ObjectParts ==
    ASSUME NEW k, Objects(k), NEW i \in DOMAIN k
    PROVE  /\ i \in Items /\ k[i] \in Object
           /\ k[i].fee \in Fees /\ k[i].time \in 0 .. MaxHeight /\ k[i].valid \in BOOLEAN /\ k[i].checked \in BOOLEAN
           /\ k[i].votes \in Ballots /\ DOMAIN k[i].votes \subseteq Masternodes
           /\ \A m \in DOMAIN k[i].votes : k[i].votes[m] \in VoteRecord /\ k[i].votes[m].time \in Nat
<1>1. i \in Items /\ k[i] \in Object
  BY DEF Objects
<1>2. /\ k[i].fee \in Fees /\ k[i].time \in 0 .. MaxHeight /\ k[i].valid \in BOOLEAN
      /\ k[i].checked \in BOOLEAN /\ k[i].votes \in Ballots
  BY <1>1 DEF Object
<1>3. DOMAIN k[i].votes \subseteq Masternodes /\ k[i].votes \in [DOMAIN k[i].votes -> VoteRecord]
  BY <1>2, BallotsDef
<1>4. \A r \in VoteRecord : r.time \in Nat
  BY NumberAssumption DEF VoteRecord
<1>. QED  BY <1>1, <1>2, <1>3, <1>4

(* Votes are kept over several steps.                                      *)
LEMMA GrowsTransitive ==
    ASSUME NEW k, NEW l, NEW j, Objects(k), Objects(l), Objects(j), Grows(k, l), Grows(l, j)
    PROVE  Grows(k, j)
<1>1. DOMAIN k \subseteq DOMAIN j
  BY DEF Grows
<1>2. ASSUME NEW i \in DOMAIN k, NEW m \in DOMAIN k[i].votes
      PROVE  m \in DOMAIN j[i].votes /\ j[i].votes[m].time >= k[i].votes[m].time
  <2>1. i \in DOMAIN l /\ m \in DOMAIN l[i].votes /\ l[i].votes[m].time >= k[i].votes[m].time
    BY DEF Grows
  <2>2. i \in DOMAIN j /\ m \in DOMAIN j[i].votes /\ j[i].votes[m].time >= l[i].votes[m].time
    BY <2>1 DEF Grows
  <2>3. k[i].votes[m].time \in Nat /\ l[i].votes[m].time \in Nat /\ j[i].votes[m].time \in Nat
    BY <2>1, <2>2, ObjectParts
  <2>. QED  BY <2>1, <2>2, <2>3
<1>. QED  BY <1>1, <1>2 DEF Grows

(* A vote that is counted stays counted.                                   *)
LEMMA CountedStays ==
    ASSUME NEW k, NEW l, Objects(k), Objects(l), Grows(k, l), NEW v \in Votes, Counted(k, v)
    PROVE  Counted(l, v)
<1>1. v.item \in DOMAIN l /\ v.mn \in DOMAIN l[v.item].votes /\ l[v.item].votes[v.mn].time >= k[v.item].votes[v.mn].time
  BY DEF Counted, Grows
<1>2. l[v.item].votes[v.mn].time \in Nat /\ k[v.item].votes[v.mn].time \in Nat
  BY <1>1, ObjectParts DEF Counted
<1>3. v.time \in Nat
  BY NumberAssumption DEF Votes
<1>. QED  BY <1>1, <1>2, <1>3 DEF Counted

(* Only the flags of the votes differ.                                     *)
Alike(k, l) ==
    /\ DOMAIN l = DOMAIN k
    /\ \A i \in DOMAIN k :
          /\ l[i].fee = k[i].fee /\ l[i].time = k[i].time /\ l[i].valid = k[i].valid /\ l[i].checked = k[i].checked
          /\ DOMAIN l[i].votes = DOMAIN k[i].votes
          /\ \A m \in DOMAIN k[i].votes :
                l[i].votes[m].time = k[i].votes[m].time /\ l[i].votes[m].choice = k[i].votes[m].choice

(* A map of the same items with the times of the votes unchanged.          *)
LEMMA SameTimes ==
    ASSUME NEW k, KnownInv(k), NEW l, l \in [DOMAIN k -> Object],
           \A i \in DOMAIN k : (l[i].checked => i \in Finals) /\ DOMAIN l[i].votes = DOMAIN k[i].votes,
           \A i \in DOMAIN k : \A m \in DOMAIN k[i].votes : l[i].votes[m].time = k[i].votes[m].time
    PROVE  KnownInv(l) /\ Grows(k, l) /\ DOMAIN l = DOMAIN k
<1>1. DOMAIN l = DOMAIN k
  OBVIOUS
<1>2. Objects(l)
  BY <1>1 DEF KnownInv, Objects
<1>3. KnownInv(l)
  BY <1>1, <1>2 DEF KnownInv
<1>4. ASSUME NEW i \in DOMAIN k, NEW m \in DOMAIN k[i].votes
      PROVE  l[i].votes[m].time >= k[i].votes[m].time
  <2>1. k[i].votes[m].time \in Nat
    BY ObjectParts DEF KnownInv
  <2>. QED  BY <2>1
<1>. QED  BY <1>1, <1>3, <1>4 DEF Grows

(* Setting the flag of a vote.                                             *)
LEMMA FlagVote ==
    ASSUME NEW r \in VoteRecord, NEW x \in BOOLEAN
    PROVE  /\ [r EXCEPT !.valid = x] \in VoteRecord
           /\ [r EXCEPT !.valid = x].time = r.time /\ [r EXCEPT !.valid = x].choice = r.choice
           /\ [r EXCEPT !.valid = x].valid = x
BY DEF VoteRecord

(* CleanAndRemove only touches the flags of the votes.                     *)
LEMMA CleanedKeeps ==
    ASSUME NEW k, KnownInv(k), NEW S
    PROVE  KnownInv(Cleaned(k, S)) /\ Grows(k, Cleaned(k, S)) /\ Alike(k, Cleaned(k, S))
<1>. DEFINE b(i) == [m \in DOMAIN k[i].votes |-> [k[i].votes[m] EXCEPT !.valid = m \in list]]
            c == Cleaned(k, S)
<1>1. DOMAIN c = DOMAIN k /\ c = [i \in DOMAIN k |-> c[i]]
  BY DEF Cleaned
<1>2. ASSUME NEW i \in DOMAIN k
      PROVE  /\ c[i] \in Object /\ c[i].checked = k[i].checked /\ DOMAIN c[i].votes = DOMAIN k[i].votes
             /\ c[i].fee = k[i].fee /\ c[i].time = k[i].time /\ c[i].valid = k[i].valid
             /\ \A m \in DOMAIN k[i].votes :
                   c[i].votes[m].time = k[i].votes[m].time /\ c[i].votes[m].choice = k[i].votes[m].choice
  <2>1. k[i] \in Object /\ DOMAIN k[i].votes \subseteq Masternodes /\ \A m \in DOMAIN k[i].votes : k[i].votes[m] \in VoteRecord
    BY ObjectParts DEF KnownInv
  <2>2. ASSUME NEW m \in DOMAIN k[i].votes
        PROVE  b(i)[m] \in VoteRecord /\ b(i)[m].time = k[i].votes[m].time /\ b(i)[m].choice = k[i].votes[m].choice
    <3>1. PICK x \in BOOLEAN : x = (m \in list)
      <4>1. (m \in list) \in BOOLEAN
        OBVIOUS
      <4>2. WITNESS (m \in list) \in BOOLEAN
      <4>. QED  OBVIOUS
    <3>2. b(i)[m] = [k[i].votes[m] EXCEPT !.valid = x]
      BY <3>1
    <3>. HIDE DEF b
    <3>. QED  BY <2>1, <3>2, FlagVote
  <2>3. DOMAIN b(i) = DOMAIN k[i].votes /\ b(i) \in [DOMAIN b(i) -> VoteRecord]
    BY <2>2
  <2>4. b(i) \in Ballots
    BY <2>1, <2>3, BallotsDef
  <2>5. c[i] = IF i \in S THEN [k[i] EXCEPT !.votes = b(i)] ELSE k[i]
    BY DEF Cleaned
  <2>. HIDE DEF b, c
  <2>. QED  BY <2>1, <2>2, <2>3, <2>4, <2>5 DEF Object
<1>. HIDE DEF c
<1>3. c \in [DOMAIN k -> Object]
  BY <1>1, <1>2
<1>4. \A i \in DOMAIN k : k[i].checked => i \in Finals
  BY DEF KnownInv
<1>5. Alike(k, c)
  BY <1>1, <1>2 DEF Alike
<1>. QED  BY <1>1, <1>2, <1>3, <1>4, <1>5, SameTimes DEF c

(* AddOrUpdateVote counts the vote it takes and keeps the others.          *)
LEMMA WithVoteKeeps ==
    ASSUME NEW k, KnownInv(k), NEW v \in Votes, v.item \in DOMAIN k, Takes(k[v.item], v), now \in Nat
    PROVE  /\ KnownInv(WithVote(k, v)) /\ Grows(k, WithVote(k, v)) /\ Counted(WithVote(k, v), v)
           /\ DOMAIN WithVote(k, v) = DOMAIN k /\ \A i \in DOMAIN k \ {v.item} : WithVote(k, v)[i] = k[i]
           /\ WithVote(k, v)[v.item].checked = k[v.item].checked
<1>. DEFINE j == v.item
            r == [time |-> v.time, choice |-> v.choice, valid |-> TRUE]
            b == Put(k[j].votes, v.mn, r)
            l == WithVote(k, v)
<1>1. v.mn \in Masternodes /\ v.time \in Nat /\ r \in VoteRecord
  BY NumberAssumption DEF Votes, VoteRecord
<1>2. /\ k[j] \in Object /\ DOMAIN k[j].votes \subseteq Masternodes
      /\ \A m \in DOMAIN k[j].votes : k[j].votes[m] \in VoteRecord /\ k[j].votes[m].time \in Nat
  BY ObjectParts DEF KnownInv
<1>3. /\ DOMAIN b = DOMAIN k[j].votes \union {v.mn} /\ b[v.mn] = r
      /\ \A m \in DOMAIN k[j].votes \ {v.mn} : b[m] = k[j].votes[m]
  BY DEF Put
<1>4. b \in Ballots
  <2>1. b = [m \in DOMAIN b |-> b[m]] /\ \A m \in DOMAIN b : b[m] \in VoteRecord
    BY <1>1, <1>2, <1>3 DEF Put
  <2>2. DOMAIN b \subseteq Masternodes
    BY <1>1, <1>2, <1>3
  <2>. HIDE DEF b
  <2>. QED  BY <2>1, <2>2, BallotsDef
<1>5. DOMAIN l = DOMAIN k /\ l[j] = [k[j] EXCEPT !.votes = b] /\ \A i \in DOMAIN k \ {j} : l[i] = k[i]
  BY DEF WithVote, KnownInv, Objects
<1>6. l \in [DOMAIN k -> Object]
  <2>1. k \in [DOMAIN k -> Object]
    BY DEF KnownInv, Objects
  <2>2. [k[j] EXCEPT !.votes = b] \in Object
    <3>. HIDE DEF b
    <3>. QED  BY <1>2, <1>4 DEF Object
  <2>3. l = [i \in DOMAIN k |-> l[i]]
    BY <2>1 DEF WithVote
  <2>. HIDE DEF b, l
  <2>4. \A i \in DOMAIN k : l[i] \in Object
    BY <1>5, <2>1, <2>2
  <2>. QED  BY <2>3, <2>4
<1>7. l[j].votes = b /\ l[j].checked = k[j].checked
  <2>. HIDE DEF b, l
  <2>. QED  BY <1>2, <1>5 DEF Object
<1>. HIDE DEF l, b
<1>8. v.time <= now + Ahead /\ \A m \in DOMAIN k[j].votes : m = v.mn => v.time >= k[j].votes[m].time
  BY <1>1, <1>2, NumberAssumption DEF Takes
<1>9. Objects(l)
  BY <1>5, <1>6 DEF KnownInv, Objects
<1>10. ASSUME NEW i \in DOMAIN k, NEW m \in DOMAIN l[i].votes
       PROVE  l[i].votes[m].time <= now + Ahead
  <2>1. CASE i = j /\ m = v.mn
    BY <1>3, <1>7, <1>8, <2>1
  <2>2. CASE i = j /\ m # v.mn
    BY <1>3, <1>7, <2>2 DEF KnownInv
  <2>3. CASE i # j
    BY <1>5, <2>3 DEF KnownInv
  <2>. QED  BY <2>1, <2>2, <2>3
<1>11. KnownInv(l)
  BY <1>5, <1>7, <1>9, <1>10 DEF KnownInv
<1>12. ASSUME NEW i \in DOMAIN k, NEW m \in DOMAIN k[i].votes
       PROVE  m \in DOMAIN l[i].votes /\ l[i].votes[m].time >= k[i].votes[m].time
  <2>1. k[i].votes[m].time \in Nat
    BY ObjectParts DEF KnownInv
  <2>2. CASE i = j /\ m = v.mn
    BY <1>3, <1>7, <1>8, <2>2
  <2>3. CASE i = j /\ m # v.mn
    BY <1>3, <1>7, <2>1, <2>3
  <2>4. CASE i # j
    BY <1>5, <2>1, <2>4
  <2>. QED  BY <2>2, <2>3, <2>4
<1>13. Counted(l, v)
  BY <1>1, <1>3, <1>5, <1>7 DEF Counted
<1>. QED  BY <1>5, <1>7, <1>11, <1>12, <1>13 DEF Grows, l

(* What KnownInv says of one object, and what Grows says of its votes.     *)
Rightful(i, r) ==
    /\ r \in Object /\ (r.checked => i \in Finals)
    /\ \A m \in DOMAIN r.votes : r.votes[m].time <= now + Ahead

Keeps(q, r) == \A m \in DOMAIN q.votes : m \in DOMAIN r.votes /\ r.votes[m].time >= q.votes[m].time

(* A map is right when its objects are.                                    *)
LEMMA RightObjects ==
    /\ \A k : KnownInv(k) <=> /\ DOMAIN k \subseteq Items /\ IsFiniteSet(DOMAIN k) /\ k = [i \in DOMAIN k |-> k[i]]
                              /\ \A i \in DOMAIN k : Rightful(i, k[i])
    /\ \A k, l : Grows(k, l) <=> DOMAIN k \subseteq DOMAIN l /\ \A i \in DOMAIN k : Keeps(k[i], l[i])
<1>1. ASSUME NEW k, KnownInv(k)
      PROVE  /\ DOMAIN k \subseteq Items /\ IsFiniteSet(DOMAIN k) /\ k = [i \in DOMAIN k |-> k[i]]
             /\ \A i \in DOMAIN k : Rightful(i, k[i])
  BY <1>1 DEF KnownInv, Objects, Rightful
<1>2. ASSUME NEW k, DOMAIN k \subseteq Items, IsFiniteSet(DOMAIN k), k = [i \in DOMAIN k |-> k[i]],
             \A i \in DOMAIN k : Rightful(i, k[i])
      PROVE  KnownInv(k)
  <2>1. k \in [DOMAIN k -> Object]
    BY <1>2 DEF Rightful
  <2>. QED  BY <1>2, <2>1 DEF KnownInv, Objects, Rightful
<1>. QED  BY <1>1, <1>2 DEF Grows, Keeps

(* An object keeps its own votes.                                          *)
LEMMA KeepsItself ==
    ASSUME NEW i, NEW r, Rightful(i, r)
    PROVE  Keeps(r, r)
<1>1. r.votes \in Ballots
  BY DEF Rightful, Object
<1>2. \A m \in DOMAIN r.votes : r.votes[m].time \in Nat
  BY <1>1, BallotsDef, NumberAssumption DEF VoteRecord
<1>. QED  BY <1>2 DEF Keeps

(* nTime is the time of a block.                                           *)
LEMMA FeeTimeType ==
    ASSUME ChainInv, NEW t, NEW x \in 0 .. MaxHeight
    PROVE  FeeTime(t, x) \in 0 .. MaxHeight
BY NumberAssumption DEF ChainInv, FeeTime

(* Items that are new.                                                     *)
LEMMA NewItems ==
    ASSUME NEW k, KnownInv(k), ChainInv, NEW T, T \subseteq Items, IsFiniteSet(T), T \intersect DOMAIN k = {},
           NEW at, \A i \in T : at[i] \in Fees,
           NEW l, l = [i \in DOMAIN k \union T |-> IF i \in T THEN New(at[i]) ELSE k[i]]
    PROVE  KnownInv(l) /\ Grows(k, l) /\ DOMAIN l = DOMAIN k \union T /\ \A i \in DOMAIN k : l[i] = k[i]
<1>1. DOMAIN l = DOMAIN k \union T /\ l = [i \in DOMAIN l |-> l[i]]
  OBVIOUS
<1>2. \A i \in DOMAIN k : l[i] = k[i]
  OBVIOUS
<1>3. \A i \in T : l[i] = New(at[i])
  OBVIOUS
<1>4. ASSUME NEW i \in T PROVE Rightful(i, l[i])
  <2>1. << >> \in Ballots /\ DOMAIN << >> = {}
    <3>1. DOMAIN << >> = {} /\ << >> \in [{} -> VoteRecord]
      OBVIOUS
    <3>. QED  BY <3>1 DEF Ballots
  <2>2. New(at[i]) \in Object
    <3>1. FeeTime(at[i], 0) \in 0 .. MaxHeight
      BY FeeTimeType, NumberAssumption
    <3>. QED  BY <2>1, <3>1 DEF New, Object
  <2>3. New(at[i]).votes = << >> /\ New(at[i]).checked = FALSE
    BY DEF New
  <2>. QED  BY <1>3, <2>1, <2>2, <2>3 DEF Rightful
<1>5. DOMAIN k \subseteq Items /\ IsFiniteSet(DOMAIN k) /\ \A i \in DOMAIN k : Rightful(i, k[i])
  BY RightObjects
<1>6. IsFiniteSet(DOMAIN l) /\ DOMAIN l \subseteq Items
  <2>1. IsFiniteSet(DOMAIN k) /\ IsFiniteSet(T)
    BY <1>5
  <2>2. IsFiniteSet(DOMAIN k \union T)
    BY <2>1, FS_Union
  <2>. QED  BY <1>1, <1>5, <2>2
<1>7. \A i \in DOMAIN l : Rightful(i, l[i])
  BY <1>1, <1>2, <1>4, <1>5
<1>8. KnownInv(l)
  BY <1>1, <1>6, <1>7, RightObjects
<1>9. \A i \in DOMAIN k : Keeps(k[i], l[i])
  BY <1>2, <1>5, KeepsItself
<1>. QED  BY <1>1, <1>2, <1>8, <1>9, RightObjects

(* AddProposal and AddFinalizedBudget keep what is there.                  *)
LEMMA AddedKeeps ==
    ASSUME NEW k, KnownInv(k), ChainInv, NEW i \in Items, NEW at \in Fees
    PROVE  /\ KnownInv(Added(k, i, at)) /\ Grows(k, Added(k, i, at))
           /\ IsValid(i, New(at)) => i \in DOMAIN Added(k, i, at)
           /\ DOMAIN Added(k, i, at) \subseteq DOMAIN k \union {i}
           /\ \A j \in DOMAIN k : Added(k, i, at)[j] = k[j]
<1>1. CASE i \in DOMAIN k \/ ~IsValid(i, New(at))
  <2>1. Added(k, i, at) = k
    BY <1>1 DEF Added
  <2>2. Grows(k, k)
    BY RightObjects, KeepsItself
  <2>. QED  BY <1>1, <2>1, <2>2
<1>2. CASE i \notin DOMAIN k /\ IsValid(i, New(at))
  <2>. DEFINE l == Added(k, i, at)
              b == [j \in {i} |-> at]
  <2>2. l = [j \in DOMAIN k \union {i} |-> IF j \in {i} THEN New(b[j]) ELSE k[j]]
    BY <1>2 DEF Added, Put
  <2>3. IsFiniteSet({i}) /\ {i} \subseteq Items /\ {i} \intersect DOMAIN k = {} /\ \A j \in {i} : b[j] \in Fees
    BY <1>2, FS_Singleton
  <2>. HIDE DEF l, b
  <2>4. KnownInv(l) /\ Grows(k, l) /\ DOMAIN l = DOMAIN k \union {i} /\ \A j \in DOMAIN k : l[j] = k[j]
    BY <2>2, <2>3, NewItems
  <2>. QED  BY <2>4 DEF l
<1>. QED  BY <1>1, <1>2

(* The fees of the items from the network.                                 *)
LEMMA TheirsType ==
    \A i \in Proposals \union RemoteFinals : i \in Items /\ Theirs(i) \in Fees
BY ConstantAssumption, NumberAssumption DEF Theirs, Fees, Items

(* NewBlock takes the items whose fee is confirmed.                        *)
LEMMA MaturedKeeps ==
    ASSUME NEW k, KnownInv(k), ChainInv,
           immature \subseteq Proposals \union RemoteFinals, IsFiniteSet(immature)
    PROVE  /\ KnownInv(Matured(k).known) /\ Grows(k, Matured(k).known) /\ DOMAIN k \subseteq DOMAIN Matured(k).known
           /\ \A i \in immature : \/ i \in Matured(k).immature \/ i \in DOMAIN Matured(k).known
                                  \/ ~Permitted(i, New(Theirs(i)))
           /\ Matured(k).immature \subseteq immature
<1>. DEFINE ripe == {i \in immature : IsBudgetCollateralValid(Theirs(i))}
            take == {i \in ripe : i \notin DOMAIN k /\ IsValid(i, New(Theirs(i)))}
            at == [i \in take |-> Theirs(i)]
            l == [i \in DOMAIN k \union take |-> IF i \in take THEN New(at[i]) ELSE k[i]]
<1>1. Matured(k).known = l /\ Matured(k).immature = immature \ ripe
  BY DEF Matured
<1>2. take \subseteq immature /\ take \intersect DOMAIN k = {} /\ ripe \subseteq immature
  OBVIOUS
<1>3. \A i \in take : at[i] \in Fees
  BY <1>2, TheirsType
<1>4. ASSUME NEW i \in immature
      PROVE  i \in immature \ ripe \/ i \in DOMAIN k \/ i \in take \/ ~Permitted(i, New(Theirs(i)))
  <2>1. New(Theirs(i)).fee = Theirs(i)
    BY DEF New
  <2>. QED  BY <2>1 DEF IsValid
<1>. HIDE DEF take, ripe, at
<1>5. take \subseteq Items /\ IsFiniteSet(take)
  BY <1>2, FS_Subset, ConstantAssumption DEF Items
<1>6. KnownInv(l) /\ Grows(k, l) /\ DOMAIN l = DOMAIN k \union take
  BY <1>2, <1>3, <1>5, NewItems
<1>. HIDE DEF l
<1>. QED  BY <1>1, <1>2, <1>4, <1>6

(* The node's own vote of this block.                                      *)
LEMMA OwnVoteType ==
    ASSUME ChainInv, NEW i \in Items, NEW choice \in {"YES", "NO"}
    PROVE  /\ OwnVote(i, choice) \in Votes /\ OwnVote(i, choice).item = i /\ OwnVote(i, choice).mn = Self
           /\ OwnVote(i, choice).choice = choice
<1>1. now \in 0 .. MaxHeight /\ Self \in Masternodes
  BY NumberAssumption, ConstantAssumption DEF ChainInv
<1>. QED  BY <1>1 DEF OwnVote, Votes

(* AutoCheck votes for budgets it looks at, as far as the rules allow.     *)
LEMMA AutoVotesAre ==
    ASSUME NEW k, NEW S, NEW v \in AutoVotes(k, S)
    PROVE  /\ mode = "auto"
           /\ \E g \in S : /\ v = OwnVote(g, "YES") /\ Takes(k[g], v)
                           /\ Matches(g, GetBudget(Cleaned(k, Proposals)))
BY DEF AutoVotes

(* The object q is r with other flags.                                     *)
Flagged(q, r, x, y, z) == q = [r EXCEPT !.valid = x, !.time = z, !.checked = @ \/ y]

(* Setting the flags of an object.                                         *)
LEMMA FlagObject ==
    ASSUME NEW i, NEW r, Rightful(i, r), NEW x \in BOOLEAN, NEW y \in BOOLEAN, y => i \in Finals,
           NEW z \in 0 .. MaxHeight, NEW q, Flagged(q, r, x, y, z)
    PROVE  Rightful(i, q) /\ q.votes = r.votes
<1>1. r \in Object /\ (r.checked => i \in Finals)
  BY DEF Rightful
<1>2. q.votes = r.votes /\ q.checked = (r.checked \/ y) /\ q.fee = r.fee /\ q.time = z /\ q.valid = x
  BY <1>1 DEF Object, Flagged
<1>3. q \in Object
  <2>1. PICK w \in BOOLEAN : w = (r.checked \/ y)
    <3>1. (r.checked \/ y) \in BOOLEAN
      OBVIOUS
    <3>2. WITNESS (r.checked \/ y) \in BOOLEAN
    <3>. QED  OBVIOUS
  <2>2. q = [r EXCEPT !.valid = x, !.time = z, !.checked = w]
    BY <1>1, <2>1 DEF Object, Flagged
  <2>. QED  BY <1>1, <2>2 DEF Object
<1>4. Rightful(i, q)
  BY <1>1, <1>2, <1>3 DEF Rightful
<1>. QED  BY <1>2, <1>4

(* CheckAndRemove keeps the votes, and counts the ones AutoCheck casts.    *)
LEMMA CheckedKeeps ==
    ASSUME NEW k, KnownInv(k), ChainInv, NEW S, S \subseteq Unchecked(k)
    PROVE  /\ KnownInv(CheckedAndRemoved(k, S)) /\ Grows(k, CheckedAndRemoved(k, S))
           /\ DOMAIN CheckedAndRemoved(k, S) = DOMAIN k
           /\ \A v \in AutoVotes(k, S) : v \in Votes /\ Counted(CheckedAndRemoved(k, S), v)
<1>. DEFINE votes == AutoVotes(k, S)
            c == IF mode = "auto" /\ S # {} THEN Cleaned(k, Proposals) ELSE k
            l == CheckedAndRemoved(k, S)
            d(i) == IF OwnVote(i, "YES") \in votes THEN WithVote(c, OwnVote(i, "YES"))[i] ELSE c[i]
<1>1. S \subseteq DOMAIN k /\ S \subseteq Finals
  BY RightObjects DEF Unchecked, Items
<1>2. now \in Nat
  BY DEF ChainInv
<1>3. KnownInv(c) /\ Grows(k, c) /\ Alike(k, c)
  <2>1. Alike(k, k) /\ Grows(k, k)
    BY RightObjects, KeepsItself DEF Alike
  <2>2. KnownInv(Cleaned(k, Proposals)) /\ Grows(k, Cleaned(k, Proposals)) /\ Alike(k, Cleaned(k, Proposals))
    BY CleanedKeeps
  <2>. QED  BY <2>1, <2>2
<1>4. l = [i \in DOMAIN k |-> [d(i) EXCEPT !.valid = IsValid(i, d(i)), !.time = FeeTime(d(i).fee, @), !.checked = @ \/ i \in S]]
  BY DEF CheckedAndRemoved
<1>. HIDE DEF c, l
<1>5. DOMAIN c = DOMAIN k
  BY <1>3 DEF Alike
<1>6. ASSUME NEW i \in DOMAIN k, OwnVote(i, "YES") \in votes
      PROVE  /\ i \in Finals /\ OwnVote(i, "YES") \in Votes
             /\ KnownInv(WithVote(c, OwnVote(i, "YES"))) /\ Grows(c, WithVote(c, OwnVote(i, "YES")))
             /\ Counted(WithVote(c, OwnVote(i, "YES")), OwnVote(i, "YES"))
  <2>1. PICK g \in S : OwnVote(i, "YES") = OwnVote(g, "YES") /\ Takes(k[g], OwnVote(g, "YES"))
    BY <1>6, AutoVotesAre
  <2>2. i = g
    BY <2>1 DEF OwnVote
  <2>3. i \in S /\ i \in Finals /\ i \in Items
    BY <1>1, <2>2 DEF Items
  <2>4. PICK v : v = OwnVote(i, "YES")
    OBVIOUS
  <2>5. v \in Votes /\ v.item = i /\ v.mn = Self
    BY <2>3, <2>4, OwnVoteType
  <2>6. Takes(c[i], v)
    BY <1>3, <2>1, <2>2, <2>4 DEF Takes, Alike
  <2>7. KnownInv(WithVote(c, v)) /\ Grows(c, WithVote(c, v)) /\ Counted(WithVote(c, v), v)
    BY <1>2, <1>3, <1>5, <2>5, <2>6, WithVoteKeeps
  <2>. QED  BY <2>3, <2>4, <2>5, <2>7
<1>7. ASSUME NEW i \in DOMAIN k
      PROVE  Rightful(i, d(i)) /\ Keeps(k[i], d(i))
  <2>1. Rightful(i, c[i]) /\ Keeps(k[i], c[i])
    BY <1>3, <1>5, RightObjects
  <2>2. CASE OwnVote(i, "YES") \notin votes
    BY <2>1, <2>2
  <2>3. CASE OwnVote(i, "YES") \in votes
    <3>1. PICK w : w = WithVote(c, OwnVote(i, "YES"))
      OBVIOUS
    <3>2. KnownInv(w) /\ Grows(c, w)
      BY <1>6, <2>3, <3>1
    <3>3. Objects(k) /\ Objects(c) /\ Objects(w)
      BY <1>3, <3>2 DEF KnownInv
    <3>4. Grows(k, w)
      BY <1>3, <3>2, <3>3, GrowsTransitive
    <3>5. i \in DOMAIN w /\ d(i) = w[i]
      BY <1>5, <2>3, <3>1, <3>2 DEF Grows
    <3>. QED  BY <3>2, <3>4, <3>5, RightObjects
  <2>. QED  BY <2>2, <2>3
<1>8. ASSUME NEW i \in DOMAIN k
      PROVE  Rightful(i, l[i]) /\ l[i].votes = d(i).votes
  <2>1. PICK x \in BOOLEAN : x = IsValid(i, d(i))
    <3>1. IsValid(i, d(i)) \in BOOLEAN
      BY DEF IsValid, Permitted, IsBudgetCollateralValid
    <3>2. WITNESS IsValid(i, d(i)) \in BOOLEAN
    <3>. QED  OBVIOUS
  <2>2. PICK y \in BOOLEAN : y = (i \in S)
    <3>1. (i \in S) \in BOOLEAN
      OBVIOUS
    <3>2. WITNESS (i \in S) \in BOOLEAN
    <3>. QED  OBVIOUS
  <2>3. PICK r : r = d(i)
    OBVIOUS
  <2>4. PICK z : z = FeeTime(r.fee, r.time)
    OBVIOUS
  <2>5. Flagged(l[i], r, x, y, z)
    BY <1>4, <2>1, <2>2, <2>3, <2>4 DEF Flagged
  <2>6. Rightful(i, r) /\ (y => i \in Finals)
    BY <1>1, <1>7, <2>2, <2>3
  <2>7. r.time \in 0 .. MaxHeight
    BY <2>6 DEF Rightful, Object
  <2>8. z \in 0 .. MaxHeight
    BY <2>4, <2>7, FeeTimeType
  <2>. HIDE DEF d
  <2>. QED  BY <2>3, <2>5, <2>6, <2>8, FlagObject
<1>9. DOMAIN l = DOMAIN k /\ l = [i \in DOMAIN k |-> l[i]]
  BY <1>4
<1>10. \A i \in DOMAIN k : Keeps(k[i], l[i])
  BY <1>7, <1>8 DEF Keeps
<1>11. ASSUME NEW v \in votes PROVE v \in Votes /\ Counted(l, v)
  <2>1. PICK g \in S : v = OwnVote(g, "YES")
    BY AutoVotesAre
  <2>2. g \in DOMAIN k /\ OwnVote(g, "YES") \in votes
    BY <1>1, <2>1
  <2>3. PICK w : w = WithVote(c, v)
    OBVIOUS
  <2>4. v \in Votes /\ Counted(w, v)
    BY <1>6, <2>1, <2>2, <2>3
  <2>5. v.item = g
    BY <2>1 DEF OwnVote
  <2>6. d(g) = w[g]
    BY <2>1, <2>2, <2>3
  <2>7. l[g].votes = w[g].votes
    BY <1>8, <2>2, <2>6
  <2>. QED  BY <1>9, <2>2, <2>4, <2>5, <2>7 DEF Counted
<1>. HIDE DEF d, votes
<1>12. KnownInv(l) /\ Grows(k, l)
  <2>1. DOMAIN k \subseteq Items /\ IsFiniteSet(DOMAIN k)
    BY RightObjects
  <2>2. \A i \in DOMAIN l : Rightful(i, l[i])
    BY <1>8, <1>9
  <2>3. KnownInv(l)
    BY <1>9, <2>1, <2>2, RightObjects
  <2>4. Grows(k, l)
    BY <1>9, <1>10, RightObjects
  <2>. QED  BY <2>3, <2>4
<1>. QED  BY <1>9, <1>11, <1>12 DEF l, votes

(* Reading budget.dat sets the flags of the votes and of AutoCheck.        *)
LEMMA ReloadedKeeps ==
    ASSUME NEW k, KnownInv(k)
    PROVE  KnownInv(Reloaded(k))
<1>. DEFINE b(i) == [m \in DOMAIN k[i].votes |-> [k[i].votes[m] EXCEPT !.valid = TRUE]]
            c == Reloaded(k)
<1>1. DOMAIN c = DOMAIN k /\ c = [i \in DOMAIN k |-> c[i]]
  BY DEF Reloaded
<1>2. ASSUME NEW i \in DOMAIN k
      PROVE  /\ c[i] \in Object /\ c[i].checked = FALSE /\ DOMAIN c[i].votes = DOMAIN k[i].votes
             /\ \A m \in DOMAIN k[i].votes : c[i].votes[m].time = k[i].votes[m].time
  <2>1. k[i] \in Object /\ DOMAIN k[i].votes \subseteq Masternodes /\ \A m \in DOMAIN k[i].votes : k[i].votes[m] \in VoteRecord
    BY ObjectParts DEF KnownInv
  <2>2. ASSUME NEW m \in DOMAIN k[i].votes
        PROVE  b(i)[m] \in VoteRecord /\ b(i)[m].time = k[i].votes[m].time
    <3>1. b(i)[m] = [k[i].votes[m] EXCEPT !.valid = TRUE]
      OBVIOUS
    <3>. HIDE DEF b
    <3>. QED  BY <2>1, <3>1, FlagVote
  <2>3. DOMAIN b(i) = DOMAIN k[i].votes /\ b(i) \in [DOMAIN b(i) -> VoteRecord]
    BY <2>2
  <2>4. b(i) \in Ballots
    BY <2>1, <2>3, BallotsDef
  <2>5. c[i] = [k[i] EXCEPT !.checked = FALSE, !.votes = b(i)]
    BY DEF Reloaded
  <2>. HIDE DEF b, c
  <2>. QED  BY <2>1, <2>2, <2>3, <2>4, <2>5 DEF Object
<1>. HIDE DEF c
<1>3. c \in [DOMAIN k -> Object]
  BY <1>1, <1>2
<1>. QED  BY <1>1, <1>2, <1>3, SameTimes DEF c

-----------------------------------------------------------------------------
(* What SubmitFinalBudget and AutoCheck decide.                            *)

(* The proposals of k are the known ones, but for the flags of the votes.  *)
SameProposals(k) ==
    /\ DOMAIN k \intersect Proposals = DOMAIN known \intersect Proposals
    /\ \A p \in DOMAIN known \intersect Proposals :
          /\ k[p].time = known[p].time /\ k[p].valid = known[p].valid
          /\ DOMAIN k[p].votes = DOMAIN known[p].votes
          /\ \A m \in DOMAIN known[p].votes : k[p].votes[m].choice = known[p].votes[m].choice

(* The votes that count after CleanAndRemove are those of the masternodes  *)
(* in the list.                                                            *)
LEMMA NetIsSupport ==
    ASSUME NEW k, KnownInv(k), SameProposals(k), NEW p \in DOMAIN k \intersect Proposals
    PROVE  Net(Cleaned(k, Proposals)[p]) = Support(p)
<1>. DEFINE r == Cleaned(k, Proposals)[p]
            by(choice) == {m \in DOMAIN known[p].votes \intersect list : known[p].votes[m].choice = choice}
            C(choice) == {m \in DOMAIN r.votes : r.votes[m].choice = choice /\ r.votes[m].valid}
<1>1. k[p] \in Object /\ \A m \in DOMAIN k[p].votes : k[p].votes[m] \in VoteRecord
  BY ObjectParts DEF KnownInv
<1>2. /\ p \in DOMAIN known /\ DOMAIN k[p].votes = DOMAIN known[p].votes
      /\ \A m \in DOMAIN known[p].votes : k[p].votes[m].choice = known[p].votes[m].choice
  BY DEF SameProposals
<1>3. r.votes = [m \in DOMAIN k[p].votes |-> [k[p].votes[m] EXCEPT !.valid = m \in list]]
  <2>1. r = [k[p] EXCEPT !.votes = [m \in DOMAIN k[p].votes |-> [k[p].votes[m] EXCEPT !.valid = m \in list]]]
    BY DEF Cleaned
  <2>. HIDE DEF r
  <2>. QED  BY <1>1, <2>1 DEF Object
<1>. HIDE DEF r
<1>4. DOMAIN r.votes = DOMAIN known[p].votes
  BY <1>2, <1>3
<1>5. ASSUME NEW m \in DOMAIN known[p].votes
      PROVE  r.votes[m].choice = known[p].votes[m].choice /\ (r.votes[m].valid <=> m \in list)
  <2>1. PICK x \in BOOLEAN : x = (m \in list)
    <3>1. (m \in list) \in BOOLEAN
      OBVIOUS
    <3>2. WITNESS (m \in list) \in BOOLEAN
    <3>. QED  OBVIOUS
  <2>2. r.votes[m] = [k[p].votes[m] EXCEPT !.valid = x]
    BY <1>2, <1>3, <2>1
  <2>3. r.votes[m].choice = k[p].votes[m].choice /\ r.votes[m].valid = x
    BY <1>1, <1>2, <2>2, FlagVote
  <2>. QED  BY <1>2, <2>1, <2>3
<1>6. \A choice : C(choice) = by(choice)
  BY <1>4, <1>5
<1>7. \A choice : Count(r, choice) = Cardinality(C(choice))
  BY DEF Count
<1>8. Support(p) = Cardinality(by("YES")) - Cardinality(by("NO"))
  BY DEF Support
<1>9. Net(r) = Count(r, "YES") - Count(r, "NO")
  BY DEF Net
<1>. HIDE DEF C, by
<1>. QED  BY <1>6, <1>7, <1>8, <1>9 DEF r

(* GetBudget's budget is sound.                                            *)
LEMMA SoundBudget ==
    ASSUME NEW k, KnownInv(k), SameProposals(k)
    PROVE  Sound(GetBudget(Cleaned(k, Proposals)))
<1>. DEFINE c == Cleaned(k, Proposals)
            b == GetBudget(c)
            all == DOMAIN known \intersect Proposals
<1>1. KnownInv(c) /\ Alike(k, c)
  BY CleanedKeeps
<1>2. DOMAIN c \intersect Proposals = all /\ \A p \in all : c[p].time = known[p].time /\ c[p].valid = known[p].valid
  BY <1>1 DEF Alike, SameProposals
<1>3. \A p \in all : Net(c[p]) = Support(p)
  BY NetIsSupport DEF SameProposals
<1>. HIDE DEF c
<1>4. /\ b \in Seq(all) /\ Chosen(c, b)
      /\ \A p \in all : Eligible(c, p) => LeftOut(c, b, p) \/ \E i \in DOMAIN b : b[i] = p
  BY <1>1, <1>2, GetBudgetChooses DEF KnownInv
<1>. HIDE DEF b
<1>5. Len(b) \in Nat /\ DOMAIN b = 1 .. Len(b) /\ \A i \in DOMAIN b : b[i] \in all
  BY <1>4
<1>6. \A i \in DOMAIN b : Supported(b[i])
  BY <1>2, <1>3, <1>4, <1>5 DEF Chosen, Eligible, Supported
<1>7. \A i, j \in DOMAIN b : i < j => Support(b[i]) >= Support(b[j])
  BY <1>3, <1>4, <1>5 DEF Chosen
<1>8. ASSUME NEW p \in Proposals \ Range(b), Supported(p), known[p].valid
      PROVE  \E m \in 0 .. Len(b) :
                 /\ \A i \in 1 .. m : Support(b[i]) >= Support(p)
                 /\ Payout(SubSeq(b, 1, m)) + Amount[p] > TotalBudget
  <2>1. p \in all
    BY <1>8 DEF Supported
  <2>2. Eligible(c, p)
    BY <1>2, <1>3, <1>8, <2>1 DEF Supported, Eligible
  <2>3. LeftOut(c, b, p)
    BY <1>4, <1>8, <2>1, <2>2 DEF Range
  <2>4. PICK m \in 0 .. Len(b) : /\ \A i \in 1 .. m : Net(c[b[i]]) >= Net(c[p])
                                 /\ Payout(SubSeq(b, 1, m)) + Amount[p] > TotalBudget
    BY <2>3 DEF LeftOut
  <2>5. \A i \in 1 .. m : b[i] \in all
    BY <1>5
  <2>. QED  BY <1>3, <2>1, <2>4, <2>5
<1>9. Payout(b) <= TotalBudget
  BY <1>4 DEF Chosen
<1>. QED  BY <1>6, <1>7, <1>8, <1>9 DEF Sound, b, c

(* The fees this node paid are for finalized budgets.                      *)
FeeInv(e) == DOMAIN e \subseteq Finals /\ \A f \in DOMAIN e : e[f] \in Fees /\ e[f][1] = f

(* What is true of the maps that SubmitFinalBudget leaves.                 *)
Submitted(a) ==
    /\ KnownInv(a.known) /\ Grows(known, a.known) /\ SameProposals(a.known)
    /\ a.seen \subseteq Items /\ FeeInv(a.fee) /\ a.submitted \in 0 .. now
    /\ \A f \in a.seen \ seen : f \in Finals /\ Sound(f.payments)

(* The fee of a suggestion.                                                *)
LEMMA OursType ==
    ASSUME NEW f \in Finals, events \in 0 .. MaxEvents
    PROVE  Ours(f) \in Fees /\ Ours(f)[1] = f
<1>1. events + 1 \in 0 .. MaxEvents + 1 /\ f \in Items
  BY NumberAssumption DEF Items
<1>. QED  BY <1>1 DEF Ours, Fees

(* SubmitFinalBudget keeps the items, and suggests only a sound budget.    *)
LEMMA SubmitKeeps ==
    ASSUME KnownInv(known), ChainInv, events \in 0 .. MaxEvents, submitted \in 0 .. now, seen \subseteq Items,
           FeeInv(fee), NEW a \in {NotSubmitted, SubmitFinalBudget}
    PROVE  Submitted(a)
<1>. DEFINE k == Cleaned(known, Proposals)
            f == [start |-> BlockStart, payments |-> GetBudget(k)]
            looked == [known |-> k, seen |-> seen, fee |-> fee, submitted |-> submitted]
<1>1. Grows(known, known) /\ SameProposals(known)
  BY RightObjects, KeepsItself DEF SameProposals
<1>2. KnownInv(k) /\ Grows(known, k) /\ Alike(known, k)
  BY CleanedKeeps
<1>3. SameProposals(k)
  BY <1>2 DEF Alike, SameProposals
<1>4. f \in Finals /\ height \in 0 .. now
  <2>1. height \in FirstHeight .. MaxHeight /\ height \in 0 .. now
    BY NumberAssumption DEF ChainInv
  <2>. QED  BY <1>2, <2>1, BudgetType DEF KnownInv
<1>5. Sound(f.payments)
  BY <1>1, SoundBudget
<1>6. \/ a = NotSubmitted \/ a = [looked EXCEPT !.known = known]
      \/ a = looked \/ a = [looked EXCEPT !.submitted = height]
      \/ a = [looked EXCEPT !.fee = Put(fee, f, Ours(f))]
      \/ /\ f \in DOMAIN fee
         /\ a = [known |-> Added(k, f, fee[f]), seen |-> seen \union {f}, fee |-> fee, submitted |-> height]
  BY DEF SubmitFinalBudget
<1>. HIDE DEF k, f
<1>7. CASE a = NotSubmitted \/ a = [looked EXCEPT !.known = known]
  <2>1. a.known = known /\ a.seen = seen /\ a.fee = fee /\ a.submitted = submitted
    BY <1>7 DEF NotSubmitted
  <2>. QED  BY <1>1, <2>1 DEF Submitted
<1>8. CASE a = looked \/ a = [looked EXCEPT !.submitted = height]
  <2>1. a.known = k /\ a.seen = seen /\ a.fee = fee /\ (a.submitted = submitted \/ a.submitted = height)
    BY <1>8
  <2>. QED  BY <1>2, <1>3, <1>4, <2>1 DEF Submitted
<1>9. CASE a = [looked EXCEPT !.fee = Put(fee, f, Ours(f))]
  <2>1. a.known = k /\ a.seen = seen /\ a.fee = Put(fee, f, Ours(f)) /\ a.submitted = submitted
    BY <1>9
  <2>2. FeeInv(Put(fee, f, Ours(f)))
    BY <1>4, OursType DEF FeeInv, Put
  <2>. QED  BY <1>2, <1>3, <2>1, <2>2 DEF Submitted
<1>10. CASE /\ f \in DOMAIN fee
            /\ a = [known |-> Added(k, f, fee[f]), seen |-> seen \union {f}, fee |-> fee, submitted |-> height]
  <2>1. a.known = Added(k, f, fee[f]) /\ a.seen = seen \union {f} /\ a.fee = fee /\ a.submitted = height
    BY <1>10
  <2>2. fee[f] \in Fees /\ f \in Items /\ f \notin Proposals
    BY <1>4, <1>10, HashAssumption DEF FeeInv, Items
  <2>. DEFINE l == Added(k, f, fee[f])
  <2>3. /\ KnownInv(l) /\ Grows(k, l) /\ DOMAIN l \subseteq DOMAIN k \union {f}
        /\ \A j \in DOMAIN k : l[j] = k[j]
    BY <1>2, <2>2, AddedKeeps
  <2>. HIDE DEF l
  <2>4. Grows(known, l)
    BY <1>2, <2>3, GrowsTransitive DEF KnownInv
  <2>5. DOMAIN l \intersect Proposals = DOMAIN k \intersect Proposals
    BY <2>2, <2>3 DEF Grows
  <2>6. SameProposals(l)
    BY <1>3, <2>3, <2>5 DEF SameProposals
  <2>. QED  BY <1>4, <1>5, <2>1, <2>2, <2>3, <2>4, <2>6 DEF l, Submitted
<1>. QED  BY <1>6, <1>7, <1>8, <1>9, <1>10

-----------------------------------------------------------------------------
(* Orphan votes.                                                           *)

(* Every orphan is a vote from the network on its item.                    *)
OrphanInv == DOMAIN orphan \subseteq Items /\ \A i \in DOMAIN orphan : orphan[i] \in RemoteVotes /\ orphan[i].item = i

(* CheckOrphanVotes counts the orphans it takes out.                       *)
LEMMA OrphansCounted ==
    ASSUME NEW k, KnownInv(k), now \in Nat, OrphanInv, CheckOrphanVotes(k),
           NEW l, l = known', NEW o, o = orphan'
    PROVE  /\ KnownInv(l) /\ Grows(k, l) /\ DOMAIN l = DOMAIN k
           /\ DOMAIN o \subseteq DOMAIN orphan /\ \A i \in DOMAIN o : o[i] = orphan[i]
           /\ \A i \in DOMAIN orphan : i \in DOMAIN o \/ Counted(l, orphan[i])
<1>. DEFINE ready == {i \in DOMAIN orphan : i \in DOMAIN k /\ Takes(k[i], orphan[i])}
<1>1. /\ l = [i \in DOMAIN k |-> IF i \in ready THEN WithVote(k, orphan[i])[i] ELSE k[i]]
      /\ o = [i \in DOMAIN orphan \ ready |-> orphan[i]]
  BY DEF CheckOrphanVotes, Drop
<1>2. DOMAIN l = DOMAIN k /\ l = [i \in DOMAIN l |-> l[i]]
  BY <1>1
<1>3. ASSUME NEW i \in ready
      PROVE  Rightful(i, l[i]) /\ Keeps(k[i], l[i]) /\ Counted(l, orphan[i])
  <2>1. PICK v : v = orphan[i]
    OBVIOUS
  <2>2. v \in RemoteVotes /\ v \in Votes /\ v.item = i /\ i \in DOMAIN k /\ Takes(k[i], v)
    BY <2>1, ConstantAssumption DEF OrphanInv
  <2>4. KnownInv(WithVote(k, v)) /\ Grows(k, WithVote(k, v)) /\ Counted(WithVote(k, v), v)
    BY <2>2, WithVoteKeeps
  <2>5. l[i] = WithVote(k, v)[i]
    BY <1>1, <2>1, <2>2
  <2>6. Counted(l, v)
    BY <1>2, <2>2, <2>4, <2>5 DEF Counted
  <2>7. i \in DOMAIN WithVote(k, v)
    BY <2>2, <2>4 DEF Grows
  <2>. QED  BY <2>1, <2>2, <2>4, <2>5, <2>6, <2>7, RightObjects
<1>4. DOMAIN k \subseteq Items /\ IsFiniteSet(DOMAIN k) /\ \A i \in DOMAIN k : Rightful(i, k[i])
  BY RightObjects
<1>5. ASSUME NEW i \in DOMAIN k PROVE Rightful(i, l[i]) /\ Keeps(k[i], l[i])
  <2>1. CASE i \in ready
    BY <1>3, <2>1
  <2>2. CASE i \notin ready
    <3>1. l[i] = k[i]
      BY <1>1, <2>2
    <3>. QED  BY <1>4, <3>1, KeepsItself
  <2>. QED  BY <2>1, <2>2
<1>6. DOMAIN o \subseteq DOMAIN orphan /\ \A i \in DOMAIN o : o[i] = orphan[i]
  BY <1>1
<1>7. \A i \in DOMAIN orphan : i \in DOMAIN o \/ i \in ready
  BY <1>1
<1>. HIDE DEF ready
<1>8. KnownInv(l)
  BY <1>2, <1>4, <1>5, RightObjects
<1>9. Grows(k, l)
  BY <1>2, <1>5, RightObjects
<1>. QED  BY <1>2, <1>3, <1>6, <1>7, <1>8, <1>9

-----------------------------------------------------------------------------
(* The inductive invariant.                                                *)

(* What the node only reads.                                               *)
WorldInv ==
    /\ ChainInv /\ list \subseteq Masternodes /\ enabled \in Nat /\ events \in 0 .. MaxEvents
    /\ sync \in {"BUSY", "FAILED", "FINISHED"} /\ mode \in {"auto", "suggest"}

(* The seen maps, and the items that wait for their fee.                   *)
SeenInv == seen \subseteq Items /\ seenVotes \subseteq Votes /\ lost \subseteq seenVotes

ImmatureInv == immature \subseteq Proposals \union RemoteFinals /\ IsFiniteSet(immature)

(* A vote that was seen and not given up waits as an orphan or is counted. *)
Waits(v) == v.item \in DOMAIN orphan /\ orphan[v.item] = v
VotesInv == \A v \in seenVotes \ lost : Waits(v) \/ Counted(known, v)

BudgetInv ==
    /\ WorldInv /\ KnownInv(known) /\ SeenInv /\ OrphanInv /\ ImmatureInv
    /\ FeeInv(fee) /\ submitted \in 0 .. now /\ VotesInv

(* KnownInv of the next state: the clock does not go back.                 *)
LEMMA KnownInvNext ==
    ASSUME NEW l, KnownInv(l), known' = l, now \in Nat, now' \in Nat, now <= now'
    PROVE  KnownInv(known)'
<1>1. ASSUME NEW i \in DOMAIN l, NEW m \in DOMAIN l[i].votes
      PROVE  l[i].votes[m].time <= now' + Ahead
  <2>1. l[i].votes[m].time \in Nat /\ l[i].votes[m].time <= now + Ahead
    BY ObjectParts DEF KnownInv
  <2>. QED  BY <2>1, NumberAssumption
<1>. QED  BY <1>1 DEF KnownInv, Objects, Object

(* VotesInv of the next state, for the votes that were seen before.        *)
LEMMA VotesStay ==
    ASSUME BudgetInv, NEW l, KnownInv(l), Grows(known, l), NEW v \in seenVotes \ lost
    PROVE  Waits(v) \/ Counted(l, v)
<1>1. v \in Votes /\ Objects(known) /\ Objects(l)
  BY DEF BudgetInv, SeenInv, KnownInv
<1>. QED  BY <1>1, CountedStays DEF BudgetInv, VotesInv

(* The initial states.                                                     *)
LEMMA BudgetInitInv ==
    ASSUME BudgetInit
    PROVE  BudgetInv
<1>1. DOMAIN << >> = {} /\ << >> = [i \in DOMAIN << >> |-> << >>[i]]
  OBVIOUS
<1>2. KnownInv(<< >>)
  BY <1>1, RightObjects, FS_EmptySet
<1>3. WorldInv
  <2>1. FirstHeight \in Nat /\ MaxHeight \in Nat /\ FirstHeight <= MaxHeight /\ MaxEvents \in Nat
    BY NumberAssumption
  <2>. DEFINE old == {i \in Proposals \union RemoteFinals : PaidAt[i] <= FirstHeight}
              T == {Theirs(i) : i \in old}
  <2>2. mined = [t \in T |-> PaidAt[t[1]]] /\ height = FirstHeight /\ now = FirstHeight /\ locked = {}
    BY DEF BudgetInit
  <2>3. ASSUME NEW t \in T PROVE t \in Fees /\ PaidAt[t[1]] \in Nat /\ PaidAt[t[1]] <= FirstHeight
    <3>1. PICK i \in old : t = Theirs(i)
      OBVIOUS
    <3>2. t[1] = i /\ i \in Proposals \union RemoteFinals /\ PaidAt[i] \in Nat /\ PaidAt[i] <= FirstHeight
      BY <3>1, NumberAssumption DEF Theirs
    <3>. QED  BY <3>1, <3>2, TheirsType
  <2>. HIDE DEF T
  <2>4. ChainInv
    BY <2>1, <2>2, <2>3 DEF ChainInv
  <2>5. list \subseteq Masternodes /\ enabled \in Nat
    BY ConstantAssumption DEF BudgetInit
  <2>. QED  BY <2>1, <2>4, <2>5 DEF BudgetInit, WorldInv
<1>4. OrphanInv /\ FeeInv(fee) /\ submitted \in 0 .. now
  BY <1>1, NumberAssumption DEF BudgetInit, OrphanInv, FeeInv
<1>5. SeenInv /\ ImmatureInv /\ VotesInv
  BY FS_EmptySet DEF BudgetInit, SeenInv, ImmatureInv, VotesInv
<1>. QED  BY <1>2, <1>3, <1>4, <1>5 DEF BudgetInv, BudgetInit

(* The fees that may be mined or locked.                                   *)
LEMMA UnminedType ==
    ASSUME BudgetInv
    PROVE  Unmined \subseteq Fees /\ DOMAIN mined \subseteq Fees
<1>1. \A i \in Proposals \union RemoteFinals : Theirs(i) \in Fees
  BY TheirsType
<1>2. \A f \in DOMAIN fee : fee[f] \in Fees
  BY DEF BudgetInv, FeeInv
<1>3. \A i \in DOMAIN known : known[i].fee \in Fees
  BY ObjectParts DEF BudgetInv, KnownInv
<1>. QED  BY <1>1, <1>2, <1>3 DEF Unmined, Range, BudgetInv, WorldInv, ChainInv

(* A block is connected, with fees in it.                                  *)
LEMMA ConnectStep ==
    ASSUME BudgetInv, NEW S \in SUBSET Unmined, ConnectTip(S)
    PROVE  ChainInv' /\ now <= now'
<1>1. /\ height \in Nat /\ FirstHeight <= height /\ height <= now /\ now \in Nat /\ now <= MaxHeight
      /\ DOMAIN mined \subseteq Fees /\ (\A t \in DOMAIN mined : mined[t] \in Nat /\ mined[t] <= height)
      /\ locked \subseteq Fees /\ FirstHeight \in Nat /\ MaxHeight \in Nat
  BY NumberAssumption DEF BudgetInv, WorldInv, ChainInv
<1>2. S \subseteq Fees
  BY UnminedType
<1>3. /\ height < MaxHeight /\ height' = height + 1 /\ now' = Max({now, height'}) /\ locked' = locked
      /\ mined' = [t \in DOMAIN mined \union S |-> IF t \in S THEN height' ELSE mined[t]]
  BY DEF ConnectTip
<1>4. \E x \in {now, height'} : \A y \in {now, height'} : x >= y
  BY <1>1, <1>3
<1>5. now' \in {now, height'} /\ \A y \in {now, height'} : now' >= y
  BY <1>3, <1>4 DEF Max
<1>6. now' \in Nat /\ now <= now' /\ height' <= now' /\ now' <= MaxHeight
  BY <1>1, <1>3, <1>5
<1>7. \A t \in DOMAIN mined' : t \in Fees /\ mined'[t] \in Nat /\ mined'[t] <= height'
  <2>. SUFFICES ASSUME NEW t \in DOMAIN mined'
                PROVE  t \in Fees /\ mined'[t] \in Nat /\ mined'[t] <= height'
    OBVIOUS
  <2>1. CASE t \in S
    <3>1. t \in Fees /\ mined'[t] = height'
      BY <1>2, <1>3, <2>1
    <3>. QED  BY <1>1, <1>3, <3>1
  <2>2. CASE t \notin S
    <3>1. t \in DOMAIN mined /\ mined'[t] = mined[t]
      BY <1>3, <2>2
    <3>. QED  BY <1>1, <1>3, <3>1
  <2>. QED  BY <2>1, <2>2
<1>8. DOMAIN mined' \subseteq Fees
  BY <1>7
<1>9. height' \in Nat /\ FirstHeight <= height' /\ locked' \subseteq Fees
  BY <1>1, <1>3
<1>. QED  BY <1>6, <1>7, <1>8, <1>9 DEF ChainInv

(* The other steps of the chain.                                           *)
LEMMA ChainSteps ==
    ASSUME BudgetInv, \/ DisconnectTip \/ (\E t \in Unmined \union DOMAIN mined : Lock(t))
                      \/ (\E t \in locked : Expire(t))
    PROVE  ChainInv' /\ now' = now /\ events' \in 0 .. MaxEvents
<1>1. /\ height \in Nat /\ FirstHeight <= height /\ height <= now /\ now \in Nat /\ now <= MaxHeight
      /\ DOMAIN mined \subseteq Fees /\ (\A t \in DOMAIN mined : mined[t] \in Nat /\ mined[t] <= height)
      /\ locked \subseteq Fees /\ events \in 0 .. MaxEvents /\ FirstHeight \in Nat /\ MaxEvents \in Nat
  BY NumberAssumption DEF BudgetInv, WorldInv, ChainInv
<1>2. Unmined \union DOMAIN mined \subseteq Fees
  BY UnminedType
<1>3. CASE DisconnectTip
  <2>1. /\ height > FirstHeight /\ events < MaxEvents /\ events' = events + 1 /\ height' = height - 1
        /\ now' = now /\ locked' = locked
        /\ mined' = [t \in DOMAIN mined \ {u \in DOMAIN mined : mined[u] = height} |-> mined[t]]
    BY <1>3 DEF DisconnectTip, Drop
  <2>2. \A t \in DOMAIN mined' : t \in DOMAIN mined /\ mined'[t] = mined[t] /\ mined[t] # height
    BY <2>1
  <2>3. \A t \in DOMAIN mined' : t \in Fees /\ mined'[t] \in Nat /\ mined'[t] <= height'
    BY <1>1, <2>1, <2>2
  <2>. QED  BY <1>1, <2>1, <2>3 DEF ChainInv
<1>4. CASE \E t \in Unmined \union DOMAIN mined : Lock(t)
  BY <1>1, <1>2, <1>4 DEF Lock, ChainInv
<1>5. CASE \E t \in locked : Expire(t)
  BY <1>1, <1>5 DEF Expire, ChainInv
<1>. QED  BY <1>3, <1>4, <1>5

(* The steps of the chain, the synchronisation and the masternode list.    *)
WorldStep ==
    \/ \E S \in SUBSET Unmined : ConnectTip(S)
    \/ DisconnectTip
    \/ \E t \in Unmined \union DOMAIN mined : Lock(t)
    \/ \E t \in locked : Expire(t)
    \/ Sync \/ ListChange \/ UNCHANGED budgetVars

(* They leave the node alone and keep the invariant.                       *)
LEMMA WorldSteps ==
    ASSUME BudgetInv, WorldStep
    PROVE  BudgetInv' /\ UNCHANGED node
<1>1. UNCHANGED node
  BY DEF WorldStep, ConnectTip, DisconnectTip, Lock, Expire, Sync, ListChange, budgetVars
<1>2. WorldInv' /\ now <= now'
  <2>1. WorldInv /\ now \in Nat
    BY DEF BudgetInv, WorldInv, ChainInv
  <2>2. CASE \E S \in SUBSET Unmined : ConnectTip(S)
    <3>1. ChainInv' /\ now <= now'
      BY <2>2, ConnectStep
    <3>. QED  BY <2>1, <2>2, <3>1 DEF WorldInv, ConnectTip
  <2>3. CASE \/ DisconnectTip \/ (\E t \in Unmined \union DOMAIN mined : Lock(t)) \/ (\E t \in locked : Expire(t))
    <3>1. ChainInv' /\ now' = now /\ events' \in 0 .. MaxEvents
      BY <2>3, ChainSteps
    <3>2. UNCHANGED <<sync, mode, enabled, list>>
      BY <2>3 DEF DisconnectTip, Lock, Expire
    <3>. QED  BY <2>1, <3>1, <3>2 DEF WorldInv
  <2>4. CASE Sync
    <3>1. sync' \in {"FAILED", "FINISHED"}
      BY <2>4, ConstantAssumption DEF Sync
    <3>. QED  BY <2>1, <2>4, <3>1 DEF WorldInv, ChainInv, Sync, chain
  <2>5. CASE ListChange
    <3>1. PICK l \in Lists : list' = l.list /\ enabled' = l.enabled
      BY <2>5 DEF ListChange
    <3>2. l.list \subseteq Masternodes /\ l.enabled \in Nat
      BY <3>1, ConstantAssumption
    <3>3. events' \in 0 .. MaxEvents
      BY <2>1, <2>5, NumberAssumption DEF WorldInv, ListChange
    <3>. QED  BY <2>1, <2>5, <3>1, <3>2, <3>3 DEF WorldInv, ChainInv, ListChange, chain
  <2>6. CASE UNCHANGED budgetVars
    BY <2>1, <2>6 DEF WorldInv, ChainInv, budgetVars, world, chain
  <2>. QED  BY <2>2, <2>3, <2>4, <2>5, <2>6 DEF WorldStep
<1>3. KnownInv(known)' /\ submitted' \in 0 .. now'
  <2>1. now \in Nat /\ now' \in Nat /\ submitted \in 0 .. now /\ KnownInv(known)
    BY <1>2 DEF BudgetInv, WorldInv, ChainInv
  <2>2. KnownInv(known)'
    BY <1>1, <1>2, <2>1, KnownInvNext DEF node
  <2>. QED  BY <1>1, <1>2, <2>1, <2>2 DEF node
<1>. QED  BY <1>1, <1>2, <1>3 DEF BudgetInv, SeenInv, OrphanInv, ImmatureInv, FeeInv, VotesInv, Waits, Counted, node

(* SPORK_11_RESET_BUDGET.                                                  *)
LEMMA ClearStep ==
    ASSUME BudgetInv, Clear
    PROVE  BudgetInv'
<1>1. DOMAIN << >> = {} /\ << >> = [i \in DOMAIN << >> |-> << >>[i]]
  OBVIOUS
<1>2. KnownInv(<< >>)
  BY <1>1, RightObjects, FS_EmptySet
<1>3. KnownInv(known)'
  BY <1>2, KnownInvNext, NumberAssumption DEF Clear, BudgetInv, WorldInv, ChainInv, chain
<1>4. events' \in 0 .. MaxEvents
  BY NumberAssumption DEF Clear, BudgetInv, WorldInv
<1>. QED  BY <1>1, <1>3, <1>4
          DEF Clear, BudgetInv, WorldInv, ChainInv, SeenInv, OrphanInv, ImmatureInv, FeeInv, VotesInv, chain

(* A restart.                                                              *)
LEMMA ReloadStep ==
    ASSUME BudgetInv, Reload
    PROVE  BudgetInv'
<1>1. KnownInv(Reloaded(known)) /\ ChainInv /\ {} \subseteq Unchecked(Reloaded(known))
  BY ReloadedKeeps DEF BudgetInv, WorldInv
<1>2. KnownInv(CheckedAndRemoved(Reloaded(known), {}))
  BY <1>1, CheckedKeeps
<1>3. KnownInv(known)'
  BY <1>2, KnownInvNext, NumberAssumption DEF Reload, BudgetInv, WorldInv, ChainInv, chain
<1>4. DOMAIN << >> = {}
  OBVIOUS
<1>5. events' \in 0 .. MaxEvents /\ submitted' \in 0 .. now'
  BY NumberAssumption DEF Reload, BudgetInv, WorldInv, ChainInv, chain
<1>. QED  BY <1>3, <1>4, <1>5, FS_EmptySet
          DEF Reload, BudgetInv, WorldInv, ChainInv, SeenInv, OrphanInv, ImmatureInv, FeeInv, VotesInv, chain

(* The invariant after a step of the node that only adds to the votes: l   *)
(* is the map after it, and every vote that is newly seen is counted in l. *)
LEMMA NodeStep ==
    ASSUME BudgetInv, NEW l, l = known', KnownInv(l), Grows(known, l), UNCHANGED <<chain, sync, mode, enabled, list>>,
           events' \in 0 .. MaxEvents, SeenInv', OrphanInv', ImmatureInv', FeeInv(fee)', submitted' \in 0 .. now,
           \A v \in seenVotes \ lost : Waits(v) /\ v \in seenVotes' \ lost' => Waits(v)' \/ Counted(l, v),
           \A v \in (seenVotes' \ lost') \ (seenVotes \ lost) : Waits(v)' \/ Counted(l, v)
    PROVE  BudgetInv'
<1>1. WorldInv' /\ submitted' \in 0 .. now'
  BY DEF BudgetInv, WorldInv, ChainInv, chain
<1>2. KnownInv(known)'
  BY KnownInvNext, NumberAssumption DEF BudgetInv, WorldInv, ChainInv, chain
<1>3. \A v \in seenVotes' \ lost' : Waits(v)' \/ Counted(l, v)
  BY VotesStay
<1>4. VotesInv'
  BY <1>3 DEF VotesInv, Counted
<1>. QED  BY <1>1, <1>2, <1>4 DEF BudgetInv

(* A proposal or a budget from the network.                                *)
LEMMA ReceiveItemStep ==
    ASSUME BudgetInv, NEW i \in Proposals \union RemoteFinals, ReceiveItem(i)
    PROVE  /\ BudgetInv'
           /\ DOMAIN known \subseteq DOMAIN known' /\ immature \subseteq immature'
<1>. DEFINE k == Added(known, i, Theirs(i))
<1>1. i \in Items /\ Theirs(i) \in Fees
  BY TheirsType
<1>2. KnownInv(known) /\ ChainInv /\ now \in Nat /\ OrphanInv /\ Grows(known, known)
  BY RightObjects, KeepsItself DEF BudgetInv, WorldInv, ChainInv
<1>3. /\ SeenInv' /\ FeeInv(fee)' /\ submitted' \in 0 .. now /\ events' \in 0 .. MaxEvents
      /\ UNCHANGED <<chain, sync, mode, enabled, list>> /\ UNCHANGED <<seenVotes, lost>>
  BY <1>1 DEF BudgetInv, WorldInv, SeenInv, FeeInv, ReceiveItem, world
<1>4. ImmatureInv' /\ immature \subseteq immature'
  <2>1. IsFiniteSet(immature \union {i})
    BY FS_AddElement DEF BudgetInv, ImmatureInv
  <2>. QED  BY <2>1 DEF BudgetInv, ImmatureInv, ReceiveItem
<1>5. CASE UNCHANGED <<known, orphan>>
  <2>1. OrphanInv' /\ \A v : Waits(v)' <=> Waits(v)
    BY <1>2, <1>5 DEF OrphanInv, Waits
  <2>2. BudgetInv'
    BY <1>2, <1>3, <1>4, <1>5, <2>1, NodeStep
  <2>. QED  BY <1>4, <1>5, <2>2
<1>6. CASE CheckOrphanVotes(k)
  <2>1. KnownInv(k) /\ Grows(known, k)
    BY <1>1, <1>2, AddedKeeps
  <2>. HIDE DEF k
  <2>2. PICK l, o : l = known' /\ o = orphan'
    OBVIOUS
  <2>3. /\ KnownInv(l) /\ Grows(k, l)
        /\ DOMAIN o \subseteq DOMAIN orphan /\ \A j \in DOMAIN o : o[j] = orphan[j]
        /\ \A j \in DOMAIN orphan : j \in DOMAIN o \/ Counted(l, orphan[j])
    BY <1>2, <1>6, <2>1, <2>2, OrphansCounted
  <2>4. Grows(known, l)
    BY <1>2, <2>1, <2>3, GrowsTransitive DEF KnownInv
  <2>5. OrphanInv'
    BY <1>2, <2>2, <2>3 DEF OrphanInv
  <2>6. \A v : Waits(v) => Waits(v)' \/ Counted(l, v)
    BY <2>2, <2>3 DEF Waits
  <2>7. BudgetInv'
    BY <1>3, <1>4, <2>2, <2>3, <2>4, <2>5, <2>6, NodeStep
  <2>. QED  BY <1>4, <2>2, <2>4, <2>7 DEF Grows
<1>. QED  BY <1>5, <1>6 DEF ReceiveItem

(* A vote that is refused although it is neither from the future nor too   *)
(* early is not newer than the one that is counted.                        *)
LEMMA RefusedIsOld ==
    ASSUME NEW k, Objects(k), NEW v \in Votes, v.item \in DOMAIN k, now \in Nat,
           ~Takes(k[v.item], v), ~InFuture(v), ~TooSoon(k[v.item], v)
    PROVE  Counted(k, v)
<1>1. v.time \in Nat /\ v.time <= now + Ahead
  BY NumberAssumption DEF Votes, InFuture
<1>2. v.mn \in DOMAIN k[v.item].votes /\ ~(v.time - k[v.item].votes[v.mn].time >= UpdateMin)
  BY <1>1 DEF Takes
<1>3. PICK s : s = k[v.item].votes[v.mn].time
  OBVIOUS
<1>4. s \in Nat /\ UpdateMin \in Nat
  BY <1>2, <1>3, ObjectParts, NumberAssumption
<1>5. ~(v.time - s \in 1 .. UpdateMin - 1)
  BY <1>2, <1>3 DEF TooSoon
<1>6. s >= v.time
  BY <1>1, <1>2, <1>3, <1>4, <1>5
<1>. QED  BY <1>2, <1>3, <1>6 DEF Counted

(* A vote from the network.                                                *)
LEMMA ReceiveVoteStep ==
    ASSUME BudgetInv, NEW v \in RemoteVotes, ReceiveVote(v)
    PROVE  BudgetInv' /\ DOMAIN known \subseteq DOMAIN known'
<1>1. v \in Votes /\ v.item \in Items /\ v.time \in Nat
  BY ConstantAssumption, NumberAssumption DEF Votes
<1>2. KnownInv(known) /\ now \in Nat /\ OrphanInv /\ Grows(known, known)
  BY RightObjects, KeepsItself DEF BudgetInv, WorldInv, ChainInv
<1>3. seenVotes' = seenVotes \union {v} /\ (Unsigned(v) \/ Update(v))
  BY DEF ReceiveVote
<1>4. lost \subseteq lost' /\ lost' \subseteq seenVotes'
  <2>1. CASE Unsigned(v)
    BY <1>3, <2>1 DEF BudgetInv, SeenInv, Unsigned
  <2>2. CASE Update(v)
    BY <1>3, <2>2 DEF BudgetInv, SeenInv, Update
  <2>. QED  BY <1>3, <2>1, <2>2
<1>5. /\ ImmatureInv' /\ FeeInv(fee)' /\ submitted' \in 0 .. now /\ UNCHANGED <<chain, sync, mode, enabled, list>>
      /\ events' \in 0 .. MaxEvents /\ SeenInv'
  BY <1>1, <1>4 DEF BudgetInv, WorldInv, SeenInv, ImmatureInv, FeeInv, ReceiveVote, world
<1>6. ASSUME known' = known, orphan' = orphan, v \in lost' \/ Counted(known, v)
      PROVE  BudgetInv' /\ DOMAIN known \subseteq DOMAIN known'
  <2>1. OrphanInv' /\ \A w : Waits(w)' <=> Waits(w)
    BY <1>2, <1>6 DEF OrphanInv, Waits
  <2>2. BudgetInv'
    BY <1>2, <1>3, <1>4, <1>5, <1>6, <2>1, NodeStep
  <2>. QED  BY <1>6, <2>2
<1>7. CASE Unsigned(v)
  BY <1>6, <1>7 DEF Unsigned
<1>8. CASE Update(v) /\ v.item \in DOMAIN known
  <2>1. CASE Takes(known[v.item], v)
    <3>1. PICK l : l = WithVote(known, v)
      OBVIOUS
    <3>2. KnownInv(l) /\ Grows(known, l) /\ Counted(l, v)
      BY <1>1, <1>2, <1>8, <2>1, <3>1, WithVoteKeeps
    <3>3. l = known' /\ orphan' = orphan
      BY <1>8, <2>1, <3>1 DEF Update
    <3>4. OrphanInv' /\ \A w : Waits(w)' <=> Waits(w)
      BY <1>2, <3>3 DEF OrphanInv, Waits
    <3>5. BudgetInv'
      BY <1>3, <1>4, <1>5, <3>2, <3>3, <3>4, NodeStep
    <3>. QED  BY <3>2, <3>3, <3>5 DEF Grows
  <2>2. CASE ~Takes(known[v.item], v)
    <3>1. /\ known' = known /\ orphan' = orphan
          /\ InFuture(v) \/ TooSoon(known[v.item], v) => v \in lost'
      BY <1>8, <2>2 DEF Update
    <3>2. v \in lost' \/ Counted(known, v)
      BY <1>1, <1>2, <1>8, <2>2, <3>1, RefusedIsOld DEF KnownInv
    <3>. QED  BY <1>6, <3>1, <3>2
  <2>. QED  BY <2>1, <2>2
<1>9. CASE Update(v) /\ v.item \notin DOMAIN known /\ sync = "FINISHED"
  <2>1. /\ orphan' = Put(orphan, v.item, v) /\ known' = known
        /\ lost' = lost \union ({orphan[i] : i \in {v.item} \intersect DOMAIN orphan} \intersect seenVotes)
    BY <1>9 DEF Update
  <2>2. OrphanInv' /\ Waits(v)'
    BY <1>1, <1>2, <2>1 DEF OrphanInv, Waits, Put
  <2>3. \A w \in seenVotes \ lost : Waits(w) /\ w \in seenVotes' \ lost' => Waits(w)'
    <3>. SUFFICES ASSUME NEW w \in seenVotes \ lost, Waits(w), w \notin lost' PROVE Waits(w)'
      OBVIOUS
    <3>1. w.item # v.item
      BY <2>1 DEF Waits
    <3>. QED  BY <2>1, <3>1 DEF Waits, Put
  <2>4. BudgetInv'
    BY <1>2, <1>3, <1>4, <1>5, <2>1, <2>2, <2>3, NodeStep
  <2>. QED  BY <2>1, <2>4
<1>10. CASE Update(v) /\ v.item \notin DOMAIN known /\ sync # "FINISHED"
  <2>1. orphan' = orphan /\ known' = known /\ v \in lost'
    BY <1>10 DEF Update
  <2>. QED  BY <1>6, <2>1
<1>. QED  BY <1>3, <1>7, <1>8, <1>9, <1>10

(* The commands mnbudgetvote and mnfinalbudget.                            *)
LEMMA VoteLocalStep ==
    ASSUME BudgetInv, NEW i \in LocalItems, NEW choice \in LocalChoices, VoteLocal(i, choice)
    PROVE  BudgetInv' /\ DOMAIN known \subseteq DOMAIN known'
<1>1. PICK v, l : v = OwnVote(i, choice) /\ l = WithVote(known, v)
  OBVIOUS
<1>2. i \in Items /\ choice \in {"YES", "NO"} /\ ChainInv /\ now \in Nat
  BY ConstantAssumption DEF BudgetInv, WorldInv, ChainInv
<1>3. v \in Votes /\ v.item = i /\ v.mn = Self
  BY <1>1, <1>2, OwnVoteType
<1>4. i \in DOMAIN known /\ Takes(known[i], v) /\ known' = l /\ seenVotes' = seenVotes \union {v}
  BY <1>1 DEF VoteLocal
<1>5. KnownInv(l) /\ Grows(known, l) /\ Counted(l, v)
  BY <1>1, <1>2, <1>3, <1>4, WithVoteKeeps DEF BudgetInv
<1>6. /\ ImmatureInv' /\ FeeInv(fee)' /\ OrphanInv' /\ SeenInv' /\ UNCHANGED <<chain, sync, mode, enabled, list>>
      /\ submitted' \in 0 .. now /\ events' \in 0 .. MaxEvents /\ lost' = lost /\ orphan' = orphan
  BY <1>3, <1>4 DEF BudgetInv, WorldInv, SeenInv, OrphanInv, ImmatureInv, FeeInv, VoteLocal, world
<1>7. \A w : Waits(w)' <=> Waits(w)
  BY <1>6 DEF Waits
<1>8. BudgetInv'
  BY <1>4, <1>5, <1>6, <1>7, NodeStep
<1>. QED  BY <1>4, <1>5, <1>8 DEF Grows

(* The command submitbudget.                                               *)
LEMMA SubmitBudgetStep ==
    ASSUME BudgetInv, NEW p \in Proposals, SubmitBudget(p)
    PROVE  BudgetInv' /\ DOMAIN known \subseteq DOMAIN known'
<1>1. PICK l : l = Added(known, p, Theirs(p))
  OBVIOUS
<1>2. p \in Items /\ Theirs(p) \in Fees /\ ChainInv
  BY TheirsType DEF BudgetInv, WorldInv
<1>3. KnownInv(l) /\ Grows(known, l)
  BY <1>1, <1>2, AddedKeeps DEF BudgetInv
<1>4. /\ ImmatureInv' /\ FeeInv(fee)' /\ OrphanInv' /\ SeenInv' /\ UNCHANGED <<chain, sync, mode, enabled, list>>
      /\ submitted' \in 0 .. now /\ events' \in 0 .. MaxEvents /\ UNCHANGED <<seenVotes, lost, orphan>> /\ known' = l
  BY <1>1, <1>2 DEF BudgetInv, WorldInv, SeenInv, OrphanInv, ImmatureInv, FeeInv, SubmitBudget, world
<1>5. \A w : Waits(w)' <=> Waits(w)
  BY <1>4 DEF Waits
<1>6. BudgetInv'
  BY <1>3, <1>4, <1>5, NodeStep
<1>. QED  BY <1>3, <1>4, <1>6 DEF Grows

(* The command checkbudgets.                                               *)
LEMMA CheckAndRemoveStep ==
    ASSUME BudgetInv, NEW S, CheckAndRemove(S)
    PROVE  BudgetInv' /\ DOMAIN known \subseteq DOMAIN known'
<1>1. PICK l : l = CheckedAndRemoved(known, S)
  OBVIOUS
<1>2. S \subseteq Unchecked(known) /\ ChainInv
  BY DEF BudgetInv, WorldInv, CheckAndRemove
<1>3. KnownInv(l) /\ Grows(known, l) /\ \A v \in AutoVotes(known, S) : v \in Votes /\ Counted(l, v)
  BY <1>1, <1>2, CheckedKeeps DEF BudgetInv
<1>4. /\ ImmatureInv' /\ FeeInv(fee)' /\ OrphanInv' /\ UNCHANGED <<chain, sync, mode, enabled, list>>
      /\ submitted' \in 0 .. now /\ events' \in 0 .. MaxEvents /\ UNCHANGED <<seen, lost, orphan>> /\ known' = l /\ seenVotes' = seenVotes \union AutoVotes(known, S)
  BY <1>1 DEF BudgetInv, WorldInv, OrphanInv, ImmatureInv, FeeInv, CheckAndRemove, world
<1>5. SeenInv'
  BY <1>3, <1>4 DEF BudgetInv, SeenInv
<1>6. \A w : Waits(w)' <=> Waits(w)
  BY <1>4 DEF Waits
<1>7. BudgetInv'
  BY <1>3, <1>4, <1>5, <1>6, NodeStep
<1>. QED  BY <1>3, <1>4, <1>7 DEF Grows

(* NewBlock starts from what SubmitFinalBudget leaves.                     *)
LEMMA WorkIs ==
    ASSUME BudgetInv, Work
    PROVE  \E a : Submitted(a) /\ \E S \in SUBSET Unchecked(a.known), forget \in BOOLEAN : NewBlock(a, S, forget)
<1>1. PICK a \in {NotSubmitted, SubmitFinalBudget} :
         \E S \in SUBSET Unchecked(a.known), forget \in BOOLEAN : NewBlock(a, S, forget)
  BY DEF Work
<1>2. Submitted(a)
  BY SubmitKeeps DEF BudgetInv, WorldInv, SeenInv
<1>. QED  BY <1>1, <1>2

(* NewBlock's maps: the votes are checked and cleaned, and the items that  *)
(* waited for their fee come in.                                           *)
LEMMA NewBlockMaps ==
    ASSUME BudgetInv, NEW a, Submitted(a), NEW S \in SUBSET Unchecked(a.known),
           NEW m, m = Matured(Cleaned(CheckedAndRemoved(a.known, S), Items))
    PROVE  /\ KnownInv(m.known) /\ Grows(known, m.known) /\ m.immature \subseteq immature
           /\ \A v \in AutoVotes(a.known, S) : v \in Votes /\ Counted(m.known, v)
           /\ \A i \in immature : i \in m.immature \/ i \in DOMAIN m.known \/ ~Permitted(i, New(Theirs(i)))
<1>1. PICK b, c : b = CheckedAndRemoved(a.known, S) /\ c = Cleaned(b, Items)
  OBVIOUS
<1>2. /\ KnownInv(known) /\ ChainInv
      /\ immature \subseteq Proposals \union RemoteFinals /\ IsFiniteSet(immature)
  BY DEF BudgetInv, WorldInv, ImmatureInv
<1>3. KnownInv(a.known) /\ Grows(known, a.known)
  BY DEF Submitted
<1>4. KnownInv(b) /\ Grows(a.known, b) /\ \A v \in AutoVotes(a.known, S) : v \in Votes /\ Counted(b, v)
  BY <1>1, <1>2, <1>3, CheckedKeeps
<1>5. KnownInv(c) /\ Grows(b, c)
  BY <1>1, <1>4, CleanedKeeps
<1>6. /\ KnownInv(m.known) /\ Grows(c, m.known) /\ m.immature \subseteq immature
      /\ \A i \in immature : i \in m.immature \/ i \in DOMAIN m.known \/ ~Permitted(i, New(Theirs(i)))
  BY <1>1, <1>2, <1>5, MaturedKeeps
<1>7. Objects(known) /\ Objects(a.known) /\ Objects(b) /\ Objects(c) /\ Objects(m.known)
  BY <1>2, <1>3, <1>4, <1>5, <1>6 DEF KnownInv
<1>8. Grows(b, m.known)
  BY <1>5, <1>6, <1>7, GrowsTransitive
<1>9. Grows(known, b)
  BY <1>3, <1>4, <1>7, GrowsTransitive
<1>10. Grows(known, m.known)
  BY <1>7, <1>8, <1>9, GrowsTransitive
<1>11. \A v \in AutoVotes(a.known, S) : v \in Votes /\ Counted(m.known, v)
  BY <1>4, <1>7, <1>8, CountedStays
<1>. QED  BY <1>6, <1>10, <1>11

(* NewBlock.                                                               *)
LEMMA WorkStep ==
    ASSUME BudgetInv, Work
    PROVE  /\ BudgetInv' /\ DOMAIN known \subseteq DOMAIN known'
           /\ \A i \in immature : i \in immature' \/ i \in DOMAIN known' \/ ~Permitted(i, New(Theirs(i)))
<1>1. PICK a : Submitted(a) /\ \E S \in SUBSET Unchecked(a.known), forget \in BOOLEAN : NewBlock(a, S, forget)
  BY WorkIs
<1>2. PICK S \in SUBSET Unchecked(a.known), forget \in BOOLEAN : NewBlock(a, S, forget)
  BY <1>1
<1>3. PICK m : m = Matured(Cleaned(CheckedAndRemoved(a.known, S), Items))
  OBVIOUS
<1>4. /\ KnownInv(m.known) /\ Grows(known, m.known) /\ m.immature \subseteq immature
      /\ \A v \in AutoVotes(a.known, S) : v \in Votes /\ Counted(m.known, v)
      /\ \A i \in immature : i \in m.immature \/ i \in DOMAIN m.known \/ ~Permitted(i, New(Theirs(i)))
  BY <1>1, <1>3, NewBlockMaps
<1>5. /\ FeeInv(fee)' /\ OrphanInv' /\ submitted' \in 0 .. now /\ UNCHANGED <<chain, sync, mode, enabled, list>>
      /\ orphan' = orphan
  BY <1>1, <1>2 DEF BudgetInv, FeeInv, OrphanInv, Submitted, NewBlock
<1>6. \A w : Waits(w)' <=> Waits(w)
  BY <1>5 DEF Waits
<1>7. CASE known' = a.known /\ seen' = a.seen /\ UNCHANGED <<seenVotes, immature, lost, events>>
  <2>1. SeenInv' /\ ImmatureInv' /\ events' \in 0 .. MaxEvents
    BY <1>1, <1>7 DEF BudgetInv, WorldInv, SeenInv, ImmatureInv, Submitted
  <2>2. PICK l : l = known'
    OBVIOUS
  <2>3. KnownInv(l) /\ Grows(known, l)
    BY <1>1, <1>7, <2>2 DEF Submitted
  <2>4. BudgetInv'
    BY <1>5, <1>6, <1>7, <2>1, <2>2, <2>3, NodeStep
  <2>. QED  BY <1>7, <2>2, <2>3, <2>4 DEF Grows
<1>8. CASE /\ forget => events < MaxEvents
           /\ events' = IF forget THEN events + 1 ELSE events
           /\ known' = m.known /\ immature' = m.immature
           /\ seen' = IF forget THEN {} ELSE a.seen
           /\ seenVotes' = (IF forget THEN {} ELSE seenVotes) \union AutoVotes(a.known, S)
           /\ lost' = IF forget THEN {} ELSE lost
  <2>1. events' \in 0 .. MaxEvents
    BY <1>8, NumberAssumption DEF BudgetInv, WorldInv
  <2>2. SeenInv'
    BY <1>1, <1>4, <1>8 DEF BudgetInv, SeenInv, Submitted
  <2>3. ImmatureInv'
    <3>1. IsFiniteSet(m.immature)
      BY <1>4, FS_Subset DEF BudgetInv, ImmatureInv
    <3>. QED  BY <1>4, <1>8, <3>1 DEF BudgetInv, ImmatureInv
  <2>4. PICK l : l = known'
    OBVIOUS
  <2>5. KnownInv(l) /\ Grows(known, l) /\ \A v \in AutoVotes(a.known, S) : Counted(l, v)
    BY <1>4, <1>8, <2>4
  <2>6. \A v \in (seenVotes' \ lost') \ (seenVotes \ lost) : Counted(l, v)
    BY <1>8, <2>5
  <2>7. BudgetInv'
    BY <1>5, <1>6, <2>1, <2>2, <2>3, <2>4, <2>5, <2>6, NodeStep
  <2>. QED  BY <1>4, <1>8, <2>4, <2>5, <2>7 DEF Grows
<1>. QED  BY <1>2, <1>3, <1>7, <1>8 DEF NewBlock

(* Every step keeps the invariant.                                         *)
LEMMA BudgetNextInv ==
    ASSUME BudgetInv, [BudgetNext]_budgetVars
    PROVE  BudgetInv'
<1>1. CASE \E i \in Proposals \union RemoteFinals : ReceiveItem(i)
  BY <1>1, ReceiveItemStep
<1>2. CASE \E v \in RemoteVotes : ReceiveVote(v)
  BY <1>2, ReceiveVoteStep
<1>3. CASE \E i \in LocalItems, choice \in LocalChoices : VoteLocal(i, choice)
  BY <1>3, VoteLocalStep
<1>4. CASE \E p \in Proposals : SubmitBudget(p)
  BY <1>4, SubmitBudgetStep
<1>5. CASE \E S \in SUBSET Unchecked(known) : CheckAndRemove(S)
  BY <1>5, CheckAndRemoveStep
<1>6. CASE WorldStep
  BY <1>6, WorldSteps
<1>. QED  BY <1>1, <1>2, <1>3, <1>4, <1>5, <1>6, ClearStep, ReloadStep, WorkStep DEF BudgetNext, WorldStep

(* The invariant holds in every reachable state.                           *)
THEOREM BudgetInvariance == BudgetSpec => []BudgetInv
<1>1. BudgetInit => BudgetInv
  BY BudgetInitInv
<1>2. BudgetInv /\ [BudgetNext]_budgetVars => BudgetInv'
  BY BudgetNextInv
<1>. QED  BY <1>1, <1>2, PTL DEF BudgetSpec

-----------------------------------------------------------------------------
(* The theorems.                                                           *)

(* The maps hold objects of their types, and every vote counted is one the *)
(* rules of AddOrUpdateVote allow.                                         *)
THEOREM BudgetTypeCorrect == BudgetSpec => []BudgetTypeOK
<1>1. BudgetInv => BudgetTypeOK
  <2>. SUFFICES ASSUME BudgetInv PROVE BudgetTypeOK
    OBVIOUS
  <2>1. DOMAIN known \subseteq Items /\ Objects(known)
    BY DEF BudgetInv, KnownInv, Objects
  <2>2. ASSUME NEW i \in DOMAIN known
        PROVE  /\ [fee |-> known[i].fee, time |-> known[i].time,
                    valid |-> known[i].valid, checked |-> known[i].checked] \in Records
               /\ DOMAIN known[i].votes \subseteq Masternodes
               /\ \A m \in DOMAIN known[i].votes : known[i].votes[m].time <= now + Ahead
               /\ known[i].checked => i \in Finals
    <3>1. /\ known[i].fee \in Fees /\ known[i].time \in 0 .. MaxHeight
          /\ known[i].valid \in BOOLEAN /\ known[i].checked \in BOOLEAN
          /\ DOMAIN known[i].votes \subseteq Masternodes
      BY <2>1, ObjectParts
    <3>. QED  BY <3>1 DEF BudgetInv, KnownInv, Records
  <2>3. /\ height \in FirstHeight .. now /\ now <= MaxHeight /\ submitted \in 0 .. now
        /\ DOMAIN mined \subseteq Fees /\ (\A t \in DOMAIN mined : mined[t] <= height) /\ locked \subseteq Fees
    BY NumberAssumption DEF BudgetInv, WorldInv, ChainInv
  <2>. QED  BY <2>1, <2>2, <2>3 DEF BudgetTypeOK, BudgetInv, WorldInv, SeenInv, OrphanInv, ImmatureInv, FeeInv
<1>. QED  BY <1>1, BudgetInvariance, PTL

(* No vote that was seen is lost but in the five ways SeenVotesCounted     *)
(* names: neither NewBlock nor AutoCheck, an orphan that is tried again or *)
(* a newer vote makes a vote of another masternode disappear.              *)
THEOREM VotesAreCounted == BudgetSpec => []SeenVotesCounted
<1>1. BudgetInv => SeenVotesCounted
  BY DEF BudgetInv, VotesInv, Waits, Counted, SeenVotesCounted
<1>. QED  BY <1>1, BudgetInvariance, PTL

(* The superblock that a node makes passes its own check.                  *)
THEOREM OwnBlocksAccepted == BudgetSpec => []OwnBlockAccepted
<1>1. BudgetInv => OwnBlockAccepted
  <2>. SUFFICES ASSUME BudgetInv, NEW h, h = height + 1, enabled >= 10, IsBudgetPaymentBlock(h)
       PROVE  FillBlockPayee(h) # {} /\ \A p \in FillBlockPayee(h) : IsTransactionValid(p, h)
    BY DEF OwnBlockAccepted
  <2>. DEFINE C == Covering(h)
              count == [f \in C |-> GetVoteCount(known, f)]
              N == {0} \union {GetVoteCount(known, f) : f \in C}
  <2>1. enabled \in Nat /\ KnownInv(known) /\ Objects(known)
    BY DEF BudgetInv, WorldInv, KnownInv
  <2>2. C \subseteq DOMAIN known /\ IsFiniteSet(C)
    <3>1. C \subseteq DOMAIN known
      BY DEF Covering
    <3>. QED  BY <2>1, <3>1, FS_Subset DEF Objects
  <2>3. \A f \in C : GetVoteCount(known, f) \in Nat
    <3>. SUFFICES ASSUME NEW f \in C PROVE GetVoteCount(known, f) \in Nat
      OBVIOUS
    <3>1. DOMAIN known[f].votes \subseteq Masternodes
      BY <2>1, <2>2, ObjectParts
    <3>2. Cardinality(DOMAIN known[f].votes) \in Nat
      BY <3>1, ConstantAssumption, FS_Subset, FS_CardinalityType
    <3>. QED  BY <3>2 DEF GetVoteCount
  <2>4. \E x \in N : \A y \in N : x >= y
    <3>1. CASE C = {}
      BY <3>1
    <3>2. CASE C # {}
      <4>1. \A f \in C : count[f] \in Int
        BY <2>3
      <4>. HIDE DEF count
      <4>2. PICK g \in C : \A f \in C : count[g] >= count[f]
        BY <2>2, <3>2, <4>1, Greatest
      <4>3. \A f \in C : GetVoteCount(known, g) >= GetVoteCount(known, f)
        BY <4>2 DEF count
      <4>4. \A y \in N : GetVoteCount(known, g) >= y
        BY <2>3, <4>3
      <4>. QED  BY <4>4
    <3>. QED  BY <3>1, <3>2
  <2>5. HighestCount(h) \in N /\ \A y \in N : HighestCount(h) >= y
    BY <2>4 DEF HighestCount, Max
  <2>. HIDE DEF C
  <2>6. HighestCount(h) > enabled \div 20 /\ enabled \div 20 \in Nat /\ HighestCount(h) \in Nat
    BY <2>1, <2>3, <2>5 DEF IsBudgetPaymentBlock
  <2>7. PICK g \in C : GetVoteCount(known, g) = HighestCount(h)
    BY <2>5, <2>6
  <2>8. enabled \div 10 >= 1 /\ enabled \div 10 \in Nat
    BY <2>1
  <2>9. ASSUME NEW p \in FillBlockPayee(h) PROVE IsTransactionValid(p, h)
    <3>1. PICK f \in C : GetVoteCount(known, f) = HighestCount(h) /\ p = PaidBy(f, h)
      BY DEF FillBlockPayee, C
    <3>2. GetVoteCount(known, f) > HighestCount(h) - enabled \div 10
      BY <2>6, <2>8, <3>1
    <3>. QED  BY <2>6, <3>1, <3>2 DEF IsTransactionValid, C
  <2>10. PaidBy(g, h) \in FillBlockPayee(h)
    BY <2>7 DEF FillBlockPayee, C
  <2>. QED  BY <2>9, <2>10
<1>. QED  BY <1>1, BudgetInvariance, PTL

(* The budgets that a node suggests, or its masternode votes for by        *)
(* itself, are sound.                                                      *)
THEOREM SoundBudgetsOnly == BudgetSpec => OnlySoundBudgets
<1>1. ASSUME NEW f, NEW k, KnownInv(k), SameProposals(k), NEW S, OwnVote(f, "YES") \in AutoVotes(k, S)
      PROVE  Sound(f.payments)
  <2>1. PICK g \in S : OwnVote(f, "YES") = OwnVote(g, "YES") /\ Matches(g, GetBudget(Cleaned(k, Proposals)))
    BY <1>1, AutoVotesAre
  <2>2. g = f
    BY <2>1 DEF OwnVote
  <2>3. f.payments = GetBudget(Cleaned(k, Proposals))
    BY <2>1, <2>2 DEF Matches
  <2>. QED  BY <1>1, <2>3, SoundBudget
<1>2. ASSUME BudgetInv, NEW S \in SUBSET Unchecked(known), CheckAndRemove(S), NEW f \in Finals,
             f \in seen' \ seen \/ OwnVote(f, "YES") \in seenVotes' \ seenVotes
      PROVE  Sound(f.payments)
  <2>1. OwnVote(f, "YES") \in AutoVotes(known, S)
    BY <1>2 DEF CheckAndRemove
  <2>2. KnownInv(known) /\ SameProposals(known)
    BY <1>2 DEF BudgetInv, SameProposals
  <2>. QED  BY <1>1, <2>1, <2>2
<1>3. ASSUME BudgetInv, Work, NEW f \in Finals,
             f \in seen' \ seen \/ OwnVote(f, "YES") \in seenVotes' \ seenVotes
      PROVE  Sound(f.payments)
  <2>1. PICK a : Submitted(a) /\ \E S \in SUBSET Unchecked(a.known), forget \in BOOLEAN : NewBlock(a, S, forget)
    BY <1>3, WorkIs
  <2>2. PICK S \in SUBSET Unchecked(a.known), forget \in BOOLEAN : NewBlock(a, S, forget)
    BY <2>1
  <2>3. CASE f \in seen' \ seen
    <3>1. f \in a.seen
      BY <2>2, <2>3 DEF NewBlock
    <3>. QED  BY <2>1, <2>3, <3>1 DEF Submitted
  <2>4. CASE OwnVote(f, "YES") \in seenVotes' \ seenVotes
    <3>1. OwnVote(f, "YES") \in AutoVotes(a.known, S)
      BY <2>2, <2>4 DEF NewBlock
    <3>2. KnownInv(a.known) /\ SameProposals(a.known)
      BY <2>1 DEF Submitted
    <3>. QED  BY <1>1, <3>1, <3>2
  <2>. QED  BY <1>3, <2>3, <2>4
<1>4. BudgetInv /\ [BudgetNext]_budgetVars =>
         [\A f \in Finals :
            /\ f \in seen' \ seen \/ OwnVote(f, "YES") \in seenVotes' \ seenVotes
            /\ ByItself
            => Sound(f.payments)]_budgetVars
  BY <1>2, <1>3 DEF ByItself
<1>. QED  BY <1>4, BudgetInvariance, PTL DEF BudgetSpec, OnlySoundBudgets

(* An item that was accepted is kept until a reset or a restart, however   *)
(* its fee fares, unless it expired while it waited for it.                *)
THEOREM ItemsAreKept == BudgetSpec => ItemsKept
<1>1. ASSUME BudgetInv, BudgetNext, events' = events, NEW i \in immature \union DOMAIN known
      PROVE  i \in immature' \union DOMAIN known' \/ ~Permitted(i, New(Theirs(i)))
  <2>1. CASE immature \subseteq immature' /\ DOMAIN known \subseteq DOMAIN known'
    BY <2>1
  <2>2. CASE Work
    BY <1>1, <2>2, WorkStep
  <2>3. events + 1 # events'
    BY <1>1 DEF BudgetInv, WorldInv
  <2>4. CASE \E j \in Proposals \union RemoteFinals : ReceiveItem(j)
    BY <1>1, <2>1, <2>4, ReceiveItemStep
  <2>5. CASE \E v \in RemoteVotes : ReceiveVote(v)
    BY <1>1, <2>1, <2>5, ReceiveVoteStep DEF ReceiveVote
  <2>6. CASE \E j \in LocalItems, choice \in LocalChoices : VoteLocal(j, choice)
    BY <1>1, <2>1, <2>6, VoteLocalStep DEF VoteLocal
  <2>7. CASE \E p \in Proposals : SubmitBudget(p)
    BY <1>1, <2>1, <2>7, SubmitBudgetStep DEF SubmitBudget
  <2>8. CASE \E S \in SUBSET Unchecked(known) : CheckAndRemove(S)
    BY <1>1, <2>1, <2>8, CheckAndRemoveStep DEF CheckAndRemove
  <2>9. CASE WorldStep
    BY <1>1, <2>1, <2>9, WorldSteps DEF node
  <2>10. CASE Clear \/ Reload
    BY <2>3, <2>10 DEF Clear, Reload
  <2>. QED  BY <1>1, <2>2, <2>4, <2>5, <2>6, <2>7, <2>8, <2>9, <2>10 DEF BudgetNext, WorldStep
<1>2. BudgetInv /\ [BudgetNext]_budgetVars =>
         [events' = events =>
            \A i \in immature \union DOMAIN known :
                i \in immature' \union DOMAIN known' \/ ~Permitted(i, New(Theirs(i)))]_budgetVars
  BY <1>1
<1>. QED  BY <1>2, BudgetInvariance, PTL DEF BudgetSpec, ItemsKept

=============================================================================
