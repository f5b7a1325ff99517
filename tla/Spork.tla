------------------------------- MODULE Spork -------------------------------
(***************************************************************************)
(* Sporks (src/src/spork.cpp and the "spork" RPC of src/src/rpcmisc.cpp):  *)
(* network-wide settings that a node with the spork key signs and every    *)
(* other node relays, keeps in memory and acts upon.                       *)
(*                                                                         *)
(* Every node is connected to every other. "inv", "getdata" and "spork"    *)
(* are one message here: AlreadyHave, the check that may end the exchange  *)
(* early, is made when it arrives. The hash of a message stands for the    *)
(* message. Signatures are valid.                                          *)
(***************************************************************************)
EXTENDS Integers, FiniteSets

CONSTANTS
    Nodes,
    Signers,      \* nodes that SetPrivKey has given the key
    SporkIDs,
    ResetBudget,  \* SPORK_11_RESET_BUDGET
    Reconsider,   \* SPORK_12_RECONSIDER_BLOCKS
    Inputs,       \* numbers given to the RPC
    Default,      \* SPORK_..._DEFAULT of each spork
    OFF,          \* 4070908800: 2099-1-1
    HalfInt,      \* 2^31
    StartTime, MaxTime, MaxUpdates, MaxRestarts   \* bounds

ASSUME NodesAssumption == IsFiniteSet(Nodes) /\ Signers \subseteq Nodes
ASSUME NumbersAssumption ==
    /\ HalfInt \in Nat \ {0} /\ Inputs \subseteq Int /\ OFF \in Nat
    /\ \A id \in SporkIDs : Default[id] \in Int
    /\ StartTime \in Nat /\ MaxTime \in Nat /\ StartTime <= MaxTime
    /\ MaxUpdates \in Nat /\ MaxRestarts \in Nat

VARIABLES
    mapSporks,        \* [n]: the messages n can send to others
    mapSporksActive,  \* [n][id]: the message in force, for the ids in the map
    executed,         \* [n]: what ExecuteSpork has done since n started
    net,              \* <<from, to, message>>
    asked,            \* <<n, k>>: "getsporks" of n that k has not answered
    clock,            \* GetTime()
    updates, restarts

sporks == <<mapSporks, mapSporksActive>>
vars == <<sporks, executed, net, asked, clock, updates, restarts>>

(* int64_t to int, as get_int and the parameter of ExecuteSpork do it.     *)
ToInt(v) == ((v + HalfInt) % (2 * HalfInt)) - HalfInt

Message == [nSporkID : SporkIDs, nValue : {ToInt(v) : v \in Inputs},
            nTimeSigned : StartTime .. MaxTime]

Init ==
    /\ mapSporks = [n \in Nodes |-> {}]
    /\ mapSporksActive = [n \in Nodes |-> << >>]
    /\ executed = [n \in Nodes |-> {}]
    /\ net = {}
    /\ asked = {}
    /\ clock = StartTime
    /\ updates = 0
    /\ restarts = 0

-----------------------------------------------------------------------------

(* GetSporkValue.                                                          *)
GetSporkValue(n, id) ==
    IF id \in DOMAIN mapSporksActive[n] THEN mapSporksActive[n][id].nValue ELSE Default[id]

(* IsSporkActive: -1 means "not known".                                    *)
IsSporkActive(n, id) ==
    LET r == GetSporkValue(n, id) IN (IF r = -1 THEN OFF ELSE r) < clock

(* Mutant: the message is in force but cannot be served to others.         *)
StoreActiveOnly(n, m) ==
    /\ mapSporksActive' = [mapSporksActive EXCEPT
          ![n] = [id \in DOMAIN @ \union {m.nSporkID} |-> IF id = m.nSporkID THEN m ELSE @[id]]]
    /\ UNCHANGED mapSporks

(* mapSporks[hash] = spork; mapSporksActive[id] = spork.                   *)
Store(n, m) ==
    /\ mapSporks' = [mapSporks EXCEPT ![n] = @ \union {m}]
    /\ mapSporksActive' = [mapSporksActive EXCEPT
          ![n] = [id \in DOMAIN @ \union {m.nSporkID} |-> IF id = m.nSporkID THEN m ELSE @[id]]]

Relay(n, m) == {<<n, k, m>> : k \in Nodes \ {n}}

(* budget.Clear(), or ReprocessBlocks.                                     *)
Tasks(id, v) ==
    {t \in {"Clear", "ReprocessBlocks"} :
        \/ t = "Clear" /\ id = ResetBudget /\ ToInt(v) = 1
        \/ t = "ReprocessBlocks" /\ id = Reconsider /\ ToInt(v) > 0}

ExecuteSpork(n, m) ==
    executed' = [executed EXCEPT ![n] = @ \union Tasks(m.nSporkID, m.nValue)]

(* The RPC "spork <name> <value>": get_int, UpdateSpork, ExecuteSpork.     *)
UpdateSpork(n, id, v) ==
    /\ n \in Signers
    /\ updates < MaxUpdates
    /\ updates' = updates + 1
    /\ LET m == [nSporkID |-> id, nValue |-> ToInt(v), nTimeSigned |-> clock] IN
       /\ Store(n, m)
       /\ net' = net \union Relay(n, m)
       /\ ExecuteSpork(n, m)
    /\ UNCHANGED <<asked, clock, restarts>>

(* Mutant: the last message to arrive wins.                                *)
StaleOnlyKnown(n, m) == m \in mapSporks[n]

(* Mutant: any message for a spork that is set is taken for known.         *)
StaleOnceSet(n, m) == m.nSporkID \in DOMAIN mapSporksActive[n]

(* The message is not news.                                                *)
Stale(n, m) ==
    /\ m.nSporkID \in DOMAIN mapSporksActive[n]
    /\ mapSporksActive[n][m.nSporkID].nTimeSigned >= m.nTimeSigned

IgnoreSpork(k, n, m) ==
    /\ <<k, n, m>> \in net
    /\ m \in mapSporks[n] \/ Stale(n, m)
    /\ net' = net \ {<<k, n, m>>}
    /\ UNCHANGED <<sporks, executed, asked, clock, updates, restarts>>

(* ProcessSpork, "spork".                                                  *)
ProcessSpork(k, n, m) ==
    /\ <<k, n, m>> \in net
    /\ m \notin mapSporks[n] /\ ~Stale(n, m)
    /\ Store(n, m)
    /\ net' = (net \ {<<k, n, m>>}) \union Relay(n, m)
    /\ ExecuteSpork(n, m)
    /\ UNCHANGED <<asked, clock, updates, restarts>>

(* ProcessSpork, "getsporks".                                              *)
GetSporks(n, k) ==
    /\ <<n, k>> \in asked
    /\ asked' = asked \ {<<n, k>>}
    /\ net' = net \union {<<k, n, mapSporksActive[k][id]>> : id \in DOMAIN mapSporksActive[k]}
    /\ UNCHANGED <<sporks, executed, clock, updates, restarts>>

(* Sporks are in memory only. A node that starts asks its peers            *)
(* (masternode-sync.cpp:292).                                              *)
Restart(n) ==
    /\ restarts < MaxRestarts
    /\ restarts' = restarts + 1
    /\ mapSporks' = [mapSporks EXCEPT ![n] = {}]
    /\ mapSporksActive' = [mapSporksActive EXCEPT ![n] = << >>]
    /\ executed' = [executed EXCEPT ![n] = {}]
    /\ net' = {t \in net : n \notin {t[1], t[2]}}
    /\ asked' = {q \in asked : n \notin {q[1], q[2]}} \union {<<n, k>> : k \in Nodes \ {n}}
    /\ UNCHANGED <<clock, updates>>

Tick ==
    /\ clock < MaxTime
    /\ clock' = clock + 1
    /\ UNCHANGED <<sporks, executed, net, asked, updates, restarts>>

Next ==
    \/ \E n \in Nodes :
          \/ \E id \in SporkIDs, v \in Inputs : UpdateSpork(n, id, v)
          \/ Restart(n)
          \/ \E k \in Nodes : GetSporks(n, k)
    \/ \E t \in net : ProcessSpork(t[1], t[2], t[3]) \/ IgnoreSpork(t[1], t[2], t[3])
    \/ Tick

Spec == Init /\ [][Next]_vars

(* Messages on an open connection arrive.                                  *)
Deliver == \E t \in net : ProcessSpork(t[1], t[2], t[3]) \/ IgnoreSpork(t[1], t[2], t[3])
FairSpec ==
    /\ Spec
    /\ WF_vars(Deliver)
    /\ WF_vars(\E n, k \in Nodes : GetSporks(n, k))

-----------------------------------------------------------------------------
(* Properties.                                                             *)

(* The maps hold well-formed messages, each active one under its own id    *)
(* and known to mapSporks, from which "getdata" is served; what it asks    *)
(* for has been done since the node started.                               *)
TypeOK ==
    /\ \A n \in Nodes :
          /\ mapSporks[n] \subseteq Message
          /\ DOMAIN mapSporksActive[n] \subseteq SporkIDs
          /\ \A id \in DOMAIN mapSporksActive[n] :
                mapSporksActive[n][id] \in mapSporks[n] /\ mapSporksActive[n][id].nSporkID = id
          /\ \A m \in mapSporks[n] : Tasks(m.nSporkID, m.nValue) \subseteq executed[n]
    /\ net \subseteq Nodes \X Nodes \X Message
    /\ asked \subseteq Nodes \X Nodes
    /\ clock \in StartTime .. MaxTime
    /\ updates \in 0 .. MaxUpdates /\ restarts \in 0 .. MaxRestarts

(* However old messages and answers to "getsporks" overtake each other,    *)
(* the spork in force on a node is the newest one it has ever been sent    *)
(* since it started.                                                       *)
ActiveIsNewest ==
    \A n \in Nodes : \A m \in mapSporks[n] :
        /\ m.nSporkID \in DOMAIN mapSporksActive[n]
        /\ mapSporksActive[n][m.nSporkID].nTimeSigned >= m.nTimeSigned

Stamps(n) == [id \in DOMAIN mapSporksActive[n] |-> mapSporksActive[n][id].nTimeSigned]

(* All nodes come to hold sporks of the same age, across restarts of any   *)
(* of them, the signer included. (Their values may differ for good if a    *)
(* signer signs twice within a second.)                                    *)
Convergence == <>[](\A n, k \in Nodes : Stamps(n) = Stamps(k))

(* "<value> is a epoch datetime to enable or disable spork"                *)
(* (rpcmisc.cpp:278), and 4070908800 is "OFF" (spork.h:50): once the       *)
(* operator has set a spork to OFF it is not active.                       *)
OffDisables ==
    [][\A n \in Signers, id \in SporkIDs : UpdateSpork(n, id, OFF) => ~IsSporkActive(n, id)']_vars

=============================================================================
