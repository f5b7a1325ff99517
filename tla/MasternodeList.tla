--------------------------- MODULE MasternodeList ---------------------------
(***************************************************************************)
(* One masternode in the lists of the nodes (masternode.cpp,               *)
(* masternodeman.cpp) and on the node that runs it (activemasternode.cpp): *)
(* it is announced by broadcasts ("mnb"), which the wallet that holds the  *)
(* collateral signs, stays enabled as long as its pings ("mnp") arrive,    *)
(* expires, is removed, and is asked for again ("dseg").                   *)
(*                                                                         *)
(* Time is kept as ages in ticks. A broadcast is its number, later ones    *)
(* having a later sigTime, and the age of the ping in it. Pings are signed *)
(* at most once a tick. What has not arrived at the next tick is lost, but *)
(* an old broadcast may turn up again.                                     *)
(* Until the network is steady the ticks come at will: messages are lost   *)
(* and nodes sleep. From then on everything that can happen happens before *)
(* the next tick, as messages, pings and checks take minutes and a         *)
(* masternode expires after two hours.                                     *)
(***************************************************************************)
EXTENDS Integers, FiniteSets

CONSTANTS
    Nodes, Hot,             \* Hot runs the masternode
    PingValid, Expiration, Removal, \* ages: 1 hour, MASTERNODE_EXPIRATION_SECONDS, _REMOVAL_SECONDS
    SeenExpiration,         \* twice MASTERNODE_REMOVAL_SECONDS
    MaxBroadcast,           \* bound on the broadcasts signed
    MaxEvents,              \* bound on restarts, crashes and the like; not on lost and late messages
    None

ASSUME ConstantAssumption ==
    /\ Hot \in Nodes
    /\ {PingValid, Expiration, Removal, SeenExpiration, MaxBroadcast, MaxEvents} \subseteq Nat
    /\ 0 < PingValid /\ PingValid < Expiration /\ Expiration < Removal /\ Removal < SeenExpiration

Broadcasts == 1 .. MaxBroadcast
Ages == 0 .. SeenExpiration
States == {"ENABLED", "EXPIRED", "VIN_SPENT", "REMOVE"}

VARIABLES
    entry,      \* vMasternodes: the entry of the masternode on each node, or None
    seen,       \* mapSeenMasternodeBroadcast: the age of lastPing of each broadcast, or None
    seenPing,   \* the nodes that have this tick's ping in mapSeenMasternodePing
    asked,      \* mWeAskedForMasternodeListEntry has the masternode
    mnb,        \* the broadcasts on their way to each node
    mnp,        \* the nodes that this tick's ping is on its way to
    dseg,       \* the node each node is asking for the masternode, or None
    status,     \* CActiveMasternode::status of Hot
    hotVin,     \* CActiveMasternode::vin is set
    pinged,     \* in the steady network: Hot has run ManageStatus in this tick
    checked,    \* the nodes that have run CheckAndRemove in this tick
    latest,     \* the number of broadcasts signed
    recent,     \* the latest was signed in this tick (MASTERNODE_MIN_MNB_SECONDS)
    spent,      \* the collateral is spent
    steady,     \* messages are no longer lost, and nodes no longer fail
    events      \* the restarts, crashes, failed locks, losses of sync and spendings so far

vars == <<entry, seen, seenPing, asked, mnb, mnp, dseg, status, hotVin, pinged, checked,
          latest, recent, spent, steady, events>>

net == <<mnb, mnp, dseg>>
active == <<status, hotVin, pinged>>
world == <<latest, recent, spent, steady>>

-----------------------------------------------------------------------------
(* CMasternode.                                                            *)

(* CMasternode::Check; the collateral is looked at only if cs_main is free.*)
Check(e, free) ==
    IF e = None \/ e.state = "VIN_SPENT" THEN e
    ELSE [e EXCEPT !.state =
            CASE e.ping >= Removal -> "REMOVE"
              [] e.ping >= Expiration /\ e.ping < Removal -> "EXPIRED"
              [] e.ping < Expiration /\ ~free -> e.state
              [] e.ping < Expiration /\ free -> IF spent THEN "VIN_SPENT" ELSE "ENABLED"]

(* Something rare; it is counted.                                          *)
Event == ~steady /\ events < MaxEvents /\ events' = events + 1

(* TRY_LOCK(cs_main).                                                      *)
Try(free) == IF free THEN events' = events ELSE Event

IsEnabled(e) == e # None /\ e.state = "ENABLED"

(* CMasternodePing::CheckAndUpdate takes a ping: it is not older than an   *)
(* hour and newer than the last one.                                       *)
PingTaken(e, age, requireEnabled) ==
    /\ age < PingValid
    /\ e # None /\ (requireEnabled => IsEnabled(e))
    /\ age < e.ping

(* The entry and the broadcast it came from after that.                    *)
Pinged(e, age, free) == Check([e EXCEPT !.ping = age], free)
SeenPinged(s, e, age) == IF s[e.number] = None THEN s ELSE [s EXCEPT ![e.number] = age]

(* CMasternode::UpdateFromNewBroadcast.                                    *)
Updated(e, b, free) ==
    LET newer == [e EXCEPT !.number = b.number]
    IN  IF b.number <= e.number THEN e
        ELSE IF PingTaken(e, b.ping, FALSE) THEN Pinged(newer, b.ping, free) ELSE newer

-----------------------------------------------------------------------------
(* Messages.                                                               *)

Relay(queue, n, b) == [x \in Nodes |-> IF x = n THEN queue[x] ELSE queue[x] \union {b}]

(* AskForMN, once until the next tick or until the entry is removed: the   *)
(* node that sent the ping is asked.                                       *)
AskForMN(n) ==
    LET senders == {x \in seenPing \ {n} : entry[x] # None /\ entry[x].ping = 0}
    IN  IF asked[n] THEN UNCHANGED <<asked, dseg>>
        ELSE /\ asked' = [asked EXCEPT ![n] = TRUE]
             /\ dseg' \in {[dseg EXCEPT ![n] = peer] : peer \in IF senders = {} THEN {None} ELSE senders}

(* Mutant: the vin is not taken over.                                      *)
EnableHotColdMasterNodeNoVin == status' = "STARTED" /\ hotVin' = hotVin

EnableHotColdMasterNode == status' = "STARTED" /\ hotVin' = TRUE

(* Mutant: an older broadcast is not refused.                              *)
TooOldNever(e, b) == FALSE

(* "this broadcast older than we have, it's bad."                          *)
TooOld(e, b) == e # None /\ e.number > b.number

(* "mnb", CMasternodeBroadcast::CheckAndUpdate and CheckInputsAndAdd. What *)
(* is seen is not looked at again, whether it was taken or not, unless     *)
(* cs_main was not free or the collateral has too few confirmations yet.   *)
ReceiveBroadcast(n, b, ready, free) ==
    LET e == entry[n]
        update == IsEnabled(e) /\ ~(recent /\ e.number = latest) /\ b.number > e.number
        own == n = Hot /\ hotVin
        f == IF update THEN Check(Updated(e, b, free), free) ELSE e
        replace == ~TooOld(e, b) /\ ~own /\ ~IsEnabled(f)
        add == replace /\ ready /\ ~spent
        known == seen[n][b.number] # None
        rest == [mnb EXCEPT ![n] = @ \ {b}]
    IN  /\ b \in mnb[n]
        /\ ready \/ (~steady /\ ~known /\ replace)
        /\ free \/ (~known /\ update)
        /\ Try(free)
        /\ IF known
           THEN UNCHANGED <<entry, seen>>
           ELSE /\ seen' = [seen EXCEPT ![n][b.number] = IF ready THEN b.ping ELSE None]
                /\ entry' = [entry EXCEPT ![n] =
                      CASE TooOld(e, b) -> e
                        [] ~TooOld(e, b) /\ ~replace -> f
                        [] replace /\ ~add -> None
                        [] add -> [number |-> b.number, ping |-> b.ping, state |-> "ENABLED"]]
        /\ mnb' = IF ~known /\ ((update /\ IsEnabled(f)) \/ add) THEN Relay(rest, n, b) ELSE rest
        /\ IF n = Hot /\ ~known /\ add
           THEN EnableHotColdMasterNode
           ELSE UNCHANGED <<status, hotVin>>
        /\ UNCHANGED <<seenPing, asked, mnp, dseg, pinged, checked, world>>

(* "mnp".                                                                  *)
ReceivePing(n, free) ==
    /\ n \in mnp /\ Try(free)
    /\ seenPing' = seenPing \union {n}
    /\ IF n \notin seenPing /\ PingTaken(entry[n], 0, TRUE)
       THEN /\ entry' = [entry EXCEPT ![n] = Pinged(@, 0, free)]
            /\ seen' = [seen EXCEPT ![n] = SeenPinged(@, entry[n], 0)]
            /\ mnp' = IF IsEnabled(Pinged(entry[n], 0, free)) THEN (mnp \union Nodes) \ {n} ELSE mnp \ {n}
            /\ UNCHANGED <<asked, dseg>>
       ELSE /\ mnp' = mnp \ {n}
            /\ IF n \notin seenPing /\ entry[n] = None THEN AskForMN(n) ELSE UNCHANGED <<asked, dseg>>
            /\ UNCHANGED <<entry, seen>>
    /\ UNCHANGED <<mnb, active, checked, world>>

(* "dseg" for the entry, the inventory and the request that follow it.     *)
AnswerDseg(n) ==
    LET peer == dseg[n]
        e == entry[peer]
    IN  /\ peer # None
        /\ dseg' = [dseg EXCEPT ![n] = None]
        /\ IF IsEnabled(e)
           THEN LET s == IF seen[peer][e.number] = None THEN [seen[peer] EXCEPT ![e.number] = e.ping] ELSE seen[peer]
                IN  /\ seen' = [seen EXCEPT ![peer] = s]
                    /\ mnb' = IF seen[n][e.number] # None THEN mnb
                              ELSE [mnb EXCEPT ![n] = @ \union {[number |-> e.number, ping |-> s[e.number]]}]
           ELSE UNCHANGED <<seen, mnb>>
        /\ UNCHANGED <<entry, seenPing, asked, mnp, active, checked, world, events>>

-----------------------------------------------------------------------------
(* Periodic work.                                                          *)

(* "erase all of the broadcasts we've seen from this vin".                 *)
Forgotten(s) == [b \in Broadcasts |-> None]

(* Mutant: the broadcasts of a masternode that is gone stay seen.          *)
ExpiredNever(s) == s

(* "remove expired mapSeenMasternodeBroadcast". The loop goes on to read   *)
(* the element after the erased one; behind the last this may crash.       *)
Expired(s) == [b \in Broadcasts |-> IF s[b] = SeenExpiration THEN None ELSE s[b]]

(* What a node stores in mncache.dat, and a file that is missing.          *)
Stored(n) == [entry |-> entry[n], seen |-> seen[n], asked |-> asked[n], pinged |-> n \in seenPing]
Empty == [entry |-> None, seen |-> [b \in Broadcasts |-> None], asked |-> FALSE, pinged |-> FALSE]

(* CheckAndRemove of what node n has in m; forced removes what has expired *)
(* too.                                                                    *)
CheckedAndRemoved(n, m, forced, free) ==
    LET e == Check(m.entry, free)
        remove == e # None /\ e.state \in {"REMOVE", "VIN_SPENT"} \union (IF forced THEN {"EXPIRED"} ELSE {})
    IN  /\ entry' = [entry EXCEPT ![n] = IF remove THEN None ELSE e]
        /\ seen' = [seen EXCEPT ![n] = IF remove THEN Forgotten(m.seen) ELSE Expired(m.seen)]
        /\ asked' = [asked EXCEPT ![n] = m.asked /\ ~remove]

CheckAndRemove(n, free) ==
    /\ n \notin checked /\ Try(free)
    /\ checked' = IF steady THEN checked \union {n} ELSE {}
    /\ CheckedAndRemoved(n, Stored(n), FALSE, free)
    /\ UNCHANGED <<seenPing, net, active, world>>

(* CActiveMasternode::ManageStatus while the blockchain is not synced.     *)
ManageStatusUnsynced ==
    /\ Event
    /\ status' = "SYNC_IN_PROCESS"
    /\ UNCHANGED <<entry, seen, seenPing, asked, net, hotVin, pinged, checked, world>>

(* The attempt to start that ManageStatus makes first after the start and  *)
(* after a synchronisation: the entry, and whether it is a start.          *)
Beginning == status \in {"INITIAL", "SYNC_IN_PROCESS"}
OwnEntry(free) == IF Beginning THEN Check(entry[Hot], free) ELSE entry[Hot]
Starts(free) == Beginning /\ IsEnabled(OwnEntry(free))

(* CActiveMasternode::ManageStatus on a node that is synced and has no     *)
(* wallet with the collateral: SendMasternodePing, or not capable.         *)
ManageStatus(free) ==
    LET e == OwnEntry(free)
        ping == status = "STARTED" \/ Starts(free)
    IN  /\ ~pinged /\ Try(free)
        /\ pinged' = steady
        /\ status' = IF ping /\ e # None THEN "STARTED" ELSE "NOT_CAPABLE"
        /\ hotVin' = (hotVin \/ Starts(free))
        /\ IF ping /\ e # None /\ e.ping > 0
           THEN /\ entry' = [entry EXCEPT ![Hot] = [e EXCEPT !.ping = 0]]
                /\ seen' = [seen EXCEPT ![Hot] = SeenPinged(@, e, 0)]
                /\ seenPing' = seenPing \union {Hot}
                /\ mnp' = Nodes \ {Hot}
           ELSE /\ entry' = [entry EXCEPT ![Hot] = e]
                /\ UNCHANGED <<seen, seenPing, mnp>>
        /\ UNCHANGED <<asked, mnb, dseg, checked, world>>

(* The same on a node whose wallet has the collateral, with too few        *)
(* confirmations ...                                                       *)
InputTooNew(free) ==
    /\ Event /\ ~spent
    /\ status # "STARTED" /\ ~Starts(free)
    /\ status' = "INPUT_TOO_NEW" /\ hotVin' = TRUE
    /\ entry' = [entry EXCEPT ![Hot] = OwnEntry(free)]
    /\ UNCHANGED <<seen, seenPing, asked, net, pinged, checked, world>>

(* ... or with enough: it registers the masternode itself.                 *)
StartFromWallet(free) ==
    LET e == OwnEntry(free)
        b == [number |-> latest + 1, ping |-> 0]
    IN  /\ latest < MaxBroadcast /\ ~spent /\ ~steady /\ Try(free)
        /\ status # "STARTED" /\ ~Starts(free)
        /\ latest' = latest + 1 /\ recent' = TRUE
        /\ status' = "STARTED" /\ hotVin' = TRUE
        /\ entry' = [entry EXCEPT ![Hot] =
              IF entry[Hot] = None THEN [number |-> b.number, ping |-> 0, state |-> "ENABLED"]
              ELSE Updated(e, b, free)]
        /\ seen' = [seen EXCEPT ![Hot][b.number] = 0]
        /\ seenPing' = seenPing \union {Hot}
        /\ mnb' = Relay(mnb, Hot, b)
        /\ UNCHANGED <<asked, mnp, dseg, pinged, checked, spent, steady>>

Older(age) == IF age < SeenExpiration THEN age + 1 ELSE age

(* A tick; in the steady network only after all work is done.              *)
Tick ==
    /\ steady => /\ pinged /\ checked = Nodes
                 /\ mnp = {} /\ \A n \in Nodes : mnb[n] = {} /\ dseg[n] = None
    /\ entry' = [n \in Nodes |-> IF entry[n] = None THEN None ELSE [entry[n] EXCEPT !.ping = Older(@)]]
    /\ seen' = [n \in Nodes |-> [b \in Broadcasts |-> IF seen[n][b] = None THEN None ELSE Older(seen[n][b])]]
    /\ seenPing' = {} /\ mnp' = {}
    /\ mnb' = [n \in Nodes |-> {}] /\ dseg' = [n \in Nodes |-> None]
    /\ asked' = [n \in Nodes |-> FALSE]
    /\ pinged' = FALSE /\ checked' = {} /\ recent' = FALSE
    /\ UNCHANGED <<status, hotVin, latest, spent, steady, events>>

-----------------------------------------------------------------------------
(* The environment.                                                        *)

(* The wallet signs a broadcast (Register) and sends it to the nodes.      *)
Register ==
    /\ latest < MaxBroadcast /\ ~spent /\ ~steady
    /\ latest' = latest + 1 /\ recent' = TRUE
    /\ mnb' = [n \in Nodes |-> mnb[n] \union {[number |-> latest + 1, ping |-> 0]}]
    /\ UNCHANGED <<entry, seen, seenPing, asked, mnp, dseg, active, checked, spent, steady, events>>

(* A broadcast arrives that was sent long ago.                             *)
LateBroadcast(n, number) ==
    /\ ~steady /\ number < latest /\ mnb[n] = {}
    /\ mnb' = [mnb EXCEPT ![n] = @ \union {[number |-> number, ping |-> Removal]}]
    /\ UNCHANGED <<entry, seen, seenPing, asked, mnp, dseg, active, checked, world, events>>

SpendCollateral ==
    /\ ~spent /\ Event
    /\ spent' = TRUE
    /\ UNCHANGED <<entry, seen, seenPing, asked, net, active, checked, latest, recent, steady>>

(* A node starts and loads m from mncache.dat (CMasternodeDB::Read).       *)
Load(n, m, free) ==
    /\ Event
    /\ CheckedAndRemoved(n, m, TRUE, free)
    /\ seenPing' = IF m.pinged THEN seenPing \union {n} ELSE seenPing \ {n}
    /\ mnb' = [mnb EXCEPT ![n] = {}] /\ mnp' = mnp \ {n} /\ dseg' = [dseg EXCEPT ![n] = None]
    /\ IF n = Hot THEN status' = "INITIAL" /\ hotVin' = FALSE ELSE UNCHANGED <<status, hotVin>>
    /\ UNCHANGED <<pinged, checked, latest, recent, spent, steady>>

(* A node stops, saves mncache.dat (DumpMasternodes), and starts again.    *)
Restart(n, free) == Load(n, Stored(n), free)

(* A node that has not stopped in order before crashes: there is no file.  *)
Crash(n) == Load(n, Empty, TRUE)

Stabilise ==
    /\ ~steady
    /\ steady' = TRUE
    /\ UNCHANGED <<entry, seen, seenPing, asked, net, active, checked, latest, recent, spent, events>>

Init ==
    /\ entry = [n \in Nodes |-> None]
    /\ seen = [n \in Nodes |-> [b \in Broadcasts |-> None]]
    /\ seenPing = {} /\ mnp = {}
    /\ asked = [n \in Nodes |-> FALSE]
    /\ mnb = [n \in Nodes |-> {}] /\ dseg = [n \in Nodes |-> None]
    /\ status = "INITIAL" /\ hotVin = FALSE /\ pinged = FALSE
    /\ checked = {}
    /\ latest = 0 /\ recent = FALSE /\ spent = FALSE
    /\ steady = FALSE /\ events = 0

(* What the nodes do by themselves.                                        *)
Work ==
    \E free \in BOOLEAN :
        \/ ManageStatus(free)
        \/ \E n \in Nodes :
              \/ CheckAndRemove(n, free) \/ ReceivePing(n, free) \/ AnswerDseg(n)
              \/ \E b \in mnb[n], ready \in BOOLEAN : ReceiveBroadcast(n, b, ready, free)

Next ==
    \/ Work
    \/ Tick
    \/ ManageStatusUnsynced \/ Register \/ SpendCollateral \/ Stabilise
    \/ \E free \in BOOLEAN :
          \/ InputTooNew(free) \/ StartFromWallet(free)
          \/ \E n \in Nodes : Restart(n, free)
    \/ \E n \in Nodes : Crash(n)
    \/ \E n \in Nodes, number \in Broadcasts : LateBroadcast(n, number)

(* Time goes on, and in the steady network what is to do gets done first.  *)
Fairness == WF_vars(steady /\ Work) /\ WF_vars(steady /\ Tick)

Spec == Init /\ [][Next]_vars /\ Fairness

-----------------------------------------------------------------------------

(* The variables have their types.                                         *)
TypeOK ==
    /\ \A n \in Nodes : entry[n] \in [number : Broadcasts, ping : Ages, state : States] \union {None}
    /\ seen \in [Nodes -> [Broadcasts -> Ages \union {None}]]
    /\ seenPing \subseteq Nodes /\ mnp \subseteq Nodes
    /\ asked \in [Nodes -> BOOLEAN]
    /\ mnb \in [Nodes -> SUBSET [number : Broadcasts, ping : Ages]]
    /\ dseg \in [Nodes -> Nodes \union {None}]
    /\ status \in {"INITIAL", "SYNC_IN_PROCESS", "INPUT_TOO_NEW", "NOT_CAPABLE", "STARTED"}
    /\ status = "STARTED" => hotVin

(* A masternode that runs and pings comes back into every list, whatever   *)
(* was lost before ("if we missed a few pings and the node was removed,    *)
(* this will allow is to get it back without them sending a brand new      *)
(* mnb"), and stays there.                                                 *)
Recovers ==
    <>[](steady /\ status = "STARTED" /\ ~spent) => <>[](\A n \in Nodes : IsEnabled(entry[n]))

(* As long as a node lists the masternode it never goes back to an older   *)
(* broadcast, and a spent collateral is not forgotten by a ping or another *)
(* broadcast that arrives later.                                           *)
NoStepBack ==
    [][\A n \in Nodes :
          entry[n] # None /\ entry'[n] # None =>
            /\ entry'[n].number >= entry[n].number
            /\ spent /\ entry[n].state = "VIN_SPENT" => entry'[n].state = "VIN_SPENT"]_vars

(* "Hot node, waiting for remote activation." (activemasternode.cpp): a new*)
(* broadcast starts a masternode that waits for it.                        *)
RemoteActivation ==
    [][\A b \in mnb[Hot] :
          /\ \E free \in BOOLEAN : ReceiveBroadcast(Hot, b, TRUE, free)
          /\ status # "STARTED" /\ ~spent /\ seen[Hot] = [x \in Broadcasts |-> None]
          => status' = "STARTED"]_vars

=============================================================================
