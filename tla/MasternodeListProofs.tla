------------------------ MODULE MasternodeListProofs ------------------------
(***************************************************************************)
(* MasternodeList for any number of nodes, broadcasts and restarts: its    *)
(* type invariant, with the vin that a started masternode has, and the     *)
(* action property that no list goes back to an older broadcast.           *)
(*                                                                         *)
(* TypeOK alone is not inductive: the number of a new broadcast is in its  *)
(* type only if `latest` is, and ManageStatus computes hotVin from itself. *)
(***************************************************************************)
EXTENDS MasternodeList, TLAPS

EntryRec == [number : Broadcasts, ping : Ages, state : States]
Entries == EntryRec \union {None}
BroadcastRec == [number : Broadcasts, ping : Ages]
SeenMaps == [Broadcasts -> Ages \union {None}]
Images == [entry : Entries, seen : SeenMaps, asked : BOOLEAN, pinged : BOOLEAN]

Statuses == {"INITIAL", "SYNC_IN_PROCESS", "INPUT_TOO_NEW", "NOT_CAPABLE", "STARTED"}

IInv ==
    /\ entry \in [Nodes -> Entries]
    /\ seen \in [Nodes -> SeenMaps]
    /\ seenPing \subseteq Nodes /\ mnp \subseteq Nodes
    /\ asked \in [Nodes -> BOOLEAN]
    /\ mnb \in [Nodes -> SUBSET BroadcastRec]
    /\ dseg \in [Nodes -> Nodes \union {None}]
    /\ status \in Statuses
    /\ status = "STARTED" => hotVin
    /\ hotVin \in BOOLEAN
    /\ latest \in 0 .. MaxBroadcast

(* What a step may do to an entry: keep its number or raise it, and not    *)
(* forget a spent collateral.                                              *)
NotBack(e, f) ==
    e # None /\ f # None =>
        /\ f.number >= e.number
        /\ spent /\ e.state = "VIN_SPENT" => f.state = "VIN_SPENT"

-----------------------------------------------------------------------------
(* The entry of one node.                                                  *)

(* Ages.                                                                   *)
LEMMA AgesType ==
    /\ 0 \in Ages /\ Removal \in Ages
    /\ \A age \in Ages : Older(age) \in Ages
  BY ConstantAssumption DEF Ages, Older

(* Check sets the state and nothing else; a spent collateral stays.        *)
LEMMA CheckType ==
    ASSUME NEW e \in Entries, NEW free \in BOOLEAN
    PROVE  /\ Check(e, free) \in Entries
           /\ e = None => Check(e, free) = e
           /\ e # None => /\ Check(e, free) \in EntryRec /\ Check(e, free).number = e.number
                          /\ Check(e, free).ping = e.ping
                          /\ e.state = "VIN_SPENT" => Check(e, free) = e
<1>1. CASE e = None \/ e.state = "VIN_SPENT"
  BY <1>1 DEF Check, Entries
<1>2. CASE e # None /\ e.state # "VIN_SPENT"
  <2>. DEFINE st == CASE e.ping >= Removal -> "REMOVE"
                      [] e.ping >= Expiration /\ e.ping < Removal -> "EXPIRED"
                      [] e.ping < Expiration /\ ~free -> e.state
                      [] e.ping < Expiration /\ free -> IF spent THEN "VIN_SPENT" ELSE "ENABLED"
  <2>1. Check(e, free) = [e EXCEPT !.state = st]
    BY <1>2 DEF Check
  <2>2. e \in EntryRec
    BY <1>2 DEF Entries
  <2>3. st \in States
    <3>1. e.ping \in Int /\ Removal \in Int /\ Expiration \in Int
      BY <2>2, ConstantAssumption DEF EntryRec, Ages
    <3>2. \/ e.ping >= Removal
          \/ e.ping >= Expiration /\ e.ping < Removal
          \/ e.ping < Expiration /\ ~free
          \/ e.ping < Expiration /\ free
      BY <3>1
    <3>3. e.state \in States
      BY <2>2 DEF EntryRec
    <3>. QED  BY <3>2, <3>3 DEF States
  <2>. HIDE DEF st
  <2>. QED  BY <1>2, <2>1, <2>2, <2>3 DEF EntryRec, Entries
<1>. QED  BY <1>1, <1>2

(* A record that is checked stays one, with its number.                    *)
LEMMA CheckRecord ==
    ASSUME NEW e \in EntryRec, NEW free \in BOOLEAN
    PROVE  Check(e, free) \in EntryRec /\ Check(e, free).number = e.number
<1>. DEFINE st == CASE e.ping >= Removal -> "REMOVE"
                    [] e.ping >= Expiration /\ e.ping < Removal -> "EXPIRED"
                    [] e.ping < Expiration /\ ~free -> e.state
                    [] e.ping < Expiration /\ free -> IF spent THEN "VIN_SPENT" ELSE "ENABLED"
<1>1. Check(e, free) = e \/ Check(e, free) = [e EXCEPT !.state = st]
  BY DEF Check
<1>2. st \in States
  <2>1. e.ping \in Int /\ Removal \in Int /\ Expiration \in Int /\ e.state \in States
    BY ConstantAssumption DEF EntryRec, Ages
  <2>2. \/ e.ping >= Removal
        \/ e.ping >= Expiration /\ e.ping < Removal
        \/ e.ping < Expiration /\ ~free
        \/ e.ping < Expiration /\ free
    BY <2>1
  <2>. QED  BY <2>1, <2>2 DEF States
<1>. HIDE DEF st
<1>. QED  BY <1>1, <1>2 DEF EntryRec

(* A ping sets the age of an entry.                                        *)
LEMMA PingedType ==
    ASSUME NEW e \in EntryRec, NEW age \in Ages, NEW free \in BOOLEAN
    PROVE  /\ Pinged(e, age, free) \in Entries
           /\ Pinged(e, age, free) # None => Pinged(e, age, free).number = e.number
<1>. DEFINE p == [e EXCEPT !.ping = age]
<1>1. p \in EntryRec /\ p.number = e.number
  BY DEF EntryRec
<1>2. p \in Entries
  BY <1>1 DEF Entries
<1>. HIDE DEF p
<1>3. Check(p, free) \in Entries /\ (Check(p, free) # None => Check(p, free).number = p.number)
  BY <1>2, CheckType
<1>. QED  BY <1>1, <1>3 DEF Pinged, p

(* A newer broadcast leaves an entry of its number, another one nothing.   *)
LEMMA UpdatedType ==
    ASSUME NEW e \in EntryRec, NEW b \in BroadcastRec, NEW free \in BOOLEAN
    PROVE  /\ Updated(e, b, free) \in EntryRec
           /\ b.number <= e.number => Updated(e, b, free) = e
           /\ b.number > e.number => Updated(e, b, free).number = b.number
<1>. DEFINE newer == [e EXCEPT !.number = b.number]
            p == [newer EXCEPT !.ping = b.ping]
<1>1. newer \in EntryRec /\ newer.number = b.number /\ b.ping \in Ages
  BY DEF EntryRec, BroadcastRec
<1>2. Updated(e, b, free) = IF b.number <= e.number THEN e
                            ELSE IF PingTaken(e, b.ping, FALSE) THEN Check(p, free) ELSE newer
  BY DEF Updated, Pinged
<1>. HIDE DEF newer
<1>3. p \in EntryRec /\ p.number = b.number
  BY <1>1 DEF EntryRec
<1>. HIDE DEF p
<1>4. Check(p, free) \in EntryRec /\ Check(p, free).number = b.number
  BY <1>3, CheckRecord
<1>5. e.number \in Nat /\ b.number \in Nat
  BY DEF EntryRec, BroadcastRec, Broadcasts
<1>6. CASE b.number <= e.number
  BY <1>2, <1>5, <1>6
<1>7. CASE b.number > e.number
  <2>1. Updated(e, b, free) = Check(p, free) \/ Updated(e, b, free) = newer
    BY <1>2, <1>5, <1>7
  <2>. QED  BY <1>1, <1>4, <1>5, <1>7, <2>1
<1>. QED  BY <1>5, <1>6, <1>7

(* The ping is put into the broadcast the entry came from.                 *)
LEMMA SeenPingedType ==
    ASSUME NEW s \in SeenMaps, NEW e \in EntryRec, NEW age \in Ages
    PROVE  SeenPinged(s, e, age) \in SeenMaps
  BY DEF SeenPinged, SeenMaps, EntryRec

(* Entries have numbers.                                                   *)
LEMMA NumberType ==
    ASSUME NEW e \in Entries, e # None
    PROVE  e \in EntryRec /\ e.number \in Nat
  BY DEF Entries, EntryRec, Broadcasts

(* An entry that does not change does not go back.                         *)
LEMMA Same ==
    ASSUME NEW e \in Entries
    PROVE  NotBack(e, e)
  BY NumberType DEF NotBack

(* Nor does one that is checked.                                           *)
LEMMA CheckedNotBack ==
    ASSUME NEW e \in Entries, NEW free \in BOOLEAN
    PROVE  NotBack(e, Check(e, free)) /\ NotBack(e, None)
<1>1. NotBack(e, None)
  BY DEF NotBack
<1>2. ASSUME e # None PROVE NotBack(e, Check(e, free))
  BY <1>2, CheckType, NumberType DEF NotBack
<1>. QED  BY <1>1, <1>2 DEF NotBack

-----------------------------------------------------------------------------
(* The steps: each keeps the invariant and takes no entry back.            *)

Good == IInv' /\ \A n \in Nodes : NotBack(entry[n], entry'[n])

(* "mnb".                                                                  *)
LEMMA ReceiveBroadcastStep ==
    ASSUME IInv, NEW n \in Nodes, NEW b \in mnb[n], NEW ready \in BOOLEAN, NEW free \in BOOLEAN,
           ReceiveBroadcast(n, b, ready, free)
    PROVE  Good
<1>. DEFINE e == entry[n]
            update == IsEnabled(e) /\ ~(recent /\ e.number = latest) /\ b.number > e.number
            own == n = Hot /\ hotVin
            f == IF update THEN Check(Updated(e, b, free), free) ELSE e
            replace == ~TooOld(e, b) /\ ~own /\ ~IsEnabled(f)
            add == replace /\ ready /\ ~spent
            known == seen[n][b.number] # None
            rest == [mnb EXCEPT ![n] = @ \ {b}]
            fresh == [number |-> b.number, ping |-> b.ping, state |-> "ENABLED"]
            new == CASE TooOld(e, b) -> e
                     [] ~TooOld(e, b) /\ ~replace -> f
                     [] replace /\ ~add -> None
                     [] add -> fresh
<1>1. /\ IF known THEN UNCHANGED <<entry, seen>>
         ELSE /\ seen' = [seen EXCEPT ![n][b.number] = IF ready THEN b.ping ELSE None]
              /\ entry' = [entry EXCEPT ![n] = new]
      /\ mnb' = rest \/ mnb' = Relay(rest, n, b)
      /\ (status' = "STARTED" /\ hotVin' = TRUE) \/ UNCHANGED <<status, hotVin>>
      /\ UNCHANGED <<seenPing, asked, mnp, dseg, pinged, checked, world>>
  BY DEF ReceiveBroadcast, EnableHotColdMasterNode
<1>2. e \in Entries /\ b \in BroadcastRec /\ b.number \in Broadcasts /\ b.ping \in Ages
  BY DEF IInv, BroadcastRec
<1>3. b.number \in Nat
  BY <1>2 DEF Broadcasts
<1>4. fresh \in EntryRec /\ fresh.number = b.number
  BY <1>2 DEF EntryRec, States
<1>5. f \in Entries /\ NotBack(e, f)
  <2>1. CASE update
    <3>1. e # None /\ e.state = "ENABLED" /\ b.number > e.number
      BY <2>1 DEF IsEnabled
    <3>2. e \in EntryRec
      BY <1>2, <3>1, NumberType
    <3>3. Updated(e, b, free) \in Entries /\ Updated(e, b, free).number = b.number
      BY <1>2, <3>1, <3>2, UpdatedType DEF Entries
    <3>4. f \in Entries /\ (f # None => f.number = b.number)
      BY <2>1, <3>3, CheckType
    <3>. HIDE DEF f, update
    <3>. QED  BY <1>2, <1>3, <3>1, <3>4, NumberType DEF NotBack
  <2>2. CASE ~update
    BY <1>2, <2>2, Same
  <2>. QED  BY <2>1, <2>2
<1>. HIDE DEF f, update, fresh
<1>6. ~TooOld(e, b) /\ e # None => b.number >= e.number
  BY <1>2, <1>3, NumberType DEF TooOld
<1>7. \/ new = e \/ new = f \/ new = None
      \/ new = fresh /\ ~spent /\ ~TooOld(e, b)
  OBVIOUS
<1>. HIDE DEF new
<1>8. new \in Entries /\ NotBack(e, new)
  <2>1. CASE new = e
    BY <1>2, <2>1, Same
  <2>2. CASE new = f
    BY <1>5, <2>2
  <2>3. CASE new = None
    BY <2>3 DEF NotBack, Entries
  <2>4. CASE new = fresh /\ ~spent /\ ~TooOld(e, b)
    BY <1>4, <1>6, <2>4 DEF NotBack, Entries
  <2>. QED  BY <1>7, <2>1, <2>2, <2>3, <2>4
<1>9. entry \in [Nodes -> Entries]
  BY DEF IInv
<1>10. entry' \in [Nodes -> Entries] /\ \A k \in Nodes : NotBack(entry[k], entry'[k])
  <2>1. CASE known
    BY <1>1, <1>9, <2>1, Same
  <2>2. CASE ~known
    <3>1. entry' = [entry EXCEPT ![n] = new]
      BY <1>1, <2>2
    <3>2. \A k \in Nodes : entry'[k] = IF k = n THEN new ELSE entry[k]
      BY <1>9, <3>1
    <3>3. ASSUME NEW k \in Nodes PROVE NotBack(entry[k], entry'[k])
      BY <1>8, <1>9, <3>2, Same
    <3>. QED  BY <1>8, <1>9, <3>1, <3>3
  <2>. QED  BY <2>1, <2>2
<1>11. seen' \in [Nodes -> SeenMaps]
  <2>1. CASE known
    BY <1>1, <2>1 DEF IInv
  <2>2. CASE ~known
    <3>. DEFINE x == IF ready THEN b.ping ELSE None
                s == [seen[n] EXCEPT ![b.number] = x]
    <3>1. x \in Ages \union {None} /\ seen \in [Nodes -> SeenMaps]
      BY <1>2 DEF IInv
    <3>2. seen' = [seen EXCEPT ![n] = s]
      BY <1>1, <2>2
    <3>. HIDE DEF x
    <3>3. s \in SeenMaps
      BY <1>2, <3>1 DEF SeenMaps
    <3>. HIDE DEF s
    <3>. QED  BY <3>1, <3>2, <3>3
  <2>. QED  BY <2>1, <2>2
<1>12. mnb' \in [Nodes -> SUBSET BroadcastRec]
  <2>1. rest \in [Nodes -> SUBSET BroadcastRec]
    BY DEF IInv
  <2>. HIDE DEF rest
  <2>2. Relay(rest, n, b) \in [Nodes -> SUBSET BroadcastRec]
    BY <1>2, <2>1 DEF Relay
  <2>. QED  BY <1>1, <2>1, <2>2
<1>. HIDE DEF e, own, replace, add, known, rest
<1>13. /\ status' \in Statuses
       /\ status' = "STARTED" => hotVin'
       /\ hotVin' \in BOOLEAN
  <2>1. /\ status \in Statuses
        /\ status = "STARTED" => hotVin
        /\ hotVin \in BOOLEAN
    BY DEF IInv
  <2>2. CASE status' = "STARTED" /\ hotVin' = TRUE
    BY <2>2 DEF Statuses
  <2>3. CASE UNCHANGED <<status, hotVin>>
    BY <2>1, <2>3
  <2>. QED  BY <1>1, <2>2, <2>3
<1>14. UNCHANGED <<seenPing, asked, mnp, dseg, latest>>
  BY <1>1 DEF world
<1>. QED  BY <1>10, <1>11, <1>12, <1>13, <1>14 DEF Good, IInv

(* AskForMN.                                                               *)
LEMMA AskForMNType ==
    ASSUME IInv, NEW n \in Nodes, AskForMN(n)
    PROVE  asked' \in [Nodes -> BOOLEAN] /\ dseg' \in [Nodes -> Nodes \union {None}]
<1>. DEFINE senders == {x \in seenPing \ {n} : entry[x] # None /\ entry[x].ping = 0}
<1>1. senders \subseteq Nodes
  BY DEF IInv
<1>2. CASE UNCHANGED <<asked, dseg>>
  BY <1>2 DEF IInv
<1>3. CASE /\ asked' = [asked EXCEPT ![n] = TRUE]
           /\ dseg' \in {[dseg EXCEPT ![n] = peer] : peer \in IF senders = {} THEN {None} ELSE senders}
  <2>1. PICK peer \in Nodes \union {None} : dseg' = [dseg EXCEPT ![n] = peer]
    <3>. HIDE DEF senders
    <3>. QED  BY <1>1, <1>3
  <2>. QED  BY <1>3, <2>1 DEF IInv
<1>. QED  BY <1>2, <1>3 DEF AskForMN

(* "mnp".                                                                  *)
LEMMA ReceivePingStep ==
    ASSUME IInv, NEW n \in Nodes, NEW free \in BOOLEAN, ReceivePing(n, free)
    PROVE  Good
<1>1. entry \in [Nodes -> Entries] /\ seen \in [Nodes -> SeenMaps]
  BY DEF IInv
<1>2. seenPing' = seenPing \union {n} /\ UNCHANGED <<mnb, status, hotVin, latest>>
  BY DEF ReceivePing, active, world
<1>3. CASE n \notin seenPing /\ PingTaken(entry[n], 0, TRUE)
  <2>1. entry[n] # None /\ entry[n].state = "ENABLED"
    BY <1>3 DEF PingTaken, IsEnabled
  <2>2. entry[n] \in EntryRec
    BY <1>1, <2>1, NumberType
  <2>3. /\ entry' = [entry EXCEPT ![n] = Pinged(@, 0, free)]
        /\ seen' = [seen EXCEPT ![n] = SeenPinged(@, entry[n], 0)]
        /\ mnp' \subseteq mnp \union Nodes
        /\ UNCHANGED <<asked, dseg>>
    BY <1>3 DEF ReceivePing
  <2>4. /\ Pinged(entry[n], 0, free) \in Entries
        /\ Pinged(entry[n], 0, free) # None => Pinged(entry[n], 0, free).number = entry[n].number
    BY <2>2, PingedType, AgesType
  <2>5. NotBack(entry[n], Pinged(entry[n], 0, free))
    BY <1>1, <2>1, <2>4, NumberType DEF NotBack
  <2>6. SeenPinged(seen[n], entry[n], 0) \in SeenMaps
    BY <1>1, <2>2, SeenPingedType, AgesType
  <2>7. entry' \in [Nodes -> Entries] /\ seen' \in [Nodes -> SeenMaps]
    BY <1>1, <2>3, <2>4, <2>6
  <2>8. \A k \in Nodes : NotBack(entry[k], entry'[k])
    BY <1>1, <2>3, <2>5, Same
  <2>. QED  BY <1>2, <2>3, <2>7, <2>8 DEF Good, IInv
<1>4. CASE ~(n \notin seenPing /\ PingTaken(entry[n], 0, TRUE))
  <2>1. /\ mnp' = mnp \ {n} /\ UNCHANGED <<entry, seen>>
        /\ AskForMN(n) \/ UNCHANGED <<asked, dseg>>
    BY <1>4 DEF ReceivePing
  <2>2. asked' \in [Nodes -> BOOLEAN] /\ dseg' \in [Nodes -> Nodes \union {None}]
    BY <2>1, AskForMNType DEF IInv
  <2>3. \A k \in Nodes : NotBack(entry[k], entry'[k])
    BY <1>1, <2>1, Same
  <2>. QED  BY <1>2, <2>1, <2>2, <2>3 DEF Good, IInv
<1>. QED  BY <1>3, <1>4

(* "dseg".                                                                 *)
LEMMA AnswerDsegStep ==
    ASSUME IInv, NEW n \in Nodes, AnswerDseg(n)
    PROVE  Good
<1>. DEFINE peer == dseg[n]
            e == entry[peer]
            s == IF seen[peer][e.number] = None THEN [seen[peer] EXCEPT ![e.number] = e.ping]
                 ELSE seen[peer]
<1>1. entry \in [Nodes -> Entries] /\ seen \in [Nodes -> SeenMaps]
  BY DEF IInv
<1>2. peer \in Nodes /\ dseg' = [dseg EXCEPT ![n] = None]
      /\ UNCHANGED <<entry, seenPing, asked, mnp, status, hotVin, latest>>
  BY DEF AnswerDseg, IInv, active, world
<1>3. seen' \in [Nodes -> SeenMaps] /\ mnb' \in [Nodes -> SUBSET BroadcastRec]
  <2>1. CASE IsEnabled(e)
    <3>1. e \in EntryRec
      BY <1>1, <1>2, <2>1, NumberType DEF IsEnabled
    <3>2. e.number \in Broadcasts /\ e.ping \in Ages
      BY <3>1 DEF EntryRec
    <3>3. s \in SeenMaps /\ s[e.number] \in Ages
      BY <1>1, <1>2, <3>2 DEF SeenMaps
    <3>4. [number |-> e.number, ping |-> s[e.number]] \in BroadcastRec
      BY <3>2, <3>3 DEF BroadcastRec
    <3>5. /\ seen' = [seen EXCEPT ![peer] = s]
          /\ \/ mnb' = mnb
             \/ mnb' = [mnb EXCEPT ![n] = @ \union {[number |-> e.number, ping |-> s[e.number]]}]
      BY <2>1 DEF AnswerDseg
    <3>. HIDE DEF s, e
    <3>. QED  BY <1>1, <1>2, <3>3, <3>4, <3>5 DEF IInv
  <2>2. CASE ~IsEnabled(e)
    BY <2>2 DEF AnswerDseg, IInv
  <2>. QED  BY <2>1, <2>2
<1>4. \A k \in Nodes : NotBack(entry[k], entry'[k])
  BY <1>1, <1>2, Same
<1>. QED  BY <1>2, <1>3, <1>4 DEF Good, IInv

(* CheckAndRemove, by itself and when a node starts.                       *)
LEMMA CheckedAndRemovedType ==
    ASSUME IInv, NEW n \in Nodes, NEW m \in Images, NEW forced, NEW free \in BOOLEAN,
           m.entry \in {entry[n], None}, CheckedAndRemoved(n, m, forced, free)
    PROVE  /\ entry' \in [Nodes -> Entries] /\ seen' \in [Nodes -> SeenMaps]
           /\ asked' \in [Nodes -> BOOLEAN]
           /\ \A k \in Nodes : NotBack(entry[k], entry'[k])
<1>1. entry \in [Nodes -> Entries] /\ seen \in [Nodes -> SeenMaps]
      /\ m.entry \in Entries /\ m.seen \in SeenMaps /\ m.asked \in BOOLEAN
  BY DEF IInv, Images
<1>2. entry' = [entry EXCEPT ![n] = None] \/ entry' = [entry EXCEPT ![n] = Check(m.entry, free)]
  BY DEF CheckedAndRemoved
<1>3. Check(m.entry, free) \in Entries /\ None \in Entries
      /\ NotBack(entry[n], Check(m.entry, free)) /\ NotBack(entry[n], None)
  <2>1. Check(m.entry, free) \in Entries /\ None \in Entries /\ NotBack(entry[n], None)
    BY <1>1, CheckType, CheckedNotBack DEF Entries
  <2>2. CASE m.entry = entry[n]
    BY <1>1, <2>1, <2>2, CheckedNotBack
  <2>3. CASE m.entry = None
    BY <1>1, <2>1, <2>3, CheckType
  <2>. QED  BY <2>1, <2>2, <2>3
<1>4. entry' \in [Nodes -> Entries]
  BY <1>1, <1>2, <1>3
<1>5. \A k \in Nodes : NotBack(entry[k], entry'[k])
  BY <1>1, <1>2, <1>3, Same
<1>6. \A s \in SeenMaps : Forgotten(s) \in SeenMaps /\ Expired(s) \in SeenMaps
  BY DEF Forgotten, Expired, SeenMaps
<1>7. seen' \in [Nodes -> SeenMaps]
  <2>1. PICK s \in {Forgotten(m.seen), Expired(m.seen)} : seen' = [seen EXCEPT ![n] = s]
    BY DEF CheckedAndRemoved
  <2>. QED  BY <1>1, <1>6, <2>1
<1>8. asked' \in [Nodes -> BOOLEAN]
  <2>1. PICK r : asked' = [asked EXCEPT ![n] = m.asked /\ ~r]
    BY DEF CheckedAndRemoved
  <2>. QED  BY <1>1, <2>1 DEF IInv
<1>. QED  BY <1>4, <1>5, <1>7, <1>8

(* What is stored is what the node has; a missing file is empty.           *)
LEMMA StoredType ==
    ASSUME IInv, NEW n \in Nodes
    PROVE  /\ Stored(n) \in Images /\ Stored(n).entry = entry[n]
           /\ Empty \in Images /\ Empty.entry = None
<1>1. /\ entry[n] \in Entries /\ seen[n] \in SeenMaps /\ asked[n] \in BOOLEAN
      /\ (n \in seenPing) \in BOOLEAN
  BY DEF IInv
<1>2. Stored(n) \in Images /\ Stored(n).entry = entry[n]
  BY <1>1, Zenon DEF Stored, Images
<1>3. None \in Entries /\ [b \in Broadcasts |-> None] \in SeenMaps
  BY DEF Entries, SeenMaps
<1>4. Empty \in Images /\ Empty.entry = None
  BY <1>3, Zenon DEF Empty, Images
<1>. QED  BY <1>2, <1>4

(* The entry ManageStatus looks at.                                        *)
LEMMA OwnEntryType ==
    ASSUME IInv, NEW free \in BOOLEAN
    PROVE  OwnEntry(free) \in Entries /\ NotBack(entry[Hot], OwnEntry(free))
<1>1. entry[Hot] \in Entries
  BY ConstantAssumption DEF IInv
<1>2. /\ Check(entry[Hot], free) \in Entries /\ NotBack(entry[Hot], Check(entry[Hot], free))
      /\ NotBack(entry[Hot], entry[Hot])
  BY <1>1, CheckType, CheckedNotBack, Same
<1>. QED  BY <1>1, <1>2 DEF OwnEntry

(* ManageStatus: a masternode that pings has its vin.                      *)
LEMMA ManageStatusStep ==
    ASSUME IInv, NEW free \in BOOLEAN, ManageStatus(free)
    PROVE  Good
<1>. DEFINE e == OwnEntry(free)
            start == Starts(free)
            ping == status = "STARTED" \/ start
<1>1. Hot \in Nodes /\ entry \in [Nodes -> Entries] /\ seen \in [Nodes -> SeenMaps]
  BY ConstantAssumption DEF IInv
<1>2. e \in Entries /\ NotBack(entry[Hot], e)
  BY OwnEntryType
<1>3. UNCHANGED <<asked, mnb, dseg, latest>>
  BY DEF ManageStatus, world
<1>4. /\ status' \in Statuses
      /\ status' = "STARTED" => hotVin'
      /\ hotVin' \in BOOLEAN
  <2>1. /\ status' = IF ping /\ e # None THEN "STARTED" ELSE "NOT_CAPABLE"
        /\ hotVin' = (hotVin \/ start)
    BY DEF ManageStatus
  <2>2. ping => hotVin \/ start
    BY DEF IInv
  <2>. HIDE DEF ping, start, e
  <2>3. hotVin' \in BOOLEAN
    BY <2>1
  <2>. QED  BY <2>1, <2>2, <2>3 DEF Statuses
<1>5. CASE ping /\ e # None /\ e.ping > 0
  <2>. DEFINE p == [e EXCEPT !.ping = 0]
  <2>1. /\ entry' = [entry EXCEPT ![Hot] = p]
        /\ seen' = [seen EXCEPT ![Hot] = SeenPinged(@, e, 0)]
        /\ seenPing' = seenPing \union {Hot} /\ mnp' = Nodes \ {Hot}
    BY <1>5 DEF ManageStatus
  <2>2. e \in EntryRec
    BY <1>2, <1>5, NumberType
  <2>. HIDE DEF e
  <2>3. p \in EntryRec /\ p.number = e.number /\ p.state = e.state
    BY <2>2, AgesType DEF EntryRec
  <2>. HIDE DEF p
  <2>4. p \in Entries /\ NotBack(entry[Hot], p)
    BY <1>2, <1>5, <2>3 DEF Entries, NotBack
  <2>5. SeenPinged(seen[Hot], e, 0) \in SeenMaps
    BY <1>1, <2>2, AgesType, SeenPingedType
  <2>6. entry' \in [Nodes -> Entries] /\ seen' \in [Nodes -> SeenMaps]
    BY <1>1, <2>1, <2>4, <2>5
  <2>7. \A k \in Nodes : NotBack(entry[k], entry'[k])
    BY <1>1, <2>1, <2>4, Same
  <2>. QED  BY <1>1, <1>3, <1>4, <2>1, <2>6, <2>7 DEF Good, IInv
<1>6. CASE ~(ping /\ e # None /\ e.ping > 0)
  <2>1. entry' = [entry EXCEPT ![Hot] = e] /\ UNCHANGED <<seen, seenPing, mnp>>
    BY <1>6 DEF ManageStatus
  <2>. HIDE DEF e
  <2>2. entry' \in [Nodes -> Entries]
    BY <1>1, <1>2, <2>1
  <2>3. \A k \in Nodes : NotBack(entry[k], entry'[k])
    BY <1>1, <1>2, <2>1, Same
  <2>. QED  BY <1>3, <1>4, <2>1, <2>2, <2>3 DEF Good, IInv
<1>. QED  BY <1>5, <1>6

(* ManageStatus without a synchronised blockchain, and with coins that are *)
(* too new.                                                                *)
LEMMA NotStartedStep ==
    ASSUME IInv, ManageStatusUnsynced \/ \E free \in BOOLEAN : InputTooNew(free)
    PROVE  Good
<1>1. Hot \in Nodes /\ entry \in [Nodes -> Entries]
  BY ConstantAssumption DEF IInv
<1>2. CASE ManageStatusUnsynced
  <2>1. \A k \in Nodes : NotBack(entry[k], entry'[k])
    BY <1>1, <1>2, Same DEF ManageStatusUnsynced
  <2>. QED  BY <1>2, <2>1 DEF Good, IInv, Statuses, ManageStatusUnsynced, net, world
<1>3. CASE \E free \in BOOLEAN : InputTooNew(free)
  <2>1. PICK free \in BOOLEAN : InputTooNew(free)
    BY <1>3
  <2>2. OwnEntry(free) \in Entries /\ NotBack(entry[Hot], OwnEntry(free))
    BY OwnEntryType
  <2>3. entry' = [entry EXCEPT ![Hot] = OwnEntry(free)]
    BY <2>1 DEF InputTooNew
  <2>4. entry' \in [Nodes -> Entries] /\ \A k \in Nodes : NotBack(entry[k], entry'[k])
    BY <1>1, <2>2, <2>3, Same
  <2>. QED  BY <2>1, <2>4 DEF Good, IInv, Statuses, InputTooNew, net, world
<1>. QED  BY <1>2, <1>3

(* A masternode registered by its own wallet: the new broadcast has the    *)
(* greatest number.                                                        *)
LEMMA StartFromWalletStep ==
    ASSUME IInv, NEW free \in BOOLEAN, StartFromWallet(free)
    PROVE  Good
<1>. DEFINE e == OwnEntry(free)
            b == [number |-> latest + 1, ping |-> 0]
            fresh == [number |-> latest + 1, ping |-> 0, state |-> "ENABLED"]
            new == IF entry[Hot] = None THEN fresh ELSE Updated(e, b, free)
            s == [seen[Hot] EXCEPT ![latest + 1] = 0]
<1>1. Hot \in Nodes /\ entry \in [Nodes -> Entries] /\ seen \in [Nodes -> SeenMaps]
      /\ mnb \in [Nodes -> SUBSET BroadcastRec] /\ latest \in 0 .. MaxBroadcast
  BY ConstantAssumption DEF IInv
<1>3. /\ entry' = [entry EXCEPT ![Hot] = new] /\ latest' = latest + 1
      /\ seen' = [seen EXCEPT ![Hot] = s] /\ mnb' = Relay(mnb, Hot, b)
      /\ seenPing' = seenPing \union {Hot} /\ status' = "STARTED" /\ hotVin' = TRUE
      /\ latest < MaxBroadcast /\ ~spent /\ UNCHANGED <<asked, mnp, dseg>>
  BY DEF StartFromWallet
<1>4. latest + 1 \in Broadcasts /\ latest' \in 0 .. MaxBroadcast
  BY <1>1, <1>3, ConstantAssumption DEF Broadcasts
<1>5. b \in BroadcastRec /\ b.number = latest + 1 /\ fresh \in EntryRec /\ fresh.number = latest + 1
  BY <1>4, AgesType DEF BroadcastRec, EntryRec, States
<1>6. s \in SeenMaps
  BY <1>1, <1>4, AgesType DEF SeenMaps
<1>7. new \in EntryRec /\ NotBack(entry[Hot], new)
  <2>1. CASE entry[Hot] = None
    BY <1>5, <2>1 DEF NotBack
  <2>2. CASE entry[Hot] # None
    <3>0. entry[Hot] \in EntryRec /\ entry[Hot].number \in Nat
      BY <1>1, <2>2, NumberType
    <3>1. e \in EntryRec /\ e.number = entry[Hot].number
      BY <3>0, CheckRecord DEF OwnEntry
    <3>. HIDE DEF e, b
    <3>2. /\ Updated(e, b, free) \in EntryRec
          /\ b.number <= e.number => Updated(e, b, free) = e
          /\ b.number > e.number => Updated(e, b, free).number = b.number
      BY <1>5, <3>1, UpdatedType
    <3>3. b.number \in Nat /\ e.number \in Nat
      BY <1>5, <3>1 DEF BroadcastRec, EntryRec, Broadcasts
    <3>4. Updated(e, b, free).number >= e.number
      BY <3>2, <3>3
    <3>. QED  BY <1>3, <2>2, <3>1, <3>2, <3>4 DEF NotBack
  <2>. QED  BY <2>1, <2>2
<1>. HIDE DEF new, s, b, e, fresh
<1>9. entry' \in [Nodes -> Entries] /\ seen' \in [Nodes -> SeenMaps]
  BY <1>1, <1>3, <1>6, <1>7 DEF Entries
<1>10. \A k \in Nodes : NotBack(entry[k], entry'[k])
  BY <1>1, <1>3, <1>7, Same
<1>11. mnb' \in [Nodes -> SUBSET BroadcastRec]
  BY <1>1, <1>3, <1>5 DEF Relay
<1>. QED  BY <1>1, <1>3, <1>4, <1>9, <1>10, <1>11 DEF Good, IInv, Statuses

(* A tick.                                                                 *)
LEMMA TickStep ==
    ASSUME IInv, Tick
    PROVE  Good
<1>1. entry \in [Nodes -> Entries] /\ seen \in [Nodes -> SeenMaps]
  BY DEF IInv
<1>2. /\ seenPing' = {} /\ mnp' = {}
      /\ mnb' = [n \in Nodes |-> {}] /\ dseg' = [n \in Nodes |-> None]
      /\ asked' = [n \in Nodes |-> FALSE]
      /\ UNCHANGED <<status, hotVin, latest, spent>>
  BY DEF Tick
<1>3. ASSUME NEW n \in Nodes
      PROVE  entry'[n] \in Entries /\ NotBack(entry[n], entry'[n])
  <2>1. entry'[n] = IF entry[n] = None THEN None ELSE [entry[n] EXCEPT !.ping = Older(@)]
    BY DEF Tick
  <2>2. CASE entry[n] = None
    BY <2>1, <2>2 DEF Entries, NotBack
  <2>3. CASE entry[n] # None
    <3>1. entry[n] \in EntryRec /\ entry[n].number \in Nat
      BY <1>1, <2>3, NumberType
    <3>2. /\ entry'[n] \in EntryRec /\ entry'[n].number = entry[n].number
          /\ entry'[n].state = entry[n].state
      BY <2>1, <2>3, <3>1, AgesType DEF EntryRec
    <3>. QED  BY <3>1, <3>2 DEF Entries, NotBack
  <2>. QED  BY <2>2, <2>3
<1>4. entry' \in [Nodes -> Entries]
  BY <1>3 DEF Tick
<1>5. seen' \in [Nodes -> SeenMaps]
  <2>1. ASSUME NEW n \in Nodes, NEW b \in Broadcasts
        PROVE  (IF seen[n][b] = None THEN None ELSE Older(seen[n][b])) \in Ages \union {None}
    BY <1>1, AgesType DEF SeenMaps
  <2>. QED  BY <2>1 DEF Tick, SeenMaps
<1>. QED  BY <1>2, <1>3, <1>4, <1>5 DEF Good, IInv

(* A node starts again.                                                    *)
LEMMA RestartStep ==
    ASSUME IInv, NEW n \in Nodes, NEW free \in BOOLEAN, Restart(n, free) \/ Crash(n)
    PROVE  Good
<1>. DEFINE Loaded(m, f) == m \in Images /\ m.entry \in {entry[n], None} /\ f \in BOOLEAN /\ Load(n, m, f)
<1>1. \E m, f : Loaded(m, f)
  <2>1. CASE Restart(n, free)
    <3>1. Loaded(Stored(n), free)
      BY <2>1, StoredType DEF Restart
    <3>. QED  BY <3>1
  <2>2. CASE Crash(n)
    <3>1. Loaded(Empty, TRUE)
      BY <2>2, StoredType DEF Crash
    <3>. QED  BY <3>1
  <2>. QED  BY <2>1, <2>2
<1>2. PICK m, f : Loaded(m, f)
  BY <1>1
<1>3. /\ entry' \in [Nodes -> Entries] /\ seen' \in [Nodes -> SeenMaps]
      /\ asked' \in [Nodes -> BOOLEAN]
      /\ \A k \in Nodes : NotBack(entry[k], entry'[k])
  BY <1>2, CheckedAndRemovedType DEF Load
<1>4. /\ mnb' = [mnb EXCEPT ![n] = {}] /\ mnp' = mnp \ {n} /\ dseg' = [dseg EXCEPT ![n] = None]
      /\ (status' = "INITIAL" /\ hotVin' = FALSE) \/ UNCHANGED <<status, hotVin>>
      /\ seenPing' \subseteq seenPing \union {n}
      /\ UNCHANGED latest
  BY <1>2 DEF Load
<1>5. /\ status' \in Statuses /\ hotVin' \in BOOLEAN /\ (status' = "STARTED" => hotVin')
  <2>1. CASE status' = "INITIAL" /\ hotVin' = FALSE
    BY <2>1 DEF Statuses
  <2>2. CASE UNCHANGED <<status, hotVin>>
    BY <2>2 DEF IInv
  <2>. QED  BY <1>4, <2>1, <2>2
<1>. QED  BY <1>3, <1>4, <1>5 DEF Good, IInv

(* The steps that leave the entries alone.                                 *)
LEMMA EnvironmentStep ==
    ASSUME IInv,
           \/ Register \/ SpendCollateral \/ Stabilise \/ UNCHANGED vars
           \/ \E n \in Nodes, number \in Broadcasts : LateBroadcast(n, number)
    PROVE  Good
<1>1. entry' = entry /\ \A k \in Nodes : entry[k] \in Entries
  BY DEF IInv, Register, SpendCollateral, Stabilise, LateBroadcast, vars
<1>2. \A k \in Nodes : NotBack(entry[k], entry'[k])
  BY <1>1, Same
<1>3. CASE Register
  <2>1. latest + 1 \in Broadcasts /\ latest + 1 \in 0 .. MaxBroadcast
    BY <1>3, ConstantAssumption DEF Register, IInv, Broadcasts
  <2>2. [number |-> latest + 1, ping |-> 0] \in BroadcastRec
    BY <2>1, AgesType DEF BroadcastRec
  <2>3. mnb' \in [Nodes -> SUBSET BroadcastRec]
    BY <1>3, <2>2 DEF Register, IInv
  <2>. QED  BY <1>2, <1>3, <2>1, <2>3 DEF Good, IInv, Register, active
<1>4. CASE \E n \in Nodes, number \in Broadcasts : LateBroadcast(n, number)
  <2>1. PICK n \in Nodes, number \in Broadcasts : LateBroadcast(n, number)
    BY <1>4
  <2>2. [number |-> number, ping |-> Removal] \in BroadcastRec
    BY AgesType DEF BroadcastRec
  <2>3. mnb' \in [Nodes -> SUBSET BroadcastRec]
    BY <2>1, <2>2 DEF LateBroadcast, IInv
  <2>. QED  BY <1>2, <2>1, <2>3 DEF Good, IInv, LateBroadcast, active, world
<1>5. CASE SpendCollateral \/ Stabilise \/ UNCHANGED vars
  BY <1>2, <1>5 DEF Good, IInv, SpendCollateral, Stabilise, vars, active, net
<1>. QED  BY <1>3, <1>4, <1>5

(* Every step.                                                             *)
LEMMA NextGood ==
    ASSUME IInv, [Next]_vars
    PROVE  Good
<1>1. CASE \E n \in Nodes, free \in BOOLEAN : CheckAndRemove(n, free)
  <2>1. PICK n \in Nodes, free \in BOOLEAN : CheckAndRemove(n, free)
    BY <1>1
  <2>2. /\ entry' \in [Nodes -> Entries] /\ seen' \in [Nodes -> SeenMaps]
        /\ asked' \in [Nodes -> BOOLEAN]
        /\ \A k \in Nodes : NotBack(entry[k], entry'[k])
    BY <2>1, StoredType, CheckedAndRemovedType DEF CheckAndRemove
  <2>. QED  BY <2>1, <2>2 DEF Good, IInv, CheckAndRemove, net, active, world
<1>2. CASE \E n \in Nodes, b \in UNION {mnb[k] : k \in Nodes}, ready \in BOOLEAN, free \in BOOLEAN :
              b \in mnb[n] /\ ReceiveBroadcast(n, b, ready, free)
  BY <1>2, ReceiveBroadcastStep
<1>3. CASE \E n \in Nodes, free \in BOOLEAN :
              ReceivePing(n, free) \/ AnswerDseg(n) \/ Restart(n, free) \/ Crash(n)
  BY <1>3, ReceivePingStep, AnswerDsegStep, RestartStep
<1>4. CASE \/ Tick \/ ManageStatusUnsynced
           \/ \E free \in BOOLEAN : ManageStatus(free) \/ InputTooNew(free) \/ StartFromWallet(free)
  BY <1>4, ManageStatusStep, TickStep, NotStartedStep, StartFromWalletStep
<1>5. CASE \/ Register \/ SpendCollateral \/ Stabilise \/ UNCHANGED vars
           \/ \E n \in Nodes, number \in Broadcasts : LateBroadcast(n, number)
  BY <1>5, EnvironmentStep
<1>. QED  BY <1>1, <1>2, <1>3, <1>4, <1>5 DEF Next, Work

-----------------------------------------------------------------------------

(* The invariant holds in every reachable state.                           *)
THEOREM Invariance == Spec => []IInv
<1>1. ASSUME Init PROVE IInv
  <2>1. entry \in [Nodes -> Entries] /\ seen \in [Nodes -> SeenMaps]
    BY <1>1 DEF Init, Entries, SeenMaps
  <2>2. status = "INITIAL" /\ hotVin = FALSE
    BY <1>1 DEF Init
  <2>3. latest \in 0 .. MaxBroadcast
    BY <1>1, ConstantAssumption DEF Init
  <2>4. /\ seenPing \subseteq Nodes /\ mnp \subseteq Nodes
        /\ asked \in [Nodes -> BOOLEAN]
        /\ mnb \in [Nodes -> SUBSET BroadcastRec]
        /\ dseg \in [Nodes -> Nodes \union {None}]
    BY <1>1 DEF Init
  <2>. QED  BY <2>1, <2>2, <2>3, <2>4 DEF IInv, Statuses
<1>2. IInv /\ [Next]_vars => IInv'
  BY NextGood DEF Good
<1>. QED  BY <1>1, <1>2, PTL DEF Spec

(* Lists, broadcasts and pings keep their types, and a masternode that is  *)
(* started has its vin, however broadcasts, restarts and attempts to start *)
(* follow each other.                                                      *)
THEOREM TypeCorrect == Spec => []TypeOK
<1>1. IInv => TypeOK
  BY DEF IInv, TypeOK, Entries, EntryRec, SeenMaps, BroadcastRec, Statuses
<1>. QED  BY <1>1, Invariance, PTL

(* No node that lists the masternode goes back to an older broadcast, and  *)
(* none forgets that the collateral is spent.                              *)
THEOREM NoStepBackTheorem == Spec => NoStepBack
<1>1. IInv /\ [Next]_vars =>
        [\A n \in Nodes :
           entry[n] # None /\ entry'[n] # None =>
             /\ entry'[n].number >= entry[n].number
             /\ spent /\ entry[n].state = "VIN_SPENT" => entry'[n].state = "VIN_SPENT"]_vars
  BY NextGood DEF Good, NotBack
<1>. QED  BY <1>1, Invariance, PTL DEF Spec, NoStepBack

=============================================================================
