--------------------------- MODULE PaymentsProofs ---------------------------
(***************************************************************************)
(* Payments for any number of masternodes, votes and restarts: its type    *)
(* invariant, that every vote is counted once, and that a node accepts the *)
(* block it makes itself.                                                  *)
(*                                                                         *)
(* VotesCounted is not inductive. A payee must have one entry per height   *)
(* (AddPayee adds to every entry of the payee); a vote that is between its *)
(* two steps must be one that CleanPaymentList leaves alone as long as tip *)
(* and list stand still; and the file must be as consistent as the memory  *)
(* was when it was written.                                                *)
(***************************************************************************)
EXTENDS Payments, FiniteSetTheorems, SequenceTheorems, WellFoundedInduction, TLAPS

Payees == Masternodes \union {None}
PayeeRec == [payee : Payees, votes : Nat \ {0}]

(* No payee has two entries for a height.                                  *)
Unique(payments) ==
    \A i, j \in DOMAIN payments : payments[i].payee = payments[j].payee => i = j

TallyOf(payments, p) ==
    LET of == {i \in DOMAIN payments : payments[i].payee = p}
    IN  IF of = {} THEN 0 ELSE payments[CHOOSE i \in of : TRUE].votes

For(S, h, p) == {s \in S : s.vote.height = h /\ s.vote.payee = p}

(* mapMasternodeBlocks has its type and one entry for each payee.          *)
BlocksOK(b) ==
    /\ b \in [Heights -> Seq(PayeeRec)]
    /\ \A h \in Heights : Unique(b[h])

(* The threads whose vote in a is one for p at h.                          *)
Waiting(a, h, p) == {t \in Threads : a[t] # None /\ a[t].vote.height = h /\ a[t].vote.payee = p}

Idle == [t \in Threads |-> None]

(* The votes of S are those that b counts and those that wait in a, but    *)
(* for the heights in T.                                                   *)
Counts(S, b, a, T) ==
    \A h \in Heights \ (T \union {0}), p \in Payees :
        TallyOf(b[h], p) + Cardinality(Waiting(a, h, p)) = Cardinality(For(S, h, p))

(* Memory and file.                                                        *)
StoreOK(S, b, a, T) == IsFiniteSet(S) /\ BlocksOK(b) /\ Counts(S, b, a, T)

(* While tip and list stand still, a vote that is being added is in the    *)
(* reach of the handler, or is the vote for nobody and height 0.           *)
AddingInv ==
    \A t \in Threads :
        adding[t] # None /\ adding[t].still =>
            adding[t].vote.height = 0 \/ tip - adding[t].vote.height <= CleanLimit

DiskInv ==
    disk # None => disk.votes \subseteq signed /\ StoreOK(disk.votes, disk.blocks, Idle, torn)

(* A signed vote is a vote and a key, and nothing else.                    *)
RecordInv == \A s \in signed : s = Signed(s.vote, s.key)

IInv ==
    /\ TypeOK /\ RecordInv
    /\ StoreOK(votes, blocks, adding, torn)
    /\ AddingInv
    /\ DiskInv

-----------------------------------------------------------------------------
(* The entries of one height.                                              *)

(* The votes of a payee are those of any of its entries.                   *)
LEMMA TallyEntry ==
    ASSUME NEW payments, Unique(payments), NEW i \in DOMAIN payments
    PROVE  TallyOf(payments, payments[i].payee) = payments[i].votes
<1>. DEFINE of == {j \in DOMAIN payments : payments[j].payee = payments[i].payee}
<1>1. i \in of /\ \A j \in of : j = i
  BY DEF Unique
<1>2. of # {} /\ (CHOOSE j \in of : TRUE) = i
  <2>. HIDE DEF of
  <2>. QED  BY <1>1
<1>. QED  BY <1>2 DEF TallyOf

(* A payee without an entry has no votes.                                  *)
LEMMA TallyNone ==
    ASSUME NEW payments, NEW p, \A i \in DOMAIN payments : payments[i].payee # p
    PROVE  TallyOf(payments, p) = 0
  BY DEF TallyOf

(* AddPayee counts one vote for p and none for anyone else.                *)
LEMMA AddPayeeTally ==
    ASSUME NEW payments \in Seq(PayeeRec), Unique(payments), NEW p \in Payees
    PROVE  /\ AddPayee(payments, p) \in Seq(PayeeRec)
           /\ Unique(AddPayee(payments, p))
           /\ \A q \in Payees :
                 TallyOf(AddPayee(payments, p), q) =
                     TallyOf(payments, q) + (IF p = q THEN 1 ELSE 0)
<1>. DEFINE new == AddPayee(payments, p)
<1>1. /\ DOMAIN payments = 1 .. Len(payments) /\ Len(payments) \in Nat
      /\ \A i \in DOMAIN payments : payments[i] \in PayeeRec
  BY LenProperties, ElementOfSeq
<1>2. CASE \E i \in DOMAIN payments : payments[i].payee = p
  <2>1. new = [i \in DOMAIN payments |->
                 IF payments[i].payee = p THEN [payments[i] EXCEPT !.votes = @ + 1]
                 ELSE payments[i]]
    BY <1>2 DEF AddPayee
  <2>2. ASSUME NEW i \in DOMAIN payments
        PROVE  /\ new[i] \in PayeeRec /\ new[i].payee = payments[i].payee
               /\ new[i].votes = payments[i].votes + (IF payments[i].payee = p THEN 1 ELSE 0)
    <3>1. payments[i] \in PayeeRec
      BY <1>1
    <3>. QED  BY <2>1, <3>1 DEF PayeeRec
  <2>3. DOMAIN new = DOMAIN payments
    BY <2>1
  <2>. HIDE DEF new
  <2>4. new \in Seq(PayeeRec)
    <3>1. new = [i \in 1 .. Len(payments) |-> new[i]]
      BY <1>1, <2>1
    <3>2. \A i \in 1 .. Len(payments) : new[i] \in PayeeRec
      BY <1>1, <2>2
    <3>3. new \in [1 .. Len(payments) -> PayeeRec]
      BY <3>1, <3>2
    <3>. QED  BY <1>1, <3>3, SeqDef
  <2>5. Unique(new)
    BY <2>2, <2>3 DEF Unique
  <2>6. ASSUME NEW q \in Payees
        PROVE  TallyOf(new, q) = TallyOf(payments, q) + (IF p = q THEN 1 ELSE 0)
    <3>1. CASE \E i \in DOMAIN payments : payments[i].payee = q
      <4>1. PICK i \in DOMAIN payments : payments[i].payee = q
        BY <3>1
      <4>2. TallyOf(payments, q) = payments[i].votes
        BY <4>1, TallyEntry
      <4>3. TallyOf(new, q) = new[i].votes
        BY <2>2, <2>3, <2>5, <4>1, TallyEntry
      <4>. QED  BY <2>2, <4>1, <4>2, <4>3
    <3>2. CASE \A i \in DOMAIN payments : payments[i].payee # q
      <4>1. p # q
        BY <1>2, <3>2
      <4>2. TallyOf(payments, q) = 0
        BY <3>2, TallyNone
      <4>3. TallyOf(new, q) = 0
        BY <2>2, <2>3, <3>2, TallyNone
      <4>. QED  BY <4>1, <4>2, <4>3
    <3>. QED  BY <3>1, <3>2
  <2>. QED  BY <2>4, <2>5, <2>6 DEF new
<1>3. CASE \A i \in DOMAIN payments : payments[i].payee # p
  <2>. DEFINE entry == [payee |-> p, votes |-> 1]
              k == Len(payments) + 1
  <2>1. new = Append(payments, entry)
    BY <1>3 DEF AddPayee
  <2>2. entry \in PayeeRec /\ entry.payee = p /\ entry.votes = 1
    BY DEF PayeeRec
  <2>. HIDE DEF entry
  <2>3. /\ new \in Seq(PayeeRec) /\ DOMAIN new = 1 .. k
        /\ \A i \in DOMAIN payments : new[i] = payments[i]
        /\ new[k] = entry
    BY <1>1, <2>1, <2>2, AppendProperties
  <2>4. \A i \in DOMAIN new : i \in DOMAIN payments \/ i = k
    BY <1>1, <2>3
  <2>5. k \in DOMAIN new /\ DOMAIN payments \subseteq DOMAIN new
    BY <1>1, <2>3
  <2>. HIDE DEF new, k
  <2>6. Unique(new)
    BY <1>3, <2>2, <2>3, <2>4 DEF Unique
  <2>7. ASSUME NEW q \in Payees
        PROVE  TallyOf(new, q) = TallyOf(payments, q) + (IF p = q THEN 1 ELSE 0)
    <3>1. CASE q = p
      <4>1. TallyOf(payments, q) = 0
        BY <1>3, <3>1, TallyNone
      <4>2. TallyOf(new, q) = 1
        BY <2>2, <2>3, <2>5, <2>6, <3>1, TallyEntry
      <4>. QED  BY <3>1, <4>1, <4>2
    <3>2. CASE q # p /\ \E i \in DOMAIN payments : payments[i].payee = q
      <4>1. PICK i \in DOMAIN payments : payments[i].payee = q
        BY <3>2
      <4>2. TallyOf(payments, q) = payments[i].votes
        BY <4>1, TallyEntry
      <4>3. TallyOf(new, q) = payments[i].votes
        BY <2>3, <2>5, <2>6, <4>1, TallyEntry
      <4>4. payments[i].votes \in Nat
        BY <1>1 DEF PayeeRec
      <4>. QED  BY <3>2, <4>2, <4>3, <4>4
    <3>3. CASE q # p /\ \A i \in DOMAIN payments : payments[i].payee # q
      <4>1. TallyOf(payments, q) = 0
        BY <3>3, TallyNone
      <4>2. \A i \in DOMAIN new : new[i].payee # q
        BY <2>2, <2>3, <2>4, <3>3
      <4>3. TallyOf(new, q) = 0
        BY <4>2, TallyNone
      <4>. QED  BY <3>3, <4>1, <4>3
    <3>. QED  BY <3>1, <3>2, <3>3
  <2>. QED  BY <2>3, <2>6, <2>7 DEF new
<1>. QED  BY <1>2, <1>3

(* A height without entries.                                               *)
LEMMA NoEntries ==
    /\ << >> \in Seq(PayeeRec) /\ Unique(<< >>)
    /\ \A p : TallyOf(<< >>, p) = 0
<1>1. DOMAIN << >> = {}
  OBVIOUS
<1>2. << >> \in Seq(PayeeRec)
  BY EmptySeq
<1>. QED  BY <1>1, <1>2, TallyNone DEF Unique

-----------------------------------------------------------------------------
(* The store: the votes and what is counted of them.                       *)

(* The threads are two.                                                    *)
LEMMA TwoThreads ==
    ASSUME NEW W, W \subseteq Threads
    PROVE  IsFiniteSet(W) /\ Cardinality(W) \in Nat
<1>1. IsFiniteSet({"net"} \union {"block"})
  BY FS_EmptySet, FS_AddElement, FS_Singleton, FS_Union
<1>2. Threads = {"net"} \union {"block"}
  BY DEF Threads
<1>. QED  BY <1>1, <1>2, FS_Subset, FS_CardinalityType

(* Numbers that are counted.                                               *)
LEMMA CountTypes ==
    ASSUME NEW S, NEW b, NEW a, IsFiniteSet(S), BlocksOK(b), NEW h \in Heights, NEW p
    PROVE  /\ IsFiniteSet(For(S, h, p)) /\ Cardinality(For(S, h, p)) \in Nat
           /\ IsFiniteSet(Waiting(a, h, p)) /\ Cardinality(Waiting(a, h, p)) \in Nat
           /\ TallyOf(b[h], p) \in Nat
<1>1. IsFiniteSet(For(S, h, p)) /\ Cardinality(For(S, h, p)) \in Nat
  BY FS_Subset, FS_CardinalityType DEF For
<1>2. IsFiniteSet(Waiting(a, h, p)) /\ Cardinality(Waiting(a, h, p)) \in Nat
  BY TwoThreads DEF Waiting
<1>3. TallyOf(b[h], p) \in Nat
  <2>1. b[h] \in Seq(PayeeRec) /\ Unique(b[h])
    BY DEF BlocksOK
  <2>2. CASE \E i \in DOMAIN b[h] : b[h][i].payee = p
    <3>1. PICK i \in DOMAIN b[h] : b[h][i].payee = p
      BY <2>2
    <3>2. b[h][i] \in PayeeRec
      BY <2>1, <3>1, ElementOfSeq, LenProperties
    <3>. QED  BY <2>1, <3>1, <3>2, TallyEntry DEF PayeeRec
  <2>3. CASE ~\E i \in DOMAIN b[h] : b[h][i].payee = p
    BY <2>3, TallyNone
  <2>. QED  BY <2>2, <2>3
<1>. QED  BY <1>1, <1>2, <1>3

(* What is known of fewer heights.                                         *)
LEMMA StoreFewer ==
    ASSUME NEW S, NEW b, NEW a, NEW T, NEW U, T \subseteq U, StoreOK(S, b, a, T)
    PROVE  StoreOK(S, b, a, U)
  BY DEF StoreOK, Counts

(* Only the votes that wait matter, not since when.                        *)
LEMMA StoreSame ==
    ASSUME NEW S, NEW b, NEW a, NEW c, NEW T, StoreOK(S, b, a, T),
           \A t \in Threads : (a[t] = None <=> c[t] = None) /\ (a[t] # None => a[t].vote = c[t].vote)
    PROVE  StoreOK(S, b, c, T)
<1>1. \A h, p : Waiting(a, h, p) = Waiting(c, h, p)
  BY DEF Waiting
<1>. QED  BY <1>1 DEF StoreOK, Counts

(* CleanPaymentList removes all votes of a height or none, and what they   *)
(* counted for.                                                            *)
LEMMA CleanedOK ==
    ASSUME NEW S, NEW b, NEW a, NEW T, NEW U, StoreOK(S, b, a, T), T \subseteq U,
           \A t \in Threads : \A s \in Cleaned(S) :
              a[t] # None /\ a[t].vote.height = s.vote.height => s.vote.height \in U \union {0}
    PROVE  LET gone == Cleaned(S) IN
           StoreOK(S \ gone,
                   [h \in Heights |-> IF \E s \in gone : s.vote.height = h THEN << >> ELSE b[h]],
                   a, U)
<1>. DEFINE gone == Cleaned(S)
            left == [h \in Heights |-> IF \E s \in gone : s.vote.height = h THEN << >> ELSE b[h]]
<1>1. IsFiniteSet(S) /\ BlocksOK(b) /\ Counts(S, b, a, T)
  BY DEF StoreOK
<1>2. \A s, t \in S : s \in gone /\ t.vote.height = s.vote.height => t \in gone
  BY DEF Cleaned
<1>3. gone \subseteq S
  BY DEF Cleaned
<1>. HIDE DEF gone
<1>4. IsFiniteSet(S \ gone)
  BY <1>1, FS_Difference
<1>5. \A h \in Heights : left[h] = IF \E s \in gone : s.vote.height = h THEN << >> ELSE b[h]
  OBVIOUS
<1>6. BlocksOK(left)
  <2>1. \A h \in Heights : left[h] \in Seq(PayeeRec) /\ Unique(left[h])
    BY <1>1, <1>5, NoEntries DEF BlocksOK
  <2>. QED  BY <2>1 DEF BlocksOK
<1>. HIDE DEF left
<1>7. ASSUME NEW h \in Heights \ (U \union {0}), NEW p \in Payees
      PROVE  TallyOf(left[h], p) + Cardinality(Waiting(a, h, p)) = Cardinality(For(S \ gone, h, p))
  <2>1. CASE \E s \in gone : s.vote.height = h
    <3>1. PICK s \in gone : s.vote.height = h
      BY <2>1
    <3>2. For(S \ gone, h, p) = {}
      BY <1>2, <1>3, <3>1 DEF For
    <3>3. TallyOf(left[h], p) = 0
      BY <1>5, <2>1, NoEntries
    <3>4. Waiting(a, h, p) = {}
      BY <3>1 DEF gone, Waiting
    <3>5. Cardinality(Waiting(a, h, p)) = 0 /\ Cardinality(For(S \ gone, h, p)) = 0
      BY <3>2, <3>4, FS_EmptySet, Zenon
    <3>. QED  BY <3>3, <3>5
  <2>2. CASE ~\E s \in gone : s.vote.height = h
    <3>1. For(S \ gone, h, p) = For(S, h, p)
      BY <2>2 DEF For
    <3>2. left[h] = b[h]
      BY <1>5, <2>2
    <3>. QED  BY <1>1, <3>1, <3>2 DEF Counts
  <2>. QED  BY <2>1, <2>2
<1>8. Counts(S \ gone, left, a, U)
  BY <1>7 DEF Counts
<1>9. StoreOK(S \ gone, left, a, U)
  BY <1>4, <1>6, <1>8 DEF StoreOK
<1>. QED  BY <1>9 DEF gone, left

(* A vote that is not known is one more vote, not yet counted.             *)
LEMMA AddedOK ==
    ASSUME NEW S, NEW b, NEW a \in [Threads -> Pending \union {None}], NEW T, StoreOK(S, b, a, T),
           NEW t \in Threads, a[t] = None, NEW r \in Pending, NEW k,
           ~\E s \in S : s.vote = r.vote
    PROVE  StoreOK(S \union {Signed(r.vote, k)}, b, [a EXCEPT ![t] = r], T)
<1>. DEFINE n == Signed(r.vote, k)
            c == [a EXCEPT ![t] = r]
<1>1. IsFiniteSet(S) /\ BlocksOK(b) /\ Counts(S, b, a, T)
  BY DEF StoreOK
<1>2. n.vote = r.vote /\ n \notin S
  BY DEF Signed
<1>3. r # None
  BY ConstantAssumption
<1>4. c[t] = r /\ \A u \in Threads : u # t => c[u] = a[u]
  OBVIOUS
<1>. HIDE DEF n, c
<1>5. IsFiniteSet(S \union {n})
  BY <1>1, FS_AddElement
<1>6. ASSUME NEW h \in Heights \ (T \union {0}), NEW p \in Payees
      PROVE  TallyOf(b[h], p) + Cardinality(Waiting(c, h, p)) = Cardinality(For(S \union {n}, h, p))
  <2>1. TallyOf(b[h], p) + Cardinality(Waiting(a, h, p)) = Cardinality(For(S, h, p))
    BY <1>1 DEF Counts
  <2>2. /\ IsFiniteSet(For(S, h, p)) /\ Cardinality(For(S, h, p)) \in Nat
        /\ IsFiniteSet(Waiting(a, h, p)) /\ Cardinality(Waiting(a, h, p)) \in Nat
        /\ TallyOf(b[h], p) \in Nat
    BY <1>1, CountTypes
  <2>3. CASE r.vote.height = h /\ r.vote.payee = p
    <3>1. For(S \union {n}, h, p) = For(S, h, p) \union {n} /\ n \notin For(S, h, p)
      BY <1>2, <2>3 DEF For
    <3>2. Waiting(c, h, p) = Waiting(a, h, p) \union {t} /\ t \notin Waiting(a, h, p)
      BY <1>3, <1>4, <2>3 DEF Waiting
    <3>3. Cardinality(For(S \union {n}, h, p)) = Cardinality(For(S, h, p)) + 1
      BY <2>2, <3>1, FS_AddElement
    <3>4. Cardinality(Waiting(c, h, p)) = Cardinality(Waiting(a, h, p)) + 1
      BY <2>2, <3>2, FS_AddElement
    <3>. QED  BY <2>1, <2>2, <3>3, <3>4
  <2>4. CASE ~(r.vote.height = h /\ r.vote.payee = p)
    <3>1. For(S \union {n}, h, p) = For(S, h, p)
      BY <1>2, <2>4 DEF For
    <3>2. Waiting(c, h, p) = Waiting(a, h, p)
      BY <1>4, <2>4 DEF Waiting
    <3>. QED  BY <2>1, <3>1, <3>2
  <2>. QED  BY <2>3, <2>4
<1>7. Counts(S \union {n}, b, c, T)
  BY <1>6 DEF Counts
<1>. QED  BY <1>1, <1>5, <1>7 DEF StoreOK, n, c

(* The second step counts the vote.                                        *)
LEMMA CountedOK ==
    ASSUME NEW S, NEW b, NEW a \in [Threads -> Pending \union {None}], NEW T, StoreOK(S, b, a, T),
           NEW t \in Threads, a[t] # None, NEW v, v = a[t].vote
    PROVE  StoreOK(S, [b EXCEPT ![v.height] = AddPayee(@, v.payee)], [a EXCEPT ![t] = None], T)
<1>. DEFINE new == [b EXCEPT ![v.height] = AddPayee(@, v.payee)]
            c == [a EXCEPT ![t] = None]
<1>1. IsFiniteSet(S) /\ BlocksOK(b) /\ Counts(S, b, a, T)
  BY DEF StoreOK
<1>2. v.height \in Heights /\ v.payee \in Payees
  BY DEF Pending, Votes, Payees
<1>3. /\ AddPayee(b[v.height], v.payee) \in Seq(PayeeRec)
      /\ Unique(AddPayee(b[v.height], v.payee))
      /\ \A q \in Payees : TallyOf(AddPayee(b[v.height], v.payee), q) =
                              TallyOf(b[v.height], q) + (IF v.payee = q THEN 1 ELSE 0)
  BY <1>1, <1>2, AddPayeeTally DEF BlocksOK
<1>4. \A h \in Heights : new[h] = IF h = v.height THEN AddPayee(b[h], v.payee) ELSE b[h]
  BY <1>1 DEF BlocksOK
<1>5. BlocksOK(new)
  BY <1>1, <1>2, <1>3 DEF BlocksOK
<1>6. c[t] = None /\ \A u \in Threads : u # t => c[u] = a[u]
  OBVIOUS
<1>. HIDE DEF new, c
<1>7. ASSUME NEW h \in Heights \ (T \union {0}), NEW p \in Payees
      PROVE  TallyOf(new[h], p) + Cardinality(Waiting(c, h, p)) = Cardinality(For(S, h, p))
  <2>1. TallyOf(b[h], p) + Cardinality(Waiting(a, h, p)) = Cardinality(For(S, h, p))
    BY <1>1 DEF Counts
  <2>2. /\ IsFiniteSet(Waiting(c, h, p)) /\ Cardinality(Waiting(c, h, p)) \in Nat
        /\ TallyOf(b[h], p) \in Nat
    BY <1>1, CountTypes
  <2>3. CASE v.height = h /\ v.payee = p
    <3>1. TallyOf(new[h], p) = TallyOf(b[h], p) + 1
      BY <1>3, <1>4, <2>3
    <3>2. Waiting(a, h, p) = Waiting(c, h, p) \union {t} /\ t \notin Waiting(c, h, p)
      BY <1>6, <2>3 DEF Waiting
    <3>3. Cardinality(Waiting(a, h, p)) = Cardinality(Waiting(c, h, p)) + 1
      BY <2>2, <3>2, FS_AddElement
    <3>. QED  BY <2>1, <2>2, <3>1, <3>3
  <2>4. CASE ~(v.height = h /\ v.payee = p)
    <3>1. TallyOf(new[h], p) = TallyOf(b[h], p)
      <4>1. CASE h = v.height
        <5>1. TallyOf(new[h], p) = TallyOf(b[h], p) + 0
          BY <1>3, <1>4, <2>4, <4>1
        <5>. QED  BY <2>2, <5>1
      <4>. QED  BY <1>4, <4>1
    <3>2. Waiting(a, h, p) = Waiting(c, h, p)
      BY <1>6, <2>4 DEF Waiting
    <3>. QED  BY <2>1, <3>1, <3>2
  <2>. QED  BY <2>3, <2>4
<1>8. Counts(S, new, c, T)
  BY <1>7 DEF Counts
<1>. QED  BY <1>1, <1>5, <1>8 DEF StoreOK, new, c

(* A node without a file starts with nothing.                              *)
LEMMA EmptyOK == \A T : StoreOK(Empty.votes, Empty.blocks, Idle, T) /\ Empty.votes = {}
<1>. DEFINE b == [h \in Heights |-> << >>]
<1>1. Empty.votes = {} /\ Empty.blocks = b
  BY DEF Empty
<1>2. BlocksOK(b)
  BY NoEntries DEF BlocksOK
<1>3. \A T : Counts({}, b, Idle, T)
  <2>1. \A h, p : For({}, h, p) = {}
    BY DEF For
  <2>2. \A h, p : Waiting(Idle, h, p) = {}
    BY DEF Waiting, Idle
  <2>3. Cardinality({}) = 0
    BY FS_EmptySet
  <2>4. \A h \in Heights : b[h] = << >>
    OBVIOUS
  <2>5. \A p : TallyOf(<< >>, p) = 0
    BY NoEntries
  <2>6. \A h, p : Cardinality(Waiting(Idle, h, p)) = 0 /\ Cardinality(For({}, h, p)) = 0
    BY <2>1, <2>2, <2>3, Zenon
  <2>. HIDE DEF b
  <2>. QED  BY <2>4, <2>5, <2>6 DEF Counts
<1>. QED  BY <1>1, <1>2, <1>3, FS_EmptySet DEF StoreOK

-----------------------------------------------------------------------------
(* The invariant.                                                          *)

(* TypeOK but for what BlocksOK says.                                      *)
VarsOK ==
    /\ RecordInv
    /\ tip \in FirstTip .. MaxTip
    /\ key \in [Masternodes -> 1 .. MaxKey] /\ list \in [Masternodes -> 0 .. MaxKey]
    /\ grade \in [Masternodes -> {"off", "young", "stable"}] /\ spork8 \in BOOLEAN
    /\ \A s \in signed \union votes : s.vote \in Votes /\ s.key \in 1 .. MaxKey
    /\ votes \subseteq signed
    /\ lastVote \in [Masternodes -> Heights] /\ lastBlock \in Heights
    /\ adding \in [Threads -> Pending \union {None}] /\ torn \subseteq Heights

(* Entries of the right type are all that TypeOK asks of the blocks.       *)
LEMMA BlocksType ==
    ASSUME NEW b, BlocksOK(b)
    PROVE  \A h \in Heights : \A i \in DOMAIN b[h] :
              b[h][i].payee \in Masternodes \union {None} /\ b[h][i].votes \in Nat \ {0}
<1>. SUFFICES ASSUME NEW h \in Heights, NEW i \in DOMAIN b[h]
     PROVE  b[h][i] \in PayeeRec
  BY DEF PayeeRec, Payees
<1>1. b[h] \in Seq(PayeeRec)
  BY DEF BlocksOK
<1>. QED  BY <1>1, ElementOfSeq, LenProperties

(* The whole invariant from its parts in the next state.                   *)
LEMMA Combine ==
    ASSUME VarsOK', StoreOK(votes', blocks', adding', torn'), AddingInv', DiskInv'
    PROVE  IInv'
<1>1. BlocksOK(blocks')
  BY DEF StoreOK
<1>2. \A h \in Heights : \A i \in DOMAIN blocks'[h] :
         blocks'[h][i].payee \in Masternodes \union {None} /\ blocks'[h][i].votes \in Nat \ {0}
  BY <1>1, BlocksType
<1>3. TypeOK' /\ RecordInv'
  BY <1>2 DEF TypeOK, VarsOK
<1>. QED  BY <1>3 DEF IInv

(* The parts in this state.                                                *)
LEMMA Parts ==
    ASSUME IInv
    PROVE  /\ VarsOK /\ StoreOK(votes, blocks, adding, torn) /\ AddingInv /\ DiskInv
           /\ tip \in Int
<1>1. VarsOK /\ StoreOK(votes, blocks, adding, torn) /\ AddingInv /\ DiskInv
  BY DEF IInv, TypeOK, VarsOK
<1>. QED  BY <1>1, ConstantAssumption DEF VarsOK

(* The limits are numbers.                                                 *)
LEMMA LimitTypes ==
    Size \in Nat /\ CleanLimit \in Nat /\ Reach \in Nat
<1>1. Listed \in SUBSET Masternodes /\ Enabled \in SUBSET Masternodes /\ IsFiniteSet(Masternodes)
  BY ConstantAssumption DEF Listed, Enabled
<1>2. Size \in Nat /\ Cardinality(Enabled) \in Nat
  BY <1>1, FS_Subset, FS_CardinalityType DEF Size
<1>3. (5 * Size) \div 4 \in Nat /\ Limit \in Nat
  BY <1>2, ConstantAssumption
<1>. QED  BY <1>2, <1>3 DEF CleanLimit, Reach

(* The file stays good while votes are only signed.                        *)
LEMMA DiskKept ==
    ASSUME DiskInv, disk' = disk, signed \subseteq signed', torn \subseteq torn'
    PROVE  DiskInv'
<1>1. CASE disk = None
  BY <1>1 DEF DiskInv
<1>2. CASE disk # None
  <2>1. disk.votes \subseteq signed' /\ StoreOK(disk.votes, disk.blocks, Idle, torn')
    BY <1>2, StoreFewer DEF DiskInv
  <2>. QED  BY <2>1 DEF DiskInv, StoreOK, BlocksOK, Counts, Waiting, Idle
<1>. QED  BY <1>1, <1>2

(* The node starts with an empty store.                                    *)
LEMMA InitIInv ==
    ASSUME Init
    PROVE  IInv
<1>1. 0 \in Heights /\ FirstTip \in FirstTip .. MaxTip /\ 1 \in 1 .. MaxKey
      /\ 1 .. MaxKey \subseteq 0 .. MaxKey
  BY ConstantAssumption DEF Heights
<1>2. VarsOK
  BY <1>1 DEF Init, VarsOK, RecordInv
<1>3. votes = Empty.votes /\ blocks = Empty.blocks /\ adding = Idle /\ disk = Empty
  BY DEF Init, Empty, Idle
<1>4. StoreOK(votes, blocks, adding, torn)
  BY <1>3, EmptyOK
<1>5. BlocksOK(blocks)
  BY <1>4 DEF StoreOK
<1>6. TypeOK /\ RecordInv
  BY <1>2, <1>5, BlocksType DEF TypeOK, VarsOK
<1>7. AddingInv /\ DiskInv
  <2>1. DiskInv
    BY <1>3, EmptyOK DEF DiskInv
  <2>. QED  BY <1>3, <2>1 DEF AddingInv, Idle
<1>. QED  BY <1>4, <1>6, <1>7 DEF IInv

(* A vote enters the map, whoever signed it.                               *)
LEMMA AddWinningStep ==
    ASSUME IInv, NEW t \in Threads, NEW v \in Votes, NEW k, NEW next \in Heights,
           AddWinningMasternode(t, v, k, next), adding[t] = None,
           UNCHANGED <<tip, listVars, blocks, torn>>,
           Reach <= CleanLimit => v.height = 0 \/ tip - v.height <= CleanLimit
    PROVE  /\ StoreOK(votes', blocks', adding', torn') /\ votes' = votes \union {Signed(v, k)}
           /\ adding' \in [Threads -> Pending \union {None}] /\ AddingInv'
<1>. DEFINE r == [vote |-> v, next |-> next, still |-> Reach <= CleanLimit]
<1>1. /\ votes' = votes \union {Signed(v, k)} /\ adding' = [adding EXCEPT ![t] = r]
      /\ ~\E s \in votes : s.vote = v
  BY DEF AddWinningMasternode, Known
<1>2. r \in Pending /\ r.vote = v /\ (r.still <=> Reach <= CleanLimit)
  <2>1. (Reach <= CleanLimit) \in BOOLEAN
    BY LimitTypes
  <2>2. r.vote = v /\ (r.still <=> Reach <= CleanLimit)
    OBVIOUS
  <2>. QED  BY <2>1, <2>2, Zenon DEF Pending
<1>. HIDE DEF r
<1>3. StoreOK(votes, blocks, adding, torn) /\ adding \in [Threads -> Pending \union {None}]
      /\ AddingInv
  BY Parts DEF VarsOK
<1>4. StoreOK(votes \union {Signed(r.vote, k)}, blocks, [adding EXCEPT ![t] = r], torn)
  BY <1>1, <1>2, <1>3, AddedOK
<1>5. StoreOK(votes', blocks', adding', torn')
  BY <1>1, <1>2, <1>4
<1>6. adding' \in [Threads -> Pending \union {None}]
  BY <1>1, <1>2, <1>3
<1>7. CleanLimit' = CleanLimit /\ tip' = tip
  BY DEF CleanLimit, Size, Listed, listVars
<1>8. AddingInv'
  <2>1. ASSUME NEW u \in Threads, adding'[u] # None, adding'[u].still
        PROVE  adding'[u].vote.height = 0 \/ tip' - adding'[u].vote.height <= CleanLimit'
    <3>1. CASE u = t
      <4>1. adding'[u] = r
        BY <1>1, <1>3, <3>1
      <4>. QED  BY <1>2, <1>7, <2>1, <4>1
    <3>2. CASE u # t
      <4>1. adding'[u] = adding[u]
        BY <1>1, <1>3, <3>2
      <4>. QED  BY <1>3, <1>7, <2>1, <4>1 DEF AddingInv
    <3>. QED  BY <3>1, <3>2
  <2>. QED  BY <2>1 DEF AddingInv
<1>. QED  BY <1>1, <1>5, <1>6, <1>8

(* ProcessBlock votes for a height ahead of the tip or for height 0.       *)
LEMMA ProcessBlockStep ==
    ASSUME IInv, NEW t \in Threads, ProcessBlock(t)
    PROVE  IInv'
<1>1. /\ VarsOK /\ StoreOK(votes, blocks, adding, torn) /\ AddingInv /\ DiskInv /\ tip \in Int
  BY Parts
<1>2. /\ adding[t] = None
      /\ UNCHANGED <<tip, listVars, blocks, lastVote, lastBlock, torn, disk, restarts>>
  BY DEF ProcessBlock
<1>3. tip \in Nat /\ Lead \in Nat /\ tip + Lead \in Heights
  BY <1>1, ConstantAssumption DEF Heights, VarsOK
<1>4. PICK v \in Votes :
         /\ NewWinner(tip + Lead, v)
         /\ AddWinningMasternode(t, v, key[Me], tip + Lead)
         /\ signed' = signed \union {Signed(v, key[Me])}
  BY DEF ProcessBlock
<1>5. v.height = 0 \/ v.height = tip + Lead
  BY <1>4 DEF NewWinner
<1>6. v.height = 0 \/ tip - v.height <= CleanLimit
  BY <1>3, <1>5, LimitTypes
<1>7. /\ StoreOK(votes', blocks', adding', torn') /\ AddingInv'
      /\ votes' = votes \union {Signed(v, key[Me])}
      /\ adding' \in [Threads -> Pending \union {None}]
  BY <1>2, <1>3, <1>4, <1>6, AddWinningStep
<1>8. key[Me] \in 1 .. MaxKey
  BY <1>1, ConstantAssumption DEF VarsOK
<1>9. Signed(v, key[Me]).vote = v /\ Signed(v, key[Me]).key = key[Me]
  BY DEF Signed
<1>10. \A s \in signed' \union votes' : s \in signed \union votes \/ s = Signed(v, key[Me])
  BY <1>4, <1>7
<1>11. \A s \in signed' \union votes' : s.vote \in Votes /\ s.key \in 1 .. MaxKey
  BY <1>1, <1>8, <1>9, <1>10 DEF VarsOK
<1>12. votes' \subseteq signed'
  BY <1>1, <1>4, <1>7 DEF VarsOK
<1>13. RecordInv'
  BY <1>1, <1>4, <1>9 DEF VarsOK, RecordInv
<1>14. VarsOK'
  BY <1>1, <1>2, <1>7, <1>11, <1>12, <1>13 DEF VarsOK, listVars
<1>15. DiskInv'
  BY <1>1, <1>2, <1>4, DiskKept
<1>. QED  BY <1>7, <1>14, <1>15, Combine

(* "mnw": the vote is in the reach of the handler.                         *)
LEMMA ReceiveWinnerStep ==
    ASSUME IInv, NEW s \in signed, ReceiveWinner(s)
    PROVE  IInv'
<1>1. /\ VarsOK /\ StoreOK(votes, blocks, adding, torn) /\ AddingInv /\ DiskInv /\ tip \in Int
  BY Parts
<1>2. /\ adding["net"] = None /\ Receivable(s)
      /\ lastVote' = [lastVote EXCEPT ![s.vote.mn] = s.vote.height]
      /\ UNCHANGED <<tip, listVars, signed, blocks, lastBlock, torn, disk, restarts>>
  BY DEF ReceiveWinner
<1>3. s.vote \in Votes /\ s.vote.height \in Heights /\ s.vote.mn \in Masternodes
  BY <1>1 DEF VarsOK, Votes
<1>4. lastVote' \in [Masternodes -> Heights]
  BY <1>1, <1>2, <1>3 DEF VarsOK
<1>5. DiskInv'
  BY <1>1, <1>2, DiskKept
<1>6. CASE UNCHANGED <<votes, adding>>
  <2>1. VarsOK'
    BY <1>1, <1>2, <1>4, <1>6 DEF VarsOK, RecordInv, listVars
  <2>2. CleanLimit' = CleanLimit
    BY <1>2 DEF CleanLimit, Size, Listed, listVars
  <2>3. AddingInv'
    BY <1>1, <1>2, <1>6, <2>2 DEF AddingInv
  <2>. QED  BY <1>1, <1>2, <1>5, <1>6, <2>1, <2>3, Combine
<1>7. CASE list[s.vote.mn] = s.key /\ AddWinningMasternode("net", s.vote, s.key, 0)
  <2>1. s.vote.height \in Nat /\ 0 \in Heights /\ "net" \in Threads
    BY <1>3, ConstantAssumption DEF Heights, Threads
  <2>2. Reach <= CleanLimit => tip - s.vote.height <= CleanLimit
    BY <1>1, <1>2, <2>1, LimitTypes DEF Receivable
  <2>3. /\ StoreOK(votes', blocks', adding', torn') /\ AddingInv'
        /\ votes' = votes \union {Signed(s.vote, s.key)}
        /\ adding' \in [Threads -> Pending \union {None}]
    BY <1>2, <1>3, <1>7, <2>1, <2>2, AddWinningStep
  <2>4. Signed(s.vote, s.key) = s
    BY <1>1 DEF VarsOK, RecordInv
  <2>5. VarsOK'
    BY <1>1, <1>2, <1>4, <2>3, <2>4 DEF VarsOK, RecordInv, listVars
  <2>. QED  BY <1>5, <2>3, <2>5, Combine
<1>. QED  BY <1>6, <1>7 DEF ReceiveWinner

(* The second step of adding a vote.                                       *)
LEMMA CountVoteStep ==
    ASSUME IInv, NEW t \in Threads, CountVote(t)
    PROVE  IInv'
<1>1. VarsOK /\ StoreOK(votes, blocks, adding, torn) /\ AddingInv /\ DiskInv
  BY Parts
<1>. DEFINE v == adding[t].vote
<1>2. /\ adding[t] # None /\ adding' = [adding EXCEPT ![t] = None]
      /\ blocks' = [blocks EXCEPT ![v.height] = AddPayee(@, v.payee)]
      /\ lastBlock' = IF adding[t].next # 0 THEN adding[t].next ELSE lastBlock
      /\ UNCHANGED <<tip, listVars, signed, votes, lastVote, torn, disk, restarts>>
  BY DEF CountVote
<1>3. adding \in [Threads -> Pending \union {None}]
  BY <1>1 DEF VarsOK
<1>. HIDE DEF v
<1>4. StoreOK(votes', blocks', adding', torn')
  BY <1>1, <1>2, <1>3, CountedOK DEF v
<1>5. lastBlock' \in Heights
  BY <1>1, <1>2, <1>3 DEF VarsOK, Pending
<1>6. adding' \in [Threads -> Pending \union {None}]
  BY <1>2, <1>3
<1>7. VarsOK'
  BY <1>1, <1>2, <1>5, <1>6 DEF VarsOK, RecordInv, listVars
<1>8. CleanLimit' = CleanLimit
  BY <1>2 DEF CleanLimit, Size, Listed, listVars
<1>9. \A u \in Threads : adding'[u] # None => adding'[u] = adding[u]
  BY <1>2, <1>3
<1>10. AddingInv'
  BY <1>1, <1>2, <1>8, <1>9 DEF AddingInv
<1>. QED  BY <1>1, <1>2, <1>4, <1>7, <1>10, DiskKept, Combine

(* The tip or the list changes while votes are being added.                *)
LEMMA MovedOK ==
    ASSUME IInv, adding' = Moved
    PROVE  /\ adding' \in [Threads -> Pending \union {None}] /\ AddingInv'
           /\ StoreOK(votes, blocks, adding', torn)
<1>1. /\ adding \in [Threads -> Pending \union {None}]
      /\ StoreOK(votes, blocks, adding, torn)
  BY Parts DEF VarsOK
<1>2. \A t \in Threads :
         adding'[t] = IF adding[t] = None THEN None ELSE [adding[t] EXCEPT !.still = FALSE]
  BY DEF Moved
<1>3. ASSUME NEW t \in Threads, adding[t] # None
      PROVE  /\ adding'[t] \in Pending /\ ~adding'[t].still /\ adding'[t].vote = adding[t].vote
             /\ adding'[t] # None
  <2>1. adding[t] \in Pending
    BY <1>1, <1>3
  <2>2. adding'[t] = [adding[t] EXCEPT !.still = FALSE]
    BY <1>2, <1>3
  <2>3. adding'[t] \in Pending
    BY <2>1, <2>2 DEF Pending
  <2>. QED  BY <2>1, <2>2, <2>3, ConstantAssumption DEF Pending
<1>4. \A t \in Threads : adding[t] = None => adding'[t] = None
  BY <1>2
<1>5. adding' \in [Threads -> Pending \union {None}]
  <2>1. \A t \in Threads : Moved[t] \in Pending \union {None}
    BY <1>3, <1>4
  <2>2. Moved = [t \in Threads |-> Moved[t]]
    BY DEF Moved
  <2>. QED  BY <2>1, <2>2
<1>6. AddingInv'
  BY <1>3, <1>4 DEF AddingInv
<1>7. StoreOK(votes, blocks, adding', torn)
  BY <1>1, <1>3, <1>4, StoreSame
<1>. QED  BY <1>5, <1>6, <1>7

(* The tip moves, by a block more or less.                                 *)
LEMMA MoveTipStep ==
    ASSUME IInv, NEW h \in FirstTip .. MaxTip, MoveTip(h)
    PROVE  IInv'
<1>1. VarsOK /\ DiskInv
  BY Parts
<1>2. /\ tip' = h /\ adding' = Moved
      /\ UNCHANGED <<listVars, signed, votes, blocks, lastVote, lastBlock, torn, disk, restarts>>
  BY DEF MoveTip
<1>3. /\ adding' \in [Threads -> Pending \union {None}] /\ AddingInv'
      /\ StoreOK(votes, blocks, adding', torn)
  BY <1>2, MovedOK
<1>4. VarsOK'
  BY <1>1, <1>2, <1>3 DEF VarsOK, RecordInv, listVars
<1>. QED  BY <1>1, <1>2, <1>3, <1>4, DiskKept, Combine

(* The obfuscation thread cleans, perhaps between the two steps.           *)
LEMMA CleanStep ==
    ASSUME IInv, CleanPaymentList
    PROVE  IInv'
<1>1. /\ VarsOK /\ StoreOK(votes, blocks, adding, torn) /\ AddingInv /\ DiskInv /\ tip \in Int
  BY Parts
<1>. DEFINE gone == Cleaned(votes)
            Hit(t) == adding[t] # None /\ ~adding[t].still
                      /\ \E s \in gone : s.vote.height = adding[t].vote.height
<1>2. /\ votes' = votes \ gone
      /\ blocks' = [h \in Heights |-> IF \E s \in gone : s.vote.height = h THEN << >> ELSE blocks[h]]
      /\ torn' = torn \union {adding[t].vote.height : t \in {t \in Threads : Hit(t)}}
      /\ UNCHANGED <<tip, listVars, signed, lastVote, lastBlock, adding, disk, restarts>>
  BY DEF CleanPaymentList
<1>3. adding \in [Threads -> Pending \union {None}]
  BY <1>1 DEF VarsOK
<1>4. \A s \in gone : s \in votes /\ tip - s.vote.height > CleanLimit
  BY DEF Cleaned
<1>5. \A s \in gone : s.vote.height \in Nat
  BY <1>1, <1>4, ConstantAssumption DEF VarsOK, Votes, Heights
<1>6. ASSUME NEW t \in Threads, NEW s \in gone, adding[t] # None, adding[t].vote.height = s.vote.height
      PROVE  s.vote.height \in torn' \union {0}
  <2>. HIDE DEF gone
  <2>1. CASE adding[t].still
    BY <1>1, <1>4, <1>5, <1>6, <2>1, LimitTypes DEF AddingInv
  <2>2. CASE ~adding[t].still
    <3>1. Hit(t)
      BY <1>6, <2>2
    <3>. HIDE DEF Hit
    <3>. QED  BY <1>2, <1>6, <3>1
  <2>. QED  BY <2>1, <2>2
<1>. HIDE DEF Hit
<1>7. torn \subseteq torn'
  BY <1>2
<1>8. StoreOK(votes', blocks', adding, torn')
  <2>1. \A t \in Threads : \A s \in Cleaned(votes) :
           adding[t] # None /\ adding[t].vote.height = s.vote.height => s.vote.height \in torn' \union {0}
    BY <1>6
  <2>. QED  BY <1>1, <1>2, <1>7, <2>1, CleanedOK
<1>9. torn' \subseteq Heights
  <2>1. \A t \in Threads : Hit(t) => adding[t].vote.height \in Heights
    BY <1>3 DEF Hit, Pending, Votes
  <2>2. torn \subseteq Heights
    BY <1>1 DEF VarsOK
  <2>. QED  BY <1>2, <2>1, <2>2
<1>. HIDE DEF gone
<1>10. VarsOK'
  BY <1>1, <1>2, <1>9 DEF VarsOK, RecordInv, listVars
<1>11. CleanLimit' = CleanLimit
  BY <1>2 DEF CleanLimit, Size, Listed, listVars
<1>12. AddingInv'
  BY <1>1, <1>2, <1>11 DEF AddingInv
<1>13. DiskInv'
  BY <1>1, <1>2, <1>7, DiskKept
<1>. QED  BY <1>2, <1>8, <1>10, <1>12, <1>13, Combine

(* After a restart the store is the one of some earlier moment, cleaned.   *)
LEMMA RestartStep ==
    ASSUME IInv, Restart
    PROVE  IInv'
<1>1. /\ VarsOK /\ StoreOK(votes, blocks, adding, torn) /\ DiskInv
  BY Parts
<1>2. PICK file \in {Dumped, disk, None} :
         (file = Dumped => \A t \in Threads : adding[t] = None) /\ disk' = file /\ Load(file)
  BY DEF Restart
<1>3. UNCHANGED <<tip, listVars, signed, torn>>
  BY DEF Restart
<1>. DEFINE read == IF file = None THEN Empty ELSE file
            gone == Cleaned(read.votes)
<1>4. /\ votes' = read.votes \ gone
      /\ blocks' = [h \in Heights |->
                      IF \E s \in gone : s.vote.height = h THEN << >> ELSE read.blocks[h]]
      /\ lastVote' = [m \in Masternodes |-> 0] /\ lastBlock' = 0 /\ adding' = Idle
  BY <1>2 DEF Load, Idle
<1>5. file # None => file.votes \subseteq signed /\ StoreOK(file.votes, file.blocks, Idle, torn)
  <2>1. CASE file = disk
    BY <1>1, <2>1 DEF DiskInv
  <2>2. CASE file = Dumped /\ file # None
    <3>1. /\ \A t \in Threads : adding[t] = None
          /\ file = [votes |-> votes, blocks |-> blocks]
      BY <1>2, <2>2 DEF Dumped
    <3>2. file.votes = votes /\ file.blocks = blocks
      BY <3>1
    <3>3. \A t \in Threads : Idle[t] = None
      BY DEF Idle
    <3>4. StoreOK(votes, blocks, Idle, torn)
      BY <1>1, <3>1, <3>3, StoreSame
    <3>. QED  BY <1>1, <3>2, <3>4 DEF VarsOK
  <2>. QED  BY <1>2, <2>1, <2>2
<1>6. read.votes \subseteq signed /\ StoreOK(read.votes, read.blocks, Idle, torn)
  BY <1>5, EmptyOK
<1>7. StoreOK(votes', blocks', adding', torn')
  <2>1. \A t \in Threads : Idle[t] = None
    BY DEF Idle
  <2>. DEFINE S == read.votes
              b == read.blocks
  <2>2. StoreOK(S, b, Idle, torn)
    BY <1>6
  <2>3. /\ votes' = S \ Cleaned(S)
        /\ blocks' = [h \in Heights |-> IF \E s \in Cleaned(S) : s.vote.height = h THEN << >> ELSE b[h]]
    BY <1>4
  <2>. HIDE DEF read, S, b
  <2>4. StoreOK(votes', blocks', Idle, torn)
    BY <2>1, <2>2, <2>3, CleanedOK
  <2>. QED  BY <1>3, <1>4, <2>4
<1>. HIDE DEF read, gone
<1>8. 0 \in Heights
  BY ConstantAssumption DEF Heights
<1>9. votes' \subseteq signed
  BY <1>4, <1>6
<1>10. VarsOK'
  BY <1>1, <1>3, <1>4, <1>8, <1>9 DEF VarsOK, RecordInv, listVars, Idle
<1>11. AddingInv'
  BY <1>4 DEF AddingInv, Idle
<1>12. DiskInv'
  <2>1. disk' # None => disk'.votes \subseteq signed' /\ StoreOK(disk'.votes, disk'.blocks, Idle, torn')
    BY <1>2, <1>3, <1>5
  <2>. QED  BY <2>1 DEF DiskInv, StoreOK, BlocksOK, Counts, Waiting, Idle
<1>. QED  BY <1>7, <1>10, <1>11, <1>12, Combine

(* The list changes.                                                       *)
LEMMA UpdateListStep ==
    ASSUME IInv, NEW m \in Masternodes, UpdateList(m)
    PROVE  IInv'
<1>1. VarsOK /\ DiskInv
  BY Parts
<1>2. /\ adding' = Moved
      /\ UNCHANGED <<tip, key, spork8, signed, votes, blocks, lastVote, lastBlock, torn, disk, restarts>>
      /\ grade' = IF list'[m] = 0 THEN [grade EXCEPT ![m] = "off"] ELSE grade
  BY DEF UpdateList
<1>3. /\ adding' \in [Threads -> Pending \union {None}] /\ AddingInv'
      /\ StoreOK(votes, blocks, adding', torn)
  BY <1>2, MovedOK
<1>4. list' \in [Masternodes -> 0 .. MaxKey]
  <2>1. PICK k \in {0, key[m]} : list' = [list EXCEPT ![m] = k]
    BY DEF UpdateList
  <2>2. k \in 0 .. MaxKey
    BY <1>1, ConstantAssumption DEF VarsOK
  <2>. QED  BY <1>1, <2>1, <2>2 DEF VarsOK
<1>5. grade' \in [Masternodes -> {"off", "young", "stable"}]
  BY <1>1, <1>2 DEF VarsOK
<1>6. VarsOK'
  BY <1>1, <1>2, <1>3, <1>4, <1>5 DEF VarsOK, RecordInv
<1>. QED  BY <1>1, <1>2, <1>3, <1>6, DiskKept, Combine

(* The grades, the spork and the other masternodes.                        *)
LEMMA EnvironmentStep ==
    ASSUME IInv, \/ \E m \in Masternodes : UpdateGrade(m) \/ NewKey(m)
                 \/ Switch
                 \/ \E v \in OtherVotes : SignVote(v)
    PROVE  IInv'
<1>1. VarsOK /\ StoreOK(votes, blocks, adding, torn) /\ AddingInv /\ DiskInv
  BY Parts
<1>2. UNCHANGED <<tip, list, votes, blocks, lastVote, lastBlock, adding, torn, disk, restarts>>
  BY DEF UpdateGrade, NewKey, Switch, SignVote, listVars
<1>. DEFINE Kept ==
         /\ key' \in [Masternodes -> 1 .. MaxKey]
         /\ grade' \in [Masternodes -> {"off", "young", "stable"}] /\ spork8' \in BOOLEAN
         /\ signed \subseteq signed'
         /\ \A s \in signed' : s.vote \in Votes /\ s.key \in 1 .. MaxKey
         /\ RecordInv'
<1>3. Kept
  <2>1. MaxKey \in Nat
    BY ConstantAssumption
  <2>2. ASSUME NEW m \in Masternodes, UpdateGrade(m)
        PROVE  Kept
    <3>1. PICK g \in Grades : grade' = [grade EXCEPT ![m] = g]
      BY <2>2 DEF UpdateGrade
    <3>2. g \in {"off", "young", "stable"}
      BY ConstantAssumption
    <3>. QED  BY <1>1, <2>2, <3>1, <3>2 DEF UpdateGrade, VarsOK, RecordInv
  <2>3. ASSUME NEW m \in Masternodes, NewKey(m)
        PROVE  Kept
    <3>1. key' = [key EXCEPT ![m] = @ + 1] /\ key[m] < MaxKey /\ UNCHANGED <<grade, spork8, signed>>
      BY <2>3 DEF NewKey
    <3>2. key[m] + 1 \in 1 .. MaxKey
      BY <1>1, <2>1, <3>1 DEF VarsOK
    <3>. QED  BY <1>1, <3>1, <3>2 DEF VarsOK, RecordInv
  <2>4. CASE Switch
    BY <1>1, <2>4, ConstantAssumption DEF Switch, VarsOK, RecordInv
  <2>5. ASSUME NEW v \in OtherVotes, SignVote(v)
        PROVE  Kept
    <3>1. v \in Votes /\ key[v.mn] \in 1 .. MaxKey
      BY <1>1, ConstantAssumption DEF Votes, VarsOK
    <3>2. Signed(v, key[v.mn]).vote = v /\ Signed(v, key[v.mn]).key = key[v.mn]
      BY DEF Signed
    <3>3. signed' = signed \union {Signed(v, key[v.mn])} /\ UNCHANGED <<key, grade, spork8>>
      BY <2>5 DEF SignVote, listVars
    <3>. QED  BY <1>1, <3>1, <3>2, <3>3 DEF VarsOK, RecordInv
  <2>. HIDE DEF Kept
  <2>. QED  BY <2>2, <2>3, <2>4, <2>5
<1>4. VarsOK'
  BY <1>1, <1>2, <1>3 DEF VarsOK
<1>5. CleanLimit' = CleanLimit
  BY <1>2 DEF CleanLimit, Size, Listed
<1>6. AddingInv'
  BY <1>1, <1>2, <1>5 DEF AddingInv
<1>7. DiskInv'
  BY <1>1, <1>2, <1>3, DiskKept
<1>. QED  BY <1>1, <1>2, <1>4, <1>6, <1>7, Combine

(* Every step preserves the invariant.                                     *)
LEMMA NextIInv ==
    ASSUME IInv, [Next]_vars
    PROVE  IInv'
<1>1. VarsOK /\ StoreOK(votes, blocks, adding, torn) /\ AddingInv /\ DiskInv
  BY Parts
<1>2. CASE ExtendTip \/ Reorganise
  <2>1. tip \in FirstTip .. MaxTip /\ FirstTip \in Nat /\ MaxTip \in Nat
    BY <1>1, ConstantAssumption DEF VarsOK
  <2>. QED  BY <1>2, <2>1, MoveTipStep DEF ExtendTip, Reorganise
<1>3. CASE \E t \in Threads : ProcessBlock(t) \/ CountVote(t)
  BY <1>3, ProcessBlockStep, CountVoteStep
<1>4. CASE CleanPaymentList \/ Restart
  BY <1>4, CleanStep, RestartStep
<1>5. CASE \E s \in signed : ReceiveWinner(s)
  BY <1>5, ReceiveWinnerStep
<1>6. CASE \E m \in Unsteady : UpdateList(m)
  BY <1>6, UpdateListStep, ConstantAssumption
<1>7. CASE \/ \E m \in Unsteady : UpdateGrade(m) \/ NewKey(m)
           \/ Switch
           \/ \E v \in OtherVotes : SignVote(v)
  BY <1>7, EnvironmentStep, ConstantAssumption
<1>8. CASE UNCHANGED vars
  <2>1. CleanLimit' = CleanLimit
    BY <1>8 DEF CleanLimit, Size, Listed, vars
  <2>2. VarsOK' /\ AddingInv'
    BY <1>1, <1>8, <2>1 DEF vars, VarsOK, RecordInv, AddingInv
  <2>3. DiskInv'
    BY <1>1, <1>8, DiskKept DEF vars
  <2>. QED  BY <1>1, <1>8, <2>2, <2>3, Combine DEF vars
<1>. QED  BY <1>2, <1>3, <1>4, <1>5, <1>6, <1>7, <1>8 DEF Next

(* The invariant holds in every reachable state.                           *)
THEOREM Invariance == Spec => []IInv
<1>1. Init => IInv
  BY InitIInv
<1>2. IInv /\ [Next]_vars => IInv'
  BY NextIInv
<1>. QED  BY <1>1, <1>2, PTL DEF Spec

(* The maps of masternode-payments.cpp keep their types; only votes that   *)
(* were signed are ever in them.                                           *)
THEOREM TypeCorrect == Spec => []TypeOK
<1>1. IInv => TypeOK
  BY DEF IInv
<1>. QED  BY <1>1, Invariance, PTL

(* Every vote that is kept is counted once, though two threads add votes   *)
(* in two steps, a vote may arrive again, and the node may stop between    *)
(* any two steps; the heights that CleanPaymentList cleaned between two    *)
(* steps after a change of the tip or the list are the only exception.     *)
THEOREM CountTheorem == Spec => []VotesCounted
<1>1. IInv => VotesCounted
  <2>. SUFFICES ASSUME IInv PROVE VotesCounted
    OBVIOUS
  <2>1. Counts(votes, blocks, adding, torn)
    BY Parts DEF StoreOK
  <2>2. \A h, p : Tally(h, p) = TallyOf(blocks[h], p)
    BY DEF Tally, TallyOf
  <2>3. \A h, p : Uncounted(h, p) = Waiting(adding, h, p)
    BY DEF Uncounted, Waiting
  <2>. QED  BY <2>1, <2>2, <2>3 DEF Counts, For, Payees, VotesCounted
<1>. QED  BY <1>1, Invariance, PTL

-----------------------------------------------------------------------------
(* The block a node makes.                                                 *)

(* GetPayee finds a payee: some entry has the most votes, and is the first *)
(* of those.                                                               *)
LEMMA MostVotes ==
    ASSUME NEW payments \in Seq(PayeeRec), payments # << >>
    PROVE  \E i \in DOMAIN payments :
              /\ \A j \in DOMAIN payments : payments[j].votes <= payments[i].votes
              /\ \A j \in 1 .. i - 1 : payments[j].votes < payments[i].votes
<1>. DEFINE V(i) == payments[i].votes
            Best(n, i) == /\ i \in 1 .. n
                          /\ \A j \in 1 .. n : V(j) <= V(i)
                          /\ \A j \in 1 .. i - 1 : V(j) < V(i)
            Bad == {n \in 1 .. Len(payments) : ~\E i \in 1 .. n : Best(n, i)}
<1>1. /\ DOMAIN payments = 1 .. Len(payments) /\ Len(payments) \in Nat \ {0}
      /\ \A i \in 1 .. Len(payments) : V(i) \in Nat
  <2>1. \A i \in 1 .. Len(payments) : payments[i] \in PayeeRec
    BY ElementOfSeq
  <2>. QED  BY <2>1, LenProperties, EmptySeq DEF PayeeRec
<1>. HIDE DEF V
<1>2. CASE Bad = {}
  <2>1. Len(payments) \in 1 .. Len(payments)
    BY <1>1
  <2>2. \E i \in 1 .. Len(payments) : Best(Len(payments), i)
    <3>. HIDE DEF Best
    <3>. QED  BY <1>2, <2>1
  <2>. QED  BY <1>1, <2>2 DEF V
<1>3. CASE Bad # {}
  <2>1. Bad \in SUBSET Nat
    BY <1>1
  <2>2. PICK n \in Bad : \A k \in Bad : ~(<<k, n>> \in OpToRel(<, Nat))
    <3>. HIDE DEF Bad
    <3>. QED  BY <1>3, <2>1, NatLessThanWellFounded, WFMin
  <2>3. \A k \in Bad : ~(k < n)
    BY <2>1, <2>2 DEF OpToRel
  <2>4. n \in 1 .. Len(payments) /\ ~\E i \in 1 .. n : Best(n, i)
    OBVIOUS
  <2>5. CASE n = 1
    <3>1. V(1) \in Nat
      BY <1>1
    <3>2. Best(1, 1)
      BY <3>1
    <3>. QED  BY <2>4, <2>5, <3>2
  <2>6. CASE n > 1
    <3>1. n - 1 \in 1 .. Len(payments) /\ n - 1 < n
      BY <1>1, <2>4, <2>6
    <3>2. n - 1 \notin Bad
      BY <2>3, <3>1
    <3>3. PICK i \in 1 .. (n - 1) : Best(n - 1, i)
      BY <3>1, <3>2
    <3>4. \A j \in 1 .. n : V(j) \in Nat
      BY <1>1, <2>4
    <3>5. CASE V(n) <= V(i)
      <4>1. Best(n, i)
        BY <1>1, <2>4, <3>3, <3>4, <3>5
      <4>. QED  BY <1>1, <2>4, <3>3, <4>1
    <3>6. CASE V(i) < V(n)
      <4>1. Best(n, n)
        BY <1>1, <2>4, <3>3, <3>4, <3>6
      <4>. QED  BY <1>1, <2>4, <4>1
    <3>. QED  BY <1>1, <2>4, <3>3, <3>4, <3>5, <3>6
  <2>. QED  BY <1>1, <2>4, <2>5, <2>6
<1>. QED  BY <1>2, <1>3

(* If any payee has enough votes, GetPayee's has.                          *)
LEMMA GetPayeeEnough ==
    ASSUME NEW payments \in Seq(PayeeRec), Enough(payments) # {}
    PROVE  \E i \in Enough(payments) : payments[i].payee = GetPayee(payments)
<1>. DEFINE Best(i) == /\ \A j \in DOMAIN payments : payments[j].votes <= payments[i].votes
                       /\ \A j \in 1 .. i - 1 : payments[j].votes < payments[i].votes
            best == CHOOSE i \in DOMAIN payments : Best(i)
<1>1. PICK k \in DOMAIN payments : payments[k].votes >= Required
  BY DEF Enough
<1>2. payments # << >>
  BY <1>1
<1>3. \E i \in DOMAIN payments : Best(i)
  BY <1>2, MostVotes
<1>4. best \in DOMAIN payments /\ Best(best)
  BY <1>3
<1>5. GetPayee(payments) = payments[best].payee
  BY DEF GetPayee
<1>. HIDE DEF best
<1>6. payments[best].votes \in Nat /\ payments[k].votes \in Nat /\ Required \in Nat
  <2>1. payments[best] \in PayeeRec /\ payments[k] \in PayeeRec
    BY <1>4, ElementOfSeq, LenProperties
  <2>. QED  BY <2>1, ConstantAssumption DEF PayeeRec
<1>7. payments[best].votes >= Required
  BY <1>1, <1>4, <1>6
<1>. QED  BY <1>4, <1>5, <1>7 DEF Enough

(* Products of naturals are monotone.                                      *)
LEMMA TimesMonotone ==
    ASSUME NEW a \in Nat, NEW b \in Nat, NEW c \in Nat, a <= b
    PROVE  a * c <= b * c /\ c * a <= c * b /\ a * c \in Nat /\ c * b \in Nat
  OBVIOUS

(* The table of shares falls.                                              *)
LEMMA SharesFall ==
    ASSUME NEW i \in 1 .. 86, NEW j \in 1 .. 86, i <= j
    PROVE  Shares[i] \in Nat /\ Shares[j] \in Nat /\ Shares[j] <= Shares[i]
<1>. DEFINE S(k) == CASE k = 1 -> 90 [] k > 1 /\ k <= 85 -> 90 - k [] k = 86 -> 1
<1>1. Shares[i] = S(i) /\ Shares[j] = S(j)
  BY DEF Shares
<1>2. ASSUME NEW k \in 1 .. 86
      PROVE  /\ k = 1 => S(k) = 90
             /\ k > 1 /\ k <= 85 => S(k) = 90 - k
             /\ k = 86 => S(k) = 1
  OBVIOUS
<1>. HIDE DEF S
<1>. QED  BY <1>1, <1>2

(* The bounds are numbers.                                                 *)
LEMMA BoundsType ==
    ASSUME NEW i \in 1 .. 85
    PROVE  Bounds[i] \in Nat
<1>1. CASE i <= 35
  BY <1>1 DEF Bounds
<1>2. CASE i > 35 /\ i <= 80
  BY <1>2 DEF Bounds
<1>3. CASE i > 80
  <2>1. i - 80 \in 1 .. 5
    BY <1>3
  <2>2. \A k \in 1 .. 5 : <<945, 961, 974, 987, 990>>[k] \in Nat
    OBVIOUS
  <2>3. Bounds[i] = <<945, 961, 974, 987, 990>>[i - 80]
    BY <1>3 DEF Bounds
  <2>. QED  BY <2>1, <2>2, <2>3
<1>. QED  BY <1>1, <1>2, <1>3

(* The reward does not grow with the number of masternodes.                *)
LEMMA RewardFalls ==
    ASSUME NEW a \in Nat \ {0}, NEW b \in Nat, a <= b
    PROVE  GetMasternodePayment(b) <= GetMasternodePayment(a)
<1>. DEFINE Over(c) == {i \in 1 .. 85 : Bounds[i] * MoneySupply < 1000 * c * NodeCoins}
            row(c) == 1 + Cardinality(Over(c))
<1>1. MoneySupply \in Nat /\ NodeCoins \in Nat /\ BlockValue \in Nat
  BY ConstantAssumption
<1>2. Over(a) \subseteq Over(b)
  <2>1. 1000 * a * NodeCoins <= 1000 * b * NodeCoins
        /\ 1000 * a * NodeCoins \in Nat /\ 1000 * b * NodeCoins \in Nat
    <3>1. 1000 * a \in Nat /\ 1000 * b \in Nat /\ 1000 * a <= 1000 * b
      OBVIOUS
    <3>. QED  BY <1>1, <3>1, TimesMonotone
  <2>2. \A i \in 1 .. 85 : Bounds[i] * MoneySupply \in Nat
    BY <1>1, BoundsType
  <2>. QED  BY <2>1, <2>2
<1>3. /\ IsFiniteSet(Over(a)) /\ IsFiniteSet(Over(b))
      /\ Cardinality(Over(a)) <= Cardinality(Over(b)) /\ Cardinality(Over(b)) <= 85
  <2>. DEFINE rows == 85
  <2>1. Over(b) \in SUBSET (1 .. rows) /\ rows \in Nat \ {0}
    OBVIOUS
  <2>. HIDE DEF rows, Over
  <2>2. IsFiniteSet(1 .. rows) /\ Cardinality(1 .. rows) = rows
    BY <2>1, FS_Interval
  <2>3. IsFiniteSet(Over(b)) /\ Cardinality(Over(b)) <= rows
    BY <2>1, <2>2, FS_Subset
  <2>. QED  BY <1>2, <2>3, FS_Subset DEF rows
<1>4. Cardinality(Over(a)) \in Nat /\ Cardinality(Over(b)) \in Nat
  BY <1>3, FS_CardinalityType
<1>. HIDE DEF Over
<1>5. row(a) \in 1 .. 86 /\ row(b) \in 1 .. 86 /\ row(a) <= row(b)
  BY <1>3, <1>4
<1>. HIDE DEF row
<1>6. Shares[row(a)] \in Nat /\ Shares[row(b)] \in Nat /\ Shares[row(b)] <= Shares[row(a)]
  BY <1>5, SharesFall
<1>7. /\ GetMasternodePayment(a) = (BlockValue * Shares[row(a)]) \div 100
      /\ GetMasternodePayment(b) = (BlockValue * Shares[row(b)]) \div 100
  BY DEF GetMasternodePayment, Over, row
<1>. DEFINE x == BlockValue * Shares[row(a)]
            y == BlockValue * Shares[row(b)]
<1>8. x \in Nat /\ y \in Nat /\ y <= x
  BY <1>1, <1>6, TimesMonotone
<1>. HIDE DEF x, y
<1>9. y \div 100 <= x \div 100
  BY <1>8
<1>. QED  BY <1>7, <1>9 DEF x, y

(* A node accepts the block it makes, and so does every node with the same *)
(* votes that counts at most Drift masternodes fewer, whether SPORK_8 is   *)
(* on or off, unless the node counts none at all.                          *)
THEOREM OwnBlockTheorem == Spec => []OwnBlockAccepted
<1>1. IInv => OwnBlockAccepted
  <2>. SUFFICES ASSUME IInv, Count > 0, NEW count \in (Count - Drift) .. (Count + 1), count >= 0
       PROVE  IsTransactionValid(tip + 1, FillBlockPayee, count)
    BY DEF OwnBlockAccepted
  <2>1. Count \in Nat /\ Drift \in Nat
    <3>1. Ranked \in SUBSET Masternodes /\ IsFiniteSet(Masternodes)
      BY ConstantAssumption DEF Listed, Enabled, Ranked
    <3>2. Cardinality(Ranked) \in Nat
      BY <3>1, FS_Subset, FS_CardinalityType
    <3>. QED  BY <3>2, LimitTypes, ConstantAssumption DEF Count
  <2>2. GetMasternodePayment(count + Drift) <= GetMasternodePayment(Count)
    BY <2>1, RewardFalls
  <2>3. tip + 1 \in Heights
    BY Parts, ConstantAssumption DEF VarsOK, Heights
  <2>. DEFINE payments == blocks[tip + 1]
  <2>4. payments \in Seq(PayeeRec)
    BY <2>3, Parts DEF StoreOK, BlocksOK
  <2>5. CASE Enough(payments) = {}
    BY <2>5 DEF IsTransactionValid
  <2>6. CASE Enough(payments) # {}
    <3>1. PICK i \in Enough(payments) : payments[i].payee = GetPayee(payments)
      BY <2>4, <2>6, GetPayeeEnough
    <3>2. payments # << >>
      BY <3>1 DEF Enough
    <3>3. /\ FillBlockPayee.payee = GetPayee(payments)
          /\ FillBlockPayee.value = GetMasternodePayment(Count)
      BY <3>2 DEF FillBlockPayee
    <3>4. GetMasternodePayment(Count) >= GetMasternodePayment(count + Drift)
      BY <2>2
    <3>. QED  BY <3>1, <3>3, <3>4 DEF IsTransactionValid
  <2>. QED  BY <2>5, <2>6
<1>. QED  BY <1>1, Invariance, PTL

=============================================================================
