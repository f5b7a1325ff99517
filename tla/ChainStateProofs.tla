-------------------------- MODULE ChainStateProofs --------------------------
(***************************************************************************)
(* ChainState for every finite block tree, any number of threads, crashes  *)
(* and calls: its five invariants, with the inductive invariant they rest  *)
(* on.                                                                     *)
(*                                                                         *)
(* DiskConsistent needs to know what of the index is on disk (DiskInv): the*)
(* chain of the coins is marked in memory, and what memory has more than   *)
(* the disk is dirty. TipIsBest and BestReachable are not inductive at all:*)
(* the candidate that is there for a valid block may itself turn out to be *)
(* invalid. What holds (ReachInv) is that a block that is not marked as    *)
(* invalid is a candidate, or worse than the tip, or not better than a     *)
(* candidate whose chain was connected once. The step of ActivateBestChain *)
(* that is under way (StepInv) and the threads that have still to look for *)
(* candidates (QuietInv) make the tip the best one.                        *)
(***************************************************************************)
EXTENDS ChainState, FiniteSetTheorems, WellFoundedInduction, TLAPS

Live == run \in {"up", "recovering"}

(* What is never taken away from nStatus.                                  *)
Marks == {"tree", "data", "undo", "scripts"}

Connected(st, b) ==
    \A a \in Anc[b] : /\ "tree" \in st[a] /\ "data" \in st[a]
                      /\ a # Genesis => "undo" \in st[a] /\ "scripts" \in st[a]

ThreadRec == [pc : {"idle", "find", "notify", "flush", "reconsider", "invalidate"},
              want : Blocks \union {None}, todo : SUBSET Blocks]
DiskRec == [status : [Blocks -> SUBSET Flag], info : Nat, best : Blocks, clean : BOOLEAN]

TypeInv ==
    /\ status \in [Blocks -> SUBSET Flag]
    /\ seq \in [Blocks -> Nat]
    /\ linked \subseteq Blocks /\ unlinked \subseteq Blocks /\ dirty \subseteq Blocks
    /\ barred \subseteq Blocks /\ rejected \subseteq Blocks
    /\ candidates \subseteq linked
    /\ tip \in Blocks /\ coins \in Blocks
    /\ info \in Nat
    /\ disk \in DiskRec
    /\ run \in {"up", "recovering", "down", "aborted"}
    /\ thread \in [Threads -> ThreadRec]
    /\ skipped \in BOOLEAN
    /\ addr \in [Blocks -> Int]

(* What the holder of cs_main does.                                        *)
BusyInv ==
    \/ busy = Free
    \/ /\ Live /\ busy \in [op : {"step"}, by : Threads, from : Blocks]
       /\ thread[busy.by].pc = "find"
    \/ /\ run = "up" /\ busy \in [op : {"invalidate"}, by : Threads, block : Blocks \ {Genesis}]
    \/ /\ run = "up" /\ busy \in [op : {"reprocess"}, by : Threads, blocks : Nat]

(* The node that is not up has nothing in memory; in the recovery only     *)
(* ActivateBestChain runs.                                                 *)
RunInv ==
    /\ run = "up" => coins = tip
    /\ run = "recovering" => \A t \in Threads : thread[t].pc \notin {"reconsider", "invalidate"}
    /\ ~Live => /\ status = [b \in Blocks |-> {}] /\ seq = [b \in Blocks |-> 0]
                /\ linked = {} /\ unlinked = {} /\ candidates = {} /\ dirty = {}
                /\ tip = Genesis /\ coins = Genesis /\ info = 0
                /\ thread = [t \in Threads |-> Idle] /\ skipped = FALSE

StatusOK(st) ==
    /\ \A b \in Blocks : "data" \in st[b] => "tree" \in st[b]
    /\ "undo" \notin st[Genesis]

DiskInv ==
    /\ StatusOK(disk.status) /\ StatusOK(status)
    /\ Connected(disk.status, disk.best)
    /\ Live => /\ Connected(status, coins)
               /\ \A b \in Blocks : disk.status[b] \intersect Marks \subseteq status[b]
               /\ \A b \in Blocks \ dirty : status[b] \intersect Marks \subseteq disk.status[b]

LinkedInv ==
    \A b \in Blocks :
        /\ b \in linked <=> \A a \in Anc[b] : "data" \in status[a]
        /\ b \in unlinked <=> "data" \in status[b] /\ b \notin linked

(* The chain that a step activates has no invalid block that is not active,*)
(* and no candidate that could be activated then is better.                *)
StepInv ==
    busy.op = "step" =>
        LET want == thread[busy.by].want
        IN  /\ want \in linked /\ want # tip
            /\ \A x \in Anc[want] \ Anc[tip] : ~Failed(x)
            /\ \A c \in candidates :
                  (\A x \in Anc[c] \ (Anc[tip] \union Anc[want]) : ~Failed(x)) => ~Worse(want, c)

(* A block whose chain was connected once and is not invalid.              *)
Sound(c) == \A a \in Anc[c] : ~Failed(a) /\ (a # Genesis => "scripts" \in status[a])
Covered(b) ==
    \/ b \in candidates
    \/ Worse(b, tip)
    \/ \E c \in candidates : Sound(c) /\ ~Worse(c, b)

ReachInv ==
    /\ Live /\ ~skipped /\ busy.op # "invalidate" =>
          /\ \A a \in Anc[tip] : ~Failed(a)
          /\ \A b \in linked : ~Failed(b) => Covered(b)
    /\ run = "recovering" /\ coins # tip => \A b \in linked : ~Failed(b) => b \in candidates

(* A thread has still to look for candidates.                              *)
Looks(t) ==
    \/ thread[t].pc \in {"find", "reconsider"}
    \/ thread[t].pc = "notify" /\ thread[t].want # tip
QuietInv ==
    run = "up" /\ busy = Free =>
        (\E t \in Threads : Looks(t)) \/ \A c \in Usable : ~Worse(tip, c)

IInv == TypeInv /\ BusyInv /\ RunInv /\ DiskInv /\ LinkedInv /\ StepInv /\ ReachInv /\ QuietInv

-----------------------------------------------------------------------------
(* Orders and trees.                                                       *)

(* A finite set has a maximal element in every strict order.               *)
LEMMA Maximal ==
    ASSUME NEW S, IsFiniteSet(S), S # {}, NEW R,
           \A a, b, c \in S : <<a, b>> \in R /\ <<b, c>> \in R => <<a, c>> \in R,
           \A a \in S : <<a, a>> \notin R
    PROVE  \E m \in S : \A d \in S : <<m, d>> \notin R
<1>. DEFINE Max1(T) == \E m \in T : \A d \in T : <<m, d>> \notin R
            Wrong == {T \in SUBSET S : T # {} /\ ~Max1(T)}
<1>1. CASE Wrong = {}
  BY <1>1
<1>2. CASE Wrong # {}
  <2>1. IsWellFoundedOn(StrictSubsetOrdering(S), SUBSET S)
    BY FS_StrictSubsetOrderingWellFounded, FS_FiniteSubsetsOfFinite
  <2>2. PICK T \in Wrong : \A U \in Wrong : ~(<<U, T>> \in StrictSubsetOrdering(S))
    <3>1. Wrong \subseteq SUBSET S
      OBVIOUS
    <3>. HIDE DEF Wrong
    <3>. QED  BY <1>2, <2>1, <3>1, WFMin
  <2>3. T \subseteq S /\ T # {} /\ ~Max1(T)
    OBVIOUS
  <2>4. PICK x \in T : TRUE
    BY <2>3
  <2>5. T \ {x} \in SUBSET S /\ T \ {x} \subseteq T /\ T \ {x} # T
    BY <2>3, <2>4
  <2>6. <<T \ {x}, T>> \in StrictSubsetOrdering(S)
    BY <2>3, <2>5 DEF StrictSubsetOrdering
  <2>7. T \ {x} \notin Wrong
    BY <2>2, <2>6
  <2>8. CASE T \ {x} = {}
    BY <2>3, <2>4, <2>8
  <2>9. CASE T \ {x} # {}
    <3>1. PICK m \in T \ {x} : \A d \in T \ {x} : <<m, d>> \notin R
      BY <2>5, <2>7, <2>9
    <3>2. CASE <<m, x>> \notin R
      BY <2>3, <3>1, <3>2
    <3>3. CASE <<m, x>> \in R
      <4>1. \A d \in T : <<x, d>> \notin R
        BY <2>3, <2>4, <3>1, <3>3
      <4>. QED  BY <2>3, <2>4, <4>1
    <3>. QED  BY <3>2, <3>3
  <2>. QED  BY <2>8, <2>9
<1>. QED  BY <1>1, <1>2

(* What is wrong for some block is wrong for one whose parent is right.    *)
LEMMA FirstWrong ==
    ASSUME NEW W, W \subseteq Blocks \ {Genesis}, W # {}
    PROVE  \E b \in W : Parent[b] \in Blocks \ W
<1>. DEFINE H == {Height[b] : b \in W}
<1>1. H \subseteq Nat /\ H # {}
  BY TreeAssumption
<1>2. PICK h \in H : \A k \in H : ~(<<k, h>> \in OpToRel(<, Nat))
  <2>. HIDE DEF H
  <2>. QED  BY <1>1, NatLessThanWellFounded, WFMin
<1>3. PICK b \in W : h = Height[b]
  OBVIOUS
<1>4. b \in Blocks \ {Genesis} /\ Parent[b] \in Blocks /\ Height[b] = Height[Parent[b]] + 1
  BY TreeAssumption
<1>5. Height[Parent[b]] \in Nat /\ Height[b] \in Nat
  BY <1>4, TreeAssumption
<1>6. <<Height[Parent[b]], Height[b]>> \in OpToRel(<, Nat)
  BY <1>4, <1>5 DEF OpToRel
<1>. QED  BY <1>2, <1>3, <1>4, <1>6

(* The tree below one block.                                               *)
TreeOf(b) ==
    /\ Genesis \in Anc[b] /\ b \in Anc[b]
    /\ \A a \in Anc[b] :
          /\ a \in Blocks /\ Anc[a] \subseteq Anc[b]
          /\ a # b => /\ Height[a] < Height[b] /\ Work[a] < Work[b]
                      /\ \E c \in Anc[b] \ {Genesis} : Parent[c] = a
          /\ \A c \in Anc[b] : Height[a] <= Height[c] => a \in Anc[c]

(* A block whose parent has a tree below it has one too.                   *)
LEMMA TreeStep ==
    ASSUME NEW b \in Blocks \ {Genesis}, TreeOf(Parent[b])
    PROVE  TreeOf(b)
<1>. DEFINE p == Parent[b]
<1>1. /\ p \in Blocks /\ Anc[b] = Anc[p] \union {b}
      /\ Height[b] = Height[p] + 1 /\ Work[p] < Work[b]
  BY TreeAssumption
<1>2. /\ Genesis \in Anc[p] /\ p \in Anc[p] /\ Anc[p] \subseteq Blocks
      /\ \A a \in Anc[p] :
          /\ a \in Blocks /\ Anc[a] \subseteq Anc[p]
          /\ a # p => /\ Height[a] < Height[p] /\ Work[a] < Work[p]
                      /\ \E c \in Anc[p] \ {Genesis} : Parent[c] = a
          /\ \A c \in Anc[p] : Height[a] <= Height[c] => a \in Anc[c]
  BY DEF TreeOf
<1>3. /\ Height[b] \in Nat /\ Height[p] \in Nat /\ Work[b] \in Nat /\ Work[p] \in Nat
      /\ \A a \in Anc[p] : Height[a] \in Nat /\ Work[a] \in Nat
  BY <1>1, <1>2, TreeAssumption
<1>4. ASSUME NEW a \in Anc[p]
      PROVE  Height[a] < Height[b] /\ Work[a] < Work[b] /\ \E c \in Anc[b] \ {Genesis} : Parent[c] = a
  <2>1. Height[a] < Height[b] /\ Work[a] < Work[b]
    <3>1. CASE a = p
      BY <1>1, <1>3, <3>1
    <3>2. CASE a # p
      BY <1>1, <1>2, <1>3, <3>2
    <3>. QED  BY <3>1, <3>2
  <2>2. CASE a = p
    BY <1>1, <2>1, <2>2
  <2>3. CASE a # p
    BY <1>1, <1>2, <2>1, <2>3
  <2>. QED  BY <2>1, <2>2, <2>3
<1>5. ASSUME NEW a \in Anc[b] PROVE a \in Blocks /\ Anc[a] \subseteq Anc[b]
  BY <1>1, <1>2
<1>6. ASSUME NEW a \in Anc[b], NEW c \in Anc[b], Height[a] <= Height[c]
      PROVE  a \in Anc[c]
  <2>1. CASE c = b
    BY <2>1
  <2>2. CASE c # b
    <3>1. c \in Anc[p]
      BY <1>1, <2>2
    <3>2. a # b
      BY <1>3, <1>4, <1>6, <3>1
    <3>. QED  BY <1>1, <1>2, <1>6, <3>1, <3>2
  <2>. QED  BY <2>1, <2>2
<1>. QED  BY <1>1, <1>2, <1>4, <1>5, <1>6 DEF TreeOf

(* Every block has a tree below it: the induction over the heights.        *)
LEMMA Tree == \A b \in Blocks : TreeOf(b)
<1>. DEFINE W == {b \in Blocks \ {Genesis} : ~TreeOf(b)}
<1>1. TreeOf(Genesis)
  BY TreeAssumption DEF TreeOf
<1>2. CASE W = {}
  BY <1>1, <1>2
<1>3. CASE W # {}
  <2>1. PICK b \in W : Parent[b] \in Blocks \ W
    <3>1. W \subseteq Blocks \ {Genesis}
      OBVIOUS
    <3>. HIDE DEF W
    <3>. QED  BY <1>3, <3>1, FirstWrong
  <2>2. TreeOf(Parent[b])
    BY <1>1, <2>1
  <2>. QED  BY <2>1, <2>2, TreeStep
<1>. QED  BY <1>2, <1>3

(* The parent is one block less.                                           *)
LEMMA ParentFacts ==
    ASSUME NEW b \in Blocks \ {Genesis}
    PROVE  /\ Parent[b] \in Blocks /\ Parent[b] \in Anc[b] /\ Anc[b] = Anc[Parent[b]] \union {b}
           /\ b \notin Anc[Parent[b]] /\ Anc[b] \ {b} = Anc[Parent[b]]
<1>1. /\ Parent[b] \in Blocks /\ Anc[b] = Anc[Parent[b]] \union {b}
      /\ Height[b] = Height[Parent[b]] + 1 /\ Height[b] \in Nat /\ Height[Parent[b]] \in Nat
  BY TreeAssumption
<1>2. TreeOf(b) /\ TreeOf(Parent[b])
  BY <1>1, Tree
<1>3. b # Parent[b]
  BY <1>1
<1>4. ~(Height[b] < Height[Parent[b]])
  BY <1>1
<1>5. b \notin Anc[Parent[b]]
  BY <1>2, <1>3, <1>4 DEF TreeOf
<1>. QED  BY <1>1, <1>2, <1>5 DEF TreeOf

(* Ancestors.                                                              *)
LEMMA AncFacts ==
    ASSUME NEW b \in Blocks
    PROVE  /\ Anc[b] \subseteq Blocks /\ b \in Anc[b] /\ Genesis \in Anc[b]
           /\ \A a \in Anc[b] : Anc[a] \subseteq Anc[b]
           /\ \A a, c \in Anc[b] : a \in Anc[c] \/ c \in Anc[a]
           /\ \A a \in Anc[b] : b \in Anc[a] => a = b
<1>1. TreeOf(b)
  BY Tree
<1>2. Anc[b] \subseteq Blocks
  BY TreeAssumption
<1>3. \A a \in Anc[b] : Height[a] \in Nat
  BY <1>2, TreeAssumption
<1>4. ASSUME NEW a \in Anc[b], NEW c \in Anc[b] PROVE a \in Anc[c] \/ c \in Anc[a]
  <2>1. Height[a] <= Height[c] \/ Height[c] <= Height[a]
    BY <1>3
  <2>. QED  BY <1>1, <2>1 DEF TreeOf
<1>5. ASSUME NEW a \in Anc[b], b \in Anc[a], a # b PROVE FALSE
  <2>1. TreeOf(a)
    BY <1>2, Tree
  <2>2. Height[a] < Height[b] /\ Height[b] < Height[a]
    BY <1>1, <1>5, <2>1 DEF TreeOf
  <2>. QED  BY <1>3, <1>1, <2>2 DEF TreeOf
<1>. QED  BY <1>1, <1>2, <1>4, <1>5 DEF TreeOf

(* The next block towards b.                                               *)
LEMMA TowardFacts ==
    ASSUME NEW b \in Blocks, NEW a \in Anc[b], a # b
    PROVE  /\ Toward(a, b) \in Blocks \ {Genesis} /\ Toward(a, b) \in Anc[b]
           /\ Parent[Toward(a, b)] = a /\ Anc[Toward(a, b)] = Anc[a] \union {Toward(a, b)}
           /\ Toward(a, b) \notin Anc[a]
<1>1. \E c \in Anc[b] \ {Genesis} : Parent[c] = a
  BY Tree DEF TreeOf
<1>2. Toward(a, b) \in Anc[b] \ {Genesis} /\ Parent[Toward(a, b)] = a
  BY <1>1 DEF Toward
<1>3. Toward(a, b) \in Blocks \ {Genesis}
  BY <1>2, AncFacts
<1>. HIDE DEF Toward
<1>. QED  BY <1>2, <1>3, ParentFacts

(* CBlockIndexWorkComparator is an order.                                  *)
LEMMA WorseOrder ==
    ASSUME seq \in [Blocks -> Nat], addr \in [Blocks -> Int],
           NEW a \in Blocks, NEW b \in Blocks, NEW c \in Blocks
    PROVE  /\ ~Worse(a, a)
           /\ Worse(a, b) => ~Worse(b, a)
           /\ Worse(a, b) /\ Worse(b, c) => Worse(a, c)
           /\ Worse(a, b) /\ ~Worse(c, b) => Worse(a, c)
<1>1. /\ Work[a] \in Nat /\ Work[b] \in Nat /\ Work[c] \in Nat
      /\ seq[a] \in Nat /\ seq[b] \in Nat /\ seq[c] \in Nat
      /\ addr[a] \in Int /\ addr[b] \in Int /\ addr[c] \in Int
  BY TreeAssumption
<1>. QED  BY <1>1 DEF Worse

(* FindMostWorkChain finds the best usable candidate.                      *)
LEMMA MostWorkBest ==
    ASSUME TypeInv, Usable # {}
    PROVE  MostWork \in Usable /\ \A d \in Usable : ~Worse(MostWork, d)
<1>. DEFINE R == {p \in Blocks \X Blocks : Worse(p[1], p[2])}
<1>1. Usable \subseteq Blocks /\ seq \in [Blocks -> Nat] /\ addr \in [Blocks -> Int]
  BY DEF TypeInv, Usable
<1>2. IsFiniteSet(Usable)
  BY <1>1, TreeAssumption, FS_Subset
<1>3. \A a, b \in Blocks : <<a, b>> \in R <=> Worse(a, b)
  OBVIOUS
<1>. HIDE DEF R
<1>4. /\ \A a, b, c \in Usable : <<a, b>> \in R /\ <<b, c>> \in R => <<a, c>> \in R
      /\ \A a \in Usable : <<a, a>> \notin R
  BY <1>1, <1>3, WorseOrder
<1>5. \E m \in Usable : \A d \in Usable : <<m, d>> \notin R
  BY <1>2, <1>4, Maximal
<1>6. \E m \in Usable : \A d \in Usable : ~Worse(m, d)
  BY <1>1, <1>3, <1>5
<1>. QED  BY <1>6 DEF MostWork

(* It stops at the highest invalid block.                                  *)
LEMMA ObstacleHighest ==
    ASSUME TypeInv, NEW c \in Blocks, Obstacles(c) # {}
    PROVE  /\ Obstacle(c) \in Anc[c] \ Anc[tip] /\ Failed(Obstacle(c))
           /\ FailedPath(c) \subseteq Anc[c]
           /\ \A y \in FailedPath(c) : Obstacle(c) \in Anc[y]
<1>. DEFINE R == {p \in Blocks \X Blocks : Height[p[1]] < Height[p[2]]}
            S == Obstacles(c)
<1>1. S \subseteq Blocks /\ \A x \in S : x \in Anc[c] \ Anc[tip] /\ Failed(x)
  BY AncFacts DEF Obstacles, Active
<1>2. /\ \A a \in Blocks : Height[a] \in Nat
      /\ \A a, b \in Blocks : <<a, b>> \in R <=> Height[a] < Height[b]
  BY TreeAssumption
<1>. HIDE DEF R, S
<1>3. /\ \A x, y, z \in S : <<x, y>> \in R /\ <<y, z>> \in R => <<x, z>> \in R
      /\ \A x \in S : <<x, x>> \notin R
  <2>1. ASSUME NEW x \in S, NEW y \in S, NEW z \in S, <<x, y>> \in R, <<y, z>> \in R
        PROVE  <<x, z>> \in R
    <3>1. x \in Blocks /\ y \in Blocks /\ z \in Blocks
      BY <1>1
    <3>2. Height[x] < Height[y] /\ Height[y] < Height[z]
      BY <1>2, <2>1, <3>1
    <3>3. Height[x] \in Nat /\ Height[y] \in Nat /\ Height[z] \in Nat
      BY <1>2, <3>1
    <3>4. Height[x] < Height[z]
      BY <3>2, <3>3
    <3>. QED  BY <1>2, <3>1, <3>4
  <2>2. ASSUME NEW x \in S PROVE <<x, x>> \notin R
    <3>1. x \in Blocks /\ Height[x] \in Nat
      BY <1>1, <1>2
    <3>2. ~(Height[x] < Height[x])
      BY <3>1
    <3>. QED  BY <1>2, <3>1, <3>2
  <2>. QED  BY <2>1, <2>2
<1>4. \E m \in S : \A d \in S : <<m, d>> \notin R
  <2>1. IsFiniteSet(S) /\ S # {}
    BY <1>1, TreeAssumption, FS_Subset DEF S
  <2>. QED  BY <1>3, <2>1, Maximal
<1>5. \E m \in S : \A d \in S : Height[d] <= Height[m]
  <2>1. PICK m \in S : \A d \in S : <<m, d>> \notin R
    BY <1>4
  <2>2. ASSUME NEW d \in S PROVE Height[d] <= Height[m]
    <3>1. d \in Blocks /\ m \in Blocks
      BY <1>1
    <3>2. ~(Height[m] < Height[d])
      BY <1>2, <2>1, <3>1
    <3>3. Height[d] \in Nat /\ Height[m] \in Nat
      BY <1>2, <3>1
    <3>. QED  BY <3>2, <3>3
  <2>. QED  BY <2>2
<1>6. Obstacle(c) \in S
  BY <1>5 DEF Obstacle, S
<1>7. ASSUME NEW y \in FailedPath(c) PROVE y \in Anc[c] /\ Obstacle(c) \in Anc[y]
  <2>1. y \in Anc[c] /\ Height[y] > Height[Obstacle(c)]
    BY DEF FailedPath
  <2>2. Height[Obstacle(c)] <= Height[y]
    <3>1. y \in Blocks /\ Obstacle(c) \in Blocks
      BY <1>1, <1>6, <2>1, AncFacts
    <3>2. Height[y] \in Nat /\ Height[Obstacle(c)] \in Nat
      BY <1>2, <3>1
    <3>. QED  BY <2>1, <3>2
  <2>3. TreeOf(c)
    BY Tree
  <2>. QED  BY <1>1, <1>6, <2>1, <2>2, <2>3 DEF TreeOf
<1>. QED  BY <1>1, <1>6, <1>7

(* vSortedByHeight has a last block, and a first one of those past some.   *)
LEMMA HighestFacts ==
    ASSUME NEW order \in [Blocks -> Int], NEW S, S \subseteq Blocks, S # {}
    PROVE  /\ Highest(order, S) \in S /\ \A a \in S : ~Before(order, Highest(order, S), a)
           /\ \E b \in S : \A a \in S : ~Before(order, a, b)
<1>. DEFINE R == {p \in Blocks \X Blocks : Before(order, p[1], p[2])}
            Q == {p \in Blocks \X Blocks : Before(order, p[2], p[1])}
<1>1. \A a, b \in Blocks : /\ <<a, b>> \in R <=> Before(order, a, b)
                           /\ <<a, b>> \in Q <=> Before(order, b, a)
  OBVIOUS
<1>2. \A a \in Blocks : Height[a] \in Nat /\ order[a] \in Int
  BY TreeAssumption
<1>3. /\ \A a, b, c \in Blocks : Before(order, a, b) /\ Before(order, b, c) => Before(order, a, c)
      /\ \A a \in Blocks : ~Before(order, a, a)
  BY <1>2 DEF Before
<1>4. IsFiniteSet(S)
  BY TreeAssumption, FS_Subset
<1>. HIDE DEF R, Q
<1>5. \E m \in S : \A d \in S : <<m, d>> \notin R
  <2>1. /\ \A a, b, c \in S : <<a, b>> \in R /\ <<b, c>> \in R => <<a, c>> \in R
        /\ \A a \in S : <<a, a>> \notin R
    BY <1>1, <1>3
  <2>. QED  BY <1>4, <2>1, Maximal
<1>6. \E m \in S : \A d \in S : <<m, d>> \notin Q
  <2>1. /\ \A a, b, c \in S : <<a, b>> \in Q /\ <<b, c>> \in Q => <<a, c>> \in Q
        /\ \A a \in S : <<a, a>> \notin Q
    BY <1>1, <1>3
  <2>. QED  BY <1>4, <2>1, Maximal
<1>7. \E m \in S : \A d \in S : ~Before(order, m, d)
  BY <1>1, <1>5
<1>8. \E m \in S : \A d \in S : ~Before(order, d, m)
  BY <1>1, <1>6
<1>. QED  BY <1>7, <1>8 DEF Highest

(* The block processed again in the recovery is not the genesis block.     *)
LEMMA LastMetaFacts ==
    ASSUME TypeInv, NEW order \in [Blocks -> Int], Cardinality(OnDisk) > disk.info + 1
    PROVE  LastMeta(order) \in Blocks \ {Genesis}
<1>. DEFINE past == {b \in OnDisk : Position(order, b) > disk.info /\ Height[b] > Height[disk.best]}
<1>1. OnDisk \subseteq Blocks /\ past \subseteq OnDisk
  BY DEF OnDisk
<1>2. disk.info \in Nat /\ disk.best \in Blocks
  BY DEF TypeInv, DiskRec
<1>3. IsFiniteSet(OnDisk) /\ Cardinality(OnDisk) \in Nat
  BY <1>1, TreeAssumption, FS_Subset, FS_CardinalityType
<1>4. CASE past = {}
  <2>1. LastMeta(order) = Highest(order, OnDisk)
    BY <1>4 DEF LastMeta
  <2>2. PICK b \in OnDisk : b # Genesis
    <3>1. OnDisk \ {Genesis} # {}
      <4>1. ASSUME OnDisk \ {Genesis} = {} PROVE FALSE
        <5>1. OnDisk \subseteq {Genesis}
          BY <4>1
        <5>2. IsFiniteSet({Genesis}) /\ Cardinality({Genesis}) = 1
          BY FS_Singleton
        <5>3. Cardinality(OnDisk) <= 1
          BY <5>1, <5>2, FS_Subset
        <5>. QED  BY <1>2, <1>3, <5>3
      <4>. QED  BY <4>1
    <3>. QED  BY <3>1
  <2>3. Height[Genesis] = 0 /\ Height[b] > 0
    <3>1. b \in Blocks \ {Genesis} /\ Parent[b] \in Blocks
      BY <1>1, <2>2, ParentFacts
    <3>2. Height[b] = Height[Parent[b]] + 1 /\ Height[Parent[b]] \in Nat
      BY <3>1, TreeAssumption
    <3>. QED  BY <3>2, TreeAssumption
  <2>4. Highest(order, OnDisk) \in OnDisk /\ ~Before(order, Highest(order, OnDisk), b)
    BY <1>1, <2>2, HighestFacts
  <2>5. Before(order, Genesis, b)
    BY <2>3 DEF Before
  <2>. QED  BY <1>1, <2>1, <2>4, <2>5
<1>5. CASE past # {}
  <2>1. \E b \in past : \A a \in past : ~Before(order, a, b)
    <3>. HIDE DEF past
    <3>. QED  BY <1>1, <1>5, HighestFacts
  <2>2. LastMeta(order) \in past
    BY <1>5, <2>1 DEF LastMeta
  <2>3. LastMeta(order) \in Blocks /\ Height[LastMeta(order)] > Height[disk.best]
    BY <1>1, <2>2
  <2>4. Height[disk.best] \in Nat /\ Height[Genesis] = 0
    BY <1>2, TreeAssumption
  <2>5. ~(0 > Height[disk.best])
    BY <2>4
  <2>. QED  BY <2>3, <2>4, <2>5
<1>. QED  BY <1>4, <1>5

(* nBlockSequenceId is past every number given before.                     *)
LEMMA MaxSeq ==
    ASSUME seq \in [Blocks -> Nat]
    PROVE  LET m == Max({seq[c] : c \in Blocks})
           IN  m \in Nat /\ \A c \in Blocks : seq[c] <= m
<1>. DEFINE R == {p \in Blocks \X Blocks : seq[p[1]] < seq[p[2]]}
            T == {seq[c] : c \in Blocks}
<1>1. \A a \in Blocks : seq[a] \in Nat
  OBVIOUS
<1>2. \A a, b \in Blocks : <<a, b>> \in R <=> seq[a] < seq[b]
  OBVIOUS
<1>3. /\ \A a, b, c \in Blocks : seq[a] < seq[b] /\ seq[b] < seq[c] => seq[a] < seq[c]
      /\ \A a \in Blocks : ~(seq[a] < seq[a])
  BY <1>1
<1>. HIDE DEF R
<1>4. \E m \in Blocks : \A d \in Blocks : <<m, d>> \notin R
  <2>1. /\ \A a, b, c \in Blocks : <<a, b>> \in R /\ <<b, c>> \in R => <<a, c>> \in R
        /\ \A a \in Blocks : <<a, a>> \notin R
    BY <1>2, <1>3
  <2>2. IsFiniteSet(Blocks) /\ Blocks # {}
    BY TreeAssumption
  <2>. QED  BY <2>1, <2>2, Maximal
<1>5. PICK m \in Blocks : \A d \in Blocks : ~(seq[m] < seq[d])
  BY <1>2, <1>4
<1>6. \A d \in Blocks : seq[m] >= seq[d]
  BY <1>1, <1>5
<1>7. seq[m] \in T /\ \A y \in T : seq[m] >= y
  BY <1>6
<1>8. Max(T) \in T /\ \A y \in T : Max(T) >= y
  <2>. HIDE DEF T
  <2>. QED  BY <1>7 DEF Max
<1>9. Max(T) \in Nat
  BY <1>1, <1>8
<1>10. ASSUME NEW c \in Blocks PROVE seq[c] <= Max(T)
  <2>1. Max(T) >= seq[c]
    BY <1>8
  <2>. HIDE DEF T
  <2>. QED  BY <1>1, <1>9, <2>1
<1>. QED  BY <1>9, <1>10

(* Blocks can be numbered by height.                                       *)
LEMMA Numbering ==
    ASSUME NEW new, new \subseteq Blocks
    PROVE  \E f \in [new -> 0 .. Cardinality(new) - 1] :
              /\ IsInjective(f)
              /\ \A c, d \in new : Height[c] < Height[d] => f[c] < f[d]
<1>1. IsFiniteSet(new) /\ Cardinality(new) \in Nat /\ ExistsBijection(1 .. Cardinality(new), new)
  BY TreeAssumption, FS_Subset, FS_CardinalityType
<1>2. PICK g \in Bijection(1 .. Cardinality(new), new) : TRUE
  BY <1>1 DEF ExistsBijection
<1>3. \A c \in new : \E i \in 1 .. Cardinality(new) : g[i] = c
  BY <1>2 DEF Bijection, Surjection
<1>. DEFINE r == [c \in new |-> CHOOSE i \in 1 .. Cardinality(new) : g[i] = c]
<1>4. \A c \in new : r[c] \in Nat /\ g[r[c]] = c
  BY <1>1, <1>3
<1>. HIDE DEF r
<1>. DEFINE Lt(c, d) == Height[c] < Height[d] \/ (Height[c] = Height[d] /\ r[c] < r[d])
            Lower(c) == {x \in new : Lt(x, c)}
            f == [c \in new |-> Cardinality(Lower(c))]
<1>5. \A c \in new : Height[c] \in Nat
  BY TreeAssumption
<1>6. /\ \A c \in new : ~Lt(c, c)
      /\ \A c, d, e \in new : Lt(c, d) /\ Lt(d, e) => Lt(c, e)
      /\ \A c, d \in new : c # d => Lt(c, d) \/ Lt(d, c)
  BY <1>4, <1>5
<1>7. \A c, d \in new : Height[c] < Height[d] => Lt(c, d)
  OBVIOUS
<1>. HIDE DEF Lt
<1>8. \A c \in new : /\ Lower(c) \subseteq new \ {c}
                     /\ IsFiniteSet(Lower(c)) /\ Cardinality(Lower(c)) \in Nat
  BY <1>1, <1>6, FS_Subset, FS_CardinalityType
<1>9. ASSUME NEW c \in new PROVE f[c] \in 0 .. Cardinality(new) - 1
  <2>1. IsFiniteSet(new \ {c}) /\ Cardinality(new \ {c}) = Cardinality(new) - 1
    BY <1>1, FS_RemoveElement
  <2>2. Lower(c) \in SUBSET (new \ {c}) /\ Cardinality(Lower(c)) \in Nat
    BY <1>8
  <2>3. Cardinality(Lower(c)) <= Cardinality(new \ {c})
    BY <2>1, <2>2, FS_Subset
  <2>. HIDE DEF Lower
  <2>. QED  BY <1>1, <2>1, <2>2, <2>3
<1>10. ASSUME NEW c \in new, NEW d \in new, Lt(c, d) PROVE f[c] < f[d]
  <2>1. Lower(c) \subseteq Lower(d) /\ c \in Lower(d) /\ c \notin Lower(c)
    BY <1>6, <1>10
  <2>2. /\ Lower(c) \in SUBSET Lower(d) /\ Lower(c) # Lower(d)
        /\ IsFiniteSet(Lower(d)) /\ Cardinality(Lower(d)) \in Nat /\ Cardinality(Lower(c)) \in Nat
    BY <1>8, <2>1
  <2>. HIDE DEF Lower
  <2>3. /\ Cardinality(Lower(c)) <= Cardinality(Lower(d))
        /\ Cardinality(Lower(c)) # Cardinality(Lower(d))
    BY <2>2, FS_Subset
  <2>. QED  BY <2>2, <2>3
<1>11. f \in [new -> 0 .. Cardinality(new) - 1]
  BY <1>9
<1>12. DOMAIN f = new
  OBVIOUS
<1>. HIDE DEF f
<1>13. \A c \in new : f[c] \in Int
  BY <1>1, <1>11
<1>14. IsInjective(f)
  BY <1>6, <1>10, <1>12, <1>13 DEF IsInjective
<1>15. \A c, d \in new : Height[c] < Height[d] => f[c] < f[d]
  BY <1>7, <1>10
<1>. QED  BY <1>11, <1>14, <1>15

-----------------------------------------------------------------------------
(* Steps that leave the index alone.                                       *)

(* Flags of busy.                                                          *)
LEMMA BusyFacts ==
    ASSUME BusyInv
    PROVE  /\ busy.op \in {"none", "step", "invalidate", "reprocess"}
           /\ busy.op = "none" <=> busy = Free
           /\ busy.op = "step" => /\ busy.by \in Threads /\ busy.from \in Blocks
                                  /\ thread[busy.by].pc = "find" /\ Live
           /\ busy.op = "invalidate" => /\ busy.by \in Threads /\ busy.block \in Blocks \ {Genesis}
                                        /\ run = "up"
           /\ busy.op = "reprocess" => busy.by \in Threads /\ busy.blocks \in Nat /\ run = "up"
  BY DEF BusyInv, Free

(* What only writes to the databases, changes threads or lets the lock go. *)
LEMMA FlushStep ==
    ASSUME IInv, Live, UNCHANGED <<status, seq, linked, unlinked, candidates, skipped>>,
           UNCHANGED <<tip, coins, info, addr, run>>,
           dirty' \subseteq Blocks, disk' \in DiskRec, DiskInv',
           barred' \subseteq Blocks, rejected' \subseteq Blocks, thread' \in [Threads -> ThreadRec],
           BusyInv',
           run = "recovering" => \A t \in Threads : thread'[t].pc \notin {"reconsider", "invalidate"},
           busy'.op = "step" => busy' = busy /\ thread'[busy.by] = thread[busy.by],
           busy.op = "invalidate" => busy'.op = "invalidate",
           run = "up" /\ busy' = Free =>
              (\E t \in Threads : Looks(t)') \/ \A c \in Usable : ~Worse(tip, c)
    PROVE  IInv'
<1>1. TypeInv'
  BY DEF IInv, TypeInv
<1>2. RunInv'
  BY DEF IInv, RunInv, Live
<1>3. LinkedInv'
  BY DEF IInv, LinkedInv
<1>4. StepInv'
  <2>1. CASE busy'.op # "step"
    BY <2>1 DEF StepInv
  <2>2. CASE busy'.op = "step"
    BY <2>2 DEF IInv, StepInv, Failed, Worse
  <2>. QED  BY <2>1, <2>2
<1>5. ReachInv'
  BY DEF IInv, ReachInv, Live, Failed, Covered, Worse, Sound
<1>6. QuietInv'
  <2>1. ASSUME NEW c \in Usable' PROVE c \in Usable /\ (Worse(tip, c) <=> Worse(tip, c)')
    BY DEF Usable, Obstacles, Active, Failed, Worse
  <2>. QED  BY <2>1 DEF QuietInv
<1>. QED  BY <1>1, <1>2, <1>3, <1>4, <1>5, <1>6 DEF IInv

(* What changes neither index, chain nor databases.                        *)
LEMMA StillStep ==
    ASSUME IInv, Live, UNCHANGED <<index, tip, coins, info, disk, addr, run>>,
           barred' \subseteq Blocks, rejected' \subseteq Blocks, thread' \in [Threads -> ThreadRec],
           BusyInv',
           run = "recovering" => \A t \in Threads : thread'[t].pc \notin {"reconsider", "invalidate"},
           busy'.op = "step" => busy' = busy /\ thread'[busy.by] = thread[busy.by],
           busy.op = "invalidate" => busy'.op = "invalidate",
           run = "up" /\ busy' = Free =>
              (\E t \in Threads : Looks(t)') \/ \A c \in Usable : ~Worse(tip, c)
    PROVE  IInv'
<1>1. UNCHANGED <<status, seq, linked, unlinked, candidates, dirty, skipped>>
  BY DEF index
<1>2. dirty' \subseteq Blocks /\ disk' \in DiskRec
  BY <1>1 DEF IInv, TypeInv
<1>3. DiskInv'
  BY <1>1 DEF IInv, DiskInv, Live, StatusOK, Connected
<1>. QED  BY <1>1, <1>2, <1>3, FlushStep

(* A block is refused or barred, or is no longer barred.                   *)
LEMMA BarStep ==
    ASSUME IInv, NEW b \in Blocks, RejectBlock(b) \/ Bar(b) \/ Unbar(b)
    PROVE  IInv'
<1>1. /\ run = "up" /\ UNCHANGED <<index, tip, coins, info, disk, addr, run, busy, thread>>
      /\ barred' \subseteq barred \union {b} /\ rejected' \subseteq rejected \union {b}
  BY DEF RejectBlock, Bar, Unbar
<1>2. /\ barred' \subseteq Blocks /\ rejected' \subseteq Blocks /\ thread' \in [Threads -> ThreadRec]
      /\ Live
  BY <1>1 DEF IInv, TypeInv, Live
<1>3. BusyInv'
  BY <1>1 DEF IInv, BusyInv, Live
<1>4. busy' = Free => (\E t \in Threads : Looks(t)') \/ \A c \in Usable : ~Worse(tip, c)
  BY <1>1 DEF IInv, QuietInv, Looks
<1>. QED  BY <1>1, <1>2, <1>3, <1>4, StillStep

(* Setting a thread.                                                       *)
LEMMA StartType ==
    ASSUME TypeInv, NEW t \in Threads,
           NEW pc \in {"idle", "find", "notify", "flush", "reconsider", "invalidate"}
    PROVE  /\ Start(t, pc) \in [Threads -> ThreadRec]
           /\ Start(t, pc)[t].pc = pc
           /\ \A u \in Threads \ {t} : Start(t, pc)[u] = thread[u]
<1>. DEFINE r == [Idle EXCEPT !.pc = pc]
<1>1. r \in ThreadRec /\ r.pc = pc
  BY DEF Idle, ThreadRec
<1>. HIDE DEF r
<1>2. Start(t, pc) = [thread EXCEPT ![t] = r]
  BY DEF Start, r
<1>3. thread \in [Threads -> ThreadRec]
  BY DEF TypeInv
<1>. QED  BY <1>1, <1>2, <1>3

(* Notify.                                                                 *)
LEMMA NotifyStep ==
    ASSUME IInv, NEW t \in Threads, Notify(t)
    PROVE  IInv'
<1>. DEFINE pc == IF thread[t].want # tip THEN "find" ELSE "flush"
<1>1. /\ Live /\ thread[t].pc = "notify" /\ thread' = [thread EXCEPT ![t].pc = pc]
      /\ UNCHANGED <<index, tip, coins, info, disk, addr, run, busy, barred, rejected>>
  BY DEF Notify, Live
<1>2. thread \in [Threads -> ThreadRec]
  BY DEF IInv, TypeInv
<1>3. thread' \in [Threads -> ThreadRec] /\ thread'[t].pc = pc /\ thread'[t].want = thread[t].want
  BY <1>1, <1>2 DEF ThreadRec
<1>4. \A u \in Threads \ {t} : thread'[u] = thread[u]
  BY <1>1, <1>2
<1>5. busy.op = "step" => busy.by \in Threads \ {t}
  BY <1>1, BusyFacts DEF IInv
<1>6. BusyInv'
  BY <1>1, <1>4, <1>5 DEF IInv, BusyInv, Live
<1>7. run = "recovering" => \A u \in Threads : thread'[u].pc \notin {"reconsider", "invalidate"}
  BY <1>3, <1>4 DEF IInv, RunInv
<1>8. ASSUME run = "up", busy' = Free
      PROVE  (\E u \in Threads : Looks(u)') \/ \A c \in Usable : ~Worse(tip, c)
  <2>1. ASSUME NEW u \in Threads, Looks(u) PROVE Looks(u)'
    <3>1. CASE u = t
      BY <1>1, <1>3, <2>1, <3>1 DEF Looks
    <3>2. CASE u # t
      BY <1>1, <1>4, <2>1, <3>2 DEF Looks
    <3>. QED  BY <3>1, <3>2
  <2>. QED  BY <1>1, <1>8, <2>1 DEF IInv, QuietInv
<1>9. barred' \subseteq Blocks /\ rejected' \subseteq Blocks
  BY <1>1 DEF IInv, TypeInv
<1>. QED  BY <1>1, <1>3, <1>4, <1>5, <1>6, <1>7, <1>8, <1>9, StillStep

(* ReprocessBlocks begins.                                                 *)
LEMMA ReprocessBlocksStep ==
    ASSUME IInv, NEW t \in Threads, ReprocessBlocks(t)
    PROVE  IInv'
<1>1. PICK S \in SUBSET (rejected \intersect Index) :
         thread' = [thread EXCEPT ![t] = [pc |-> "reconsider", want |-> None, todo |-> S]]
  BY DEF ReprocessBlocks
<1>2. /\ run = "up" /\ Live /\ thread[t] = Idle
      /\ UNCHANGED <<index, tip, coins, info, disk, addr, run, busy, barred, rejected>>
  BY DEF ReprocessBlocks, Live
<1>3. thread \in [Threads -> ThreadRec] /\ S \subseteq Blocks
  BY DEF IInv, TypeInv
<1>4. /\ thread' \in [Threads -> ThreadRec] /\ thread'[t].pc = "reconsider"
      /\ \A u \in Threads \ {t} : thread'[u] = thread[u]
  BY <1>1, <1>3 DEF ThreadRec
<1>5. busy.op = "step" => busy.by \in Threads \ {t}
  BY <1>2, BusyFacts DEF IInv, Idle
<1>6. BusyInv'
  BY <1>2, <1>4, <1>5 DEF IInv, BusyInv, Live
<1>7. Looks(t)'
  BY <1>4 DEF Looks
<1>8. barred' \subseteq Blocks /\ rejected' \subseteq Blocks
  BY <1>2 DEF IInv, TypeInv
<1>. QED  BY <1>2, <1>4, <1>5, <1>6, <1>7, <1>8, StillStep

(* DisconnectBlocksAndReprocess begins and ends.                           *)
LEMMA ReprocessStartStep ==
    ASSUME IInv, NEW t \in Threads, NEW n \in ReprocessDepths, ReprocessStart(t, n)
    PROVE  IInv'
<1>1. /\ Lock(t) /\ thread[t].pc = "reconsider"
      /\ busy' = [op |-> "reprocess", by |-> t, blocks |-> n + 1]
      /\ UNCHANGED <<index, tip, coins, info, disk, addr, run, thread, barred, rejected>>
  BY DEF ReprocessStart
<1>2. run = "up" /\ busy = Free /\ Live
  BY <1>1 DEF IInv, RunInv, Lock, Live
<1>3. n + 1 \in Nat
  BY ParameterAssumption
<1>4. BusyInv' /\ busy'.op = "reprocess" /\ busy' # Free /\ busy.op = "none"
  BY <1>1, <1>2, <1>3 DEF BusyInv, Free
<1>5. barred' \subseteq Blocks /\ rejected' \subseteq Blocks /\ thread' \in [Threads -> ThreadRec]
  BY <1>1 DEF IInv, TypeInv
<1>. QED  BY <1>1, <1>2, <1>4, <1>5, StillStep

(* The end of DisconnectBlocksAndReprocess: ActivateBestChain is next.     *)
LEMMA ReprocessEndStep ==
    ASSUME IInv, ReprocessEnd
    PROVE  IInv'
<1>1. /\ busy.op = "reprocess" /\ busy' = Free /\ thread' = Start(busy.by, "find")
      /\ UNCHANGED <<index, tip, coins, info, disk, addr, run, barred, rejected>>
  BY DEF ReprocessEnd
<1>2. run = "up" /\ Live /\ busy.by \in Threads
  BY <1>1, BusyFacts DEF IInv, Live
<1>3. thread' \in [Threads -> ThreadRec] /\ thread'[busy.by].pc = "find"
  BY <1>1, <1>2, StartType DEF IInv
<1>4. BusyInv' /\ busy'.op = "none"
  BY <1>1 DEF BusyInv, Free
<1>6. \E t \in Threads : Looks(t)'
  <2>1. PICK t \in Threads : t = busy.by
    BY <1>2
  <2>. QED  BY <1>3, <2>1 DEF Looks
<1>7. barred' \subseteq Blocks /\ rejected' \subseteq Blocks
  BY <1>1 DEF IInv, TypeInv
<1>. QED  BY <1>1, <1>2, <1>3, <1>4, <1>6, <1>7, StillStep

-----------------------------------------------------------------------------
(* What is written.                                                        *)

(* Setting flags.                                                          *)
LEMMA MarkFacts ==
    ASSUME NEW st \in [Blocks -> SUBSET Flag], NEW S, NEW flags, flags \subseteq Flag
    PROVE  /\ Mark(st, S, flags) \in [Blocks -> SUBSET Flag]
           /\ \A b \in Blocks \ S : Mark(st, S, flags)[b] = st[b]
           /\ \A b \in S \intersect Blocks : Mark(st, S, flags)[b] = st[b] \union flags
  BY DEF Mark

(* What FlushStateToDisk leaves on disk.                                   *)
LEMMA FlushedFacts ==
    ASSUME TypeInv, NEW st \in [Blocks -> SUBSET Flag], NEW changed, NEW best \in Blocks
    PROVE  /\ Flushed(st, changed, best) \in DiskRec
           /\ Flushed(st, changed, best).best = best
           /\ \A b \in Blocks : Flushed(st, changed, best).status[b] =
                                   IF b \in changed THEN st[b] ELSE disk.status[b]
<1>. DEFINE s == [b \in Blocks |-> IF b \in changed THEN st[b] ELSE disk.status[b]]
<1>1. disk \in DiskRec /\ info \in Nat
  BY DEF TypeInv
<1>2. s \in [Blocks -> SUBSET Flag] /\ \A b \in Blocks : s[b] = IF b \in changed THEN st[b] ELSE disk.status[b]
  BY <1>1 DEF DiskRec
<1>. HIDE DEF s
<1>3. Flushed(st, changed, best) = [disk EXCEPT !.status = s, !.info = info, !.best = best]
  BY DEF Flushed, s
<1>4. /\ Flushed(st, changed, best) \in DiskRec
      /\ Flushed(st, changed, best).best = best
      /\ Flushed(st, changed, best).status = s
  BY <1>1, <1>2, <1>3 DEF DiskRec
<1>. QED  BY <1>2, <1>4

(* A chain stays connected when flags are only added.                      *)
LEMMA ConnectedMore ==
    ASSUME NEW st, NEW su, NEW b \in Blocks, Connected(st, b),
           \A a \in Blocks : st[a] \intersect Marks \subseteq su[a]
    PROVE  Connected(su, b)
<1>1. Anc[b] \subseteq Blocks
  BY AncFacts
<1>2. \A a \in Anc[b], m \in Marks : m \in st[a] => m \in su[a]
  BY <1>1
<1>3. \A a \in Anc[b] : /\ "tree" \in st[a] => "tree" \in su[a]
                        /\ "data" \in st[a] => "data" \in su[a]
                        /\ "undo" \in st[a] => "undo" \in su[a]
                        /\ "scripts" \in st[a] => "scripts" \in su[a]
  BY <1>2 DEF Marks
<1>. QED  BY <1>3 DEF Connected

(* Nothing is written.                                                     *)
LEMMA KeepDisk ==
    ASSUME TypeInv, DiskInv, Live, UNCHANGED <<disk, coins>>, Live',
           \A b \in Blocks : status[b] \intersect Marks \subseteq status'[b],
           \A b \in Blocks \ dirty' : b \notin dirty /\ status'[b] \intersect Marks \subseteq status[b],
           StatusOK(status')
    PROVE  DiskInv'
<1>1. coins \in Blocks
  BY DEF TypeInv
<1>2. /\ StatusOK(disk.status) /\ Connected(disk.status, disk.best) /\ Connected(status, coins)
      /\ \A b \in Blocks : disk.status[b] \intersect Marks \subseteq status[b]
      /\ \A b \in Blocks \ dirty : status[b] \intersect Marks \subseteq disk.status[b]
  BY DEF DiskInv
<1>3. Connected(status', coins)
  BY <1>1, <1>2, ConnectedMore
<1>4. \A b \in Blocks : disk.status[b] \intersect Marks \subseteq status'[b]
  BY <1>2
<1>5. \A b \in Blocks \ dirty' : status'[b] \intersect Marks \subseteq disk.status[b]
  BY <1>2
<1>6. StatusOK(disk.status)' /\ Connected(disk.status, disk.best)'
  BY <1>2 DEF StatusOK, Connected
<1>7. StatusOK(status)' /\ Connected(status, coins)'
  BY <1>3 DEF StatusOK, Connected
<1>. QED  BY <1>4, <1>5, <1>6, <1>7 DEF DiskInv

(* FlushStateToDisk writes.                                                *)
LEMMA WriteDisk ==
    ASSUME TypeInv, DiskInv, Live, Live', coins' \in Blocks, NEW changed, dirty \subseteq changed,
           \A b \in Blocks : status[b] \intersect Marks \subseteq status'[b],
           \A b \in Blocks \ changed : status'[b] \intersect Marks \subseteq status[b],
           StatusOK(status'), Connected(status', coins'),
           disk'.best = coins',
           \A b \in Blocks : disk'.status[b] = IF b \in changed THEN status'[b] ELSE disk.status[b]
    PROVE  DiskInv'
<1>1. /\ StatusOK(disk.status)
      /\ \A b \in Blocks : disk.status[b] \intersect Marks \subseteq status[b]
      /\ \A b \in Blocks \ dirty : status[b] \intersect Marks \subseteq disk.status[b]
  BY DEF DiskInv
<1>2. \A b \in Blocks : disk'.status[b] \intersect Marks \subseteq status'[b]
  BY <1>1
<1>3. \A b \in Blocks : status'[b] \intersect Marks \subseteq disk'.status[b]
  BY <1>1
<1>4. Connected(disk'.status, coins')
  BY <1>3, ConnectedMore
<1>5. Genesis \in Blocks
  BY TreeAssumption
<1>6. StatusOK(disk'.status)
  BY <1>1, <1>5 DEF StatusOK
<1>7. StatusOK(disk.status)' /\ Connected(disk.status, disk.best)'
  BY <1>4, <1>6 DEF StatusOK, Connected
<1>8. StatusOK(status)' /\ Connected(status, coins)'
  BY DEF StatusOK, Connected
<1>. QED  BY <1>2, <1>3, <1>7, <1>8 DEF DiskInv

(* FLUSH_STATE_PERIODIC.                                                   *)
LEMMA PeriodicFlushStep ==
    ASSUME IInv, NEW t \in Threads, PeriodicFlush(t)
    PROVE  IInv'
<1>1. /\ Lock(t) /\ thread[t].pc = "flush" /\ thread' = Start(t, "idle")
      /\ UNCHANGED <<status, seq, linked, unlinked, candidates, skipped>>
      /\ UNCHANGED <<tip, coins, info, addr, run, busy, barred, rejected>>
      /\ \/ dirty' = {} /\ disk' = Flushed(status, dirty, coins)
         \/ UNCHANGED <<dirty, disk>>
  BY DEF PeriodicFlush
<1>2. Live /\ Live' /\ busy = Free /\ BusyInv' /\ busy'.op = "none"
  BY <1>1 DEF Lock, Live, BusyInv, Free
<1>3. TypeInv /\ DiskInv /\ coins \in Blocks /\ status \in [Blocks -> SUBSET Flag]
  BY DEF IInv, TypeInv
<1>4. /\ thread' \in [Threads -> ThreadRec] /\ thread'[t].pc = "idle"
      /\ \A u \in Threads \ {t} : thread'[u] = thread[u]
  BY <1>1, <1>3, StartType
<1>5. DiskInv' /\ disk' \in DiskRec /\ dirty' \subseteq Blocks
  <2>1. CASE dirty' = {} /\ disk' = Flushed(status, dirty, coins)
    <3>1. /\ disk' \in DiskRec /\ disk'.best = coins'
          /\ \A b \in Blocks : disk'.status[b] = IF b \in dirty THEN status'[b] ELSE disk.status[b]
      BY <1>1, <1>3, <2>1, FlushedFacts
    <3>2. StatusOK(status') /\ Connected(status', coins')
      BY <1>1, <1>2, <1>3 DEF DiskInv
    <3>3. DiskInv'
      BY <1>1, <1>2, <1>3, <3>1, <3>2, WriteDisk
    <3>. QED  BY <2>1, <3>1, <3>3
  <2>2. CASE UNCHANGED <<dirty, disk>>
    <3>1. DiskInv'
      BY <1>1, <1>2, <1>3, <2>2 DEF DiskInv, StatusOK, Connected
    <3>. QED  BY <2>2, <3>1 DEF IInv, TypeInv
  <2>. QED  BY <1>1, <2>1, <2>2
<1>6. run = "recovering" => \A u \in Threads : thread'[u].pc \notin {"reconsider", "invalidate"}
  BY <1>4 DEF IInv, RunInv
<1>7. run = "up" => (\E u \in Threads : Looks(u)') \/ \A c \in Usable : ~Worse(tip, c)
  <2>1. ASSUME NEW u \in Threads, Looks(u) PROVE Looks(u)'
    BY <1>1, <1>4, <2>1 DEF Looks
  <2>. QED  BY <1>2, <2>1 DEF IInv, QuietInv
<1>8. barred' \subseteq Blocks /\ rejected' \subseteq Blocks /\ busy.op = "none"
  BY <1>1, <1>2 DEF IInv, TypeInv
<1>. QED  BY <1>1, <1>2, <1>4, <1>5, <1>6, <1>7, <1>8, FlushStep

-----------------------------------------------------------------------------
(* Stopping and starting.                                                  *)

(* Idle threads.                                                           *)
LEMMA IdleType == Idle \in ThreadRec /\ Idle.pc = "idle"
  BY DEF Idle, ThreadRec

(* Whatever of a flush gets written, the coins have their blocks.          *)
LEMMA FlushedSafe ==
    ASSUME TypeInv, DiskInv, Live, NEW best \in {coins, disk.best},
           NEW S \in SUBSET dirty, S = dirty \/ best = disk.best
    PROVE  LET d == Flushed(status, S, best)
           IN  d \in DiskRec /\ StatusOK(d.status) /\ d.best = best /\ Connected(d.status, best)
<1>. DEFINE d == Flushed(status, S, best)
<1>1. status \in [Blocks -> SUBSET Flag] /\ best \in Blocks /\ Genesis \in Blocks
  BY TreeAssumption DEF TypeInv, DiskRec
<1>2. /\ d \in DiskRec /\ d.best = best
      /\ \A b \in Blocks : d.status[b] = IF b \in S THEN status[b] ELSE disk.status[b]
  BY <1>1, FlushedFacts
<1>. HIDE DEF d
<1>3. /\ StatusOK(disk.status) /\ StatusOK(status)
      /\ Connected(disk.status, disk.best) /\ Connected(status, coins)
      /\ \A b \in Blocks : disk.status[b] \intersect Marks \subseteq status[b]
      /\ \A b \in Blocks \ dirty : status[b] \intersect Marks \subseteq disk.status[b]
  BY DEF DiskInv
<1>4. StatusOK(d.status)
  BY <1>1, <1>2, <1>3 DEF StatusOK
<1>5. /\ S = dirty => \A b \in Blocks : status[b] \intersect Marks \subseteq d.status[b]
      /\ \A b \in Blocks : disk.status[b] \intersect Marks \subseteq d.status[b]
  BY <1>2, <1>3
<1>6. CASE best = coins /\ S = dirty
  BY <1>1, <1>2, <1>3, <1>4, <1>5, <1>6, ConnectedMore DEF d
<1>7. CASE best = disk.best
  BY <1>1, <1>2, <1>3, <1>4, <1>5, <1>7, ConnectedMore DEF d
<1>. QED  BY <1>6, <1>7

(* Whenever the process ends with sound databases the invariant holds.     *)
LEMMA DownStep ==
    ASSUME IInv, NEW state \in {"down", "aborted"}, Down(state),
           disk' \in DiskRec, StatusOK(disk'.status), Connected(disk'.status, disk'.best)
    PROVE  IInv'
<1>1. /\ run' = state
      /\ status' = [b \in Blocks |-> {}] /\ seq' = [b \in Blocks |-> 0]
      /\ linked' = {} /\ unlinked' = {} /\ candidates' = {} /\ dirty' = {}
      /\ skipped' = FALSE
      /\ tip' = Genesis /\ coins' = Genesis /\ info' = 0
      /\ busy' = Free /\ thread' = [t \in Threads |-> Idle]
      /\ barred' = {} /\ rejected' = {} /\ addr' = addr
  BY DEF Down
<1>2. ~Live' /\ busy'.op = "none" /\ run' # "up" /\ run' # "recovering"
  BY <1>1 DEF Live, Free
<1>3. TypeInv'
  <2>1. thread' \in [Threads -> ThreadRec]
    BY <1>1, IdleType
  <2>2. status' \in [Blocks -> SUBSET Flag] /\ seq' \in [Blocks -> Nat]
    BY <1>1
  <2>3. Genesis \in Blocks /\ addr' \in [Blocks -> Int]
    BY <1>1, TreeAssumption DEF IInv, TypeInv
  <2>. QED  BY <1>1, <2>1, <2>2, <2>3 DEF TypeInv
<1>4. BusyInv' /\ StepInv' /\ ReachInv' /\ QuietInv'
  BY <1>1, <1>2 DEF BusyInv, StepInv, ReachInv, QuietInv
<1>5. RunInv'
  BY <1>1, <1>2 DEF RunInv
<1>6. StatusOK(status)'
  BY <1>1, TreeAssumption DEF StatusOK
<1>7. DiskInv'
  BY <1>2, <1>6 DEF DiskInv, StatusOK, Connected
<1>8. LinkedInv'
  BY <1>1, AncFacts DEF LinkedInv
<1>. QED  BY <1>3, <1>4, <1>5, <1>7, <1>8 DEF IInv

(* A part of the disk record that says nothing about blocks.               *)
LEMMA DiskRest ==
    ASSUME NEW d \in DiskRec, NEW n \in Nat, NEW k \in BOOLEAN
    PROVE  /\ [d EXCEPT !.info = n] \in DiskRec
           /\ [d EXCEPT !.info = n].status = d.status /\ [d EXCEPT !.info = n].best = d.best
           /\ [d EXCEPT !.clean = k] \in DiskRec
           /\ [d EXCEPT !.clean = k].status = d.status /\ [d EXCEPT !.clean = k].best = d.best
           /\ [d EXCEPT !.clean = k, !.info = n] \in DiskRec
           /\ [d EXCEPT !.clean = k, !.info = n].status = d.status
           /\ [d EXCEPT !.clean = k, !.info = n].best = d.best
  BY DEF DiskRec

(* Shutdown, crashes at any point and within a flush, failed assertions.   *)
LEMMA StopStep ==
    ASSUME IInv, Shutdown \/ Crash \/ CrashInFlush \/ StepAssert
    PROVE  IInv'
<1>1. TypeInv /\ DiskInv /\ disk \in DiskRec /\ info \in Nat
  BY DEF IInv, TypeInv
<1>2. StatusOK(disk.status) /\ Connected(disk.status, disk.best)
  BY <1>1 DEF DiskInv
<1>3. CASE Shutdown
  <2>. DEFINE d == Flushed(status, dirty, coins)
  <2>1. Live /\ Down("down") /\ disk' = [d EXCEPT !.clean = TRUE]
    BY <1>3 DEF Shutdown, Live
  <2>2. d \in DiskRec /\ StatusOK(d.status) /\ Connected(d.status, d.best)
    BY <1>1, <2>1, FlushedSafe
  <2>. HIDE DEF d
  <2>3. disk' \in DiskRec /\ disk'.status = d.status /\ disk'.best = d.best
    BY <2>1, <2>2, DiskRest
  <2>. QED  BY <2>1, <2>2, <2>3, DownStep
<1>4. CASE Crash
  BY <1>1, <1>2, <1>4, DownStep DEF Crash
<1>5. CASE CrashInFlush
  <2>1. Live /\ Down("down") /\ disk' \in PartlyFlushed
    BY <1>5 DEF CrashInFlush, Live
  <2>2. CASE disk' = [disk EXCEPT !.info = info]
    <3>1. disk' \in DiskRec /\ disk'.status = disk.status /\ disk'.best = disk.best
      BY <1>1, <2>2, DiskRest
    <3>. QED  BY <1>2, <2>1, <3>1, DownStep
  <2>3. ASSUME NEW b \in dirty, disk' = Flushed(status, WrittenUpTo(b), disk.best)
        PROVE  IInv'
    <3>1. WrittenUpTo(b) \in SUBSET dirty
      BY DEF WrittenUpTo
    <3>2. disk' \in DiskRec /\ StatusOK(disk'.status) /\ Connected(disk'.status, disk'.best)
      BY <1>1, <2>1, <2>3, <3>1, FlushedSafe
    <3>. QED  BY <2>1, <3>2, DownStep
  <2>. QED  BY <2>1, <2>2, <2>3 DEF PartlyFlushed
<1>6. CASE StepAssert
  BY <1>1, <1>2, <1>6, DownStep DEF StepAssert, Abort
<1>. QED  BY <1>3, <1>4, <1>5, <1>6

(* LoadBlockIndexDB gives up.                                              *)
LEMMA AbortStep ==
    ASSUME IInv, NEW order \in Orders, StartAbort(order) \/ RecoveryAbort
    PROVE  IInv'
<1>1. TypeInv /\ DiskInv /\ disk \in DiskRec
  BY DEF IInv, TypeInv
<1>2. CASE StartAbort(order)
  <2>1. Down("aborted") /\ disk' = disk
    BY <1>2 DEF StartAbort, Abort
  <2>2. StatusOK(disk.status) /\ Connected(disk.status, disk.best)
    BY <1>1 DEF DiskInv
  <2>. QED  BY <1>1, <2>1, <2>2, DownStep
<1>3. CASE RecoveryAbort
  <2>. DEFINE d == Flushed(status, dirty, coins)
              last == Highest(addr, Index)
  <2>1. Live /\ Down("aborted") /\ disk' = [d EXCEPT !.info = Height[last]]
    BY <1>3 DEF RecoveryAbort, Abort, Live
  <2>2. d \in DiskRec /\ StatusOK(d.status) /\ Connected(d.status, d.best)
    BY <1>1, <2>1, FlushedSafe
  <2>3. coins \in Index /\ Index \subseteq Blocks
    BY <1>1, <2>1, AncFacts DEF DiskInv, TypeInv, Connected, Index
  <2>4. last \in Blocks
    BY <1>1, <2>3, HighestFacts DEF TypeInv
  <2>. HIDE DEF d, last
  <2>5. Height[last] \in Nat
    BY <2>4, TreeAssumption
  <2>6. disk' \in DiskRec /\ disk'.status = d.status /\ disk'.best = d.best
    BY <2>1, <2>2, <2>5, DiskRest
  <2>. QED  BY <2>1, <2>2, <2>6, DownStep
<1>. QED  BY <1>2, <1>3

(* LoadBlockIndexDB.                                                       *)
LEMMA LoadStep ==
    ASSUME IInv, run = "down", NEW order \in Orders, Load(order),
           tip' \in Blocks, run' \in {"up", "recovering"}, run' = "up" => tip' = disk.best,
           thread' \in [Threads -> ThreadRec], skipped' \in BOOLEAN,
           ~skipped' => \A a \in Anc[tip'] : disk.status[a] \intersect FAILED_MASK = {},
           candidates' \subseteq Loaded,
           \A b \in Loaded : b \in candidates' \/ (run' = "up" /\ Worse(b, tip)'),
           run' = "recovering" =>
              \A t \in Threads : thread'[t].pc \notin {"reconsider", "invalidate"},
           run' = "up" => \E t \in Threads : Looks(t)',
           disk' \in DiskRec, disk'.status = disk.status, disk'.best = disk.best
    PROVE  IInv'
<1>1. /\ addr' = order /\ status' = disk.status /\ seq' = [b \in Blocks |-> 0]
      /\ linked' = DiskLinked
      /\ unlinked' = {b \in OnDisk : "data" \in disk.status[b]} \ DiskLinked
      /\ dirty' = {} /\ info' = disk.info /\ coins' = disk.best
      /\ UNCHANGED <<busy, barred, rejected>>
  BY DEF Load
<1>2. /\ disk \in DiskRec /\ disk.status \in [Blocks -> SUBSET Flag] /\ disk.info \in Nat
      /\ disk.best \in Blocks /\ barred \subseteq Blocks /\ rejected \subseteq Blocks
  BY DEF IInv, TypeInv, DiskRec
<1>3. Live' /\ ~Live
  BY DEF Live
<1>4. DiskLinked \subseteq Blocks /\ OnDisk \subseteq Blocks /\ Loaded \subseteq DiskLinked
  BY DEF DiskLinked, OnDisk, Loaded
<1>5. busy = Free /\ busy' = Free /\ busy'.op = "none"
  BY <1>1, <1>3 DEF IInv, BusyInv, Free, Live
<1>6. TypeInv'
  <2>1. addr' \in [Blocks -> Int] /\ seq' \in [Blocks -> Nat]
    BY <1>1, ParameterAssumption
  <2>2. linked' \subseteq Blocks /\ unlinked' \subseteq Blocks /\ candidates' \subseteq linked'
    BY <1>1, <1>4
  <2>. QED  BY <1>1, <1>2, <2>1, <2>2 DEF TypeInv
<1>7. BusyInv' /\ StepInv'
  BY <1>5 DEF BusyInv, StepInv
<1>8. RunInv'
  BY <1>1, <1>3 DEF RunInv
<1>9. DiskInv'
  <2>1. StatusOK(disk.status) /\ Connected(disk.status, disk.best)
    BY DEF IInv, DiskInv
  <2>2. StatusOK(status)' /\ Connected(status, coins)'
    BY <1>1, <2>1 DEF StatusOK, Connected
  <2>3. StatusOK(disk.status)' /\ Connected(disk.status, disk.best)'
    BY <2>1 DEF StatusOK, Connected
  <2>. QED  BY <1>1, <2>2, <2>3 DEF DiskInv
<1>10. LinkedInv'
  <2>1. \A b \in Blocks : "data" \in disk.status[b] => "tree" \in disk.status[b]
    BY DEF IInv, DiskInv, StatusOK
  <2>2. \A b \in Blocks : b \in DiskLinked <=> \A a \in Anc[b] : "data" \in disk.status[a]
    BY DEF DiskLinked
  <2>3. \A b \in Blocks : b \in OnDisk <=> "tree" \in disk.status[b]
    BY DEF OnDisk
  <2>. QED  BY <1>1, <2>1, <2>2, <2>3 DEF LinkedInv
<1>11. ReachInv'
  <2>1. \A b \in linked' : ~Failed(b)' => b \in Loaded
    BY <1>1 DEF Loaded, Failed
  <2>2. ASSUME ~skipped', NEW a \in Anc[tip'] PROVE ~Failed(a)'
    BY <1>1, <2>2 DEF Failed
  <2>3. \A b \in linked' : ~Failed(b)' => Covered(b)'
    BY <2>1 DEF Covered
  <2>4. run' = "recovering" => \A b \in linked' : ~Failed(b)' => b \in candidates'
    BY <2>1
  <2>. QED  BY <2>2, <2>3, <2>4 DEF ReachInv
<1>12. QuietInv'
  BY DEF QuietInv
<1>. QED  BY <1>6, <1>7, <1>8, <1>9, <1>10, <1>11, <1>12 DEF IInv

(* The node starts from the databases as they are.                         *)
LEMMA StartNodeStep ==
    ASSUME IInv, NEW order \in Orders, StartNode(order)
    PROVE  IInv'
<1>. DEFINE good == {c \in Loaded : \/ Work[c] > Work[disk.best]
                                    \/ Work[c] = Work[disk.best] /\ order[c] <= order[disk.best]}
            found == [Idle EXCEPT !.pc = "find"]
<1>1. /\ run = "down" /\ disk' = [disk EXCEPT !.clean = FALSE]
      /\ IF good = {} THEN Abort
         ELSE Load(order) /\ LoadChain(disk.status, disk.best) /\ candidates' = good
  BY DEF StartNode
<1>2. disk \in DiskRec /\ disk.best \in Blocks /\ skipped = FALSE /\ DiskInv
  BY <1>1 DEF IInv, TypeInv, DiskRec, RunInv, Live
<1>3. disk' \in DiskRec /\ disk'.status = disk.status /\ disk'.best = disk.best
  BY <1>1, <1>2, DiskRest
<1>4. CASE good = {}
  BY <1>1, <1>2, <1>3, <1>4, DownStep DEF Abort, DiskInv
<1>5. CASE good # {}
  <2>1. /\ Load(order) /\ candidates' = good /\ tip' = disk.best /\ run' = "up"
        /\ skipped' = \E a \in Anc[disk.best] : disk.status[a] \intersect FAILED_MASK # {}
        /\ thread' = [t \in Threads |-> IF t = Loader THEN found ELSE Idle]
    BY <1>1, <1>2, <1>5 DEF LoadChain
  <2>2. found \in ThreadRec /\ found.pc = "find"
    BY DEF Idle, ThreadRec
  <2>. HIDE DEF found
  <2>3. thread' \in [Threads -> ThreadRec] /\ thread'[Loader].pc = "find"
    BY <2>1, <2>2, IdleType, ParameterAssumption
  <2>4. Looks(Loader)' /\ Loader \in Threads
    BY <2>3, ParameterAssumption DEF Looks
  <2>5. ASSUME NEW b \in Loaded, b \notin good PROVE Worse(b, tip)'
    <3>1. b \in Blocks /\ order \in [Blocks -> Int]
      BY ParameterAssumption DEF Loaded, DiskLinked
    <3>2. /\ Work[b] \in Nat /\ Work[disk.best] \in Nat /\ order[b] \in Int /\ order[disk.best] \in Int
      BY <1>2, <3>1, TreeAssumption
    <3>3. /\ ~(Work[b] > Work[disk.best])
          /\ ~(Work[b] = Work[disk.best] /\ order[b] <= order[disk.best])
      BY <2>5
    <3>4. \/ Work[b] < Work[disk.best]
          \/ Work[b] = Work[disk.best] /\ order[b] > order[disk.best]
      BY <3>2, <3>3
    <3>5. addr' = order /\ seq'[b] = 0 /\ seq'[disk.best] = 0
      BY <1>2, <2>1, <3>1 DEF Load
    <3>. QED  BY <2>1, <3>4, <3>5 DEF Worse
  <2>6. good \subseteq Loaded
    OBVIOUS
  <2>. HIDE DEF good
  <2>. QED  BY <1>1, <1>2, <1>3, <2>1, <2>3, <2>4, <2>5, <2>6, LoadStep
<1>. QED  BY <1>4, <1>5

(* The node starts with the recovery.                                      *)
LEMMA StartRecoveryStep ==
    ASSUME IInv, NEW order \in Orders, StartRecovery(order)
    PROVE  IInv'
<1>. DEFINE last == LastMeta(order)
            found == IF (disk.status[last] \union disk.status[Parent[last]]) \intersect FAILED_MASK = {}
                     THEN [Idle EXCEPT !.pc = "find"] ELSE Idle
<1>1. /\ run = "down" /\ Cardinality(OnDisk) > disk.info + 1
      /\ Load(order) /\ tip' = Parent[last]
      /\ skipped' = \E a \in Anc[Parent[last]] : disk.status[a] \intersect FAILED_MASK # {}
      /\ candidates' = Loaded /\ run' = "recovering"
      /\ thread' = [thread EXCEPT ![Loader] = found] /\ disk' = disk
  BY DEF StartRecovery
<1>2. order \in [Blocks -> Int]
  BY ParameterAssumption
<1>3. last \in Blocks \ {Genesis}
  BY <1>1, <1>2, LastMetaFacts DEF IInv
<1>. HIDE DEF last
<1>4. Parent[last] \in Blocks
  BY <1>3, ParentFacts
<1>5. found \in ThreadRec /\ found.pc \in {"idle", "find"}
  BY DEF Idle, ThreadRec
<1>. HIDE DEF found
<1>6. thread = [t \in Threads |-> Idle] /\ disk \in DiskRec
  BY <1>1 DEF IInv, TypeInv, RunInv, Live
<1>7. /\ thread' \in [Threads -> ThreadRec]
      /\ \A t \in Threads : thread'[t].pc \notin {"reconsider", "invalidate"}
  BY <1>1, <1>5, <1>6, IdleType
<1>. QED  BY <1>1, <1>4, <1>6, <1>7, LoadStep

(* The recovery has succeeded.                                             *)
LEMMA RecoveryEndStep ==
    ASSUME IInv, RecoveryEnd
    PROVE  IInv'
<1>. DEFINE last == Highest(addr, Index)
            d == Flushed(status, dirty, coins)
            found == [Idle EXCEPT !.pc = "find"]
<1>1. /\ run = "recovering" /\ busy = Free /\ coins = last
      /\ info' = Height[last]
      /\ disk' = [d EXCEPT !.clean = FALSE, !.info = Height[last]]
      /\ dirty' = {} /\ candidates' = Pruned(coins)
      /\ tip' = coins /\ run' = "up"
      /\ skipped' = (skipped \/ \E a \in Anc[coins] : status[a] \intersect FAILED_MASK # {})
      /\ thread' = [t \in Threads |-> IF t = Loader THEN found ELSE Idle]
      /\ UNCHANGED <<status, seq, linked, unlinked, coins, addr, busy, barred, rejected>>
  BY DEF RecoveryEnd, LoadChain
<1>. HIDE DEF last
<1>2. TypeInv /\ DiskInv /\ coins \in Blocks /\ Height[coins] \in Nat /\ Live /\ Live'
  BY <1>1, TreeAssumption DEF IInv, TypeInv, Live
<1>3. status \in [Blocks -> SUBSET Flag] /\ seq \in [Blocks -> Nat] /\ addr \in [Blocks -> Int]
  BY <1>2 DEF TypeInv
<1>4. /\ disk' \in DiskRec /\ disk'.best = coins'
      /\ \A b \in Blocks : disk'.status[b] = IF b \in dirty THEN status'[b] ELSE disk.status[b]
  <2>1. /\ d \in DiskRec /\ d.best = coins
        /\ \A b \in Blocks : d.status[b] = IF b \in dirty THEN status[b] ELSE disk.status[b]
    BY <1>2, <1>3, FlushedFacts
  <2>. HIDE DEF d
  <2>2. disk' \in DiskRec /\ disk'.status = d.status /\ disk'.best = d.best
    BY <1>1, <1>2, <2>1, DiskRest
  <2>. QED  BY <1>1, <2>1, <2>2
<1>5. DiskInv'
  <2>1. StatusOK(status') /\ Connected(status', coins')
    BY <1>1, <1>2 DEF DiskInv
  <2>. QED  BY <1>1, <1>2, <1>4, <2>1, WriteDisk
<1>6. found \in ThreadRec /\ found.pc = "find"
  BY DEF Idle, ThreadRec
<1>. HIDE DEF found, d
<1>7. thread' \in [Threads -> ThreadRec] /\ thread'[Loader].pc = "find"
  BY <1>1, <1>6, IdleType, ParameterAssumption
<1>8. Pruned(coins) \subseteq candidates
  BY DEF Pruned
<1>9. TypeInv'
  BY <1>1, <1>2, <1>4, <1>7, <1>8 DEF TypeInv
<1>10. BusyInv' /\ StepInv' /\ RunInv'
  BY <1>1, <1>2 DEF BusyInv, StepInv, RunInv, Free
<1>11. LinkedInv'
  BY <1>1 DEF IInv, LinkedInv
<1>12. QuietInv'
  <2>1. Looks(Loader)' /\ Loader \in Threads
    BY <1>7, ParameterAssumption DEF Looks
  <2>. QED  BY <2>1 DEF QuietInv
<1>13. ReachInv'
  <2>1. SUFFICES ASSUME ~skipped'
        PROVE  /\ \A a \in Anc[tip'] : ~Failed(a)'
               /\ \A b \in linked' : ~Failed(b)' => Covered(b)'
    BY <1>1 DEF ReachInv
  <2>2. ~skipped /\ \A a \in Anc[coins] : ~Failed(a)
    BY <1>1, <2>1 DEF Failed
  <2>3. \A x, y \in Blocks : Worse(x, y)' <=> Worse(x, y)
    BY <1>1 DEF Worse
  <2>4. ASSUME NEW b \in linked, ~Failed(b) PROVE Covered(b)'
    <3>1. b \in Blocks /\ tip' = coins /\ candidates \subseteq Blocks
      BY <1>1, <1>2 DEF TypeInv
    <3>2. \A c \in candidates : c \in candidates' <=> ~Worse(c, coins)
      BY <1>1 DEF Pruned
    <3>3. CASE b \in candidates
      BY <2>3, <3>1, <3>2, <3>3, <1>2 DEF Covered
    <3>4. CASE b \notin candidates
      <4>1. coins = tip
        BY <1>1, <2>4, <3>4 DEF IInv, ReachInv
      <4>2. Covered(b)
        BY <1>1, <1>2, <2>2, <2>4 DEF IInv, ReachInv, Free
      <4>3. CASE Worse(b, tip)
        BY <1>2, <2>3, <3>1, <4>1, <4>3 DEF Covered
      <4>4. CASE ~Worse(b, tip)
        <5>1. PICK c \in candidates : Sound(c) /\ ~Worse(c, b)
          BY <3>4, <4>2, <4>4 DEF Covered
        <5>2. ~Worse(c, coins)
          BY <1>2, <1>3, <3>1, <4>1, <4>4, <5>1, WorseOrder
        <5>3. Sound(c)' /\ ~Worse(c, b)'
          BY <1>1, <2>3, <3>1, <5>1 DEF Sound, Failed
        <5>. QED  BY <3>2, <5>2, <5>3 DEF Covered
      <4>. QED  BY <4>3, <4>4
    <3>. QED  BY <3>3, <3>4
  <2>. QED  BY <1>1, <2>2, <2>4 DEF Failed
<1>. QED  BY <1>5, <1>9, <1>10, <1>11, <1>12, <1>13 DEF IInv

(* A new data directory.                                                   *)
Fresh ==
    /\ status = [b \in Blocks |-> IF b = Genesis THEN {"tree", "data"} ELSE {}]
    /\ seq = [b \in Blocks |-> 0]
    /\ linked = {Genesis} /\ unlinked = {} /\ candidates = {Genesis} /\ dirty = {}
    /\ tip = Genesis /\ coins = Genesis /\ info = 0
    /\ disk = [status |-> status, info |-> 0, best |-> Genesis, clean |-> FALSE]
    /\ addr \in [Blocks -> Int]
    /\ run = "up" /\ busy = Free /\ thread = [t \in Threads |-> Idle]
    /\ barred \subseteq Blocks /\ rejected \subseteq Blocks /\ skipped = FALSE

(* The node starts with nothing but the genesis block.                     *)
LEMMA FreshInv == Fresh => IInv
<1>. SUFFICES ASSUME Fresh PROVE IInv
  OBVIOUS
<1>1. /\ Genesis \in Blocks /\ Anc[Genesis] = {Genesis}
      /\ \A b \in Blocks : Genesis \in Anc[b] /\ b \in Anc[b]
  BY TreeAssumption, AncFacts
<1>2. status \in [Blocks -> SUBSET Flag]
  BY DEF Fresh, Flag
<1>3. /\ status[Genesis] = {"tree", "data"}
      /\ \A b \in Blocks \ {Genesis} : status[b] = {}
  BY <1>1 DEF Fresh
<1>4. \A b \in Blocks : ~Failed(b)
  BY <1>3 DEF Failed, FAILED_MASK
<1>5. TypeInv
  <2>1. thread \in [Threads -> ThreadRec]
    BY IdleType DEF Fresh
  <2>2. disk \in DiskRec
    BY <1>1, <1>2 DEF Fresh, DiskRec
  <2>. QED  BY <1>1, <1>2, <2>1, <2>2 DEF Fresh, TypeInv
<1>6. busy.op = "none" /\ Live /\ coins = tip
  BY DEF Fresh, Free, Live
<1>7. BusyInv /\ RunInv /\ StepInv
  BY <1>6 DEF Fresh, BusyInv, RunInv, StepInv
<1>8. DiskInv
  <2>1. disk.status = status /\ disk.best = Genesis /\ coins = Genesis
    BY DEF Fresh
  <2>2. StatusOK(status)
    BY <1>3 DEF StatusOK
  <2>3. Connected(status, Genesis)
    BY <1>1, <1>3 DEF Connected
  <2>. QED  BY <2>1, <2>2, <2>3 DEF DiskInv
<1>9. LinkedInv
  <2>1. linked = {Genesis} /\ unlinked = {}
    BY DEF Fresh
  <2>. QED  BY <1>1, <1>3, <2>1 DEF LinkedInv
<1>10. ReachInv
  BY <1>1, <1>4, <1>6 DEF Fresh, ReachInv, Covered
<1>11. QuietInv
  <2>1. ~Worse(tip, Genesis)
    BY <1>1, <1>5, WorseOrder DEF TypeInv, Fresh
  <2>. QED  BY <2>1 DEF QuietInv, Usable, Fresh
<1>. QED  BY <1>5, <1>7, <1>8, <1>9, <1>10, <1>11 DEF IInv

(* The same after -reindex.                                                *)
LEMMA ReindexStep ==
    ASSUME IInv, Reindex
    PROVE  IInv'
<1>1. Fresh'
  <2>1. /\ seq = [b \in Blocks |-> 0] /\ unlinked = {} /\ dirty = {} /\ skipped = FALSE
        /\ tip = Genesis /\ coins = Genesis /\ info = 0 /\ thread = [t \in Threads |-> Idle]
    BY DEF IInv, RunInv, Live, Reindex
  <2>2. busy = Free
    BY DEF IInv, BusyInv, Live, Reindex
  <2>3. addr \in [Blocks -> Int] /\ barred \subseteq Blocks /\ rejected \subseteq Blocks
    BY DEF IInv, TypeInv
  <2>. QED  BY <2>1, <2>2, <2>3 DEF Reindex, Fresh
<1>. QED  BY <1>1, FreshInv, PTL

-----------------------------------------------------------------------------
(* Accepting a block.                                                      *)

(* The active chain is linked.                                             *)
LEMMA TipLinked ==
    ASSUME IInv, Live, coins = tip
    PROVE  tip \in linked /\ Connected(status, tip) /\ tip \in Blocks
<1>1. tip \in Blocks /\ Connected(status, tip)
  BY DEF IInv, TypeInv, DiskInv
<1>. QED  BY <1>1 DEF IInv, LinkedInv, Connected

(* ReceivedBlockTransactions links exactly the blocks whose chain is       *)
(* complete now.                                                           *)
LEMMA StoreLinked ==
    ASSUME TypeInv, LinkedInv, NEW b \in Blocks \ {Genesis}, "data" \notin status[b],
           status' = Mark(status, {b}, {"tree", "data"}),
           linked' = linked \union NewlyLinked(b),
           unlinked' = IF NewlyLinked(b) = {} THEN unlinked \union {b} ELSE unlinked \ NewlyLinked(b)
    PROVE  LinkedInv' /\ NewlyLinked(b) \subseteq Blocks /\ NewlyLinked(b) \intersect linked = {}
<1>. DEFINE new == NewlyLinked(b)
<1>1. \A x \in Blocks : "data" \in status'[x] <=> x = b \/ "data" \in status[x]
  BY DEF Mark
<1>2. \A x \in Blocks : /\ x \in linked <=> \A a \in Anc[x] : "data" \in status[a]
                        /\ x \in unlinked <=> "data" \in status[x] /\ x \notin linked
  BY DEF LinkedInv
<1>3. linked \subseteq Blocks /\ unlinked \subseteq Blocks
  BY DEF TypeInv
<1>4. \A x \in Blocks : b \in Anc[x] => x \notin linked
  BY <1>2
<1>5. /\ Parent[b] \in Blocks /\ Anc[b] = Anc[Parent[b]] \union {b} /\ b \notin Anc[Parent[b]]
      /\ b \in Anc[b] /\ Anc[b] \subseteq Blocks
  BY ParentFacts, AncFacts
<1>6. CASE Parent[b] \notin linked
  <2>1. new = {} /\ linked' = linked /\ unlinked' = unlinked \union {b}
    BY <1>6 DEF NewlyLinked
  <2>2. ASSUME NEW x \in Blocks, \A a \in Anc[x] : "data" \in status'[a] PROVE x \in linked
    <3>1. CASE b \in Anc[x]
      <4>1. Anc[b] \subseteq Anc[x]
        BY <3>1, AncFacts
      <4>2. \A a \in Anc[Parent[b]] : "data" \in status[a]
        BY <1>1, <1>5, <2>2, <4>1
      <4>. QED  BY <1>2, <1>5, <1>6, <4>2
    <3>2. CASE b \notin Anc[x]
      BY <1>1, <1>2, <2>2, <3>2, AncFacts
    <3>. QED  BY <3>1, <3>2
  <2>3. ASSUME NEW x \in linked PROVE \A a \in Anc[x] : "data" \in status'[a]
    BY <1>1, <1>2, <1>3, AncFacts
  <2>4. \A x \in Blocks : x \in unlinked' <=> "data" \in status'[x] /\ x \notin linked
    BY <1>1, <1>2, <1>4, <1>5, <2>1
  <2>. QED  BY <2>1, <2>2, <2>3, <2>4 DEF LinkedInv
<1>7. CASE Parent[b] \in linked
  <2>1. new = {b} \union {c \in unlinked : b \in Anc[c] /\ Anc[c] \ Anc[b] \subseteq unlinked}
    BY <1>7 DEF NewlyLinked
  <2>2. b \in new /\ new # {} /\ linked' = linked \union new /\ unlinked' = unlinked \ new
    BY <2>1
  <2>3. \A x \in Blocks :
           x \in new <=> \/ x = b
                         \/ x \in unlinked /\ b \in Anc[x] /\ Anc[x] \ Anc[b] \subseteq unlinked
    BY <2>1
  <2>4. new \subseteq Blocks
    BY <1>3, <2>1
  <2>. HIDE DEF new
  <2>5. new \intersect linked = {}
    BY <1>2, <1>3, <1>4, <1>5, <2>3, <2>4
  <2>6. \A a \in Anc[b] : "data" \in status'[a]
    BY <1>1, <1>2, <1>5, <1>7
  <2>7. ASSUME NEW x \in linked \union new PROVE \A a \in Anc[x] : "data" \in status'[a]
    <3>1. CASE x \in linked
      BY <1>1, <1>2, <1>3, <3>1, AncFacts
    <3>2. CASE x \in new
      <4>1. ASSUME NEW a \in Anc[x], a \notin Anc[b] PROVE "data" \in status'[a]
        <5>1. a \in unlinked
          BY <2>3, <2>4, <3>2, <4>1
        <5>. QED  BY <1>1, <1>2, <1>3, <5>1
      <4>. QED  BY <2>6, <4>1
    <3>. QED  BY <3>1, <3>2
  <2>8. ASSUME NEW x \in Blocks, \A a \in Anc[x] : "data" \in status'[a] PROVE x \in linked \union new
    <3>1. CASE b \notin Anc[x]
      BY <1>1, <1>2, <2>8, <3>1, AncFacts
    <3>2. CASE b \in Anc[x] /\ x # b
      <4>1. ASSUME NEW a \in Anc[x], a \notin Anc[b] PROVE a \in unlinked
        <5>1. a \in Blocks /\ b \in Anc[a] /\ a # b
          BY <1>5, <3>2, <4>1, AncFacts
        <5>. QED  BY <1>1, <1>2, <1>4, <2>8, <5>1
      <4>2. x \in Anc[x]
        BY AncFacts
      <4>3. x \notin Anc[b]
        BY <3>2, AncFacts
      <4>. QED  BY <2>3, <3>2, <4>1, <4>2, <4>3
    <3>. QED  BY <2>2, <3>1, <3>2
  <2>9. \A x \in Blocks : x \in unlinked' <=> "data" \in status'[x] /\ x \notin linked \union new
    BY <1>1, <1>2, <2>2, <2>5
  <2>10. LinkedInv'
    BY <2>2, <2>7, <2>8, <2>9 DEF LinkedInv
  <2>. QED  BY <2>4, <2>5, <2>10 DEF new
<1>. QED  BY <1>6, <1>7

(* The larger of two.                                                      *)
LEMMA MaxPair ==
    ASSUME NEW m \in Nat, NEW n \in Nat
    PROVE  Max({m, n}) \in Nat
<1>1. \E x \in {m, n} : \A y \in {m, n} : x >= y
  <2>1. CASE m >= n
    BY <2>1
  <2>2. CASE ~(m >= n)
    BY <2>2
  <2>. QED  BY <2>1, <2>2
<1>. QED  BY <1>1 DEF Max

(* AcceptBlock: what it links is a candidate or worse than the tip.        *)
LEMMA StoreBlockStep ==
    ASSUME IInv, NEW t \in Threads, NEW b \in Blocks \ {Genesis}, run = "up", busy = Free,
           "data" \notin status[b], StoreBlock(b), thread' = Start(t, "find"),
           UNCHANGED <<tip, coins, disk, addr, run, busy, barred, rejected>>
    PROVE  IInv'
<1>. DEFINE new == NewlyLinked(b)
            next == Max({seq[c] : c \in Blocks}) + 1
            order == CHOOSE f \in [new -> 0 .. Cardinality(new) - 1] :
                        /\ IsInjective(f)
                        /\ \A c, d \in new : Height[c] < Height[d] => f[c] < f[d]
<1>1. /\ status' = Mark(status, {b}, {"tree", "data"}) /\ linked' = linked \union new
      /\ seq' = [c \in Blocks |-> IF c \in new THEN next + order[c] ELSE seq[c]]
      /\ unlinked' = IF new = {} THEN unlinked \union {b} ELSE unlinked \ new
      /\ candidates' = candidates \union {c \in new : Work[c] > Work[tip]}
      /\ dirty' = dirty \union {b} /\ info' = Max({info, Height[b]}) /\ skipped' = skipped
  BY DEF StoreBlock
<1>2. /\ TypeInv /\ DiskInv /\ LinkedInv /\ seq \in [Blocks -> Nat] /\ addr \in [Blocks -> Int]
      /\ status \in [Blocks -> SUBSET Flag] /\ linked \subseteq Blocks /\ candidates \subseteq linked
      /\ unlinked \subseteq Blocks
  BY DEF IInv, TypeInv
<1>3. LinkedInv' /\ new \subseteq Blocks /\ new \intersect linked = {}
  BY <1>1, <1>2, StoreLinked
<1>4. next \in Nat /\ \A c \in Blocks : seq[c] < next
  <2>. DEFINE m == Max({seq[c] : c \in Blocks})
  <2>1. m \in Nat /\ \A c \in Blocks : seq[c] <= m
    BY <1>2, MaxSeq
  <2>2. next = m + 1
    OBVIOUS
  <2>3. \A c \in Blocks : seq[c] \in Nat
    BY <1>2
  <2>. HIDE DEF m
  <2>. QED  BY <2>1, <2>2, <2>3
<1>5. order \in [new -> 0 .. Cardinality(new) - 1]
  <2>. HIDE DEF new
  <2>. QED  BY <1>3, Numbering
<1>6. \A c \in new : order[c] \in Nat
  BY <1>5
<1>. HIDE DEF new, next, order
<1>7. /\ seq' \in [Blocks -> Nat]
      /\ \A c \in Blocks : c \notin new => seq'[c] = seq[c]
      /\ \A c \in new, d \in Blocks : seq'[c] > seq[d]
  <2>1. \A c \in new : next + order[c] \in Nat /\ next + order[c] >= next
    BY <1>4, <1>6
  <2>2. seq' \in [Blocks -> Nat] /\ \A c \in Blocks : c \notin new => seq'[c] = seq[c]
    BY <1>1, <1>2, <2>1
  <2>3. ASSUME NEW c \in new, NEW d \in Blocks PROVE seq'[c] > seq[d]
    <3>1. seq'[c] = next + order[c] /\ seq[d] < next /\ seq[d] \in Nat
      BY <1>1, <1>2, <1>3, <1>4
    <3>. QED  BY <1>4, <1>6, <3>1
  <2>. QED  BY <2>2, <2>3
<1>8. /\ \A x \in Blocks : x # b => status'[x] = status[x]
      /\ status'[b] = status[b] \union {"tree", "data"}
      /\ status' \in [Blocks -> SUBSET Flag]
  BY <1>1, <1>2, MarkFacts DEF Flag
<1>9. \A x \in Blocks : (Failed(x)' <=> Failed(x)) /\ ("scripts" \in status'[x] <=> "scripts" \in status[x])
  BY <1>8 DEF Failed, FAILED_MASK
<1>10. TypeInv'
  <2>1. info' \in Nat
    BY <1>1, MaxPair, TreeAssumption DEF IInv, TypeInv
  <2>2. thread' \in [Threads -> ThreadRec]
    BY <1>2, StartType
  <2>3. linked' \subseteq Blocks /\ unlinked' \subseteq Blocks /\ dirty' \subseteq Blocks /\ candidates' \subseteq linked'
    BY <1>1, <1>2, <1>3 DEF TypeInv
  <2>. QED  BY <1>1, <1>2, <1>7, <1>8, <2>1, <2>2, <2>3 DEF TypeInv
<1>11. Live /\ Live' /\ coins = tip /\ busy'.op = "none" /\ thread'[t].pc = "find"
  BY <1>2, StartType DEF IInv, RunInv, Live, Free
<1>12. BusyInv' /\ StepInv' /\ RunInv'
  BY <1>11 DEF BusyInv, StepInv, RunInv
<1>13. DiskInv'
  <2>1. StatusOK(status')
    <3>1. StatusOK(status)
      BY <1>2 DEF DiskInv
    <3>2. Genesis \in Blocks /\ Genesis # b
      BY TreeAssumption
    <3>. QED  BY <1>8, <3>1, <3>2 DEF StatusOK
  <2>2. \A x \in Blocks : status[x] \intersect Marks \subseteq status'[x]
    BY <1>8
  <2>3. \A x \in Blocks \ dirty' : x \notin dirty /\ status'[x] \intersect Marks \subseteq status[x]
    BY <1>1, <1>8
  <2>. QED  BY <1>2, <1>11, <2>1, <2>2, <2>3, KeepDisk
<1>14. QuietInv'
  BY <1>11 DEF QuietInv, Looks
<1>15. ReachInv'
  <2>1. tip \in linked /\ tip \in Blocks
    BY <1>11, TipLinked
  <2>2. SUFFICES ASSUME ~skipped
        PROVE  /\ \A a \in Anc[tip] : ~Failed(a)'
               /\ \A x \in linked' : ~Failed(x)' => Covered(x)'
    BY <1>1 DEF ReachInv
  <2>3. /\ \A a \in Anc[tip] : ~Failed(a)
        /\ \A x \in linked : ~Failed(x) => Covered(x)
    BY <1>11, <2>2 DEF IInv, ReachInv, Free
  <2>4. \A x, y \in linked : Worse(x, y)' <=> Worse(x, y)
    BY <1>2, <1>3, <1>7 DEF Worse
  <2>5. ASSUME NEW x \in linked, ~Failed(x) PROVE Covered(x)'
    <3>1. CASE x \in candidates \/ Worse(x, tip)
      BY <1>1, <2>1, <2>4, <3>1 DEF Covered
    <3>2. CASE ~(x \in candidates \/ Worse(x, tip))
      <4>1. PICK c \in candidates : Sound(c) /\ ~Worse(c, x)
        BY <2>3, <2>5, <3>2 DEF Covered
      <4>2. Sound(c)'
        BY <1>2, <1>9, <4>1, AncFacts DEF Sound
      <4>3. ~Worse(c, x)' /\ c \in candidates'
        BY <1>1, <1>2, <2>4, <4>1
      <4>. QED  BY <4>2, <4>3 DEF Covered
    <3>. QED  BY <3>1, <3>2
  <2>6. ASSUME NEW x \in new PROVE Covered(x)'
    <3>1. x \in Blocks /\ tip \notin new /\ Work[x] \in Nat /\ Work[tip] \in Nat
      BY <1>3, <2>1, TreeAssumption
    <3>2. seq'[x] > seq'[tip]
      BY <1>7, <2>1, <3>1
    <3>3. CASE Work[x] > Work[tip]
      BY <1>1, <3>3 DEF Covered
    <3>4. CASE ~(Work[x] > Work[tip])
      <4>1. Work[x] < Work[tip] \/ Work[x] = Work[tip]
        BY <3>1, <3>4
      <4>2. Worse(x, tip)'
        BY <3>2, <4>1 DEF Worse
      <4>. QED  BY <4>2 DEF Covered
    <3>. QED  BY <3>3, <3>4
  <2>. QED  BY <1>1, <1>2, <1>9, <2>1, <2>3, <2>5, <2>6, AncFacts
<1>. QED  BY <1>3, <1>10, <1>12, <1>13, <1>14, <1>15 DEF IInv

(* Marking blocks as invalid leaves the other flags.                       *)
LEMMA FailedMore ==
    ASSUME TypeInv, NEW S, S \subseteq Blocks, NEW flags,
           flags \subseteq {"tree", "failedValid", "failedChild"}, status' = Mark(status, S, flags)
    PROVE  /\ status' \in [Blocks -> SUBSET Flag]
           /\ \A x \in Blocks \ S : status'[x] = status[x] /\ (Failed(x)' <=> Failed(x))
           /\ \A x \in Blocks : /\ Failed(x) => Failed(x)'
                                /\ "tree" \in status[x] => "tree" \in status'[x]
                                /\ "data" \in status'[x] <=> "data" \in status[x]
                                /\ "undo" \in status'[x] <=> "undo" \in status[x]
                                /\ "scripts" \in status'[x] <=> "scripts" \in status[x]
                                /\ status[x] \intersect Marks \subseteq status'[x]
                                /\ "tree" \notin flags => status'[x] \intersect Marks \subseteq status[x]
<1>1. status \in [Blocks -> SUBSET Flag] /\ flags \subseteq Flag
  BY DEF TypeInv, Flag
<1>2. /\ status' \in [Blocks -> SUBSET Flag]
      /\ \A x \in Blocks \ S : status'[x] = status[x]
      /\ \A x \in S : status'[x] = status[x] \union flags
  <2>1. /\ Mark(status, S, flags) \in [Blocks -> SUBSET Flag]
        /\ \A x \in Blocks \ S : Mark(status, S, flags)[x] = status[x]
        /\ \A x \in S \intersect Blocks : Mark(status, S, flags)[x] = status[x] \union flags
    BY <1>1 DEF Mark
  <2>. HIDE DEF Mark
  <2>. QED  BY <2>1
<1>3. \A x \in Blocks \ S : Failed(x)' <=> Failed(x)
  BY <1>2 DEF Failed
<1>4. ASSUME NEW x \in Blocks
      PROVE  /\ Failed(x) => Failed(x)'
             /\ "tree" \in status[x] => "tree" \in status'[x]
             /\ "data" \in status'[x] <=> "data" \in status[x]
             /\ "undo" \in status'[x] <=> "undo" \in status[x]
             /\ "scripts" \in status'[x] <=> "scripts" \in status[x]
             /\ status[x] \intersect Marks \subseteq status'[x]
             /\ "tree" \notin flags => status'[x] \intersect Marks \subseteq status[x]
  <2>1. CASE x \notin S
    BY <1>2, <1>3, <2>1
  <2>2. CASE x \in S
    <3>1. status'[x] = status[x] \union flags
      BY <1>2, <2>2
    <3>2. Failed(x) => Failed(x)'
      BY <3>1 DEF Failed
    <3>3. "tree" \notin flags => flags \intersect Marks = {}
      BY DEF Marks
    <3>. QED  BY <3>1, <3>2, <3>3
  <2>. QED  BY <2>1, <2>2
<1>. QED  BY <1>2, <1>3, <1>4

(* Links depend on data alone.                                             *)
LEMMA KeepLinked ==
    ASSUME LinkedInv, UNCHANGED <<linked, unlinked>>,
           \A x \in Blocks : "data" \in status'[x] <=> "data" \in status[x]
    PROVE  LinkedInv'
  BY AncFacts DEF LinkedInv

(* ProcessNewBlock.                                                        *)
LEMMA ProcessNewBlockStep ==
    ASSUME IInv, NEW t \in Threads, NEW b \in Blocks \ {Genesis}, ProcessNewBlock(t, b)
    PROVE  IInv'
<1>1. /\ run = "up" /\ busy = Free /\ UNCHANGED <<tip, coins, disk, addr, run, busy, barred>>
  BY DEF ProcessNewBlock, Lock
<1>2. /\ TypeInv /\ DiskInv /\ LinkedInv /\ Live /\ Live' /\ coins = tip /\ busy'.op = "none"
      /\ busy.op = "none"
  BY <1>1 DEF IInv, RunInv, Live, Free
<1>3. CASE "data" \in status[b]
  <2>1. thread' = Start(t, "find") /\ UNCHANGED <<index, info, rejected>>
    BY <1>3 DEF ProcessNewBlock
  <2>2. thread' \in [Threads -> ThreadRec] /\ thread'[t].pc = "find"
    BY <1>2, <2>1, StartType
  <2>3. Looks(t)'
    BY <2>2 DEF Looks
  <2>4. barred' \subseteq Blocks /\ rejected' \subseteq Blocks /\ BusyInv'
    BY <1>1, <1>2, <2>1 DEF TypeInv, BusyInv
  <2>. QED  BY <1>1, <1>2, <2>1, <2>2, <2>3, <2>4, StillStep
<1>4. CASE "data" \notin status[b] /\ b \in barred
  <2>1. /\ status' = Mark(status, {b}, {"tree", "failedValid"})
        /\ dirty' = dirty \union {b} /\ rejected' = rejected \union {b}
        /\ UNCHANGED <<seq, linked, unlinked, skipped, candidates, info, thread>>
    BY <1>4 DEF ProcessNewBlock
  <2>2. /\ status' \in [Blocks -> SUBSET Flag]
        /\ \A x \in Blocks \ {b} : status'[x] = status[x] /\ (Failed(x)' <=> Failed(x))
        /\ \A x \in Blocks : /\ Failed(x) => Failed(x)'
                             /\ "tree" \in status[x] => "tree" \in status'[x]
                             /\ "data" \in status'[x] <=> "data" \in status[x]
                             /\ "undo" \in status'[x] <=> "undo" \in status[x]
                             /\ "scripts" \in status'[x] <=> "scripts" \in status[x]
                             /\ status[x] \intersect Marks \subseteq status'[x]
    <3>1. {b} \subseteq Blocks /\ {"tree", "failedValid"} \subseteq {"tree", "failedValid", "failedChild"}
      OBVIOUS
    <3>. QED  BY <1>2, <2>1, <3>1, FailedMore
  <2>3. TypeInv'
    BY <1>1, <1>2, <2>1, <2>2 DEF TypeInv
  <2>4. BusyInv' /\ StepInv' /\ RunInv'
    BY <1>1, <1>2 DEF BusyInv, StepInv, RunInv
  <2>5. LinkedInv'
    BY <1>2, <2>1, <2>2, KeepLinked
  <2>6. DiskInv'
    <3>1. StatusOK(status) /\ Genesis \in Blocks
      BY <1>2, TreeAssumption DEF DiskInv
    <3>2. StatusOK(status')
      BY <2>2, <3>1 DEF StatusOK
    <3>3. \A x \in Blocks \ dirty' : x \notin dirty /\ status'[x] \intersect Marks \subseteq status[x]
      BY <2>1, <2>2
    <3>. QED  BY <1>1, <1>2, <2>2, <3>2, <3>3, KeepDisk
  <2>7. \A x \in linked : /\ x \in Blocks /\ b \notin Anc[x]
                          /\ \A a \in Anc[x] : status'[a] = status[a] /\ (Failed(a)' <=> Failed(a))
    <3>1. ASSUME NEW x \in linked PROVE x \in Blocks /\ b \notin Anc[x] /\ Anc[x] \subseteq Blocks
      BY <1>2, <1>4, AncFacts DEF LinkedInv, TypeInv
    <3>. QED  BY <2>2, <3>1
  <2>8. tip \in linked /\ candidates \subseteq linked
    BY <1>2, TipLinked DEF TypeInv
  <2>9. ReachInv'
    <3>1. \A x, y \in Blocks : Worse(x, y)' <=> Worse(x, y)
      BY <1>1, <2>1 DEF Worse
    <3>2. \A x \in linked : x \in Anc[x] /\ (Failed(x)' <=> Failed(x)) /\ (Sound(x) => Sound(x)')
      BY <2>7, AncFacts DEF Sound
    <3>3. ASSUME NEW x \in linked, Covered(x) PROVE Covered(x)'
      BY <1>1, <2>1, <2>7, <2>8, <3>1, <3>2, <3>3 DEF Covered
    <3>. QED  BY <1>1, <1>2, <2>1, <2>7, <2>8, <3>2, <3>3 DEF IInv, ReachInv
  <2>10. QuietInv'
    <3>1. ASSUME NEW c \in Usable' PROVE c \in Usable /\ (Worse(tip, c)' <=> Worse(tip, c))
      <4>1. c \in candidates /\ c \in Blocks
        BY <1>2, <2>1 DEF Usable, TypeInv
      <4>2. Obstacles(c) \subseteq Obstacles(c)'
        BY <1>1, <2>2, <4>1, AncFacts DEF Obstacles, Active
      <4>3. Obstacles(c)' = {}
        BY DEF Usable
      <4>. QED  BY <1>1, <2>1, <4>1, <4>2, <4>3 DEF Usable, Worse
    <3>2. \A u \in Threads : Looks(u) => Looks(u)'
      BY <1>1, <2>1 DEF Looks
    <3>. QED  BY <1>1, <3>1, <3>2 DEF IInv, QuietInv
  <2>. QED  BY <2>3, <2>4, <2>5, <2>6, <2>9, <2>10 DEF IInv
<1>5. CASE "data" \notin status[b] /\ b \notin barred
  <2>1. StoreBlock(b) /\ thread' = Start(t, "find") /\ rejected' = rejected
    BY <1>5 DEF ProcessNewBlock
  <2>. QED  BY <1>1, <1>5, <2>1, StoreBlockStep
<1>. QED  BY <1>3, <1>4, <1>5

-----------------------------------------------------------------------------
(* ActivateBestChain.                                                      *)

(* What FindMostWorkChain marks and drops is on an invalid chain.          *)
LEMMA DroppedFacts ==
    ASSUME TypeInv
    PROVE  LET S == UNION {FailedPath(c) : c \in Dropped}
               removed == UNION {FailedPath(c) \union {Obstacle(c)} : c \in Dropped}
           IN  /\ S \subseteq Blocks /\ removed \subseteq Blocks
               /\ \A y \in removed : /\ y \in S \/ Failed(y)
                                     /\ \E o \in Anc[y] : Failed(o) /\ o \in Blocks \ Anc[tip]
               /\ \A y \in S : y \in removed
<1>. DEFINE S == UNION {FailedPath(c) : c \in Dropped}
            removed == UNION {FailedPath(c) \union {Obstacle(c)} : c \in Dropped}
<1>1. ASSUME NEW c \in Dropped
      PROVE  /\ FailedPath(c) \subseteq Blocks /\ Obstacle(c) \in Blocks \ Anc[tip] /\ Failed(Obstacle(c))
             /\ Obstacle(c) \in Anc[Obstacle(c)]
             /\ \A y \in FailedPath(c) : Obstacle(c) \in Anc[y]
  <2>1. c \in candidates /\ Obstacles(c) # {}
    BY DEF Dropped, Usable
  <2>2. c \in Blocks
    BY <2>1 DEF TypeInv
  <2>3. Obstacle(c) \in Anc[c] \ Anc[tip] /\ Failed(Obstacle(c)) /\ FailedPath(c) \subseteq Anc[c]
    BY <2>1, <2>2, ObstacleHighest
  <2>4. \A y \in FailedPath(c) : Obstacle(c) \in Anc[y]
    BY <2>1, <2>2, ObstacleHighest
  <2>. QED  BY <2>2, <2>3, <2>4, AncFacts
<1>2. S \subseteq Blocks /\ removed \subseteq Blocks
  BY <1>1
<1>3. ASSUME NEW y \in removed
      PROVE  (y \in S \/ Failed(y)) /\ \E o \in Anc[y] : Failed(o) /\ o \in Blocks \ Anc[tip]
  <2>1. PICK c \in Dropped : y \in FailedPath(c) \union {Obstacle(c)}
    OBVIOUS
  <2>2. Obstacle(c) \in Anc[y] /\ (y \in FailedPath(c) \/ Failed(y))
    BY <1>1, <2>1
  <2>. QED  BY <1>1, <2>1, <2>2
<1>4. \A y \in S : y \in removed
  OBVIOUS
<1>. QED  BY <1>2, <1>3, <1>4

(* FindMostWorkChain drops no candidate that could be activated.           *)
LEMMA FindMostWorkChainStep ==
    ASSUME IInv, NEW t \in Threads, FindMostWorkChain(t)
    PROVE  IInv'
<1>. DEFINE S == UNION {FailedPath(c) : c \in Dropped}
            removed == UNION {FailedPath(c) \union {Obstacle(c)} : c \in Dropped}
<1>1. /\ TypeInv /\ DiskInv /\ LinkedInv /\ ReachInv /\ RunInv
      /\ busy = Free /\ busy.op = "none" /\ Live
  BY DEF IInv, FindMostWorkChain, Lock, Free, Live
<1>2. /\ thread[t].pc = "find"
      /\ status' = Mark(status, S, {"failedChild"}) /\ candidates' = candidates \ removed
      /\ UNCHANGED <<seq, linked, unlinked, skipped, dirty, tip, coins, info, disk, addr, run>>
      /\ UNCHANGED <<barred, rejected>>
  BY DEF FindMostWorkChain
<1>3. /\ S \subseteq Blocks /\ removed \subseteq Blocks
      /\ \A y \in removed : /\ y \in S \/ Failed(y)
                            /\ \E o \in Anc[y] : Failed(o) /\ o \in Blocks \ Anc[tip]
      /\ \A y \in S : y \in removed
  BY <1>1, DroppedFacts
<1>. HIDE DEF S, removed
<1>4. /\ status' \in [Blocks -> SUBSET Flag]
      /\ \A x \in Blocks \ S : status'[x] = status[x] /\ (Failed(x)' <=> Failed(x))
      /\ \A x \in Blocks : /\ Failed(x) => Failed(x)'
                           /\ "tree" \in status[x] => "tree" \in status'[x]
                           /\ "data" \in status'[x] <=> "data" \in status[x]
                           /\ "undo" \in status'[x] <=> "undo" \in status[x]
                           /\ "scripts" \in status'[x] <=> "scripts" \in status[x]
                           /\ status[x] \intersect Marks \subseteq status'[x]
                           /\ status'[x] \intersect Marks \subseteq status[x]
  <2>1. {"failedChild"} \subseteq {"tree", "failedValid", "failedChild"} /\ "tree" \notin {"failedChild"}
    OBVIOUS
  <2>. QED  BY <1>1, <1>2, <1>3, <2>1, FailedMore
<1>5. \A y \in removed : y \in Blocks /\ Failed(y)'
  <2>1. ASSUME NEW y \in S PROVE Failed(y)'
    <3>1. y \in Blocks /\ status \in [Blocks -> SUBSET Flag]
      BY <1>1, <1>3 DEF TypeInv
    <3>2. "failedChild" \in status'[y]
      BY <1>2, <3>1 DEF Mark
    <3>. QED  BY <3>2 DEF Failed, FAILED_MASK
  <2>. QED  BY <1>3, <1>4, <2>1
<1>6. ASSUME NEW x \in Blocks, \A a \in Anc[x] \ Anc[tip] : ~Failed(a)
      PROVE  \A a \in Anc[x] : /\ a \in Blocks \ S /\ a \notin removed
                               /\ status'[a] = status[a] /\ (Failed(a)' <=> Failed(a))
  <2>1. \A a \in Anc[x] : a \in Blocks /\ Anc[a] \subseteq Anc[x]
    BY AncFacts
  <2>. QED  BY <1>3, <1>4, <1>6, <2>1
<1>7. \A x, y \in Blocks : Worse(x, y)' <=> Worse(x, y)
  BY <1>2 DEF Worse
<1>8. candidates \subseteq Blocks /\ linked \subseteq Blocks /\ tip \in Blocks /\ Usable \subseteq Blocks
  BY <1>1 DEF TypeInv, Usable
<1>9. ASSUME NEW c \in candidates' PROVE c \in candidates /\ (Obstacles(c)' = {} => Obstacles(c) = {})
  <2>1. c \in candidates /\ c \in Blocks
    BY <1>2, <1>8
  <2>2. Obstacles(c) \subseteq Obstacles(c)'
    BY <1>2, <1>4, <2>1, AncFacts DEF Obstacles, Active
  <2>. QED  BY <2>1, <2>2
<1>10. Usable' \subseteq Usable
  BY <1>9 DEF Usable
<1>11. thread' \in [Threads -> ThreadRec] /\ MostWork \in Blocks \union {None}
  <2>1. MostWork \in Blocks \union {None}
    <3>1. CASE Usable = {}
      BY <3>1 DEF MostWork
    <3>2. CASE Usable # {}
      BY <1>1, <1>8, <3>2, MostWorkBest
    <3>. QED  BY <3>1, <3>2
  <2>2. CASE MostWork \in {None, tip}
    BY <1>1, <2>1, <2>2, StartType DEF FindMostWorkChain
  <2>3. CASE MostWork \notin {None, tip}
    <3>1. thread' = [thread EXCEPT ![t].want = MostWork]
      BY <2>3 DEF FindMostWorkChain
    <3>. QED  BY <1>1, <2>1, <3>1 DEF TypeInv, ThreadRec
  <2>. QED  BY <2>1, <2>2, <2>3
<1>12. TypeInv'
  BY <1>1, <1>2, <1>4, <1>11 DEF TypeInv
<1>13. DiskInv'
  <2>1. StatusOK(status) /\ Genesis \in Blocks
    BY <1>1, TreeAssumption DEF DiskInv
  <2>2. StatusOK(status')
    BY <1>4, <2>1 DEF StatusOK
  <2>3. Live'
    BY <1>1, <1>2 DEF Live
  <2>. QED  BY <1>1, <1>2, <1>4, <2>2, <2>3, KeepDisk
<1>14. LinkedInv'
  BY <1>1, <1>2, <1>4, KeepLinked
<1>15. ReachInv'
  <2>1. ASSUME NEW x \in linked, ~Failed(x)', x \in candidates PROVE x \in candidates'
    BY <1>2, <1>5, <2>1
  <2>2. ASSUME NEW c \in Blocks, Sound(c) PROVE Sound(c)' /\ ~Failed(c)'
    <3>1. \A a \in Anc[c] : status'[a] = status[a] /\ (Failed(a)' <=> Failed(a))
      BY <1>6, <2>2 DEF Sound
    <3>. QED  BY <2>2, <3>1, AncFacts DEF Sound
  <2>3. ASSUME NEW x \in linked, ~Failed(x)', Covered(x) PROVE Covered(x)'
    <3>1. CASE x \in candidates
      BY <2>1, <2>3, <3>1 DEF Covered
    <3>2. CASE Worse(x, tip)
      BY <1>2, <1>7, <1>8, <3>2 DEF Covered
    <3>3. ASSUME NEW c \in candidates, Sound(c), ~Worse(c, x) PROVE Covered(x)'
      <4>1. c \in Blocks /\ x \in Blocks /\ c \in linked
        BY <1>1, <1>8 DEF TypeInv
      <4>2. Sound(c)' /\ c \in candidates' /\ ~Worse(c, x)'
        BY <1>7, <2>1, <2>2, <3>3, <4>1
      <4>. QED  BY <4>2 DEF Covered
    <3>. QED  BY <2>3, <3>1, <3>2, <3>3 DEF Covered
  <2>4. ASSUME Live', ~skipped', busy'.op # "invalidate"
        PROVE  (\A a \in Anc[tip'] : ~Failed(a)') /\ \A x \in linked' : ~Failed(x)' => Covered(x)'
    <3>1. (\A a \in Anc[tip] : ~Failed(a)) /\ \A x \in linked : ~Failed(x) => Covered(x)
      BY <1>1, <1>2, <2>4 DEF ReachInv
    <3>2. \A a \in Anc[tip] : ~Failed(a)'
      BY <1>6, <1>8, <3>1
    <3>. QED  BY <1>2, <1>4, <1>8, <2>3, <3>1, <3>2
  <2>5. ASSUME run' = "recovering", coins' # tip' PROVE \A x \in linked' : ~Failed(x)' => x \in candidates'
    <3>1. \A x \in linked : ~Failed(x) => x \in candidates
      BY <1>1, <1>2, <2>5 DEF ReachInv
    <3>. QED  BY <1>2, <1>4, <1>8, <2>1, <3>1
  <2>. QED  BY <2>4, <2>5 DEF ReachInv
<1>16. CASE MostWork \in {None, tip}
  <2>1. thread' = Start(t, "idle") /\ busy' = busy
    BY <1>16 DEF FindMostWorkChain
  <2>2. \A u \in Threads : thread'[u] = thread[u] \/ thread'[u].pc = "idle"
    BY <1>1, <2>1 DEF Start, Idle, TypeInv
  <2>3. BusyInv' /\ StepInv'
    BY <1>1, <2>1 DEF BusyInv, StepInv
  <2>4. RunInv'
    BY <1>1, <1>2, <2>2 DEF RunInv, Live
  <2>5. \A c \in Usable : ~Worse(tip, c)
    <3>1. CASE Usable = {}
      BY <3>1
    <3>2. CASE Usable # {}
      <4>1. MostWork \in Usable /\ \A d \in Usable : ~Worse(MostWork, d)
        BY <1>1, <3>2, MostWorkBest
      <4>2. MostWork # None
        BY <1>8, <4>1, TreeAssumption
      <4>. QED  BY <1>16, <4>1, <4>2
    <3>. QED  BY <3>1, <3>2
  <2>6. ASSUME NEW c \in Usable' PROVE ~Worse(tip, c)'
    <3>1. c \in Usable /\ c \in Blocks
      BY <1>8, <1>10
    <3>. QED  BY <1>2, <2>5, <3>1 DEF Worse
  <2>7. QuietInv'
    BY <2>6 DEF QuietInv
  <2>. QED  BY <1>12, <1>13, <1>14, <1>15, <2>3, <2>4, <2>7 DEF IInv
<1>17. CASE MostWork \notin {None, tip}
  <2>1. /\ thread' = [thread EXCEPT ![t].want = MostWork]
        /\ busy' = [op |-> "step", by |-> t, from |-> tip]
    BY <1>17 DEF FindMostWorkChain
  <2>2. /\ thread'[t].want = MostWork /\ thread'[t].pc = "find"
        /\ \A u \in Threads : thread'[u].pc = thread[u].pc
    BY <1>1, <1>2, <2>1 DEF TypeInv, ThreadRec
  <2>3. busy' # Free /\ busy'.op = "step" /\ busy'.by = t
    BY <2>1 DEF Free
  <2>4. BusyInv' /\ QuietInv'
    <3>1. Live' /\ busy' \in [op : {"step"}, by : Threads, from : Blocks]
      BY <1>1, <1>2, <1>8, <2>1 DEF Live
    <3>. QED  BY <2>2, <2>3, <3>1 DEF BusyInv, QuietInv
  <2>5. RunInv'
    BY <1>1, <1>2, <2>2 DEF RunInv, Live
  <2>6. MostWork \in Usable /\ \A d \in Usable : ~Worse(MostWork, d)
    <3>1. Usable # {}
      BY <1>17 DEF MostWork
    <3>. QED  BY <1>1, <3>1, MostWorkBest
  <2>7. /\ MostWork \in linked /\ MostWork # tip /\ MostWork \in Blocks
        /\ \A x \in Anc[MostWork] \ Anc[tip] : ~Failed(x)
    BY <1>1, <1>8, <1>17, <2>6 DEF Usable, Obstacles, Active, TypeInv
  <2>. PICK w \in Blocks : w = MostWork
    BY <2>7
  <2>8. \A x \in Anc[w] \ Anc[tip] : ~Failed(x)'
    BY <1>6, <2>7
  <2>9. ASSUME NEW c \in candidates', \A x \in Anc[c] \ (Anc[tip] \union Anc[w]) : ~Failed(x)'
        PROVE  ~Worse(w, c)'
    <3>1. c \in candidates /\ c \in Blocks /\ Anc[c] \subseteq Blocks
      BY <1>8, <1>9, AncFacts
    <3>2. \A x \in Anc[c] \ Anc[tip] : ~Failed(x)
      BY <1>4, <2>7, <2>9, <3>1
    <3>3. c \in Usable
      BY <3>1, <3>2 DEF Usable, Obstacles, Active
    <3>. QED  BY <1>7, <2>6, <3>1, <3>3
  <2>10. StepInv'
    <3>1. thread'[busy'.by].want = w /\ w \in linked' /\ w # tip' /\ tip' = tip
      BY <1>2, <2>2, <2>3, <2>7
    <3>. QED  BY <2>8, <2>9, <3>1 DEF StepInv
  <2>. QED  BY <1>12, <1>13, <1>14, <1>15, <2>4, <2>5, <2>10 DEF IInv
<1>. QED  BY <1>16, <1>17

(* DisconnectTip leaves databases from which the node can start.           *)
LEMMA DisconnectFacts ==
    ASSUME IInv, Live, run' = run, NEW changed, DisconnectTip(changed),
           status' \in [Blocks -> SUBSET Flag], StatusOK(status'),
           \A x \in Blocks : /\ status[x] \intersect Marks \subseteq status'[x]
                             /\ status'[x] \intersect Marks \subseteq status[x]
    PROVE  /\ coins = tip /\ tip \in linked /\ tip \in Blocks \ {Genesis} /\ Connected(status, tip)
           /\ Parent[tip] \in Blocks /\ tip' = Parent[tip] /\ coins' = tip' /\ tip' \in Blocks
           /\ Anc[tip] = Anc[tip'] \union {tip} /\ tip \notin Anc[tip']
           /\ disk' \in DiskRec /\ dirty' = {} /\ DiskInv'
<1>1. TypeInv /\ DiskInv /\ StatusOK(status)
  BY DEF IInv, DiskInv
<1>2. /\ coins = tip /\ "undo" \in status[tip] /\ tip' = Parent[tip] /\ coins' = Parent[tip]
      /\ disk' = Flushed(status', dirty \union changed, Parent[tip]) /\ dirty' = {}
  BY DEF DisconnectTip
<1>3. tip \in linked /\ Connected(status, tip) /\ tip \in Blocks
  BY <1>2, TipLinked
<1>4. tip \in Blocks \ {Genesis}
  BY <1>1, <1>2, <1>3 DEF StatusOK
<1>5. /\ Parent[tip] \in Blocks /\ Parent[tip] \in Anc[tip]
      /\ Anc[tip] = Anc[Parent[tip]] \union {tip} /\ tip \notin Anc[Parent[tip]]
  BY <1>4, ParentFacts
<1>6. Connected(status', coins')
  <2>1. Connected(status, Parent[tip])
    BY <1>3, <1>5 DEF Connected
  <2>. QED  BY <1>2, <1>5, <2>1, ConnectedMore
<1>7. /\ disk' \in DiskRec /\ disk'.best = coins'
      /\ \A b \in Blocks : disk'.status[b] =
                              IF b \in dirty \union changed THEN status'[b] ELSE disk.status[b]
  BY <1>1, <1>2, <1>5, FlushedFacts
<1>8. DiskInv'
  <2>1. Live' /\ coins' \in Blocks /\ dirty \subseteq dirty \union changed
    BY <1>2, <1>5 DEF Live
  <2>. QED  BY <1>1, <1>6, <1>7, <2>1, WriteDisk
<1>. QED  BY <1>2, <1>3, <1>4, <1>5, <1>7, <1>8

(* A block of the old chain goes. If the old tip was good the way back to  *)
(* it stays open: it or a better candidate covers what it covered.         *)
LEMMA StepDisconnectStep ==
    ASSUME IInv, StepDisconnect
    PROVE  IInv'
<1>1. /\ TypeInv /\ BusyInv /\ RunInv /\ DiskInv /\ LinkedInv /\ StepInv /\ ReachInv
      /\ busy.op = "step"
  BY DEF IInv, StepDisconnect
<1>2. busy.by \in Threads /\ thread[busy.by].pc = "find" /\ Live /\ thread[busy.by] \in ThreadRec
  BY <1>1, BusyFacts DEF TypeInv
<1>. PICK t \in Threads : t = busy.by
  BY <1>2
<1>. PICK w : w = thread[t].want
  OBVIOUS
<1>3. /\ tip \notin Anc[w] /\ status' = status /\ DisconnectTip({})
      /\ IF tip' = w THEN Release(t) ELSE UNCHANGED <<busy, thread>>
      /\ UNCHANGED <<seq, linked, unlinked, skipped, candidates, info, addr, run, barred, rejected>>
  BY DEF StepDisconnect
<1>4. /\ w \in linked /\ w # tip /\ w \in Blocks
      /\ \A x \in Anc[w] \ Anc[tip] : ~Failed(x)
      /\ \A c \in candidates :
            (\A x \in Anc[c] \ (Anc[tip] \union Anc[w]) : ~Failed(x)) => ~Worse(w, c)
  BY <1>1 DEF StepInv, TypeInv
<1>5. /\ coins = tip /\ tip \in linked /\ tip \in Blocks \ {Genesis} /\ Connected(status, tip)
      /\ tip' = Parent[tip] /\ coins' = tip' /\ tip' \in Blocks
      /\ Anc[tip] = Anc[tip'] \union {tip} /\ tip \notin Anc[tip']
      /\ disk' \in DiskRec /\ dirty' = {} /\ DiskInv'
  <2>1. status' \in [Blocks -> SUBSET Flag] /\ StatusOK(status')
    BY <1>1, <1>3 DEF TypeInv, DiskInv
  <2>. QED  BY <1>2, <1>3, <2>1, DisconnectFacts
<1>. PICK p \in Blocks : p = tip'
  BY <1>5
<1>6. \/ p = w /\ busy' = Free /\ thread' = [thread EXCEPT ![t].pc = "notify"]
      \/ p # w /\ busy' = busy /\ thread' = thread
  BY <1>3 DEF Release
<1>7. TypeInv'
  <2>1. thread' \in [Threads -> ThreadRec]
    <3>1. CASE thread' = thread
      BY <1>1, <3>1 DEF TypeInv
    <3>2. CASE thread' = [thread EXCEPT ![t].pc = "notify"]
      BY <1>1, <3>2 DEF TypeInv, ThreadRec
    <3>. QED  BY <1>6, <3>1, <3>2
  <2>. QED  BY <1>1, <1>3, <1>5, <2>1 DEF TypeInv
<1>8. BusyInv'
  <2>1. CASE busy' = Free
    BY <2>1 DEF BusyInv
  <2>2. CASE busy' = busy /\ thread' = thread
    BY <1>1, <1>3, <2>2 DEF BusyInv, Live
  <2>. QED  BY <1>6, <2>1, <2>2
<1>9. RunInv'
  <2>1. \A u \in Threads : thread'[u].pc = thread[u].pc \/ thread'[u].pc = "notify"
    BY <1>1, <1>6 DEF TypeInv, ThreadRec
  <2>. QED  BY <1>1, <1>2, <1>3, <1>5, <2>1 DEF RunInv, Live
<1>10. LinkedInv'
  BY <1>1, <1>3, KeepLinked
<1>11. \A x, y \in Blocks : Worse(x, y)' <=> Worse(x, y)
  BY <1>3 DEF Worse
<1>12. \A x \in Blocks : (Failed(x)' <=> Failed(x)) /\ (Sound(x)' <=> Sound(x))
  BY <1>3 DEF Failed, Sound
<1>13. candidates \subseteq Blocks /\ linked \subseteq Blocks
  BY <1>1 DEF TypeInv
<1>14. ASSUME NEW c \in candidates, \A x \in Anc[c] \ (Anc[p] \union Anc[w]) : ~Failed(x)
       PROVE  ~Worse(w, c)
  BY <1>4, <1>5, <1>14
<1>15. StepInv'
  <2>1. CASE p = w
    BY <1>6, <2>1 DEF StepInv, Free
  <2>2. CASE p # w
    <3>1. thread'[busy'.by].want = w
      BY <1>6, <2>2
    <3>2. w \in linked' /\ w # p /\ \A x \in Anc[w] \ Anc[p] : ~Failed(x)'
      BY <1>3, <1>4, <1>5, <1>12, <2>2, AncFacts
    <3>3. ASSUME NEW c \in candidates', \A x \in Anc[c] \ (Anc[p] \union Anc[w]) : ~Failed(x)'
          PROVE  ~Worse(w, c)'
      <4>1. c \in candidates /\ c \in Blocks /\ Anc[c] \subseteq Blocks
        BY <1>3, <1>13, AncFacts
      <4>2. \A x \in Anc[c] \ (Anc[p] \union Anc[w]) : ~Failed(x)
        BY <1>12, <3>3, <4>1
      <4>. QED  BY <1>4, <1>11, <1>14, <4>1, <4>2
    <3>. QED  BY <3>1, <3>2, <3>3 DEF StepInv
  <2>. QED  BY <2>1, <2>2
<1>16. ReachInv'
  <2>1. ASSUME ~skipped'
        PROVE  (\A a \in Anc[p] : ~Failed(a)') /\ \A x \in linked' : ~Failed(x)' => Covered(x)'
    <3>1. (\A a \in Anc[tip] : ~Failed(a)) /\ \A x \in linked : ~Failed(x) => Covered(x)
      BY <1>1, <1>2, <1>3, <2>1 DEF ReachInv
    <3>2. \A a \in Anc[p] : ~Failed(a)'
      BY <1>5, <1>12, <3>1, AncFacts
    <3>3. PICK c \in candidates : Sound(c) /\ ~Worse(c, tip)
      <4>1. Sound(tip)
        BY <1>5, <3>1 DEF Sound, Connected
      <4>2. ~Worse(tip, tip) /\ Covered(tip)
        BY <1>1, <1>5, <3>1, AncFacts, WorseOrder DEF TypeInv
      <4>. QED  BY <4>1, <4>2 DEF Covered
    <3>4. ASSUME NEW x \in linked, ~Failed(x)' PROVE Covered(x)'
      <4>1. x \in Blocks /\ Covered(x)
        BY <1>12, <1>13, <3>1, <3>4
      <4>2. CASE x \in candidates
        BY <1>3, <4>2 DEF Covered
      <4>3. CASE Worse(x, tip)
        <5>1. Worse(x, c) /\ ~Worse(c, x) /\ c \in Blocks
          BY <1>1, <1>5, <1>13, <3>3, <4>1, <4>3, WorseOrder DEF TypeInv
        <5>2. Sound(c)' /\ ~Worse(c, x)' /\ c \in candidates'
          BY <1>3, <1>11, <1>12, <3>3, <4>1, <5>1
        <5>. QED  BY <5>2 DEF Covered
      <4>4. ASSUME NEW d \in candidates, Sound(d), ~Worse(d, x) PROVE Covered(x)'
        <5>1. Sound(d)' /\ ~Worse(d, x)' /\ d \in candidates'
          BY <1>3, <1>11, <1>12, <1>13, <4>1, <4>4
        <5>. QED  BY <5>1 DEF Covered
      <4>. QED  BY <4>1, <4>2, <4>3, <4>4 DEF Covered
    <3>. QED  BY <1>3, <3>2, <3>4
  <2>. QED  BY <1>5, <2>1 DEF ReachInv
<1>17. QuietInv'
  <2>1. CASE p # w
    BY <1>1, <1>6, <2>1 DEF QuietInv, Free
  <2>2. CASE p = w
    <3>1. ASSUME NEW c \in Usable' PROVE ~Worse(tip, c)'
      <4>1. c \in candidates /\ c \in Blocks /\ Anc[c] \subseteq Blocks
        BY <1>3, <1>13, AncFacts DEF Usable
      <4>2. \A x \in Anc[c] \ Anc[p] : ~Failed(x)
        BY <1>12, <4>1 DEF Usable, Obstacles, Active
      <4>3. ~Worse(p, c)
        BY <1>14, <2>2, <4>1, <4>2
      <4>4. ~Worse(p, c)'
        BY <1>11, <4>1, <4>3
      <4>. QED  BY <4>4 DEF Worse
    <3>. QED  BY <3>1 DEF QuietInv
  <2>. QED  BY <2>1, <2>2
<1>. QED  BY <1>5, <1>7, <1>8, <1>9, <1>10, <1>15, <1>16, <1>17 DEF IInv

(* ReprocessBlocks takes a block of the active chain back.                 *)
LEMMA ReprocessDisconnectStep ==
    ASSUME IInv, ReprocessDisconnect
    PROVE  IInv'
<1>1. /\ TypeInv /\ BusyInv /\ RunInv /\ DiskInv /\ LinkedInv
      /\ busy.op = "reprocess" /\ busy.blocks > 0
  BY DEF IInv, ReprocessDisconnect
<1>2. /\ status' = status /\ DisconnectTip({}) /\ skipped' = TRUE
      /\ busy' = [busy EXCEPT !.blocks = @ - 1]
      /\ UNCHANGED <<seq, linked, unlinked, candidates, info, addr, run, thread, barred, rejected>>
  BY DEF ReprocessDisconnect
<1>3. /\ run = "up" /\ Live /\ busy.blocks \in Nat /\ busy.by \in Threads
      /\ busy \in [op : {"reprocess"}, by : Threads, blocks : Nat]
  BY <1>1, BusyFacts DEF Live, BusyInv, Free
<1>4. /\ coins' = tip' /\ tip' \in Blocks
      /\ disk' \in DiskRec /\ dirty' = {} /\ DiskInv'
  <2>1. status' \in [Blocks -> SUBSET Flag] /\ StatusOK(status')
    BY <1>1, <1>2 DEF TypeInv, DiskInv
  <2>. QED  BY <1>2, <1>3, <2>1, DisconnectFacts
<1>5. TypeInv'
  BY <1>1, <1>2, <1>4 DEF TypeInv
<1>6. busy' \in [op : {"reprocess"}, by : Threads, blocks : Nat]
  BY <1>1, <1>2, <1>3
<1>7. BusyInv' /\ RunInv'
  BY <1>1, <1>2, <1>3, <1>4, <1>6 DEF BusyInv, RunInv, Live
<1>8. busy'.op = "reprocess" /\ busy' # Free
  BY <1>6 DEF Free
<1>9. StepInv' /\ QuietInv' /\ ReachInv'
  BY <1>2, <1>3, <1>8 DEF StepInv, QuietInv, ReachInv
<1>10. LinkedInv'
  BY <1>1, <1>2, KeepLinked
<1>. QED  BY <1>4, <1>5, <1>7, <1>9, <1>10 DEF IInv

-----------------------------------------------------------------------------
(* InvalidateBlock and ReconsiderBlock.                                    *)

(* InvalidateBlock marks its block.                                        *)
LEMMA InvalidateBlockStep ==
    ASSUME IInv, NEW t \in Threads, NEW b \in Blocks \ {Genesis}, InvalidateBlock(t, b)
    PROVE  IInv'
<1>1. TypeInv /\ RunInv /\ DiskInv /\ LinkedInv /\ run = "up" /\ Live
  BY DEF IInv, InvalidateBlock, Live
<1>2. /\ status' = Mark(status, {b}, {"failedValid"}) /\ dirty' = dirty \union {b}
      /\ candidates' = candidates \ {b} /\ thread' = Start(t, "invalidate")
      /\ busy' = [op |-> "invalidate", by |-> t, block |-> b]
      /\ UNCHANGED <<seq, linked, unlinked, skipped, tip, coins, info, disk, addr, run, barred, rejected>>
  BY DEF InvalidateBlock
<1>3. /\ status' \in [Blocks -> SUBSET Flag]
      /\ \A x \in Blocks : /\ "tree" \in status[x] => "tree" \in status'[x]
                           /\ "data" \in status'[x] <=> "data" \in status[x]
                           /\ "undo" \in status'[x] <=> "undo" \in status[x]
                           /\ status[x] \intersect Marks \subseteq status'[x]
                           /\ status'[x] \intersect Marks \subseteq status[x]
  <2>1. /\ {b} \subseteq Blocks /\ {"failedValid"} \subseteq {"tree", "failedValid", "failedChild"}
        /\ "tree" \notin {"failedValid"}
    OBVIOUS
  <2>. QED  BY <1>1, <1>2, <2>1, FailedMore
<1>4. thread' \in [Threads -> ThreadRec]
  BY <1>1, <1>2, StartType
<1>5. TypeInv'
  BY <1>1, <1>2, <1>3, <1>4 DEF TypeInv
<1>6. busy' \in [op : {"invalidate"}, by : Threads, block : Blocks \ {Genesis}]
  BY <1>2
<1>7. BusyInv' /\ RunInv'
  BY <1>1, <1>2, <1>6 DEF BusyInv, RunInv, Live
<1>8. DiskInv'
  <2>1. StatusOK(status) /\ Genesis \in Blocks /\ Live'
    BY <1>1, <1>2, TreeAssumption DEF DiskInv, Live
  <2>2. StatusOK(status')
    BY <1>3, <2>1 DEF StatusOK
  <2>3. \A x \in Blocks \ dirty' : x \notin dirty /\ status'[x] \intersect Marks \subseteq status[x]
    BY <1>2, <1>3
  <2>. QED  BY <1>1, <1>2, <1>3, <2>1, <2>2, <2>3, KeepDisk
<1>9. LinkedInv'
  BY <1>1, <1>2, <1>3, KeepLinked
<1>10. busy'.op = "invalidate" /\ busy' # Free
  BY <1>6 DEF Free
<1>11. StepInv' /\ QuietInv' /\ ReachInv'
  BY <1>1, <1>2, <1>10 DEF StepInv, QuietInv, ReachInv
<1>. QED  BY <1>5, <1>7, <1>8, <1>9, <1>11 DEF IInv

(* InvalidateBlock takes a block back.                                     *)
LEMMA InvalidateDisconnectStep ==
    ASSUME IInv, InvalidateDisconnect
    PROVE  IInv'
<1>1. TypeInv /\ BusyInv /\ RunInv /\ DiskInv /\ LinkedInv /\ busy.op = "invalidate"
  BY DEF IInv, InvalidateDisconnect
<1>2. /\ status' = Mark(status, {tip}, {"failedChild"}) /\ candidates' = candidates \ {tip}
      /\ DisconnectTip({tip})
      /\ UNCHANGED <<seq, linked, unlinked, skipped, info, addr, run, busy, thread, barred, rejected>>
  BY DEF InvalidateDisconnect
<1>3. run = "up" /\ Live /\ busy # Free
  BY <1>1, BusyFacts DEF Live, Free
<1>4. /\ status' \in [Blocks -> SUBSET Flag]
      /\ \A x \in Blocks : /\ "tree" \in status[x] => "tree" \in status'[x]
                           /\ "data" \in status'[x] <=> "data" \in status[x]
                           /\ "undo" \in status'[x] <=> "undo" \in status[x]
                           /\ status[x] \intersect Marks \subseteq status'[x]
                           /\ status'[x] \intersect Marks \subseteq status[x]
  <2>1. /\ {tip} \subseteq Blocks /\ {"failedChild"} \subseteq {"tree", "failedValid", "failedChild"}
        /\ "tree" \notin {"failedChild"}
    BY <1>1 DEF TypeInv
  <2>. QED  BY <1>1, <1>2, <2>1, FailedMore
<1>5. StatusOK(status')
  <2>1. StatusOK(status) /\ Genesis \in Blocks
    BY <1>1, TreeAssumption DEF DiskInv
  <2>. QED  BY <1>4, <2>1 DEF StatusOK
<1>6. coins' = tip' /\ tip' \in Blocks /\ disk' \in DiskRec /\ dirty' = {} /\ DiskInv'
  BY <1>2, <1>3, <1>4, <1>5, DisconnectFacts
<1>7. TypeInv'
  BY <1>1, <1>2, <1>4, <1>6 DEF TypeInv
<1>8. BusyInv' /\ RunInv'
  BY <1>1, <1>2, <1>3, <1>6 DEF BusyInv, RunInv, Live
<1>9. StepInv' /\ QuietInv' /\ ReachInv'
  BY <1>1, <1>2, <1>3 DEF StepInv, QuietInv, ReachInv
<1>10. LinkedInv'
  BY <1>1, <1>2, <1>4, KeepLinked
<1>. QED  BY <1>6, <1>7, <1>8, <1>9, <1>10 DEF IInv

(* The end of InvalidateBlock makes candidates of what is good enough.     *)
LEMMA InvalidateEndStep ==
    ASSUME IInv, InvalidateEnd
    PROVE  IInv'
<1>1. TypeInv /\ BusyInv /\ RunInv /\ DiskInv /\ LinkedInv /\ busy.op = "invalidate"
  BY DEF IInv, InvalidateEnd
<1>2. run = "up" /\ Live /\ busy.by \in Threads
  BY <1>1, BusyFacts DEF Live
<1>. PICK t \in Threads : t = busy.by
  BY <1>2
<1>3. /\ candidates' = candidates \union Readded /\ skipped' = \E a \in Active : Failed(a)
      /\ busy' = Free /\ thread' = Start(t, "find")
      /\ UNCHANGED <<status, seq, linked, unlinked, dirty, tip, coins, info, disk, addr, run>>
      /\ UNCHANGED <<barred, rejected>>
  BY DEF InvalidateEnd
<1>4. thread' \in [Threads -> ThreadRec] /\ thread'[t].pc = "find"
  BY <1>1, <1>3, StartType
<1>5. TypeInv'
  <2>1. Readded \subseteq linked /\ skipped' \in BOOLEAN
    BY <1>3 DEF Readded
  <2>. QED  BY <1>1, <1>3, <1>4, <2>1 DEF TypeInv
<1>6. BusyInv' /\ StepInv'
  BY <1>3 DEF BusyInv, StepInv, Free
<1>7. RunInv' /\ DiskInv' /\ LinkedInv'
  BY <1>1, <1>2, <1>3 DEF RunInv, DiskInv, LinkedInv, Live, StatusOK, Connected
<1>8. QuietInv'
  BY <1>4 DEF QuietInv, Looks
<1>9. ReachInv'
  <2>1. ASSUME ~skipped' PROVE \A a \in Anc[tip'] : ~Failed(a)'
    BY <1>3, <2>1 DEF Active, Failed
  <2>2. ASSUME NEW x \in linked', ~Failed(x)' PROVE Covered(x)'
    <3>1. x \in linked /\ ~Failed(x) /\ x \in Blocks
      BY <1>1, <1>3, <2>2 DEF Failed, TypeInv
    <3>2. "data" \in status[x]
      BY <1>1, <3>1, AncFacts DEF LinkedInv
    <3>3. CASE Worse(x, tip)
      <4>1. Worse(x, tip)'
        BY <1>3, <3>3 DEF Worse
      <4>. QED  BY <4>1 DEF Covered
    <3>4. CASE ~Worse(x, tip)
      <4>1. x \in candidates'
        BY <1>3, <3>1, <3>2, <3>4 DEF Readded
      <4>. QED  BY <4>1 DEF Covered
    <3>. QED  BY <3>3, <3>4
  <2>. QED  BY <1>2, <1>3, <2>1, <2>2 DEF ReachInv
<1>. QED  BY <1>5, <1>6, <1>7, <1>8, <1>9 DEF IInv

(* ReconsiderBlock only clears marks, and makes candidates of what it      *)
(* clears or says that it did not.                                         *)
LEMMA ReconsiderBlockStep ==
    ASSUME IInv, run = "up", busy = Free, NEW b \in Blocks, ReconsiderBlock(b),
           thread' \in [Threads -> ThreadRec], \E u \in Threads : Looks(u)',
           UNCHANGED <<tip, coins, info, disk, addr, run, busy, barred, rejected>>
    PROVE  IInv'
<1>. DEFINE below == {c \in Index : b \in Anc[c] /\ (Failed(c) \/ "data" \notin status[c])}
            cleared == below \union {a \in Anc[b] : Failed(a)}
<1>1. TypeInv /\ DiskInv /\ LinkedInv /\ ReachInv /\ RunInv /\ Live /\ busy.op = "none"
  BY DEF IInv, Live, Free
<1>2. /\ status' = Clear(status, cleared) /\ dirty' = dirty \union cleared
      /\ candidates' = candidates \union Reconsidered(below)
      /\ skipped' = (skipped \/ \E a \in (cleared \intersect linked) \ candidates' : ~Worse(a, tip))
      /\ UNCHANGED <<seq, linked, unlinked>>
  BY DEF ReconsiderBlock
<1>3. cleared \subseteq Blocks
  BY AncFacts DEF Index
<1>4. Reconsidered(below) \subseteq linked
  BY DEF Reconsidered
<1>. HIDE DEF below, cleared
<1>5. /\ status \in [Blocks -> SUBSET Flag] /\ status' \in [Blocks -> SUBSET Flag]
      /\ \A x \in Blocks : status'[x] = IF x \in cleared THEN status[x] \ FAILED_MASK ELSE status[x]
  BY <1>1, <1>2 DEF TypeInv, Clear
<1>6. /\ \A x \in Blocks : /\ status[x] \intersect Marks \subseteq status'[x]
                           /\ status'[x] \subseteq status[x]
                           /\ "tree" \in status'[x] <=> "tree" \in status[x]
                           /\ "data" \in status'[x] <=> "data" \in status[x]
                           /\ "scripts" \in status'[x] <=> "scripts" \in status[x]
                           /\ Failed(x)' => Failed(x)
                           /\ Failed(x) /\ ~Failed(x)' => x \in cleared
  BY <1>5 DEF Marks, FAILED_MASK, Failed
<1>7. TypeInv'
  <2>1. skipped' \in BOOLEAN
    BY <1>2
  <2>. QED  BY <1>1, <1>2, <1>3, <1>4, <1>5, <2>1 DEF TypeInv
<1>8. BusyInv' /\ StepInv' /\ RunInv'
  BY <1>1 DEF BusyInv, StepInv, RunInv, Live
<1>9. QuietInv'
  BY DEF QuietInv
<1>10. LinkedInv'
  BY <1>1, <1>2, <1>6, KeepLinked
<1>11. DiskInv'
  <2>1. StatusOK(status) /\ Genesis \in Blocks /\ Live'
    BY <1>1, TreeAssumption DEF DiskInv, Live
  <2>2. StatusOK(status')
    BY <1>6, <2>1 DEF StatusOK
  <2>3. \A x \in Blocks \ dirty' : x \notin dirty /\ status'[x] \intersect Marks \subseteq status[x]
    BY <1>2, <1>6
  <2>. QED  BY <1>1, <1>6, <2>1, <2>2, <2>3, KeepDisk
<1>12. ReachInv'
  <2>1. \A x, y \in Blocks : Worse(x, y)' <=> Worse(x, y)
    BY <1>2 DEF Worse
  <2>2. linked \subseteq Blocks /\ candidates \subseteq Blocks /\ tip \in Blocks
    BY <1>1 DEF TypeInv
  <2>3. \A c \in Blocks : Sound(c) => Sound(c)'
    BY <1>6, AncFacts DEF Sound
  <2>4. ASSUME ~skipped'
        PROVE  (\A a \in Anc[tip] : ~Failed(a)') /\ \A x \in linked' : ~Failed(x)' => Covered(x)'
    <3>1. (\A a \in Anc[tip] : ~Failed(a)) /\ \A x \in linked : ~Failed(x) => Covered(x)
      BY <1>1, <1>2, <2>4 DEF ReachInv
    <3>2. \A a \in Anc[tip] : ~Failed(a)'
      BY <1>6, <2>2, <3>1, AncFacts
    <3>3. ASSUME NEW x \in linked, ~Failed(x)' PROVE Covered(x)'
      <4>1. CASE Failed(x)
        <5>1. x \in candidates' \/ Worse(x, tip)
          BY <1>2, <1>6, <2>2, <2>4, <3>3, <4>1
        <5>2. x \in candidates' \/ Worse(x, tip)'
          BY <1>2, <5>1 DEF Worse
        <5>. QED  BY <5>2 DEF Covered
      <4>2. CASE ~Failed(x)
        <5>1. Covered(x) /\ x \in Blocks
          BY <2>2, <3>1, <4>2
        <5>2. CASE x \in candidates
          BY <1>2, <5>2 DEF Covered
        <5>3. CASE Worse(x, tip)
          BY <1>2, <5>3 DEF Covered, Worse
        <5>4. ASSUME NEW c \in candidates, Sound(c), ~Worse(c, x) PROVE Covered(x)'
          <6>1. c \in candidates' /\ Sound(c)' /\ ~Worse(c, x)'
            BY <1>2, <2>1, <2>2, <2>3, <5>1, <5>4
          <6>. QED  BY <6>1 DEF Covered
        <5>. QED  BY <5>1, <5>2, <5>3, <5>4 DEF Covered
      <4>. QED  BY <4>1, <4>2
    <3>. QED  BY <1>2, <3>2, <3>3
  <2>. QED  BY <2>4 DEF ReachInv
<1>. QED  BY <1>7, <1>8, <1>9, <1>10, <1>11, <1>12 DEF IInv

(* ReconsiderBlock as an RPC and within ReprocessBlocks.                   *)
LEMMA ReconsiderStep ==
    ASSUME IInv, NEW t \in Threads, NEW b \in Blocks, Reconsider(t, b) \/ ReprocessReconsider(t, b)
    PROVE  IInv'
<1>1. TypeInv /\ RunInv
  BY DEF IInv
<1>2. CASE Reconsider(t, b)
  <2>1. /\ run = "up" /\ busy = Free /\ ReconsiderBlock(b) /\ thread' = Start(t, "find")
        /\ UNCHANGED <<tip, coins, info, disk, addr, run, busy, barred, rejected>>
    BY <1>2 DEF Reconsider, Lock
  <2>2. thread' \in [Threads -> ThreadRec] /\ thread'[t].pc = "find"
    BY <1>1, <2>1, StartType
  <2>3. Looks(t)'
    BY <2>2 DEF Looks
  <2>. QED  BY <2>1, <2>2, <2>3, ReconsiderBlockStep
<1>3. CASE ReprocessReconsider(t, b)
  <2>1. /\ run \in {"up", "recovering"} /\ busy = Free /\ thread[t].pc = "reconsider"
        /\ ReconsiderBlock(b) /\ thread' = [thread EXCEPT ![t].todo = @ \ {b}]
        /\ UNCHANGED <<tip, coins, info, disk, addr, run, busy, barred, rejected>>
    BY <1>3 DEF ReprocessReconsider, Lock
  <2>2. run = "up"
    BY <1>1, <2>1 DEF RunInv
  <2>3. thread' \in [Threads -> ThreadRec] /\ thread'[t].pc = "reconsider"
    BY <1>1, <2>1 DEF TypeInv, ThreadRec
  <2>4. Looks(t)'
    BY <2>3 DEF Looks
  <2>. QED  BY <2>1, <2>2, <2>3, <2>4, ReconsiderBlockStep
<1>. QED  BY <1>2, <1>3

-----------------------------------------------------------------------------
(* ConnectTip.                                                             *)

(* The next block of a step has all that connecting it takes.              *)
LEMMA NextBlock ==
    ASSUME IInv, busy.op = "step", coins = tip, NEW t, t = busy.by, NEW w, w = thread[t].want,
           tip \in Anc[w], NEW b, b = Toward(tip, w)
    PROVE  /\ t \in Threads /\ Live /\ thread[t].pc = "find"
           /\ w \in Blocks /\ w \in linked /\ w # tip
           /\ \A x \in Anc[w] \ Anc[tip] : ~Failed(x)
           /\ \A c \in candidates :
                 (\A x \in Anc[c] \ (Anc[tip] \union Anc[w]) : ~Failed(x)) => ~Worse(w, c)
           /\ tip \in Blocks /\ Connected(status, tip)
           /\ b \in Blocks \ {Genesis} /\ b \in Anc[w] /\ Parent[b] = tip
           /\ Anc[b] = Anc[tip] \union {b} /\ b \notin Anc[tip] /\ Anc[b] \subseteq Anc[w]
           /\ "tree" \in status[b] /\ "data" \in status[b]
<1>1. TypeInv /\ BusyInv /\ LinkedInv /\ DiskInv /\ StepInv
  BY DEF IInv
<1>2. t \in Threads /\ Live /\ thread[t].pc = "find"
  BY <1>1, BusyFacts
<1>3. /\ w \in linked /\ w # tip /\ w \in Blocks
      /\ \A x \in Anc[w] \ Anc[tip] : ~Failed(x)
      /\ \A c \in candidates :
            (\A x \in Anc[c] \ (Anc[tip] \union Anc[w]) : ~Failed(x)) => ~Worse(w, c)
  BY <1>1 DEF StepInv, TypeInv
<1>4. tip \in Blocks /\ Connected(status, tip)
  BY <1>2, TipLinked
<1>5. /\ b \in Blocks \ {Genesis} /\ b \in Anc[w] /\ Parent[b] = tip
      /\ Anc[b] = Anc[tip] \union {b} /\ b \notin Anc[tip]
  BY <1>3, TowardFacts
<1>6. Anc[b] \subseteq Anc[w]
  BY <1>3, <1>5, AncFacts
<1>7. "tree" \in status[b] /\ "data" \in status[b]
  BY <1>1, <1>3, <1>5 DEF LinkedInv, DiskInv, StatusOK
<1>. QED  BY <1>2, <1>3, <1>4, <1>5, <1>6, <1>7

(* ConnectBlock writes the index entry of its block by itself.             *)
LEMMA TouchDisk ==
    ASSUME TypeInv, DiskInv, Live, Live', NEW b \in Blocks,
           disk' = [disk EXCEPT !.status[b] = status[b]], dirty' = dirty \union {b},
           coins' \in Blocks, Connected(status', coins'), StatusOK(status'),
           \A x \in Blocks : status[x] \intersect Marks \subseteq status'[x],
           \A x \in Blocks \ {b} : status'[x] \intersect Marks \subseteq status[x]
    PROVE  disk' \in DiskRec /\ DiskInv'
<1>1. /\ disk \in DiskRec /\ status \in [Blocks -> SUBSET Flag] /\ disk.best \in Blocks
      /\ StatusOK(disk.status) /\ StatusOK(status) /\ Connected(disk.status, disk.best)
      /\ \A x \in Blocks : disk.status[x] \intersect Marks \subseteq status[x]
      /\ \A x \in Blocks \ dirty : status[x] \intersect Marks \subseteq disk.status[x]
  BY DEF DiskInv, TypeInv, DiskRec
<1>2. /\ disk' \in DiskRec /\ disk'.best = disk.best
      /\ disk'.status = [disk.status EXCEPT ![b] = status[b]]
  BY <1>1 DEF DiskRec
<1>3. disk'.status[b] = status[b] /\ \A x \in Blocks \ {b} : disk'.status[x] = disk.status[x]
  BY <1>1, <1>2 DEF DiskRec
<1>4. Connected(disk'.status, disk'.best)
  <2>1. \A x \in Blocks : disk.status[x] \intersect Marks \subseteq disk'.status[x]
    BY <1>1, <1>3
  <2>2. Connected(disk'.status, disk.best)
    BY <1>1, <2>1, ConnectedMore
  <2>. QED  BY <1>2, <2>2
<1>5. StatusOK(disk'.status)
  <2>1. Genesis \in Blocks
    BY TreeAssumption
  <2>. QED  BY <1>1, <1>3, <2>1 DEF StatusOK
<1>6. \A x \in Blocks : disk'.status[x] \intersect Marks \subseteq status'[x]
  BY <1>1, <1>3
<1>7. \A x \in Blocks \ dirty' : status'[x] \intersect Marks \subseteq disk'.status[x]
  BY <1>1, <1>3
<1>8. StatusOK(disk.status)' /\ Connected(disk.status, disk.best)'
  BY <1>4, <1>5 DEF StatusOK, Connected
<1>9. StatusOK(status)' /\ Connected(status, coins)'
  BY DEF StatusOK, Connected
<1>. QED  BY <1>2, <1>6, <1>7, <1>8, <1>9 DEF DiskInv

(* The next block is connected. What goes from the candidates is worse than*)
(* the new tip.                                                            *)
LEMMA StepConnectStep ==
    ASSUME IInv, StepConnect
    PROVE  IInv'
<1>1. /\ TypeInv /\ BusyInv /\ RunInv /\ DiskInv /\ LinkedInv /\ ReachInv
      /\ busy.op = "step"
  BY DEF IInv, StepConnect
<1>. PICK t : t = busy.by
  OBVIOUS
<1>. PICK w : w = thread[t].want
  OBVIOUS
<1>. PICK b : b = Toward(tip, w)
  OBVIOUS
<1>2. /\ tip \in Anc[w] /\ coins = tip
      /\ status' = Mark(status, {b}, {"undo", "scripts"})
      /\ tip' = b /\ coins' = b /\ candidates' = Pruned(b)
      /\ \/ disk' = [disk EXCEPT !.status[b] = status[b]] /\ dirty' = dirty \union {b}
         \/ disk' = Flushed(status', dirty \union {b}, b) /\ dirty' = {}
      /\ IF Work[b] > Work[busy.from] \/ b = w THEN Release(t) ELSE UNCHANGED <<busy, thread>>
      /\ UNCHANGED <<seq, linked, unlinked, skipped, info, addr, run, barred, rejected>>
  BY DEF StepConnect
<1>3. /\ t \in Threads /\ Live /\ thread[t].pc = "find"
      /\ w \in Blocks /\ w \in linked /\ w # tip
      /\ \A x \in Anc[w] \ Anc[tip] : ~Failed(x)
      /\ \A c \in candidates :
            (\A x \in Anc[c] \ (Anc[tip] \union Anc[w]) : ~Failed(x)) => ~Worse(w, c)
      /\ tip \in Blocks /\ Connected(status, tip)
      /\ b \in Blocks \ {Genesis} /\ b \in Anc[w] /\ Parent[b] = tip
      /\ Anc[b] = Anc[tip] \union {b} /\ b \notin Anc[tip] /\ Anc[b] \subseteq Anc[w]
      /\ "tree" \in status[b] /\ "data" \in status[b]
  BY <1>1, <1>2, NextBlock
<1>4. /\ status \in [Blocks -> SUBSET Flag] /\ status' \in [Blocks -> SUBSET Flag]
      /\ status'[b] = status[b] \union {"undo", "scripts"}
      /\ \A x \in Blocks \ {b} : status'[x] = status[x]
  BY <1>1, <1>2, <1>3 DEF TypeInv, Mark, Flag
<1>5. \A x \in Blocks : /\ Failed(x)' <=> Failed(x)
                        /\ "tree" \in status'[x] <=> "tree" \in status[x]
                        /\ "data" \in status'[x] <=> "data" \in status[x]
                        /\ "scripts" \in status[x] => "scripts" \in status'[x]
                        /\ status[x] \intersect Marks \subseteq status'[x]
                        /\ x # b => status'[x] \intersect Marks \subseteq status[x]
  BY <1>4 DEF Failed, FAILED_MASK
<1>6. StatusOK(status') /\ Connected(status', b)
  <2>1. StatusOK(status) /\ Genesis \in Blocks
    BY <1>1, TreeAssumption DEF DiskInv
  <2>2. StatusOK(status')
    BY <1>3, <1>4, <1>5, <2>1 DEF StatusOK
  <2>3. Connected(status', tip)
    BY <1>3, <1>5, ConnectedMore
  <2>4. {"tree", "data", "undo", "scripts"} \subseteq status'[b]
    BY <1>3, <1>4
  <2>. QED  BY <1>3, <2>2, <2>3, <2>4 DEF Connected
<1>7. disk' \in DiskRec /\ dirty' \subseteq Blocks /\ DiskInv'
  <2>1. Live' /\ coins' \in Blocks /\ Connected(status', coins')
    BY <1>2, <1>3, <1>6 DEF Live
  <2>2. CASE disk' = [disk EXCEPT !.status[b] = status[b]] /\ dirty' = dirty \union {b}
    <3>1. dirty' \subseteq Blocks
      BY <1>1, <1>3, <2>2 DEF TypeInv
    <3>. QED  BY <1>1, <1>3, <1>5, <1>6, <2>1, <2>2, <3>1, TouchDisk
  <2>3. CASE disk' = Flushed(status', dirty \union {b}, b) /\ dirty' = {}
    <3>1. /\ disk' \in DiskRec /\ disk'.best = coins'
          /\ \A x \in Blocks : disk'.status[x] =
                                  IF x \in dirty \union {b} THEN status'[x] ELSE disk.status[x]
      <4>. DEFINE d == Flushed(status', dirty \union {b}, b)
      <4>1. /\ d \in DiskRec /\ d.best = b
            /\ \A x \in Blocks : d.status[x] =
                                    IF x \in dirty \union {b} THEN status'[x] ELSE disk.status[x]
        BY <1>1, <1>3, <1>4, FlushedFacts
      <4>. HIDE DEF d
      <4>2. disk' = d /\ coins' = b
        BY <1>2, <2>3 DEF d
      <4>. QED  BY <4>1, <4>2
    <3>2. \A x \in Blocks \ (dirty \union {b}) : status'[x] \intersect Marks \subseteq status[x]
      BY <1>5
    <3>3. dirty \subseteq dirty \union {b} /\ dirty' \subseteq Blocks
      BY <2>3
    <3>. QED  BY <1>1, <1>3, <1>5, <1>6, <2>1, <3>1, <3>2, <3>3, WriteDisk
  <2>. QED  BY <1>2, <2>2, <2>3
<1>8. \/ busy' = Free /\ thread' = [thread EXCEPT ![t].pc = "notify"]
      \/ b # w /\ busy' = busy /\ thread' = thread
  BY <1>2 DEF Release
<1>9. /\ thread' \in [Threads -> ThreadRec] /\ thread'[t].want = w
      /\ \A u \in Threads : thread'[u].pc = thread[u].pc \/ thread'[u].pc = "notify"
      /\ busy' = Free => thread'[t].pc = "notify"
  <2>1. CASE busy' = Free /\ thread' = [thread EXCEPT ![t].pc = "notify"]
    BY <1>1, <1>3, <2>1 DEF TypeInv, ThreadRec
  <2>2. CASE busy' = busy /\ thread' = thread
    BY <1>1, <2>2 DEF TypeInv, Free
  <2>. QED  BY <1>8, <2>1, <2>2
<1>10. candidates' \subseteq candidates /\ candidates \subseteq Blocks /\ linked \subseteq Blocks
  BY <1>1, <1>2 DEF Pruned, TypeInv
<1>11. TypeInv'
  BY <1>1, <1>2, <1>3, <1>4, <1>7, <1>9, <1>10 DEF TypeInv
<1>12. BusyInv'
  <2>1. CASE busy' = Free
    BY <2>1 DEF BusyInv
  <2>2. CASE busy' = busy /\ thread' = thread
    BY <1>1, <1>2, <2>2 DEF BusyInv, Live
  <2>. QED  BY <1>8, <2>1, <2>2
<1>13. RunInv'
  BY <1>1, <1>2, <1>3, <1>9 DEF RunInv, Live
<1>14. LinkedInv'
  BY <1>1, <1>2, <1>5, KeepLinked
<1>15. \A x, y \in Blocks : Worse(x, y)' <=> Worse(x, y)
  BY <1>2 DEF Worse
<1>16. ASSUME NEW c \in candidates', \A x \in Anc[c] \ (Anc[b] \union Anc[w]) : ~Failed(x)'
       PROVE  ~Worse(w, c)'
  <2>1. c \in candidates /\ c \in Blocks /\ Anc[c] \subseteq Blocks
    BY <1>10, AncFacts
  <2>2. \A x \in Anc[c] \ (Anc[tip] \union Anc[w]) : ~Failed(x)
    BY <1>3, <1>5, <1>16, <2>1
  <2>. QED  BY <1>3, <1>15, <2>1, <2>2
<1>17. StepInv'
  <2>1. CASE busy' = Free
    BY <2>1 DEF StepInv, Free
  <2>2. CASE b # w /\ busy' = busy /\ thread' = thread
    <3>1. thread'[busy'.by].want = w /\ w \in linked' /\ w # b
      BY <1>2, <1>3, <2>2
    <3>2. \A x \in Anc[w] \ Anc[b] : ~Failed(x)'
      BY <1>3, <1>5, AncFacts
    <3>. QED  BY <1>2, <1>16, <3>1, <3>2 DEF StepInv
  <2>. QED  BY <1>8, <2>1, <2>2
<1>18. QuietInv'
  <2>1. CASE busy' # Free
    BY <2>1 DEF QuietInv
  <2>2. CASE busy' = Free /\ b # w
    <3>1. Looks(t)'
      BY <1>2, <1>9, <2>2 DEF Looks
    <3>. QED  BY <1>3, <3>1 DEF QuietInv
  <2>3. CASE b = w
    <3>1. ASSUME NEW c \in Usable' PROVE ~Worse(tip, c)'
      <4>1. c \in candidates' /\ \A x \in Anc[c] \ Anc[b] : ~Failed(x)'
        BY <1>2 DEF Usable, Obstacles, Active
      <4>2. ~Worse(w, c)'
        BY <1>16, <4>1
      <4>. QED  BY <1>2, <2>3, <4>2 DEF Worse
    <3>. QED  BY <3>1 DEF QuietInv
  <2>. QED  BY <2>1, <2>2, <2>3
<1>19. ReachInv'
  <2>1. Worse(tip, b)
    BY <1>3, TreeAssumption DEF Worse
  <2>2. ASSUME NEW x \in Blocks, Worse(x, b) PROVE Covered(x)'
    BY <1>2, <2>2 DEF Covered, Worse
  <2>3. ASSUME ~skipped'
        PROVE  (\A a \in Anc[b] : ~Failed(a)') /\ \A x \in linked' : ~Failed(x)' => Covered(x)'
    <3>1. (\A a \in Anc[tip] : ~Failed(a)) /\ \A x \in linked : ~Failed(x) => Covered(x)
      BY <1>1, <1>2, <1>3, <2>3 DEF ReachInv
    <3>2. \A a \in Anc[b] : ~Failed(a)'
      BY <1>3, <1>5, <3>1, AncFacts
    <3>3. ASSUME NEW x \in linked, ~Failed(x)' PROVE Covered(x)'
      <4>1. x \in Blocks /\ Covered(x) /\ seq \in [Blocks -> Nat] /\ addr \in [Blocks -> Int]
        BY <1>1, <1>5, <1>10, <3>1, <3>3 DEF TypeInv
      <4>2. CASE Worse(x, b)
        BY <2>2, <4>1, <4>2
      <4>3. CASE ~Worse(x, b)
        <5>1. ~Worse(x, tip)
          BY <1>3, <2>1, <4>1, <4>3, WorseOrder
        <5>2. CASE x \in candidates
          BY <1>2, <4>3, <5>2 DEF Covered, Pruned
        <5>3. ASSUME NEW c \in candidates, Sound(c), ~Worse(c, x) PROVE Covered(x)'
          <6>1. c \in Blocks /\ ~Worse(c, b)
            BY <1>3, <1>10, <4>1, <4>3, <5>3, WorseOrder
          <6>2. Sound(c)'
            BY <1>5, <5>3, <6>1, AncFacts DEF Sound
          <6>3. c \in candidates' /\ ~Worse(c, x)'
            BY <1>2, <1>15, <4>1, <5>3, <6>1 DEF Pruned
          <6>. QED  BY <6>2, <6>3 DEF Covered
        <5>. QED  BY <4>1, <5>1, <5>2, <5>3 DEF Covered
      <4>. QED  BY <4>2, <4>3
    <3>. QED  BY <1>2, <3>2, <3>3
  <2>. QED  BY <1>2, <2>3 DEF ReachInv
<1>. QED  BY <1>7, <1>11, <1>12, <1>13, <1>14, <1>17, <1>18, <1>19 DEF IInv

(* The next block is invalid. No candidate whose chain was connected once  *)
(* has it as an ancestor, unless it was connected itself.                  *)
LEMMA StepInvalidStep ==
    ASSUME IInv, StepInvalid
    PROVE  IInv'
<1>1. /\ TypeInv /\ BusyInv /\ RunInv /\ DiskInv /\ LinkedInv /\ ReachInv
      /\ busy.op = "step"
  BY DEF IInv, StepInvalid
<1>. PICK t : t = busy.by
  OBVIOUS
<1>. PICK w : w = thread[t].want
  OBVIOUS
<1>. PICK b : b = Toward(tip, w)
  OBVIOUS
<1>2. /\ tip \in Anc[w] /\ coins = tip
      /\ rejected' \in {rejected, rejected \union {b}}
      /\ disk' = disk \/ disk' = [disk EXCEPT !.status[b] = status[b]]
      /\ status' = Mark(status, {b}, {"failedValid"})
      /\ dirty' = dirty \union {b} /\ candidates' = candidates \ {b}
      /\ skipped' = (skipped \/ "scripts" \in status[b])
      /\ busy' = Free /\ thread' = [thread EXCEPT ![t].pc = "notify"]
      /\ UNCHANGED <<seq, linked, unlinked, tip, coins, info, addr, run, barred>>
  BY DEF StepInvalid, InvalidBlockFound, Release
<1>3. /\ t \in Threads /\ Live /\ w \in Blocks /\ w # tip
      /\ tip \in Blocks /\ Connected(status, tip)
      /\ b \in Blocks \ {Genesis} /\ b \notin Anc[tip]
  BY <1>1, <1>2, NextBlock
<1>4. /\ status' \in [Blocks -> SUBSET Flag]
      /\ \A x \in Blocks \ {b} : status'[x] = status[x] /\ (Failed(x)' <=> Failed(x))
      /\ \A x \in Blocks : /\ Failed(x) => Failed(x)'
                           /\ "tree" \in status[x] => "tree" \in status'[x]
                           /\ "data" \in status'[x] <=> "data" \in status[x]
                           /\ "undo" \in status'[x] <=> "undo" \in status[x]
                           /\ "scripts" \in status'[x] <=> "scripts" \in status[x]
                           /\ status[x] \intersect Marks \subseteq status'[x]
                           /\ status'[x] \intersect Marks \subseteq status[x]
  <2>1. /\ {b} \subseteq Blocks /\ {"failedValid"} \subseteq {"tree", "failedValid", "failedChild"}
        /\ "tree" \notin {"failedValid"}
    BY <1>3
  <2>. QED  BY <1>1, <1>2, <2>1, FailedMore
<1>5. Failed(b)'
  <2>1. "failedValid" \in status'[b]
    BY <1>1, <1>2, <1>3 DEF Mark, TypeInv
  <2>. QED  BY <2>1 DEF Failed, FAILED_MASK
<1>6. disk' \in DiskRec /\ DiskInv'
  <2>1. StatusOK(status) /\ Genesis \in Blocks /\ Live'
    BY <1>1, <1>2, <1>3, TreeAssumption DEF DiskInv, Live
  <2>2. StatusOK(status')
    BY <1>4, <2>1 DEF StatusOK
  <2>3. coins' \in Blocks /\ Connected(status', coins')
    <3>1. Connected(status', tip)
      BY <1>3, <1>4, ConnectedMore
    <3>. QED  BY <1>2, <1>3, <3>1
  <2>4. CASE disk' = disk
    <3>1. \A x \in Blocks \ dirty' : x \notin dirty /\ status'[x] \intersect Marks \subseteq status[x]
      BY <1>2, <1>4
    <3>2. disk' \in DiskRec
      BY <1>1, <2>4 DEF TypeInv
    <3>. QED  BY <1>1, <1>2, <1>3, <1>4, <2>1, <2>2, <2>4, <3>1, <3>2, KeepDisk
  <2>5. CASE disk' = [disk EXCEPT !.status[b] = status[b]]
    BY <1>1, <1>2, <1>3, <1>4, <2>1, <2>2, <2>3, <2>5, TouchDisk
  <2>. QED  BY <1>2, <2>4, <2>5
<1>7. /\ thread' \in [Threads -> ThreadRec] /\ thread'[t].pc = "notify" /\ thread'[t].want = w
      /\ \A u \in Threads : thread'[u].pc = thread[u].pc \/ thread'[u].pc = "notify"
  BY <1>1, <1>2, <1>3 DEF TypeInv, ThreadRec
<1>8. TypeInv'
  <2>1. skipped' \in BOOLEAN /\ rejected' \subseteq Blocks
    BY <1>1, <1>2, <1>3 DEF TypeInv
  <2>. QED  BY <1>1, <1>2, <1>3, <1>4, <1>6, <1>7, <2>1 DEF TypeInv
<1>9. BusyInv' /\ StepInv'
  BY <1>2 DEF BusyInv, StepInv, Free
<1>10. RunInv'
  BY <1>1, <1>2, <1>3, <1>7 DEF RunInv, Live
<1>11. LinkedInv'
  BY <1>1, <1>2, <1>4, KeepLinked
<1>12. QuietInv'
  <2>1. Looks(t)'
    BY <1>2, <1>3, <1>7 DEF Looks
  <2>. QED  BY <1>3, <2>1 DEF QuietInv
<1>13. ReachInv'
  <2>1. \A x, y \in Blocks : Worse(x, y)' <=> Worse(x, y)
    BY <1>2 DEF Worse
  <2>2. candidates \subseteq Blocks /\ linked \subseteq Blocks
    BY <1>1 DEF TypeInv
  <2>3. ASSUME ~skipped'
        PROVE  (\A a \in Anc[tip] : ~Failed(a)') /\ \A x \in linked' : ~Failed(x)' => Covered(x)'
    <3>1. (\A a \in Anc[tip] : ~Failed(a)) /\ \A x \in linked : ~Failed(x) => Covered(x)
      BY <1>1, <1>2, <1>3, <2>3 DEF ReachInv
    <3>2. \A a \in Anc[tip] : ~Failed(a)'
      BY <1>3, <1>4, <3>1, AncFacts
    <3>3. ASSUME NEW x \in linked, ~Failed(x)' PROVE Covered(x)'
      <4>1. x \in Blocks /\ x # b /\ Covered(x)
        BY <1>4, <1>5, <2>2, <3>1, <3>3
      <4>2. CASE x \in candidates
        BY <1>2, <4>1, <4>2 DEF Covered
      <4>3. CASE Worse(x, tip)
        BY <1>2, <4>3 DEF Covered, Worse
      <4>4. ASSUME NEW c \in candidates, Sound(c), ~Worse(c, x) PROVE Covered(x)'
        <5>1. c \in Blocks /\ Anc[c] \subseteq Blocks /\ c \in Anc[c]
          BY <2>2, AncFacts
        <5>2. b \notin Anc[c]
          BY <1>2, <1>3, <2>3, <4>4 DEF Sound
        <5>3. Sound(c)'
          BY <1>4, <4>4, <5>1, <5>2 DEF Sound
        <5>4. c \in candidates' /\ ~Worse(c, x)'
          BY <1>2, <2>1, <4>1, <4>4, <5>1, <5>2
        <5>. QED  BY <5>3, <5>4 DEF Covered
      <4>. QED  BY <4>1, <4>2, <4>3, <4>4 DEF Covered
    <3>. QED  BY <1>2, <3>2, <3>3
  <2>. QED  BY <1>2, <2>3 DEF ReachInv
<1>. QED  BY <1>6, <1>8, <1>9, <1>10, <1>11, <1>12, <1>13 DEF IInv

-----------------------------------------------------------------------------
(* The theorems.                                                           *)

(* Every step of a thread or of the holder of cs_main keeps the invariant. *)
LEMMA InsideStep ==
    ASSUME IInv, (\E t \in Threads : Activate(t) \/ Reprocess(t)) \/ Holder
    PROVE  IInv'
<1>1. ASSUME NEW t \in Threads, Activate(t) PROVE IInv'
  BY <1>1, FindMostWorkChainStep, NotifyStep, PeriodicFlushStep DEF Activate
<1>2. ASSUME NEW t \in Threads, Reprocess(t) PROVE IInv'
  BY <1>2, ReconsiderStep, ReprocessStartStep DEF Reprocess
<1>3. CASE StepDisconnect
  BY <1>3, StepDisconnectStep
<1>4. CASE StepConnect
  BY <1>4, StepConnectStep
<1>5. CASE StepInvalid
  BY <1>5, StepInvalidStep
<1>6. CASE StepAssert
  BY <1>6, StopStep
<1>7. CASE InvalidateDisconnect
  BY <1>7, InvalidateDisconnectStep
<1>8. CASE InvalidateEnd
  BY <1>8, InvalidateEndStep
<1>9. CASE ReprocessDisconnect
  BY <1>9, ReprocessDisconnectStep
<1>10. CASE ReprocessEnd
  BY <1>10, ReprocessEndStep
<1>. QED  BY <1>1, <1>2, <1>3, <1>4, <1>5, <1>6, <1>7, <1>8, <1>9, <1>10 DEF Holder

(* So does every start of the node.                                        *)
LEMMA StartUpStep ==
    ASSUME IInv, StartUp
    PROVE  IInv'
<1>1. ASSUME NEW order \in Orders, StartNode(order) PROVE IInv'
  BY <1>1, StartNodeStep
<1>2. ASSUME NEW order \in Orders, StartRecovery(order) PROVE IInv'
  BY <1>2, StartRecoveryStep
<1>3. ASSUME NEW order \in Orders, StartAbort(order) PROVE IInv'
  BY <1>3, AbortStep
<1>4. CASE RecoveryAbort
  <2>1. PICK order \in Orders : TRUE
    BY ParameterAssumption
  <2>. QED  BY <1>4, <2>1, AbortStep
<1>5. CASE RecoveryEnd
  BY <1>5, RecoveryEndStep
<1>6. CASE Reindex
  BY <1>6, ReindexStep
<1>. QED  BY <1>1, <1>2, <1>3, <1>4, <1>5, <1>6 DEF StartUp

(* And every event from outside.                                           *)
LEMMA OutsideStep ==
    ASSUME IInv, Outside
    PROVE  IInv'
<1>1. Peers \subseteq Threads
  BY ParameterAssumption
<1>2. ASSUME NEW t \in Peers, NEW b \in Blocks \ {Genesis}, ProcessNewBlock(t, b) PROVE IInv'
  BY <1>1, <1>2, ProcessNewBlockStep
<1>3. ASSUME NEW t \in Peers, ReprocessBlocks(t) PROVE IInv'
  BY <1>1, <1>3, ReprocessBlocksStep
<1>4. ASSUME NEW t \in Threads, NEW b \in Blocks \ {Genesis}, InvalidateBlock(t, b) PROVE IInv'
  BY <1>4, InvalidateBlockStep
<1>5. ASSUME NEW t \in Threads, NEW b \in Blocks \ {Genesis}, Reconsider(t, b) PROVE IInv'
  BY <1>5, ReconsiderStep
<1>6. ASSUME NEW b \in Blocks, Bar(b) \/ Unbar(b) \/ RejectBlock(b) PROVE IInv'
  BY <1>6, BarStep
<1>7. CASE Shutdown \/ Crash \/ CrashInFlush
  BY <1>7, StopStep
<1>. QED  BY <1>2, <1>3, <1>4, <1>5, <1>6, <1>7 DEF Outside

(* The inductive invariant: main.cpp keeps index, candidates, active chain *)
(* and databases in agreement through every step of every thread, every    *)
(* crash and every start.                                                  *)
THEOREM Invariance == Spec => []IInv
<1>1. Init => IInv
  <2>1. Init => Fresh
    BY ParameterAssumption DEF Init, Fresh
  <2>. QED  BY <2>1, FreshInv
<1>2. IInv /\ [Next]_vars => IInv'
  <2>. SUFFICES ASSUME IInv, [Next]_vars PROVE IInv'
    OBVIOUS
  <2>1. CASE Next
    BY <2>1, InsideStep, StartUpStep, OutsideStep DEF Next
  <2>2. CASE UNCHANGED vars
    <3>1. /\ UNCHANGED <<status, seq, linked, unlinked, candidates, dirty, skipped, tip, coins>>
          /\ UNCHANGED <<info, disk, addr, run, busy, thread, barred, rejected>>
      BY <2>2 DEF vars, index
    <3>2. (Usable' = Usable) /\ (Failed(Genesis)' <=> Failed(Genesis))
      BY <3>1 DEF Usable, Obstacles, Active, Failed
    <3>3. TypeInv' /\ BusyInv' /\ RunInv' /\ LinkedInv'
      BY <3>1 DEF IInv, TypeInv, BusyInv, RunInv, LinkedInv, Live
    <3>4. DiskInv'
      BY <3>1 DEF IInv, DiskInv, StatusOK, Connected, Live
    <3>5. StepInv' /\ QuietInv'
      BY <3>1, <3>2 DEF IInv, StepInv, QuietInv, Looks, Failed, Worse
    <3>6. ReachInv'
      BY <3>1 DEF IInv, ReachInv, Covered, Sound, Failed, Worse, Live
    <3>. QED  BY <3>3, <3>4, <3>5, <3>6 DEF IInv
  <2>. QED  BY <2>1, <2>2
<1>. QED  BY <1>1, <1>2, PTL DEF Spec

(* The variables keep their types, and FindMostWorkChain's assertion holds:*)
(* a candidate has the data of its whole chain.                            *)
THEOREM TypeCorrect == Spec => []TypeOK
<1>1. IInv => TypeOK
  BY DEF IInv, TypeInv, TypeOK, ThreadRec, DiskRec
<1>. QED  BY <1>1, Invariance, PTL

(* nChainTx and mapBlocksUnlinked say what CheckBlockIndex asserts of them.*)
THEOREM LinkedTheorem == Spec => []LinkedHonest
<1>1. IInv => LinkedHonest
  BY DEF IInv, LinkedInv, LinkedHonest, Index
<1>. QED  BY <1>1, Invariance, PTL

(* Whenever the process dies, the coin database refers to a block whose    *)
(* chain is in the block index on disk, with its data and undo data.       *)
THEOREM DiskTheorem == Spec => []DiskConsistent
<1>1. IInv => DiskConsistent
  BY DEF IInv, DiskInv, Connected, DiskConsistent
<1>. QED  BY <1>1, Invariance, PTL

(* A valid block that is better than the tip has a candidate for it.       *)
LEMMA Reachable == IInv => BestReachable
<1>. SUFFICES ASSUME IInv, run = "up", busy = Free, ~skipped, NEW b \in Valid, Worse(tip, b)
              PROVE  \E c \in Usable : ~Worse(c, b)
  BY DEF BestReachable
<1>1. TypeInv /\ ReachInv /\ Live /\ busy.op = "none"
  BY DEF IInv, Live, Free
<1>2. /\ b \in linked /\ b \in Blocks /\ (\A a \in Anc[b] : ~Failed(a)) /\ tip \in Blocks
      /\ seq \in [Blocks -> Nat] /\ addr \in [Blocks -> Int]
  BY <1>1 DEF Valid, TypeInv
<1>3. Covered(b)
  BY <1>1, <1>2, AncFacts DEF ReachInv
<1>4. ~Worse(b, tip) /\ ~Worse(b, b)
  BY <1>2, WorseOrder
<1>5. \A c \in candidates : (\A a \in Anc[c] : ~Failed(a)) => c \in Usable
  BY DEF Usable, Obstacles
<1>. QED  BY <1>2, <1>3, <1>4, <1>5 DEF Covered, Sound

(* Whenever cs_main is free the best valid chain can be activated: what is *)
(* better than the tip is no better than some candidate on a chain that is *)
(* not known to be invalid.                                                *)
THEOREM ReachTheorem == Spec => []BestReachable
  BY Reachable, Invariance, PTL

(* When every ActivateBestChain has returned, the tip is the best valid    *)
(* block, except where the code is known not to look.                      *)
THEOREM TipTheorem == Spec => []TipIsBest
<1>1. IInv => TipIsBest
  <2>. SUFFICES ASSUME IInv, Quiet, ~skipped, NEW b \in Valid, Worse(tip, b)
                PROVE  FALSE
    BY DEF TipIsBest
  <2>1. /\ run = "up" /\ busy = Free /\ tip \in Blocks /\ b \in Blocks /\ Usable \subseteq Blocks
        /\ seq \in [Blocks -> Nat] /\ addr \in [Blocks -> Int]
    BY DEF Quiet, IInv, TypeInv, Valid, Usable
  <2>2. \A t \in Threads : ~Looks(t)
    BY DEF Quiet, Looks, Idle
  <2>3. \A c \in Usable : ~Worse(tip, c)
    BY <2>1, <2>2 DEF IInv, QuietInv
  <2>4. PICK c \in Usable : ~Worse(c, b)
    BY <2>1, Reachable DEF BestReachable
  <2>5. Worse(tip, c)
    BY <2>1, <2>4, WorseOrder
  <2>. QED  BY <2>3, <2>5
<1>. QED  BY <1>1, Invariance, PTL

=============================================================================
