------------------------------ MODULE UtxoMap ------------------------------
(***************************************************************************)
(* What the coin views of coins.h promise: three plain maps from           *)
(* transactions to their unspent outputs, each with the block whose state  *)
(* it represents. disk survives a restart, mem is the state of the active  *)
(* chain, work is a scratch copy that is committed as a whole or dropped.  *)
(***************************************************************************)
CONSTANTS Txs, Coin, Pruned, Blocks, Null

VARIABLES disk, mem, work, open

vars == <<disk, mem, work, open>>

Init ==
    /\ disk = [coins |-> [t \in Txs |-> Pruned], best |-> Null]
    /\ mem = disk
    /\ work = disk
    /\ open = FALSE

Open ==
    /\ ~open
    /\ open' = TRUE
    /\ work' = mem
    /\ UNCHANGED <<disk, mem>>

Set(t, c) ==
    /\ open
    /\ work' = [work EXCEPT !.coins = [work.coins EXCEPT ![t] = c]]
    /\ UNCHANGED <<disk, mem, open>>

SetBest(b) ==
    /\ open
    /\ work' = [work EXCEPT !.best = b]
    /\ UNCHANGED <<disk, mem, open>>

Commit ==
    /\ open
    /\ mem' = work
    /\ open' = FALSE
    /\ UNCHANGED <<disk, work>>

Drop ==
    /\ open
    /\ open' = FALSE
    /\ work' = mem
    /\ UNCHANGED <<disk, mem>>

Persist ==
    /\ ~open
    /\ disk' = mem
    /\ UNCHANGED <<mem, work, open>>

Restart ==
    /\ mem' = disk
    /\ work' = disk
    /\ open' = FALSE
    /\ UNCHANGED disk

Next ==
    \/ Open \/ Commit \/ Drop \/ Persist \/ Restart
    \/ \E t \in Txs, c \in Coin \union {Pruned} : Set(t, c)
    \/ \E b \in Blocks : SetBest(b)

Spec == Init /\ [][Next]_vars

=============================================================================
