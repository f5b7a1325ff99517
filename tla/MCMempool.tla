------------------------------ MODULE MCMempool ------------------------------
(* An instance of Mempool. The root holds f with three outputs. Branch A:  *)
(* A1 has coinbase ca, the coinstake s and t1, t2, where s and t1 spend f  *)
(* and t2 spends t1; A3 has k, which spends both outputs of s and has none *)
(* of its own. Branch B: B1 with u, which spends an output of f that t1    *)
(* spends, too. w spends the coinbase of A1 and x spends w. y spends t1,   *)
(* with a bad signature.                                                   *)
EXTENDS Mempool

CONSTANTS p1, p2, g, f, ca, ca2, ca3, cb, t1, t2, s, k, u, w, x, y, R, A1, A2, A3, B1

MCTxs == {g, f, ca, ca2, ca3, cb, t1, t2, s, k, u, w, x, y}
MCVin == [t \in MCTxs |->
    CASE t \in {g, ca, ca2, ca3, cb} -> <<>>
      [] t = f -> << <<g, 0>> >>
      [] t = t1 -> << <<f, 0>>, <<f, 1>> >> [] t \in {t2, y} -> << <<t1, 0>> >>
      [] t = s -> << <<f, 2>> >> [] t = k -> << <<s, 0>>, <<s, 1>> >>
      [] t = u -> << <<f, 0>> >>
      [] t = w -> << <<ca, 0>> >> [] t = x -> << <<w, 0>> >>]
MCVout == [t \in MCTxs |-> CASE t = f -> {0, 1, 2} [] t = s -> {0, 1} [] t = k -> {} [] OTHER -> {0}]
MCHashOrder == [t \in MCTxs |->
    CASE t = g -> 0 [] t = f -> 1 [] t = ca -> 2 [] t = ca2 -> 3 [] t = ca3 -> 4 [] t = cb -> 5 [] t = t1 -> 6
      [] t = y -> 7 [] t = t2 -> 8 [] t = s -> 9 [] t = u -> 10 [] t = k -> 11 [] t = w -> 12 [] t = x -> 13]
MCBlocks == {R, A1, A2, A3, B1}
MCParent == [b \in {A1, A2, A3, B1} |-> CASE b \in {A1, B1} -> R [] b = A2 -> A1 [] b = A3 -> A2]
MCHeight == [b \in MCBlocks |-> CASE b = R -> 1 [] b \in {A1, B1} -> 2 [] b = A2 -> 3 [] b = A3 -> 4]
MCVtx == [b \in MCBlocks |->
    CASE b = R -> <<g, f>> [] b = A1 -> <<ca, s, t1, t2>> [] b = A2 -> <<ca2>> [] b = A3 -> <<ca3, k>>
      [] b = B1 -> <<cb, u>>]
=============================================================================
