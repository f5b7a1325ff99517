------------------------------ MODULE MCCoins ------------------------------
(* Instances of Coins.                                                     *)
EXTENDS Coins, TLC

Symmetry == Permutations(Txs) \union Permutations(Coin)
=============================================================================
