---------------------------- MODULE MCChainState ----------------------------
(* Instances of ChainState: two branches of two blocks on the genesis      *)
(* block. B2 is invalid.                                                   *)
EXTENDS ChainState

CONSTANTS G, A1, A2, B1, B2, net, rpc

MCBlocks == {G, A1, A2, B1, B2}
MCParent == [b \in {A1, A2, B1, B2} |->
                CASE b \in {A1, B1} -> G [] b = A2 -> A1 [] b = B2 -> B1]
MCAnc == [b \in MCBlocks |->
             CASE b = G -> {G} [] b = A1 -> {G, A1} [] b = B1 -> {G, B1}
               [] b = A2 -> {G, A1, A2} [] b = B2 -> {G, B1, B2}]
MCHeight == [b \in MCBlocks |-> CASE b = G -> 0 [] b \in {A1, B1} -> 1 [] b \in {A2, B2} -> 2]
MCWork == [b \in MCBlocks |-> CASE b = G -> 0 [] b \in {A1, B1} -> 1 [] b \in {A2, B2} -> 2]
MCOrders == {[b \in MCBlocks |-> CASE b = G -> 0 [] b = A1 -> 1 [] b = B1 -> 2 [] b = A2 -> 3 [] b = B2 -> 4]}
MCLimit == [all |-> 2, stop |-> 1, bar |-> 1, invalidate |-> 1, reconsider |-> 1, reprocess |-> 1]
=============================================================================
