----------------------------- MODULE MCSwiftTX -----------------------------
(* Instances of SwiftTX for TLC. *)
EXTENDS SwiftTX, TLC

CONSTANTS n1, n2, n3, m1, m2, m3, a, b, o1, o2, p

MCTxs == {a, b}
MCParent == o1 :> p @@ o2 :> p

(* One node and three remote masternodes. a and b conflict on o2; o1 is    *)
(* too young for a lock until one more block is connected.                 *)
NodeVin == a :> <<o1, o2>> @@ b :> <<o2>>
NodeInputHeight == o1 :> 3 @@ o2 :> 1
NodeScore == [h \in {0, 4, 6} |-> m1 :> 3 @@ m2 :> 2 @@ m3 :> 1]
NodeVote(m, tx, h) == [mn |-> m, tx |-> tx, nBlockHeight |-> h]
NodeRemoteVotes ==
    {NodeVote(m1, a, 6), NodeVote(m2, a, 6), NodeVote(m3, a, 6),
     NodeVote(m1, b, 4), NodeVote(m2, b, 4), NodeVote(m2, b, 0)}
NodeLists == {{m1, m2, m3}, {m1, m3}}

(* Two masternodes and a third node run this code; a and b spend o1 and are *)
(* voted on at the same height.                                            *)
NetVin == a :> <<o1>> @@ b :> <<o1, o2>>
NetInputHeight == o1 :> 1 @@ o2 :> 1
NetScore == [h \in {0, 4} |-> n1 :> 2 @@ n2 :> 1]
NetLists == {{n1, n2}}

=============================================================================
