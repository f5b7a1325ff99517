------------------------------ MODULE MCBudget ------------------------------
EXTENDS Budget

CONSTANTS p, q, self, other

F1 == [start |-> 7, payments |-> <<p>>]
MCFinals == {F1}
MCStart == [x \in {p, q} |-> 7]
MCEnd == [x \in {p, q} |-> 17]
MCAmount == [x \in {p, q} |-> IF x = p THEN 2 ELSE 1]
MCFeeRank == MCAmount
MCPaidAt == [x \in {p, q} \union MCFinals |-> CASE x = p -> 1 [] x = q -> 5 [] OTHER -> 4]
Vote(i, t, c) == [mn |-> other, item |-> i, time |-> t, choice |-> c]
MCVotes == {Vote(q, 5, "YES"), Vote(q, 6, "NO")}
MCFirstList == [list |-> {self, other}, enabled |-> 9]
MCLists == {MCFirstList, [list |-> {self}, enabled |-> 10]}
=============================================================================
