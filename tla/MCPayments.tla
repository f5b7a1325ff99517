----------------------------- MODULE MCPayments -----------------------------
EXTENDS Payments

CONSTANTS m1, m2, m3

MCScore == [m \in {m1, m2, m3} |-> CASE m = m1 -> 2 [] m = m2 -> 3 [] m = m3 -> 1]

(* A vote at the far end of the handler's reach, two for the next block.   *)
MCOtherVotes ==
    {[mn |-> m2, height |-> 1, payee |-> m2], [mn |-> m2, height |-> 6, payee |-> m2],
     [mn |-> m3, height |-> 6, payee |-> m2]}
=============================================================================
