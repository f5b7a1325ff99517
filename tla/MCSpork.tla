------------------------------ MODULE MCSpork ------------------------------
(* Small instances of Spork for TLC. An int has four bits here, and OFF is *)
(* beyond its range as 4070908800 is beyond that of 32 bits.               *)
EXTENDS Spork, TLC

CONSTANTS s11, s12, n1, n2, n3
Defaults == s11 :> 0 @@ s12 :> 0

=============================================================================
