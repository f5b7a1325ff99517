---------------------------- MODULE MCCheckQueue ----------------------------
(* CheckQueue for TLC: the constants are in MCCheckQueue.cfg.              *)
EXTENDS CheckQueue

=============================================================================
