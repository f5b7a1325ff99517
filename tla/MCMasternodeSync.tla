-------------------------- MODULE MCMasternodeSync --------------------------
(* Small instances of MasternodeSync for TLC.                              *)
EXTENDS MasternodeSync

(* No peer at first; peers connect in any order.                           *)
NoPeers == { << >> }

(* Every peer is connected from the start. The peers are alike, so one     *)
(* order of vNodes stands for all.                                         *)
CONSTANTS p1, p2, p3
AllPeers == { <<p1, p2, p3>> }

(* FairSpec up to the first verdict: a behaviour without a verdict is one  *)
(* of FairSpec, and nothing after the verdict matters to SyncDecides.      *)
Undecided == stage \notin {"FINISHED", "FAILED"}
UntilVerdict ==
    /\ Init /\ [][Undecided /\ Next]_vars
    /\ WF_vars(Undecided /\ ProcessLocked)
    /\ WF_vars(Undecided /\ CheckChain) /\ WF_vars(Undecided /\ NewTip)
    /\ \A p \in Peers, s \in Assets : WF_vars(Undecided /\ Answer(p, s))

=============================================================================
