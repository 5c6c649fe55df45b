----------------------------- MODULE MCClient -----------------------------
(* Instances of Client for TLC: the sender stops after MaxReceived         *)
(* datagrams.                                                              *)
EXTENDS Client, TLC

CONSTANT MaxReceived

(* Two messages to resend and one to save only. *)
MCMessages == {MakeMessageDiv20(seed) : seed \in {9, 10, 30}}

(* Two messages to resend. *)
MCRelayed == {MakeMessageDiv20(seed) : seed \in {10, 30}}

(* One of each kind. *)
MCTwoMessages == {MakeMessageDiv20(seed) : seed \in {9, 10}}

MCSymmetry == Permutations(UdpThreads)

MCNext == Next /\ Len(received') + Len(inbox') <= MaxReceived

MCSpec == Init /\ [][MCNext]_vars

MCFairSpec == MCSpec /\ Fairness
=============================================================================
