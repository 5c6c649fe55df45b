---------------------------- MODULE MCTcpQueue ----------------------------
(* Instance of TcpQueue for TLC: the number of pushes is bounded. *)
EXTENDS TcpQueue

CONSTANT MaxPushes

MCSpec == Init /\ [][Next /\ pushes' <= MaxPushes]_vars
=============================================================================
