-------------------------- MODULE MCQueueTraffic --------------------------
(* Instance of QueueTraffic for TLC: at most MaxQueue messages wait at the *)
(* same time.  A full queue makes no push, so it does not starve the pops. *)
EXTENDS QueueTraffic

CONSTANT MaxQueue

MCNext == Next /\ queue' \subseteq 0 .. MaxQueue - 1

MCFairSpec == Init /\ [][MCNext]_vars /\ Fairness
=============================================================================
