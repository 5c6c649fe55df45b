----------------------------- MODULE MCSystem -----------------------------
(* Instances of System for TLC: each process is started at most MaxStarts  *)
(* times.  For safety the sender sends at most CountLimit - 1 messages per *)
(* start; for liveness its numbers wrap and it never stops sending.        *)
EXTENDS System

CONSTANT MaxStarts

FewStarts == era' <= MaxStarts /\ life' <= MaxStarts

MCSpec == Init /\ [][Next /\ FewStarts /\ NoWrap]_vars

MCFairSpec == Init /\ [][Next /\ FewStarts]_vars /\ Fairness
=============================================================================
