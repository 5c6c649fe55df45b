---------------------------- MODULE MCContainer ----------------------------
(* Instances of Container for TLC. *)
EXTENDS Container, TLC

CONSTANT MaxKey

MCKeys == 0 .. MaxKey

MCMessages == {[MessageId |-> 0, MessageData |-> 0]}

(* Threads and addresses are interchangeable. *)
MCSymmetry == Permutations(Threads) \cup Permutations(Addresses)
=============================================================================
