------------------------------ MODULE MCBst ------------------------------
(* Instances of Bst for TLC. *)
EXTENDS Bst, TLC

CONSTANT MaxKey

MCKeys == 0 .. MaxKey

(* Two messages with different ids and data: add() reaches two keys,       *)
(* insert() every key with either.                                         *)
MCMessages == {[MessageId |-> 1, MessageData |-> 0],
               [MessageId |-> 2, MessageData |-> 1]}

(* One address is as good as another. *)
MCSymmetry == Permutations(Addresses)
=============================================================================
