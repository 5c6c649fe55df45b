---------------------------- MODULE MessageMap ----------------------------
(***************************************************************************)
(* What udp_receiver/container.h promises its callers: a finite map from   *)
(* 64-bit keys to messages in which the first insertion under a key wins   *)
(* and a removal forgets the key.  The binary search tree of Bst.tla is    *)
(* shown to implement it, and TcpQueue.tla and Client.tla use containers   *)
(* at this level.                                                          *)
(***************************************************************************)
EXTENDS Naturals

CONSTANTS Keys,      \* the keys in use, a set of naturals
          Messages   \* the values in use

VARIABLE store       \* the map: DOMAIN store is the set of keys present

Init == store = [k \in {} |-> 0]

(* Inserting under a key that is present changes nothing. *)
Insert(k, m) ==
  store' = [j \in DOMAIN store \cup {k} |->
              IF j \in DOMAIN store THEN store[j] ELSE m]

(* Removing an absent key changes nothing. *)
Remove(k) == store' = [j \in DOMAIN store \ {k} |-> store[j]]

Next == \E k \in Keys : Remove(k) \/ \E m \in Messages : Insert(k, m)

Spec == Init /\ [][Next]_store
=============================================================================
