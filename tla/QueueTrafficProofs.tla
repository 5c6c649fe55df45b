------------------------- MODULE QueueTrafficProofs -------------------------
(***************************************************************************)
(* Proofs about QueueTraffic.tla, for a queue of any length.               *)
(***************************************************************************)
EXTENDS QueueTraffic, FiniteSetTheorems, TLAPS

(* The invariant: the index of the watched message is in use, and only it  *)
(* is watched.                                                             *)
IInv ==
  /\ queue \subseteq Nat /\ IsFiniteSet(queue)
  /\ watched = {} \/ \E i \in queue : watched = {i}

LEMMA InitIInv == Init => IInv
BY FS_EmptySet DEF Init, IInv

LEMMA Step == IInv /\ [Next]_vars => IInv'
<1> SUFFICES ASSUME IInv, [Next]_vars PROVE IInv'
  OBVIOUS
<1>1. CASE Push
  <2> DEFINE size == Cardinality(queue)
  <2>1. /\ queue' = queue \cup {size}
        /\ watched' = watched \/ (watched = {} /\ watched' = {size})
    BY <1>1 DEF Push
  <2>2. size \in Nat /\ IsFiniteSet(queue \cup {size})
    BY FS_CardinalityType, FS_AddElement DEF IInv
  <2> HIDE DEF size
  <2> QED
    BY <2>1, <2>2 DEF IInv
<1>2. CASE Pop
  <2> DEFINE least == Min(queue)
  <2>1. queue' = queue \ {least} /\ watched' = watched \ {least}
    BY <1>2 DEF Pop
  <2>2. IsFiniteSet(queue \ {least})
    BY FS_RemoveElement DEF IInv
  <2> HIDE DEF least
  <2> QED
    BY <2>1, <2>2 DEF IInv
<1>3. CASE UNCHANGED vars
  BY <1>3 DEF vars, IInv
<1> QED
  BY <1>1, <1>2, <1>3 DEF Next

(* The watched message is in the queue until it is popped, and is popped   *)
(* once: no push takes its index or watches a second message.              *)
THEOREM TypeCorrect == Spec => []TypeOK
<1>1. IInv => TypeOK
  <2> SUFFICES ASSUME IInv PROVE TypeOK
    OBVIOUS
  <2>1. watched \subseteq queue
    BY DEF IInv
  <2>2. Cardinality(watched) = 0 \/ Cardinality(watched) = 1
    BY FS_EmptySet, FS_Singleton DEF IInv
  <2> QED
    BY <2>1, <2>2 DEF TypeOK
<1> QED
  BY <1>1, InitIInv, Step, PTL DEF Spec

(* Behind a message at index 1 there is no room below it: size() is at     *)
(* least 1 as long as it waits, so no push takes index 0.                  *)
LEMMA PushGoesBehind ==
  ASSUME IInv, NEW i \in queue
  PROVE  Cardinality(queue) \in Nat \ {0}
BY FS_CardinalityType, FS_EmptySet DEF IInv

(* Whatever is pushed while a message waits at index 0 or 1 goes behind    *)
(* it: the pops, which take the least index, bring it nearer one by one.   *)
THEOREM NotOvertaken == Spec => LowIndexNotOvertaken
<1>1. ASSUME IInv, [Next]_vars, watched \cap {0, 1} # {},
             NEW i \in watched \cap watched', NEW j \in queue', j < i
      PROVE  j \in queue
  <2>1. i \in {0, 1} /\ i \in queue
    BY <1>1 DEF IInv
  <2>2. j = 0 /\ i = 1
    BY <1>1, <2>1, Step DEF IInv
  <2>3. CASE Push
    BY <2>1, <2>2, <2>3, <1>1, PushGoesBehind DEF Push
  <2>4. CASE Pop \/ UNCHANGED vars
    BY <2>4, <1>1 DEF Pop, vars
  <2> QED
    BY <1>1, <2>3, <2>4 DEF Next
<1>2. ASSUME IInv, [Next]_vars
      PROVE  [watched \cap {0, 1} # {} =>
                \A i \in watched \cap watched', j \in queue' :
                  j < i => j \in queue]_vars
  BY <1>1, <1>2
<1> QED
  BY <1>2, InitIInv, Step, PTL DEF Spec, LowIndexNotOvertaken
=============================================================================
