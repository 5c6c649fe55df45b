-------------------------- MODULE TcpQueueProofs --------------------------
(***************************************************************************)
(* Proofs about TcpQueue.tla, for every set of messages and any number of  *)
(* pushes and pops.                                                        *)
(***************************************************************************)
EXTENDS TcpQueue, FiniteSetTheorems, SequenceTheorems, TLAPS

-----------------------------------------------------------------------------
(* A finite non-empty set of naturals has a least element: the ordering of *)
(* its initial segments by inclusion is well founded.                      *)
LEMMA LeastExists ==
  ASSUME NEW S, S \subseteq Nat, IsFiniteSet(S), S # {}
  PROVE  \E x \in S : \A y \in S : x <= y
<1> DEFINE Below(x) == {y \in S : y < x}
           T == {Below(x) : x \in S}
           R == StrictSubsetOrdering(S)
<1>1. IsWellFoundedOn(R, FiniteSubsetsOf(S))
  BY FS_StrictSubsetOrderingWellFounded
<1>2. T \subseteq FiniteSubsetsOf(S) /\ T # {}
  <2>1. T \subseteq SUBSET S
    OBVIOUS
  <2>2. T # {}
    OBVIOUS
  <2> QED BY <2>1, <2>2, FS_FiniteSubsetsOfFinite
<1>3. PICK t \in T : \A u \in T : <<u, t>> \notin R
  <2> HIDE DEF R, T
  <2> QED BY <1>1, <1>2, WFMin
<1>4. PICK x \in S : t = Below(x)
  OBVIOUS
<1>5. ASSUME NEW y \in S, y < x PROVE FALSE
  <2>1. x \in Nat /\ y \in Nat /\ \A z \in S : z < y => z < x
    BY <1>5
  <2>2. y \in Below(x) /\ y \notin Below(y)
    BY <1>5, <2>1
  <2>3. Below(y) \subseteq Below(x)
    BY <2>1
  <2>4. <<Below(y), t>> \in R
    BY <2>2, <2>3, <1>4 DEF StrictSubsetOrdering
  <2> QED BY <1>3, <2>4
<1> QED BY <1>5

(* What beginIndex returns for a queue that is not empty. *)
LEMMA MinProperties ==
  ASSUME NEW S, S \subseteq Nat, IsFiniteSet(S), S # {}
  PROVE  Min(S) \in S /\ \A y \in S : Min(S) <= y
BY LeastExists DEF Min

-----------------------------------------------------------------------------
(* The inductive invariant.  Besides the properties themselves it says     *)
(* what keeps them: until its index 0 is popped the queue has no gaps;     *)
(* every index was once the size of a shorter queue; and while at most two *)
(* messages have been waiting, the order of the indices is the order of    *)
(* the pushes.                                                             *)
NoGapsUntilFirstPop ==
  0 \in DOMAIN queue => \A i \in Nat : i \in DOMAIN queue <=> i < size

IndicesBelowPeak == \A i \in DOMAIN queue : i < peak

QueuedInOrder ==
  /\ \A i, j \in DOMAIN queue : i < j => ticket[i] < ticket[j]
  /\ \A n \in DOMAIN popped : \A i \in DOMAIN queue : popped[n] < ticket[i]
  /\ \A n, o \in DOMAIN popped : n < o => popped[n] < popped[o]

IInv ==
  /\ TypeOK
  /\ Accounted
  /\ NoGapsUntilFirstPop
  /\ IndicesBelowPeak
  /\ LossNeedsBacklog
  /\ peak <= 2 => QueuedInOrder

-----------------------------------------------------------------------------
(* size() is a natural number, 0 for the empty queue only, and 1 only for  *)
(* a queue of one index.                                                   *)
LEMMA SizeType ==
  ASSUME IsFiniteSet(DOMAIN queue)
  PROVE  /\ size \in Nat
         /\ size = 0 <=> DOMAIN queue = {}
         /\ size = 1 => \A i, j \in DOMAIN queue : i = j
BY FS_CardinalityType, FS_EmptySet, FS_Singleton DEF size

LEMMA InitIInv == Init => IInv
<1> SUFFICES ASSUME Init PROVE IInv
  OBVIOUS
<1> USE DEF Init
<1>1. /\ DOMAIN queue = {} /\ DOMAIN ticket = {}
      /\ popped = <<>> /\ DOMAIN popped = {}
  OBVIOUS
<1>2. TypeOK
  BY <1>1, FS_EmptySet DEF TypeOK
<1>3. Accounted
  BY <1>1 DEF Accounted, Queued, Popped
<1> QED
  BY <1>1, <1>2, <1>3
  DEF IInv, NoGapsUntilFirstPop, IndicesBelowPeak, LossNeedsBacklog,
      QueuedInOrder

(* A push that is lost: its index is in use. *)
LEMMA LostPushStep ==
  ASSUME IInv, NEW m \in Messages, Push(m), size \in DOMAIN queue
  PROVE  IInv'
<1>1. /\ pushes' = pushes + 1
      /\ lost' = lost \cup {pushes + 1}
      /\ UNCHANGED <<queue, ticket, popped, peak>>
  BY DEF Push, insert
<1> USE DEF IInv
<1>2. TypeOK'
  BY <1>1 DEF TypeOK
<1>3. Accounted'
  <2>1. Queued' = Queued /\ Popped' = Popped
    BY <1>1 DEF Queued, Popped
  <2>2. Queued \subseteq 1 .. pushes /\ Popped \subseteq 1 .. pushes
    BY DEF Accounted
  <2>3. /\ (1 .. pushes) \cup {pushes + 1} = 1 .. pushes'
        /\ pushes + 1 \notin 1 .. pushes
    <3>1. pushes \in Nat
      BY DEF TypeOK
    <3> QED BY <1>1, <3>1
  <2>4. Queued' \cup lost' \cup Popped' = 1 .. pushes'
    BY <1>1, <2>1, <2>3 DEF Accounted
  <2>5. /\ Queued' \cap lost' = {} /\ Queued' \cap Popped' = {}
        /\ lost' \cap Popped' = {}
    BY <1>1, <2>1, <2>2, <2>3 DEF Accounted
  <2>6. /\ \A i, j \in DOMAIN queue' : ticket'[i] = ticket'[j] => i = j
        /\ \A n, o \in DOMAIN popped' : popped'[n] = popped'[o] => n = o
    BY <1>1 DEF Accounted
  <2> QED BY <2>4, <2>5, <2>6 DEF Accounted
<1>4. (NoGapsUntilFirstPop /\ IndicesBelowPeak /\ (peak <= 2 => QueuedInOrder))'
  BY <1>1 DEF NoGapsUntilFirstPop, IndicesBelowPeak, QueuedInOrder, size
<1>5. peak >= 2
  <2>1. size \in Nat /\ size # 0 /\ size < peak /\ peak \in Nat
    BY SizeType DEF TypeOK, IndicesBelowPeak
  <2> QED BY <2>1
<1>6. LossNeedsBacklog'
  BY <1>1, <1>5 DEF LossNeedsBacklog
<1> QED BY <1>2, <1>3, <1>4, <1>6

(* A push that is kept: the queue grows by its index. *)
LEMMA KeptPushStep ==
  ASSUME IInv, NEW m \in Messages, Push(m), size \notin DOMAIN queue
  PROVE  IInv'
<1> USE DEF IInv
<1> DEFINE D == DOMAIN queue
<1>1. /\ pushes' = pushes + 1
      /\ queue' = [j \in D \cup {size} |-> IF j = size THEN m ELSE queue[j]]
      /\ ticket' = [j \in D \cup {size} |->
                      IF j = size THEN pushes + 1 ELSE ticket[j]]
      /\ peak' = IF size + 1 > peak THEN size + 1 ELSE peak
      /\ UNCHANGED <<lost, popped>>
  BY DEF Push, insert
<1>2. /\ D \subseteq Nat /\ IsFiniteSet(D) /\ pushes \in Nat /\ peak \in Nat
      /\ \A i \in D : ticket[i] \in Nat /\ ticket[i] <= pushes
      /\ popped \in Seq(1 .. pushes)
  BY DEF TypeOK
<1>3. /\ size \in Nat
      /\ size = 0 <=> D = {}
      /\ size = 1 => \A i, j \in D : i = j
  BY <1>2, SizeType
<1>4. /\ DOMAIN queue' = D \cup {size}
      /\ DOMAIN ticket' = D \cup {size}
      /\ queue'[size] = m /\ ticket'[size] = pushes + 1
      /\ \A j \in D : queue'[j] = queue[j] /\ ticket'[j] = ticket[j]
  BY <1>1
<1>5. IsFiniteSet(D \cup {size}) /\ size' = size + 1
  BY <1>2, <1>4, FS_AddElement DEF size
<1>6. TypeOK'
  <2>1. popped' \in Seq(1 .. pushes')
    <3>1. 1 .. pushes \subseteq 1 .. pushes'
      BY <1>1, <1>2
    <3> QED BY <1>1, <1>2, <3>1, SeqMonotonic
  <2>2. ticket' \in [DOMAIN queue' -> 1 .. pushes']
    BY <1>1, <1>2, <1>4 DEF TypeOK
  <2>3. peak' \in Nat /\ lost' \subseteq 1 .. pushes' /\ pushes' \in Nat
    BY <1>1, <1>2, <1>3 DEF TypeOK
  <2>4. /\ DOMAIN queue' \subseteq Nat /\ IsFiniteSet(DOMAIN queue')
        /\ \A i \in DOMAIN queue' : queue'[i] \in Messages
        /\ queue' = [i \in DOMAIN queue' |-> queue'[i]]
    BY <1>1, <1>2, <1>3, <1>4, <1>5 DEF TypeOK
  <2> QED BY <1>4, <2>1, <2>2, <2>3, <2>4 DEF TypeOK
<1>7. Accounted'
  <2>1. Queued' = Queued \cup {pushes + 1}
    BY <1>4 DEF Queued, TypeOK
  <2>2. Popped' = Popped /\ lost' = lost
    BY <1>1 DEF Popped
  <2>3. Popped \subseteq 1 .. pushes /\ lost \subseteq 1 .. pushes
    BY DEF Accounted
  <2>4. (1 .. pushes) \cup {pushes + 1} = 1 .. pushes'
    BY <1>1, <1>2
  <2>5. pushes + 1 \notin 1 .. pushes
    BY <1>2
  <2>6. \A i, j \in DOMAIN queue' : ticket'[i] = ticket'[j] => i = j
    BY <1>2, <1>4 DEF Accounted
  <2>7. Queued' \cup lost' \cup Popped' = 1 .. pushes'
    BY <2>1, <2>2, <2>4 DEF Accounted
  <2>8. /\ Queued' \cap lost' = {} /\ Queued' \cap Popped' = {}
        /\ lost' \cap Popped' = {}
    BY <2>1, <2>2, <2>3, <2>5 DEF Accounted
  <2>9. \A n, o \in DOMAIN popped' : popped'[n] = popped'[o] => n = o
    BY <1>1 DEF Accounted
  <2> QED BY <2>6, <2>7, <2>8, <2>9 DEF Accounted
<1>8. NoGapsUntilFirstPop'
  BY <1>2, <1>3, <1>4, <1>5 DEF NoGapsUntilFirstPop
<1>9. IndicesBelowPeak'
  BY <1>1, <1>2, <1>3, <1>4 DEF IndicesBelowPeak
<1>10. LossNeedsBacklog'
  BY <1>1, <1>2, <1>3 DEF LossNeedsBacklog
<1>11. ASSUME peak' <= 2 PROVE QueuedInOrder'
  <2>1. peak <= 2 /\ size <= 1
    BY <1>1, <1>2, <1>3, <1>11
  <2>2. ASSUME NEW i \in D PROVE i < size
    <3>1. i \in Nat /\ i < 2 /\ size = 1
      BY <1>2, <1>3, <2>1 DEF IndicesBelowPeak
    <3> QED BY <3>1
  <2>3. \A i, j \in DOMAIN queue' : i < j => ticket'[i] < ticket'[j]
    BY <1>2, <1>3, <1>4, <2>1, <2>2 DEF QueuedInOrder
  <2>4. \A n \in DOMAIN popped : popped[n] \in Nat /\ popped[n] <= pushes
    BY <1>2
  <2>5. \A n \in DOMAIN popped' :
          \A i \in DOMAIN queue' : popped'[n] < ticket'[i]
    BY <1>1, <1>2, <1>4, <2>1, <2>4 DEF QueuedInOrder
  <2> QED BY <1>1, <2>1, <2>3, <2>5 DEF QueuedInOrder
<1> QED BY <1>6, <1>7, <1>8, <1>9, <1>10, <1>11

(* A pop: the least index leaves the queue. *)
LEMMA PopStep ==
  ASSUME IInv, Pop
  PROVE  IInv'
<1> USE DEF IInv
<1> DEFINE D == DOMAIN queue
           b == beginIndex
           k == Len(popped)
<1>1. D \subseteq Nat /\ IsFiniteSet(D) /\ D # {}
  BY DEF Pop, TypeOK
<1>2. b \in D /\ \A i \in D : b <= i
  BY <1>1, MinProperties DEF beginIndex
<1> HIDE DEF b
<1>3. /\ queue'  = [j \in D \ {b} |-> queue[j]]
      /\ ticket' = [j \in D \ {b} |-> ticket[j]]
      /\ popped' = Append(popped, ticket[b])
      /\ UNCHANGED <<pushes, lost, peak>>
  BY DEF Pop, remove, b
<1>4. /\ DOMAIN queue' = D \ {b} /\ DOMAIN ticket' = D \ {b}
      /\ \A j \in D \ {b} : queue'[j] = queue[j] /\ ticket'[j] = ticket[j]
  BY <1>3
<1>5. ticket[b] \in 1 .. pushes /\ pushes \in Nat /\ popped \in Seq(1 .. pushes)
  BY <1>2 DEF TypeOK
<1>6. /\ k \in Nat /\ DOMAIN popped = 1 .. k
      /\ DOMAIN popped' = 1 .. k + 1 /\ popped'[k + 1] = ticket[b]
      /\ \A n \in 1 .. k : popped'[n] = popped[n]
      /\ popped' \in Seq(1 .. pushes)
  BY <1>3, <1>5
<1>7. IsFiniteSet(D \ {b})
  BY <1>1, FS_RemoveElement
<1>8. TypeOK'
  <2>1. ticket' \in [DOMAIN queue' -> 1 .. pushes']
    BY <1>3, <1>4 DEF TypeOK
  <2>2. /\ DOMAIN queue' \subseteq Nat /\ IsFiniteSet(DOMAIN queue')
        /\ \A i \in DOMAIN queue' : queue'[i] \in Messages
        /\ queue' = [i \in DOMAIN queue' |-> queue'[i]]
    BY <1>1, <1>3, <1>4, <1>7 DEF TypeOK
  <2>3. popped' \in Seq(1 .. pushes')
    BY <1>3, <1>6
  <2>4. peak' \in Nat /\ lost' \subseteq 1 .. pushes' /\ pushes' \in Nat
    BY <1>3 DEF TypeOK
  <2> QED BY <1>4, <2>1, <2>2, <2>3, <2>4 DEF TypeOK
<1>9. Accounted'
  <2>1. Queued = Queued' \cup {ticket[b]}
    BY <1>2, <1>4 DEF Queued
  <2>2. ticket[b] \notin Queued'
    BY <1>2, <1>4 DEF Queued, Accounted
  <2>3. Popped' = Popped \cup {ticket[b]}
    BY <1>6 DEF Popped
  <2>4. ticket[b] \notin Popped
    BY <1>2 DEF Accounted, Queued
  <2>5. \A n, o \in DOMAIN popped' : popped'[n] = popped'[o] => n = o
    <3>1. \A n \in 1 .. k : popped[n] # ticket[b]
      BY <1>6, <2>4 DEF Popped
    <3>2. \A n \in 1 .. k + 1 : n \in 1 .. k \/ n = k + 1
      BY <1>6
    <3> QED BY <1>6, <3>1, <3>2 DEF Accounted
  <2>6. \A i, j \in DOMAIN queue' : ticket'[i] = ticket'[j] => i = j
    BY <1>4 DEF Accounted
  <2>7. /\ Queued' \cup lost' \cup Popped' = 1 .. pushes'
        /\ Queued' \cap lost' = {} /\ Queued' \cap Popped' = {}
        /\ lost' \cap Popped' = {}
    BY <1>3, <2>1, <2>2, <2>3 DEF Accounted
  <2> QED BY <2>5, <2>6, <2>7 DEF Accounted
<1>10. NoGapsUntilFirstPop'
  <2>1. 0 \notin D \ {b}
    BY <1>1, <1>2
  <2> QED BY <1>4, <2>1 DEF NoGapsUntilFirstPop
<1>11. IndicesBelowPeak' /\ LossNeedsBacklog'
  BY <1>3, <1>4 DEF IndicesBelowPeak, LossNeedsBacklog
<1>12. ASSUME peak' <= 2 PROVE QueuedInOrder'
  <2>1. QueuedInOrder
    BY <1>3, <1>12
  <2>2. \A i \in D \ {b} : b < i
    BY <1>1, <1>2
  <2>3. \A i, j \in DOMAIN queue' : i < j => ticket'[i] < ticket'[j]
    BY <1>4, <2>1 DEF QueuedInOrder
  <2>4. \A i \in D \ {b} : ticket[b] < ticket[i]
    BY <1>2, <2>1, <2>2 DEF QueuedInOrder
  <2>5. \A n \in 1 .. k + 1 : n \in 1 .. k \/ n = k + 1
    BY <1>6
  <2>6. \A n \in DOMAIN popped' :
          \A i \in DOMAIN queue' : popped'[n] < ticket'[i]
    BY <1>4, <1>6, <2>1, <2>4, <2>5 DEF QueuedInOrder
  <2>7. ASSUME NEW n \in 1 .. k + 1, NEW o \in 1 .. k + 1, n < o
        PROVE  popped'[n] < popped'[o]
    <3>1. n \in 1 .. k
      BY <1>6, <2>7
    <3>2. CASE o \in 1 .. k
      BY <1>6, <2>1, <2>7, <3>1, <3>2 DEF QueuedInOrder
    <3>3. CASE o = k + 1
      BY <1>2, <1>6, <2>1, <3>1, <3>3 DEF QueuedInOrder
    <3> QED BY <2>5, <3>2, <3>3
  <2> QED BY <1>6, <2>3, <2>6, <2>7 DEF QueuedInOrder
<1> QED BY <1>8, <1>9, <1>10, <1>11, <1>12

LEMMA Step == IInv /\ [Next]_vars => IInv'
<1> SUFFICES ASSUME IInv, [Next]_vars PROVE IInv'
  OBVIOUS
<1>1. CASE Pop
  BY <1>1, PopStep
<1>2. ASSUME NEW m \in Messages, Push(m) PROVE IInv'
  BY <1>2, LostPushStep, KeptPushStep
<1>3. CASE UNCHANGED vars
  <2> USE <1>3 DEF vars
  <2>1. TypeOK'
    BY DEF IInv, TypeOK
  <2>2. Accounted'
    BY DEF IInv, Accounted, Queued, Popped
  <2>3. NoGapsUntilFirstPop' /\ IndicesBelowPeak' /\ LossNeedsBacklog'
    BY DEF IInv, NoGapsUntilFirstPop, IndicesBelowPeak, LossNeedsBacklog, size
  <2>4. (peak <= 2 => QueuedInOrder)'
    BY DEF IInv, QueuedInOrder
  <2> QED BY <2>1, <2>2, <2>3, <2>4 DEF IInv
<1> QED BY <1>1, <1>2, <1>3 DEF Next

(* The invariant holds in every reachable state. *)
THEOREM Invariance == Spec => []IInv
BY InitIInv, Step, PTL DEF Spec

-----------------------------------------------------------------------------
(* Type correctness of the queue and its history. *)
THEOREM TypeCorrect == Spec => []TypeOK
<1>1. IInv => TypeOK
  BY DEF IInv
<1> QED BY <1>1, Invariance, PTL

(* Every push to m_containerTcpQueue is queued, lost or popped, in exactly *)
(* one place and once, however pushes and pops interleave.                 *)
THEOREM AllAccounted == Spec => []Accounted
<1>1. IInv => Accounted
  BY DEF IInv
<1> QED BY <1>1, Invariance, PTL

(* Until the message at index 0 is popped, inserting under size() appends. *)
THEOREM Appends == Spec => []AppendsUntilFirstPop
<1>1. IInv => AppendsUntilFirstPop
  BY DEF IInv, TypeOK, NoGapsUntilFirstPop, AppendsUntilFirstPop
<1> QED BY <1>1, Invariance, PTL

(* insert(size(), m) drops a message only after two have been waiting.     *)
THEOREM LossOnlyAfterBacklog == Spec => []LossNeedsBacklog
<1>1. IInv => LossNeedsBacklog
  BY DEF IInv
<1> QED BY <1>1, Invariance, PTL

(* The TCP thread overtakes no message unless three have been waiting.     *)
THEOREM OrderedWithoutBacklog == Spec => []OrderNeedsBacklog
<1>1. IInv => OrderNeedsBacklog
  BY DEF IInv, QueuedInOrder, OrderNeedsBacklog
<1> QED BY <1>1, Invariance, PTL

-----------------------------------------------------------------------------
(* A pop of the queue is a pop of the traffic, whichever push is watched.  *)
LEMMA TrafficPops ==
  ASSUME NEW n \in Nat, Pop
  PROVE  Traffic(n)!Pop
<1>1. Watched(n)' = Watched(n) \ {beginIndex}
  BY DEF Watched, Pop, remove
<1>2. DOMAIN queue' = DOMAIN queue \ {beginIndex} /\ DOMAIN queue # {}
  BY DEF Pop, remove
<1> QED
  BY <1>1, <1>2 DEF Traffic!Pop, Traffic!Min, Min, beginIndex

(* A push that is lost changes nothing of the traffic; one that is kept is *)
(* a push of it, and the one watched if its number is.                     *)
LEMMA TrafficPushes ==
  ASSUME IInv, NEW n \in Nat, NEW m \in Messages, Push(m)
  PROVE  [Traffic(n)!Next]_<<DOMAIN queue, Watched(n)>>
<1>1. CASE size \in DOMAIN queue
  BY <1>1 DEF Push, insert, Watched
<1>2. CASE size \notin DOMAIN queue
  <2>1. /\ DOMAIN queue' = DOMAIN queue \cup {size}
        /\ ticket' = [j \in DOMAIN queue \cup {size} |->
                        IF j = size THEN pushes + 1 ELSE ticket[j]]
    BY <1>2 DEF Push, insert
  <2>2. CASE n = pushes + 1
    <3>1. Watched(n) = {}
      BY <2>2 DEF Watched, IInv, TypeOK
    <3>2. Watched(n)' = {size}
      BY <1>2, <2>1, <2>2, <3>1 DEF Watched
    <3> QED
      BY <1>2, <2>1, <3>1, <3>2
      DEF Traffic!Next, Traffic!Push, Traffic!Cardinality, Cardinality, size
  <2>3. CASE n # pushes + 1
    <3>1. Watched(n)' = Watched(n)
      BY <1>2, <2>1, <2>3 DEF Watched
    <3> QED
      BY <2>1, <3>1
      DEF Traffic!Next, Traffic!Push, Traffic!Cardinality, Cardinality, size
  <2> QED
    BY <2>2, <2>3
<1> QED
  BY <1>1, <1>2

(* Whichever push is watched, the queue follows QueueTraffic.tla: what is  *)
(* shown there of one message holds of each that is handed over.           *)
THEOREM TrafficFollowed == Spec => FollowsTraffic
<1>1. Init => \A n \in 1 .. pushes + 1 : Traffic(n)!Init
  BY DEF Init, Watched, Traffic!Init
<1>2. ASSUME IInv, Next
      PROVE  \A n \in Nat : [Traffic(n)!Next]_<<DOMAIN queue, Watched(n)>>
  BY <1>2, TrafficPops, TrafficPushes DEF Next, Traffic!Next
<1>3. pushes \in Nat => 1 .. pushes + 1 \subseteq Nat
  OBVIOUS
<1>4. ASSUME IInv, [Next]_vars
      PROVE  [\A n \in 1 .. pushes + 1 :
                [Traffic(n)!Next]_<<DOMAIN queue, Watched(n)>>]_vars
  BY <1>2, <1>3, <1>4 DEF IInv, TypeOK
<1> QED
  BY <1>1, <1>4, Invariance, PTL DEF Spec, FollowsTraffic
=============================================================================
