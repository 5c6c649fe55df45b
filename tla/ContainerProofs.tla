-------------------------- MODULE ContainerProofs --------------------------
(***************************************************************************)
(* The lock of container.cpp keeps the operations of any number of threads *)
(* apart, in both builds: what a lookup has found still holds when the     *)
(* thread acts on it.  With what BstProofs.tla says of the tree's          *)
(* functions, the threads see a sound tree under the lock, their           *)
(* references stay good, and each operation is one step of Bst.tla.        *)
(***************************************************************************)
EXTENDS Container, FiniteSetTheorems, TLAPS

Labels == {"idle", "lock", "lookup", "link", "linked", "unlink", "unlinked",
           "refer", "unlock"}

(* Where a thread is between taking the lock and releasing it. *)
Inside == Labels \ {"idle", "lock"}

(* The types of what the control flow depends on. *)
ControlTypeOK ==
  /\ writer \in Threads \cup {None}
  /\ pc \in [Threads -> Labels]
  /\ call \in [Threads -> Calls]

(* Who is inside holds the lock, shared only in an operation that changes  *)
(* nothing; nobody shares it with a writer.                                *)
Holding ==
  /\ writer # None => readers = {}
  /\ \A t \in Threads :
       pc[t] \in Inside =>
         writer = t \/ (t \in readers /\ call[t].name \in Readers)

(* The label of a change says which operation makes it. *)
Changing ==
  \A t \in Threads :
    /\ pc[t] \in {"link", "linked"} => call[t].name = "insert"
    /\ pc[t] \in {"unlink", "unlinked"} => call[t].name = "remove"

IInv == ControlTypeOK /\ Holding /\ Changing /\ LookupStillHolds

-----------------------------------------------------------------------------
(* While one thread changes the tree no other is inside. *)
LEMMA AloneWhenChanging ==
  ASSUME IInv, NEW t \in Threads,
         pc[t] \in {"link", "linked", "unlink", "unlinked"}
  PROVE  writer = t /\ \A u \in Threads \ {t} : pc[u] \notin Inside
<1>1. call[t].name \notin Readers
  BY DEF IInv, Changing, Readers
<1>2. writer = t
  BY <1>1 DEF IInv, Holding, Inside, Labels
<1>3. readers = {}
  BY <1>2, ContainerAssumption DEF IInv, Holding
<1> QED
  BY <1>2, <1>3 DEF IInv, Holding

(* Initially nobody is inside. *)
LEMMA Initially == Init => IInv
<1> SUFFICES ASSUME Init PROVE IInv
  OBVIOUS
<1>1. ControlTypeOK
  BY DEF Init, ControlTypeOK, Labels
<1>2. \A t \in Threads : pc[t] = "idle"
  BY DEF Init
<1> QED
  BY <1>1, <1>2 DEF Init, IInv, Holding, Changing, LookupStillHolds, Inside, Labels

(* A step that leaves the tree alone leaves every lookup as it was, except *)
(* perhaps that of the thread that takes the step.                         *)
LEMMA OthersLookupHolds ==
  ASSUME IInv, NEW t \in Threads, NEW u \in Threads \ {t},
         UNCHANGED <<heap, m_root>>, pc'[u] = pc[u], call'[u] = call[u]
  PROVE  /\ pc'[u] = "link" => ~contains(u)'
         /\ pc'[u] \in {"unlink", "refer"} => contains(u)'
<1>1. contains(u)' <=> contains(u)
  BY DEF contains, Tree!contains
<1> QED
  BY <1>1 DEF IInv, LookupStillHolds

(* Every step of every thread preserves the invariant. *)
LEMMA Inductive == IInv /\ [Next]_vars => IInv'
<1> SUFFICES ASSUME IInv, [Next]_vars PROVE IInv'
  OBVIOUS
<1>1. CASE UNCHANGED vars
  <2>1. UNCHANGED <<heap, m_root, writer, readers, pc, call>>
    BY <1>1 DEF vars, treeVars, lockVars
  <2> QED
    BY <2>1 DEF IInv, ControlTypeOK, Holding, Changing, LookupStillHolds,
                contains, Tree!contains
<1>2. ASSUME NEW t \in Threads, Call(t) PROVE IInv'
  <2>1. /\ pc' = [pc EXCEPT ![t] = "lock"]
        /\ UNCHANGED <<heap, m_root, writer, readers>>
        /\ call' \in [Threads -> Calls]
        /\ \A u \in Threads \ {t} : call'[u] = call[u]
    BY <1>2 DEF Call, goto, treeVars, lockVars, IInv, ControlTypeOK
  <2>2. /\ pc' \in [Threads -> Labels] /\ pc'[t] = "lock"
        /\ \A u \in Threads \ {t} : pc'[u] = pc[u]
    BY <2>1 DEF IInv, ControlTypeOK, Labels
  <2>3. ControlTypeOK'
    BY <2>1, <2>2 DEF IInv, ControlTypeOK
  <2>4. Holding'
    BY <2>1, <2>2 DEF IInv, Holding, Inside
  <2>5. Changing'
    BY <2>1, <2>2 DEF IInv, Changing
  <2>6. LookupStillHolds'
    BY <2>1, <2>2, OthersLookupHolds DEF LookupStillHolds
  <2> QED
    BY <2>3, <2>4, <2>5, <2>6 DEF IInv
<1>3. ASSUME NEW t \in Threads, Lock(t) PROVE IInv'
  <2>1. /\ pc[t] = "lock" /\ pc' = [pc EXCEPT ![t] = "lookup"]
        /\ UNCHANGED <<heap, m_root, call>>
        /\ writer = None
    BY <1>3 DEF Lock, goto, treeVars, lockVars
  <2>2. /\ pc' \in [Threads -> Labels] /\ pc'[t] = "lookup"
        /\ \A u \in Threads \ {t} : pc'[u] = pc[u]
    BY <2>1 DEF IInv, ControlTypeOK, Labels
  <2>3. ControlTypeOK'
    BY <1>3, <2>1, <2>2 DEF Lock, IInv, ControlTypeOK
  <2>4. Holding'
    <3>1. CASE /\ call[t].name \in Readers
               /\ readers' = readers \cup {t} /\ UNCHANGED writer
      BY <3>1, <2>1, <2>2, ContainerAssumption DEF IInv, Holding
    <3>2. CASE readers = {} /\ writer' = t /\ UNCHANGED readers
      BY <3>2, <2>1, <2>2, ContainerAssumption DEF IInv, Holding
    <3> QED
      BY <3>1, <3>2, <1>3 DEF Lock
  <2>5. Changing'
    BY <2>1, <2>2 DEF IInv, Changing
  <2>6. LookupStillHolds'
    BY <2>1, <2>2, OthersLookupHolds DEF LookupStillHolds
  <2> QED
    BY <2>3, <2>4, <2>5, <2>6 DEF IInv
<1>4. ASSUME NEW t \in Threads, Lookup(t) PROVE IInv'
  <2>1. /\ pc[t] = "lookup"
        /\ UNCHANGED <<heap, m_root, writer, readers, call>>
    BY <1>4 DEF Lookup, treeVars, lockVars
  <2>2. \/ /\ call[t].name = "insert" /\ ~contains(t)
           /\ pc' = [pc EXCEPT ![t] = "link"]
        \/ /\ call[t].name = "remove" /\ contains(t)
           /\ pc' = [pc EXCEPT ![t] = "unlink"]
        \/ /\ call[t].name = "at" /\ contains(t)
           /\ pc' = [pc EXCEPT ![t] = "refer"]
        \/ pc' = [pc EXCEPT ![t] = "unlock"]
    BY <1>4 DEF Lookup, goto
  <2>3. /\ pc' \in [Threads -> Labels]
        /\ pc[t] \in Inside /\ pc'[t] \in {"link", "unlink", "refer", "unlock"}
        /\ \A u \in Threads \ {t} : pc'[u] = pc[u]
    BY <2>1, <2>2 DEF IInv, ControlTypeOK, Labels, Inside
  <2>4. /\ pc'[t] = "link" => call[t].name = "insert" /\ ~contains(t)
        /\ pc'[t] = "unlink" => call[t].name = "remove" /\ contains(t)
        /\ pc'[t] = "refer" => contains(t)
    BY <2>1, <2>2 DEF IInv, ControlTypeOK
  <2>5. ControlTypeOK'
    BY <2>1, <2>3 DEF IInv, ControlTypeOK
  <2>6. Holding'
    BY <2>1, <2>3 DEF IInv, Holding
  <2>7. Changing'
    BY <2>1, <2>3, <2>4 DEF IInv, Changing
  <2>8. LookupStillHolds'
    <3>1. contains(t)' <=> contains(t)
      BY <2>1 DEF contains, Tree!contains
    <3> QED
      BY <2>1, <2>3, <2>4, <3>1, OthersLookupHolds DEF LookupStillHolds
  <2> QED
    BY <2>5, <2>6, <2>7, <2>8 DEF IInv
<1>5. ASSUME NEW t \in Threads, Link(t) \/ Unlink(t) PROVE IInv'
  <2>1. /\ pc[t] \in {"link", "unlink"}
        /\ pc' = [pc EXCEPT ![t] = IF pc[t] = "link" THEN "linked" ELSE "unlinked"]
        /\ UNCHANGED <<writer, readers, call>>
    BY <1>5 DEF Link, Unlink, goto, lockVars
  <2>2. /\ pc' \in [Threads -> Labels]
        /\ pc'[t] = IF pc[t] = "link" THEN "linked" ELSE "unlinked"
        /\ \A u \in Threads \ {t} : pc'[u] = pc[u]
    BY <2>1 DEF IInv, ControlTypeOK, Labels
  <2>3. writer = t /\ \A u \in Threads \ {t} : pc[u] \notin Inside
    BY <2>1, AloneWhenChanging
  <2>4. ControlTypeOK'
    BY <2>1, <2>2 DEF IInv, ControlTypeOK
  <2>5. Holding'
    BY <2>1, <2>2, <2>3 DEF IInv, Holding
  <2>6. Changing'
    BY <2>1, <2>2 DEF IInv, Changing
  <2>7. LookupStillHolds'
    BY <2>2, <2>3 DEF LookupStillHolds, Inside, Labels
  <2> QED
    BY <2>4, <2>5, <2>6, <2>7 DEF IInv
<1>6. ASSUME NEW t \in Threads, Count(t) \/ Refer(t) PROVE IInv'
  <2>1. /\ pc[t] \in Inside /\ pc' = [pc EXCEPT ![t] = "unlock"]
        /\ UNCHANGED <<heap, m_root, writer, readers, call>>
    BY <1>6 DEF Count, Refer, goto, treeVars, lockVars, Inside, Labels
  <2>2. /\ pc' \in [Threads -> Labels] /\ pc'[t] = "unlock"
        /\ \A u \in Threads \ {t} : pc'[u] = pc[u]
    BY <2>1 DEF IInv, ControlTypeOK, Labels
  <2>3. ControlTypeOK'
    BY <2>1, <2>2 DEF IInv, ControlTypeOK
  <2>4. Holding'
    BY <2>1, <2>2 DEF IInv, Holding
  <2>5. Changing'
    BY <2>1, <2>2 DEF IInv, Changing
  <2>6. LookupStillHolds'
    BY <2>1, <2>2, OthersLookupHolds DEF LookupStillHolds
  <2> QED
    BY <2>3, <2>4, <2>5, <2>6 DEF IInv
<1>7. ASSUME NEW t \in Threads, Unlock(t) PROVE IInv'
  <2>1. /\ pc' = [pc EXCEPT ![t] = "idle"]
        /\ writer' = IF writer = t THEN None ELSE writer
        /\ readers' = readers \ {t}
        /\ UNCHANGED <<heap, m_root, call>>
    BY <1>7 DEF Unlock, goto, treeVars, lockVars
  <2>2. /\ pc' \in [Threads -> Labels] /\ pc'[t] = "idle"
        /\ \A u \in Threads \ {t} : pc'[u] = pc[u]
    BY <2>1 DEF IInv, ControlTypeOK, Labels
  <2>3. ControlTypeOK'
    BY <2>1, <2>2 DEF IInv, ControlTypeOK
  <2>4. Holding'
    BY <2>1, <2>2 DEF IInv, Holding, Inside
  <2>5. Changing'
    BY <2>1, <2>2 DEF IInv, Changing
  <2>6. LookupStillHolds'
    BY <2>1, <2>2, OthersLookupHolds DEF LookupStillHolds
  <2> QED
    BY <2>3, <2>4, <2>5, <2>6 DEF IInv
<1> QED
  BY <1>1, <1>2, <1>3, <1>4, <1>5, <1>6, <1>7 DEF Next

(* For any number of threads, and in both builds, what a lookup has found  *)
(* still holds when the thread acts on it.                                 *)
THEOREM LookupsHold == Spec => []LookupStillHolds
<1>1. IInv => LookupStillHolds
  BY DEF IInv
<1> QED
  BY <1>1, Initially, Inductive, PTL DEF Spec

-----------------------------------------------------------------------------
TP == INSTANCE BstProofs

(* The tree as the lock protects it: sound at every step, and counted but  *)
(* for the operation in progress.                                          *)
DataInv ==
  /\ shared \in Builds /\ readers \subseteq Threads
  /\ ref \in [Threads -> Addresses \cup {nullptr}]
  /\ m_size \in Nat
  /\ TP!IsTree(heap, m_root)
  /\ countedSize = Cardinality(DOMAIN heap)

LEMMA TreeAssumption == TP!BstAssumption
BY ContainerAssumption DEF Tree!BstAssumption, TP!BstAssumption,
   Tree!Cardinality, TP!Cardinality, Cardinality

LEMMA SameLookup ==
  ASSUME NEW h, NEW root, NEW k
  PROVE  /\ Tree!search(h, root, k) = TP!search(h, root, k)
         /\ Atomic!search(h, root, k) = TP!search(h, root, k)
<1>1. Tree!search(h, root, k) = TP!search(h, root, k)
  BY Zenon DEF Tree!search, TP!search, Tree!Live, TP!Live
<1>2. Atomic!search(h, root, k) = TP!search(h, root, k)
  BY Zenon DEF Atomic!search, TP!search, Atomic!Live, TP!Live
<1> QED BY <1>1, <1>2

LEMMA SameInsertion ==
  ASSUME NEW h, NEW root, NEW k, NEW m, NEW new
  PROVE  /\ Tree!insertNode(h, root, k, m, new) = TP!insertNode(h, root, k, m, new)
         /\ Atomic!insertNode(h, root, k, m, new) = TP!insertNode(h, root, k, m, new)
<1>1. Tree!insertNode(h, root, k, m, new) = TP!insertNode(h, root, k, m, new)
  BY Zenon DEF Tree!insertNode, TP!insertNode, Tree!Live, TP!Live,
               Tree!makeNode, TP!makeNode, Tree!setLeft, TP!setLeft,
               Tree!setRight, TP!setRight
<1>2. Atomic!insertNode(h, root, k, m, new) = TP!insertNode(h, root, k, m, new)
  BY Zenon DEF Atomic!insertNode, TP!insertNode, Atomic!Live, TP!Live,
               Atomic!makeNode, TP!makeNode, Atomic!setLeft, TP!setLeft,
               Atomic!setRight, TP!setRight
<1> QED BY <1>1, <1>2

LEMMA SameDeletion ==
  ASSUME NEW h, NEW root, NEW k
  PROVE  /\ Tree!deleteNode(h, root, k) = TP!deleteNode(h, root, k)
         /\ Atomic!deleteNode(h, root, k) = TP!deleteNode(h, root, k)
<1>1. Tree!deleteNode(h, root, k) = TP!deleteNode(h, root, k)
  BY Zenon DEF Tree!deleteNode, TP!deleteNode, Tree!Live, TP!Live,
               Tree!free, TP!free, Tree!minValueNode, TP!minValueNode,
               Tree!setLeft, TP!setLeft, Tree!setRight, TP!setRight
<1>2. Atomic!deleteNode(h, root, k) = TP!deleteNode(h, root, k)
  BY Zenon DEF Atomic!deleteNode, TP!deleteNode, Atomic!Live, TP!Live,
               Atomic!free, TP!free, Atomic!minValueNode, TP!minValueNode,
               Atomic!setLeft, TP!setLeft, Atomic!setRight, TP!setRight
<1> QED BY <1>1, <1>2

-----------------------------------------------------------------------------
(* A step of a thread that is not, and will not be, between changing the   *)
(* nodes and counting them.                                                *)
LEMMA NotCounting ==
  ASSUME IInv, NEW t \in Threads, NEW l \in Labels \ {"linked", "unlinked"},
         pc[t] \notin {"linked", "unlinked"}, pc' = [pc EXCEPT ![t] = l],
         m_size' = m_size
  PROVE  countedSize' = countedSize
<1>1. /\ pc'[t] = l
      /\ \A u \in Threads \ {t} : pc'[u] = pc[u]
  BY DEF IInv, ControlTypeOK
<1>2. \A u \in Threads : /\ pc'[u] = "linked" <=> pc[u] = "linked"
                         /\ pc'[u] = "unlinked" <=> pc[u] = "unlinked"
  BY <1>1
<1> QED
  BY <1>2 DEF countedSize

(* The steps that neither change the tree nor count.                       *)
LEMMA SilentStep ==
  ASSUME IInv, NEW t \in Threads,
         Call(t) \/ Lock(t) \/ Lookup(t) \/ Refer(t) \/ Unlock(t)
  PROVE  UNCHANGED <<heap, m_root, shared, m_size, countedSize>>
<1>1. UNCHANGED <<heap, m_root, m_size, shared>>
  BY DEF Call, Lock, Lookup, Refer, Unlock, treeVars, lockVars
<1>2. PICK l \in Labels \ {"linked", "unlinked"} : pc' = [pc EXCEPT ![t] = l]
  <2>1. Call(t) => pc' = [pc EXCEPT ![t] = "lock"]
    BY DEF Call, goto
  <2>2. Lock(t) => pc' = [pc EXCEPT ![t] = "lookup"]
    BY DEF Lock, goto
  <2>3. Lookup(t) => \E l \in {"link", "unlink", "refer", "unlock"} :
                       pc' = [pc EXCEPT ![t] = l]
    BY DEF Lookup, goto
  <2>4. Refer(t) => pc' = [pc EXCEPT ![t] = "unlock"]
    BY DEF Refer, goto
  <2>5. Unlock(t) => pc' = [pc EXCEPT ![t] = "idle"]
    BY DEF Unlock, goto
  <2> QED BY <2>1, <2>2, <2>3, <2>4, <2>5 DEF Labels
<1>3. pc[t] \notin {"linked", "unlinked"}
  BY DEF Call, Lock, Lookup, Refer, Unlock
<1>4. countedSize' = countedSize
  BY <1>1, <1>2, <1>3, NotCounting
<1> QED
  BY <1>1, <1>4

(* How many nodes a thread at a label has changed and not yet counted.     *)
counted(label, size) ==
  IF label = "linked" THEN size + 1
  ELSE IF label = "unlinked" THEN size - 1
  ELSE size

(* While a thread changes the tree it is the only one that counts.         *)
LEMMA CountingAlone ==
  ASSUME IInv, NEW t \in Threads, NEW l \in Labels,
         pc[t] \in {"link", "linked", "unlink", "unlinked"},
         pc' = [pc EXCEPT ![t] = l]
  PROVE  /\ countedSize = counted(pc[t], m_size)
         /\ countedSize' = counted(l, m_size')
<1>1. \A u \in Threads \ {t} : pc[u] # "linked" /\ pc[u] # "unlinked"
  BY AloneWhenChanging DEF Inside, Labels
<1>2. pc'[t] = l /\ \A u \in Threads \ {t} : pc'[u] = pc[u]
  BY DEF IInv, ControlTypeOK
<1>3. countedSize = counted(pc[t], m_size)
  BY <1>1 DEF countedSize, counted
<1>4. countedSize' = counted(l, m_size')
  BY <1>1, <1>2 DEF countedSize, counted
<1> QED
  BY <1>3, <1>4

LEMMA ContainsStored ==
  ASSUME DataInv, NEW k \in Keys
  PROVE  /\ Tree!contains(k) <=> TP!Stores(heap, k)
         /\ Tree!contains(k) => /\ Tree!search(heap, m_root, k) \in DOMAIN heap
                                /\ heap[Tree!search(heap, m_root, k)].key = k
BY SameLookup, TreeAssumption, TP!SearchStored DEF DataInv, Tree!contains

LEMMA CallKey ==
  ASSUME IInv, NEW t \in Threads
  PROVE  call[t].key \in Keys /\ call[t].msg \in Messages
<1>1. call[t] \in Calls
  BY DEF IInv, ControlTypeOK
<1> QED
  BY <1>1 DEF Calls

LEMMA TreeFinite ==
  ASSUME DataInv
  PROVE  /\ IsFiniteSet(DOMAIN heap) /\ heap \in TP!Heap
         /\ m_root \in Addresses \cup {nullptr}
<1>1. heap \in TP!Heap /\ TP!IsFiniteSet(DOMAIN heap) /\ m_root \in TP!Pointers
  BY TreeAssumption, TP!TreeType DEF DataInv
<1> QED
  BY <1>1 DEF TP!IsFiniteSet, IsFiniteSet, TP!Pointers

(* The new node of an insertion, and the old ones. *)
LEMMA LinkTree ==
  ASSUME IInv, DataInv, NEW t \in Threads, Link(t)
  PROVE  /\ TP!IsTree(heap', m_root')
         /\ \E new \in Addresses \ DOMAIN heap :
              /\ DOMAIN heap' = DOMAIN heap \cup {new}
              /\ \A b \in DOMAIN heap : heap'[b].key = heap[b].key
<1> DEFINE k == call[t].key
           m == call[t].msg
<1>1. PICK new \in Addresses \ DOMAIN heap :
        /\ heap' = Tree!insertNode(heap, m_root, k, m, new).heap
        /\ m_root' = Tree!insertNode(heap, m_root, k, m, new).node
  BY DEF Link
<1>2. k \in Keys /\ m \in Messages
  BY CallKey
<1>3. ~TP!Stores(heap, k)
  BY <1>2, ContainsStored DEF Link, IInv, LookupStillHolds, contains
<1> DEFINE r == TP!insertNode(heap, m_root, k, m, new)
<1>4. heap' = r.heap /\ m_root' = r.node
  BY <1>1, SameInsertion
<1>5. TP!IsTree(heap, m_root)
  BY DEF DataInv
<1> HIDE DEF k, m
<1>6. /\ TP!IsTree(r.heap, r.node)
      /\ DOMAIN r.heap = DOMAIN heap \cup {new}
      /\ \A b \in DOMAIN heap : r.heap[b].key = heap[b].key
  BY <1>2, <1>3, <1>5, TreeAssumption, TP!InsertTree
<1> QED
  BY <1>4, <1>6

LEMMA UnlinkTree ==
  ASSUME IInv, DataInv, NEW t \in Threads, Unlink(t)
  PROVE  /\ TP!IsTree(heap', m_root')
         /\ \E d \in DOMAIN heap : DOMAIN heap' = DOMAIN heap \ {d}
<1> DEFINE k == call[t].key
<1>1. /\ heap' = Tree!deleteNode(heap, m_root, k).heap
      /\ m_root' = Tree!deleteNode(heap, m_root, k).node
  BY DEF Unlink
<1>2. k \in Keys
  BY CallKey
<1>3. TP!Stores(heap, k)
  BY <1>2, ContainsStored DEF Unlink, IInv, LookupStillHolds, contains
<1> DEFINE r == TP!deleteNode(heap, m_root, k)
<1>4. heap' = r.heap /\ m_root' = r.node
  BY <1>1, SameDeletion
<1>5. TP!IsTree(heap, m_root)
  BY DEF DataInv
<1> HIDE DEF k
<1>6. /\ TP!IsTree(r.heap, r.node)
      /\ \E d \in DOMAIN heap : DOMAIN r.heap = DOMAIN heap \ {d}
  BY <1>2, <1>3, <1>5, TreeAssumption, TP!DeleteTree
<1> QED
  BY <1>4, <1>6

LEMMA DataInitially == Init => DataInv
<1> SUFFICES ASSUME Init PROVE DataInv
  OBVIOUS
<1>1. heap = [a \in {} |-> 0] /\ m_root = nullptr /\ m_size = 0
  BY DEF Init, Tree!Init
<1>2. TP!IsTree(heap, m_root)
  BY <1>1, TreeAssumption, TP!EmptyTree
<1>3. countedSize = 0
  BY <1>1 DEF Init, countedSize
<1>4. Cardinality(DOMAIN heap) = 0
  BY <1>1, FS_EmptySet
<1> QED
  BY <1>1, <1>2, <1>3, <1>4 DEF Init, DataInv

LEMMA DataInductive == IInv /\ DataInv /\ [Next]_vars => DataInv'
<1> SUFFICES ASSUME IInv, DataInv, [Next]_vars PROVE DataInv'
  OBVIOUS
<1>1. CASE UNCHANGED vars
  BY <1>1 DEF vars, treeVars, lockVars, DataInv, countedSize
<1>2. ASSUME NEW t \in Threads,
             Call(t) \/ Lock(t) \/ Lookup(t) \/ Refer(t) \/ Unlock(t)
      PROVE  DataInv'
  <2>1. UNCHANGED <<heap, m_root, shared, m_size, countedSize>>
    BY <1>2, SilentStep
  <2>2. readers' \subseteq Threads
    BY <1>2 DEF Call, Lock, Lookup, Refer, Unlock, DataInv, lockVars
  <2>3. ref' \in [Threads -> Addresses \cup {nullptr}]
    <3>1. CASE Refer(t)
      <4>1. Tree!search(heap, m_root, call[t].key) \in DOMAIN heap
        BY <3>1, CallKey, ContainsStored DEF Refer, IInv, LookupStillHolds, contains
      <4>2. DOMAIN heap \subseteq Addresses
        BY TreeFinite, TreeAssumption, TP!HeapType
      <4> QED BY <3>1, <4>1, <4>2 DEF Refer, DataInv
    <3>2. CASE ~Refer(t)
      BY <1>2, <3>2 DEF Call, Lock, Lookup, Unlock, DataInv
    <3> QED BY <3>1, <3>2
  <2> QED
    BY <2>1, <2>2, <2>3 DEF DataInv
<1>3. ASSUME NEW t \in Threads, Link(t) PROVE DataInv'
  <2>1. /\ pc[t] = "link" /\ pc' = [pc EXCEPT ![t] = "linked"]
        /\ UNCHANGED <<m_size, shared, readers, ref>>
    BY <1>3 DEF Link, goto, lockVars
  <2>2. countedSize = m_size /\ countedSize' = m_size' + 1
    BY <2>1, CountingAlone DEF Labels, counted
  <2>3. PICK new \in Addresses \ DOMAIN heap : DOMAIN heap' = DOMAIN heap \cup {new}
    BY <1>3, LinkTree
  <2>4. Cardinality(DOMAIN heap') = Cardinality(DOMAIN heap) + 1
    BY <2>3, TreeFinite, FS_AddElement
  <2>5. TP!IsTree(heap', m_root')
    BY <1>3, LinkTree
  <2> QED
    BY <2>1, <2>2, <2>4, <2>5 DEF DataInv
<1>4. ASSUME NEW t \in Threads, Unlink(t) PROVE DataInv'
  <2>1. /\ pc[t] = "unlink" /\ pc' = [pc EXCEPT ![t] = "unlinked"]
        /\ UNCHANGED <<m_size, shared, readers, ref>>
    BY <1>4 DEF Unlink, goto, lockVars
  <2>2. countedSize = m_size /\ countedSize' = m_size' - 1
    BY <2>1, CountingAlone DEF Labels, counted
  <2>3. PICK d \in DOMAIN heap : DOMAIN heap' = DOMAIN heap \ {d}
    BY <1>4, UnlinkTree
  <2>4. Cardinality(DOMAIN heap') = Cardinality(DOMAIN heap) - 1
    BY <2>3, TreeFinite, FS_RemoveElement
  <2>5. TP!IsTree(heap', m_root')
    BY <1>4, UnlinkTree
  <2> QED
    BY <2>1, <2>2, <2>4, <2>5 DEF DataInv
<1>5. ASSUME NEW t \in Threads, Count(t) PROVE DataInv'
  <2>1. /\ pc[t] \in {"linked", "unlinked"} /\ pc' = [pc EXCEPT ![t] = "unlock"]
        /\ m_size' = IF pc[t] = "linked" THEN m_size + 1 ELSE m_size - 1
        /\ UNCHANGED <<heap, m_root, shared, readers, ref>>
    BY <1>5 DEF Count, goto, lockVars
  <2>2. countedSize = m_size' /\ countedSize' = m_size'
    BY <2>1, CountingAlone DEF Labels, counted
  <2>3. Cardinality(DOMAIN heap) \in Nat
    BY TreeFinite, FS_CardinalityType
  <2> QED
    BY <2>1, <2>2, <2>3 DEF DataInv
<1> QED
  BY <1>1, <1>2, <1>3, <1>4, <1>5 DEF Next

(* The lock and the tree keep their invariants, whichever threads operate. *)
THEOREM Invariance == Spec => [](IInv /\ DataInv)
<1>1. Init => IInv /\ DataInv
  BY Initially, DataInitially
<1>2. (IInv /\ DataInv) /\ [Next]_vars => (IInv /\ DataInv)'
  BY Inductive, DataInductive
<1> QED
  BY <1>1, <1>2, PTL DEF Spec

(* No operation of any thread leaves the tree or the lock ill-typed: no    *)
(* node points to memory that is not a node's, and m_size has not gone     *)
(* below 0, whoever inserts and removes.                                   *)
THEOREM TypeCorrect == Spec => []TypeOK
<1>1. ASSUME IInv, DataInv PROVE TypeOK
  <2>1. heap \in TP!Heap /\ m_root \in Addresses \cup {nullptr}
    BY <1>1, TreeFinite
  <2>2. DOMAIN heap \subseteq Addresses /\ \A a \in DOMAIN heap : heap[a] \in TP!Node
    BY <2>1, TreeAssumption, TP!HeapType
  <2>3. \A a \in DOMAIN heap : heap[a] \in Tree!Node
    BY <2>2 DEF Tree!Node, TP!Node, Tree!Pointers, TP!Pointers
  <2>4. Tree!TypeOK
    BY <1>1, <2>1, <2>2, <2>3 DEF Tree!TypeOK, Tree!Pointers, DataInv
  <2> QED
    BY <1>1, <2>4 DEF TypeOK, IInv, ControlTypeOK, DataInv, Labels
<1> QED
  BY <1>1, Invariance, PTL

-----------------------------------------------------------------------------
LEMMA SameTraversal ==
  /\ Tree!inorder(heap, m_root) = TP!inorder(heap, m_root)
  /\ Tree!Reachable = TP!Reachable
<1>1. Tree!inorder(heap, m_root) = TP!inorder(heap, m_root)
  BY Zenon DEF Tree!inorder, TP!inorder, Tree!Live, TP!Live
<1>2. Tree!Reachable = TP!Reachable
  BY Zenon DEF Tree!Reachable, TP!Reachable, Tree!Live, TP!Live
<1> QED BY <1>1, <1>2

(* Nobody counts while a thread looks up. *)
LEMMA CountedAtLookup ==
  ASSUME IInv, NEW t \in Threads, pc[t] = "lookup"
  PROVE  countedSize = m_size
<1>1. ASSUME NEW u \in Threads, pc[u] \in {"linked", "unlinked"} PROVE FALSE
  <2>1. t \in Threads \ {u}
    BY <1>1
  <2> QED
    BY <1>1, <2>1, AloneWhenChanging DEF Inside, Labels
<1> QED
  BY <1>1 DEF countedSize

(* A thread that has taken the lock, either way, finds a search tree with  *)
(* no node leaked, and m_size says how many there are: so size() and       *)
(* empty() never return what an unfinished operation has left.             *)
THEOREM TreeUnderLock == Spec => []ConsistentUnderLock
<1>1. ASSUME IInv, DataInv, NEW t \in Threads, pc[t] = "lookup"
      PROVE  Tree!SearchTree /\ Tree!NoLeakNoDangling
  <2>1. TP!IsTree(heap, m_root) /\ m_size = Cardinality(DOMAIN heap)
    BY <1>1, CountedAtLookup DEF DataInv
  <2>2. Tree!SearchTree
    BY <2>1, TreeAssumption, TP!InvSearchTree, SameTraversal DEF Tree!SearchTree
  <2>3. Tree!Reachable = DOMAIN heap
    BY <2>1, TreeAssumption, TP!AllReachable, SameTraversal
  <2> QED
    BY <2>1, <2>2, <2>3 DEF Tree!NoLeakNoDangling, Tree!Cardinality, Cardinality
<1>2. IInv /\ DataInv => ConsistentUnderLock
  BY <1>1 DEF ConsistentUnderLock
<1> QED
  BY <1>2, Invariance, PTL

-----------------------------------------------------------------------------
(* A step leaves a reference of its own, or of another thread, denoting    *)
(* the node of its key unless the step removes a node.                     *)
LEMMA ReferenceStep ==
  ASSUME IInv, DataInv, [Next]_vars, NEW t \in Threads, ref'[t] # nullptr,
         ref[t] = nullptr \/ (Denotes(t) /\ ~\E u \in Threads : Unlink(u))
  PROVE  Denotes(t)'
<1>1. ASSUME UNCHANGED <<heap, ref, call>> PROVE Denotes(t)'
  BY <1>1 DEF Denotes
<1>2. CASE UNCHANGED vars
  BY <1>1, <1>2 DEF vars, treeVars
<1>3. ASSUME NEW u \in Threads, Call(u) PROVE Denotes(t)'
  <2>1. ref' = [ref EXCEPT ![u] = nullptr] /\ heap' = heap
    BY <1>3 DEF Call, treeVars
  <2>2. u # t /\ ref'[t] = ref[t]
    BY <2>1 DEF DataInv
  <2>3. call'[t] = call[t]
    BY <1>3, <2>2 DEF Call, IInv, ControlTypeOK
  <2> QED
    BY <2>1, <2>2, <2>3 DEF Denotes
<1>4. ASSUME NEW u \in Threads, Lock(u) \/ Lookup(u) \/ Count(u) \/ Unlock(u)
      PROVE  Denotes(t)'
  BY <1>1, <1>4 DEF Lock, Lookup, Count, Unlock, treeVars
<1>5. ASSUME NEW u \in Threads, Link(u) PROVE Denotes(t)'
  <2>1. ref' = ref /\ call' = call
    BY <1>5 DEF Link
  <2>2. DOMAIN heap \subseteq DOMAIN heap'
        /\ \A b \in DOMAIN heap : heap'[b].key = heap[b].key
    BY <1>5, LinkTree
  <2> QED
    BY <2>1, <2>2 DEF Denotes
<1>6. ASSUME NEW u \in Threads, Unlink(u) PROVE Denotes(t)'
  BY <1>6 DEF Unlink
<1>7. ASSUME NEW u \in Threads, Refer(u) PROVE Denotes(t)'
  <2>1. /\ pc[u] = "refer" /\ UNCHANGED <<heap, call>>
        /\ ref' = [ref EXCEPT ![u] = Tree!search(heap, m_root, call[u].key)]
    BY <1>7 DEF Refer, treeVars
  <2>2. CASE u = t
    <3>1. contains(t) /\ call[t].key \in Keys
      BY <2>1, <2>2, CallKey DEF IInv, LookupStillHolds
    <3>2. /\ Tree!search(heap, m_root, call[t].key) \in DOMAIN heap
          /\ heap[Tree!search(heap, m_root, call[t].key)].key = call[t].key
      BY <3>1, ContainsStored DEF contains
    <3>3. ref'[t] = Tree!search(heap, m_root, call[t].key)
      BY <2>1, <2>2 DEF DataInv
    <3> QED
      BY <2>1, <3>2, <3>3 DEF Denotes
  <2>3. CASE u # t
    BY <2>1, <2>3 DEF Denotes, DataInv
  <2> QED
    BY <2>2, <2>3
<1> QED
  BY <1>2, <1>3, <1>4, <1>5, <1>6, <1>7 DEF Next

(* The reference at() returns past its lock denotes the node of the key it *)
(* was asked for, and keeps doing so whatever other threads insert: only a *)
(* removal can take the node away.                                         *)
THEOREM ReferencesStayLive == Spec => ReferencesLive
<1>1. ASSUME IInv, DataInv, [Next]_vars
      PROVE  [\A t \in Threads :
                /\ ref'[t] # nullptr
                /\ ref[t] = nullptr \/ (Denotes(t) /\ ~\E u \in Threads : Unlink(u))
                => Denotes(t)']_vars
  BY <1>1, ReferenceStep
<1> QED
  BY <1>1, Invariance, PTL DEF Spec, ReferencesLive

-----------------------------------------------------------------------------
LEMMA AtomicInit == Init => Atomic!Init
<1> SUFFICES ASSUME Init PROVE Atomic!Init
  OBVIOUS
<1>1. heap = [a \in {} |-> 0] /\ m_root = nullptr /\ m_size = 0
  BY DEF Init, Tree!Init
<1>2. countedSize = 0
  BY <1>1 DEF Init, countedSize
<1> QED
  BY <1>1, <1>2 DEF Atomic!Init

(* A step of Container.tla is an insertion, a removal or a stutter of      *)
(* Bst.tla, whichever thread takes it.                                     *)
LEMMA AtomicStep ==
  ASSUME IInv, DataInv, [Next]_vars PROVE [Atomic!Next]_(Atomic!vars)
<1>1. CASE UNCHANGED vars
  BY <1>1 DEF vars, treeVars, countedSize, Atomic!vars
<1>2. ASSUME NEW t \in Threads,
             Call(t) \/ Lock(t) \/ Lookup(t) \/ Refer(t) \/ Unlock(t)
      PROVE  UNCHANGED Atomic!vars
  BY <1>2, SilentStep DEF Atomic!vars
<1>3. ASSUME NEW t \in Threads, Link(t) PROVE Atomic!Next
  <2>1. /\ pc[t] = "link" /\ pc' = [pc EXCEPT ![t] = "linked"] /\ m_size' = m_size
    BY <1>3 DEF Link, goto
  <2>2. countedSize' = countedSize + 1
    BY <2>1, CountingAlone DEF Labels, counted
  <2>3. ~Atomic!contains(call[t].key)
    BY <2>1, SameLookup DEF IInv, LookupStillHolds, contains, Tree!contains, Atomic!contains
  <2> DEFINE k == call[t].key
             m == call[t].msg
  <2>4. \E new \in Addresses \ DOMAIN heap :
          /\ heap' = Atomic!insertNode(heap, m_root, k, m, new).heap
          /\ m_root' = Atomic!insertNode(heap, m_root, k, m, new).node
    BY <1>3, SameInsertion DEF Link
  <2>5. k \in Keys /\ m \in Messages
    BY CallKey
  <2>6. Atomic!insert(k, m)
    BY <2>2, <2>3, <2>4 DEF Atomic!insert
  <2> QED
    BY <2>5, <2>6 DEF Atomic!Next, Atomic!Insertion
<1>4. ASSUME NEW t \in Threads, Unlink(t) PROVE Atomic!Next
  <2>1. /\ pc[t] = "unlink" /\ pc' = [pc EXCEPT ![t] = "unlinked"] /\ m_size' = m_size
    BY <1>4 DEF Unlink, goto
  <2>2. countedSize' = countedSize - 1
    BY <2>1, CountingAlone DEF Labels, counted
  <2>3. Atomic!contains(call[t].key)
    BY <2>1, SameLookup DEF IInv, LookupStillHolds, contains, Tree!contains, Atomic!contains
  <2> DEFINE k == call[t].key
  <2>4. /\ heap' = Atomic!deleteNode(heap, m_root, k).heap
        /\ m_root' = Atomic!deleteNode(heap, m_root, k).node
    BY <1>4, SameDeletion DEF Unlink
  <2>5. Atomic!remove(k)
    BY <2>2, <2>3, <2>4 DEF Atomic!remove
  <2> QED
    BY <2>5, CallKey DEF Atomic!Next
<1>5. ASSUME NEW t \in Threads, Count(t) PROVE UNCHANGED Atomic!vars
  <2>1. /\ pc[t] \in {"linked", "unlinked"} /\ pc' = [pc EXCEPT ![t] = "unlock"]
        /\ m_size' = IF pc[t] = "linked" THEN m_size + 1 ELSE m_size - 1
        /\ UNCHANGED <<heap, m_root>>
    BY <1>5 DEF Count, goto
  <2>2. countedSize' = countedSize
    BY <2>1, CountingAlone DEF Labels, counted
  <2> QED
    BY <2>1, <2>2 DEF Atomic!vars
<1> QED
  BY <1>1, <1>2, <1>3, <1>4, <1>5 DEF Next

(* The lock makes every operation one step: the threads together use the   *)
(* tree as Bst.tla says, each operation taking effect where it changes the *)
(* nodes, in both builds.                                                  *)
THEOREM TreeImplemented == Spec => ImplementsTree
<1>1. IInv /\ DataInv /\ [Next]_vars => [Atomic!Next]_(Atomic!vars)
  BY AtomicStep
<1> QED
  BY <1>1, AtomicInit, Invariance, PTL DEF Spec, ImplementsTree, Atomic!Spec
=============================================================================
