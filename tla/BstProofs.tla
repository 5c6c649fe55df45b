----------------------------- MODULE BstProofs -----------------------------
(***************************************************************************)
(* Proofs about Bst.tla, for any keys, messages and addresses.  What the   *)
(* functions of bst_api.h do to one tree is in BstTrees.tla; here are the  *)
(* operations of bst_impl.cpp, in any order.                               *)
(***************************************************************************)
EXTENDS BstTrees

(* The nodes make one search tree, and m_size counts them. *)
IInv == IsTree(heap, m_root) /\ m_size = Cardinality(DOMAIN heap)

LEMMA InitIInv == Init => IInv
<1> SUFFICES ASSUME Init PROVE IInv
  OBVIOUS
<1>1. DOMAIN heap = {}
  BY DEF Init
<1> QED
  BY <1>1, EmptyTree, FS_EmptySet DEF Init, IInv

LEMMA ContainsStored ==
  ASSUME IInv, NEW k \in Keys
  PROVE  /\ contains(k) <=> Stores(heap, k)
         /\ contains(k) => /\ search(heap, m_root, k) \in DOMAIN heap
                           /\ heap[search(heap, m_root, k)].key = k
         /\ \A b \in DOMAIN heap : heap[b].key = k => search(heap, m_root, k) = b
BY SearchStored DEF IInv, contains

(* The new node of an insertion, and the old ones.                         *)
Added(k, m) ==
  \E new \in Addresses \ DOMAIN heap :
    /\ DOMAIN heap' = DOMAIN heap \cup {new}
    /\ \A b \in DOMAIN heap : /\ heap'[b].key = heap[b].key
                              /\ heap'[b].value = heap[b].value
    /\ heap'[new].key = k /\ heap'[new].value = m

LEMMA InsertStep ==
  ASSUME IInv, NEW k \in Keys, NEW m \in Messages, insert(k, m)
  PROVE  /\ IInv'
         /\ \/ contains(k) /\ UNCHANGED vars
            \/ ~contains(k) /\ Added(k, m)
<1>1. CASE contains(k) /\ UNCHANGED vars
  BY <1>1 DEF IInv, vars
<1>2. CASE ~contains(k)
  <2>1. PICK new \in Addresses \ DOMAIN heap :
          /\ heap' = insertNode(heap, m_root, k, m, new).heap
          /\ m_root' = insertNode(heap, m_root, k, m, new).node
          /\ m_size' = m_size + 1
    BY <1>2 DEF insert
  <2>2. IsTree(heap, m_root) /\ ~Stores(heap, k)
    BY <1>2, ContainsStored DEF IInv
  <2> DEFINE r == insertNode(heap, m_root, k, m, new)
  <2>3. /\ IsTree(r.heap, r.node)
        /\ DOMAIN r.heap = DOMAIN heap \cup {new}
        /\ \A b \in DOMAIN heap : /\ r.heap[b].key = heap[b].key
                                  /\ r.heap[b].value = heap[b].value
        /\ r.heap[new].key = k /\ r.heap[new].value = m
    BY <2>2, InsertTree
  <2>4. heap' = r.heap /\ m_root' = r.node
    BY <2>1
  <2> HIDE DEF r
  <2>5. IsFiniteSet(DOMAIN heap)
    BY <2>2, TreeType
  <2>6. m_size' = Cardinality(DOMAIN heap \cup {new})
    BY <2>1, <2>5, FS_AddElement DEF IInv
  <2>7. IInv'
    BY <2>3, <2>4, <2>6 DEF IInv
  <2>8. Added(k, m)
    BY <2>3, <2>4 DEF Added
  <2> QED BY <1>2, <2>7, <2>8
<1> QED
  BY <1>1, <1>2 DEF insert

(* The node a removal takes away, and the others.                          *)
Removed(k) ==
  \E d \in DOMAIN heap :
    /\ DOMAIN heap' = DOMAIN heap \ {d}
    /\ Others(heap, DOMAIN heap, d, k, [heap |-> heap', node |-> m_root'])

LEMMA RemoveStep ==
  ASSUME IInv, NEW k \in Keys, remove(k)
  PROVE  /\ IInv'
         /\ \/ ~contains(k) /\ UNCHANGED vars
            \/ contains(k) /\ Removed(k)
<1>1. CASE ~contains(k)
  BY <1>1 DEF IInv, vars, remove
<1>2. CASE contains(k)
  <2> DEFINE r == deleteNode(heap, m_root, k)
  <2>1. heap' = r.heap /\ m_root' = r.node /\ m_size' = m_size - 1
    BY <1>2 DEF remove
  <2>2. IsTree(heap, m_root) /\ Stores(heap, k)
    BY <1>2, ContainsStored DEF IInv
  <2>3. /\ IsTree(r.heap, r.node)
        /\ \E d \in DOMAIN heap : /\ DOMAIN r.heap = DOMAIN heap \ {d}
                                  /\ Others(heap, DOMAIN heap, d, k, r)
    BY <2>2, DeleteTree
  <2> HIDE DEF r
  <2>4. PICK d \in DOMAIN heap : /\ DOMAIN r.heap = DOMAIN heap \ {d}
                                 /\ Others(heap, DOMAIN heap, d, k, r)
    BY <2>3
  <2>5. IsFiniteSet(DOMAIN heap)
    BY <2>2, TreeType
  <2>6. m_size' = Cardinality(DOMAIN heap \ {d})
    BY <2>1, <2>5, FS_RemoveElement DEF IInv
  <2>7. IInv'
    BY <2>1, <2>3, <2>4, <2>6 DEF IInv
  <2>8. Others(heap, DOMAIN heap, d, k, [heap |-> heap', node |-> m_root'])
    BY <2>1, <2>4 DEF Others
  <2> QED
    BY <1>2, <2>1, <2>4, <2>7, <2>8 DEF Removed
<1> QED
  BY <1>1, <1>2

LEMMA BeginKey ==
  ASSUME IInv, ~empty
  PROVE  /\ m_root # nullptr
         /\ beginIndex \in Keys /\ Stores(heap, beginIndex)
         /\ \A b \in DOMAIN heap : beginIndex <= heap[b].key
<1>1. PICK sub : Rooted(heap, sub, m_root)
  BY DEF IInv, IsTree
<1>2. m_root # nullptr /\ m_root \in DOMAIN heap
  BY TreeType, FS_EmptySet DEF IInv, empty
<1>3. sub[m_root] = DOMAIN heap
  BY <1>1 DEF Rooted
<1>4. /\ minValueNode(heap, m_root) \in DOMAIN heap
      /\ \A b \in DOMAIN heap : heap[minValueNode(heap, m_root)].key <= heap[b].key
  BY <1>1, <1>2, <1>3, LeftmostIsLeast
<1>5. beginIndex \in Keys
  BY <1>4, HeapType, TreeType DEF IInv, beginIndex
<1> QED
  BY <1>2, <1>4, <1>5 DEF beginIndex, Stores

LEMMA AddKey ==
  ASSUME NEW m \in Messages PROVE m.MessageId \in Keys
BY BstAssumption

LEMMA Inductive == IInv /\ [Next]_vars => IInv'
<1> SUFFICES ASSUME IInv, [Next]_vars PROVE IInv'
  OBVIOUS
<1>1. ASSUME NEW m \in Messages, add(m) PROVE IInv'
  BY <1>1, AddKey, InsertStep DEF add
<1>2. ASSUME NEW m \in Messages, NEW k \in Keys, insert(k, m) PROVE IInv'
  BY <1>2, InsertStep
<1>3. ASSUME NEW k \in Keys, remove(k) PROVE IInv'
  BY <1>3, RemoveStep
<1>4. CASE UNCHANGED vars
  BY <1>4 DEF vars, IInv
<1> QED
  BY <1>1, <1>2, <1>3, <1>4 DEF Next, Insertion

(* After any operations the nodes are one search tree that m_size counts.  *)
THEOREM Invariance == Spec => []IInv
BY InitIInv, Inductive, PTL DEF Spec

-----------------------------------------------------------------------------
(* What the invariant says in the terms of Bst.tla.                        *)
LEMMA InvTypeOK ==
  ASSUME IInv PROVE TypeOK
<1>1. heap \in Heap /\ m_root \in Pointers /\ m_size \in Nat
  BY TreeType, FS_CardinalityType DEF IInv
<1> QED
  BY <1>1, HeapType DEF TypeOK

LEMMA InvSearchTree ==
  ASSUME NEW h, NEW root, IsTree(h, root)
  PROVE  \A i \in 1 .. Len(inorder(h, root)) - 1 :
           inorder(h, root)[i] < inorder(h, root)[i + 1]
<1>1. PICK sub : Rooted(h, sub, root)
  BY DEF IsTree
<1> DEFINE keys == inorder(h, root)
<1>2. keys \in Seq(Nat) /\ Ascending(keys)
  BY <1>1, InorderAscending
<1> HIDE DEF keys
<1>3. ASSUME NEW i \in 1 .. Len(keys) - 1 PROVE keys[i] < keys[i + 1]
  <2>1. i \in 1 .. Len(keys) /\ i + 1 \in 1 .. Len(keys) /\ i < i + 1
    BY <1>2
  <2> QED BY <1>2, <2>1 DEF Ascending
<1> QED
  BY <1>3 DEF keys

LEMMA AllReachable ==
  ASSUME IsTree(heap, m_root) PROVE Reachable = DOMAIN heap
<1>1. PICK sub : Rooted(heap, sub, m_root)
  BY DEF IsTree
<1> DEFINE f == CHOOSE reach : reach = [a \in Live(heap) |->
                  IF a = nullptr THEN {}
                  ELSE {a} \cup reach[heap[a].left] \cup reach[heap[a].right]]
<1>2. sub = [a \in Live(heap) |->
               IF a = nullptr THEN {}
               ELSE {a} \cup sub[heap[a].left] \cup sub[heap[a].right]]
  <2>1. sub = [a \in Live(heap) |-> sub[a]]
    BY <1>1 DEF Rooted, Trees
  <2>2. ASSUME NEW a \in Live(heap)
        PROVE  sub[a] = IF a = nullptr THEN {}
                        ELSE {a} \cup sub[heap[a].left] \cup sub[heap[a].right]
    <3>1. CASE a = nullptr
      BY <1>1, <3>1, SubType DEF Rooted
    <3>2. CASE a # nullptr
      <4>1. a \in DOMAIN heap
        BY <3>2 DEF Live
      <4>2. sub[a] = {a} \cup sub[heap[a].left] \cup sub[heap[a].right]
        BY <1>1, <4>1, TreesAt DEF Rooted
      <4> QED BY <3>2, <4>2
    <3> QED BY <3>1, <3>2
  <2> QED BY <2>1, <2>2, Zenon
<1>3. f = [a \in Live(heap) |->
             IF a = nullptr THEN {}
             ELSE {a} \cup f[heap[a].left] \cup f[heap[a].right]]
  BY <1>2, Zenon
<1>4. Reachable = f[m_root]
  BY Zenon DEF Reachable
<1> HIDE DEF f
<1> DEFINE S == {a \in Live(heap) : f[a] = sub[a]}
<1>5. nullptr \in S
  BY <1>1, <1>3, SubType DEF Rooted
<1>6. ASSUME NEW a \in DOMAIN heap, heap[a].left \in S, heap[a].right \in S
      PROVE  a \in S
  <2>1. /\ a \in Live(heap) /\ a # nullptr
        /\ sub[a] = {a} \cup sub[heap[a].left] \cup sub[heap[a].right]
    BY <1>1, TreesAt, SubType DEF Rooted
  <2>2. f[a] = {a} \cup f[heap[a].left] \cup f[heap[a].right]
    BY <1>3, <2>1
  <2> QED BY <1>6, <2>1, <2>2
<1> HIDE DEF S
<1>7. m_root \in S
  BY <1>1, <1>5, <1>6, TreeInduction DEF Rooted
<1> QED
  BY <1>1, <1>4, <1>7 DEF S, Rooted

LEMMA InvBeginIsLeast ==
  ASSUME IInv PROVE BeginIsLeast
<1> SUFFICES ASSUME ~empty
             PROVE  /\ m_root # nullptr
                    /\ \A k \in Keys : contains(k) => beginIndex <= k
                    /\ contains(beginIndex)
  BY DEF BeginIsLeast
<1>1. \A k \in Keys : contains(k) => beginIndex <= k
  BY BeginKey, ContainsStored DEF Stores
<1> QED BY <1>1, BeginKey, ContainsStored

-----------------------------------------------------------------------------
(* After any operations the state is well typed: no node points to memory  *)
(* that is not a node's, and m_size has not gone below 0.                  *)
THEOREM TypeCorrect == Spec => []TypeOK
BY InvTypeOK, Invariance, PTL

(* insert and remove keep the order search relies on, whatever is inserted *)
(* and removed: toString would print strictly increasing keys.             *)
THEOREM Ordered == Spec => []SearchTree
<1>1. IInv => SearchTree
  BY InvSearchTree DEF IInv, SearchTree
<1> QED
  BY <1>1, Invariance, PTL

(* No operation leaks a node or leaves a pointer to a freed one, and       *)
(* m_size is the number of nodes.                                          *)
THEOREM NothingLeaks == Spec => []NoLeakNoDangling
<1>1. IInv => NoLeakNoDangling
  BY AllReachable DEF IInv, NoLeakNoDangling
<1> QED
  BY <1>1, Invariance, PTL

(* The consumer may take beginIndex and beginValue of a container that is  *)
(* not empty: the key is stored, and no stored key is less.                *)
THEOREM BeginLeast == Spec => []BeginIsLeast
BY InvBeginIsLeast, Invariance, PTL

(* The callers' way of removing takes away the least key and its node; all *)
(* other nodes keep their keys and values.                                 *)
LEMMA RemoveBegin ==
  ASSUME IInv, ~empty, remove(beginIndex)
  PROVE  /\ IInv'
         /\ \E d \in DOMAIN heap :
              /\ DOMAIN heap' = DOMAIN heap \ {d} /\ heap[d].key = beginIndex
              /\ \A b \in DOMAIN heap \ {d} : /\ heap'[b].key = heap[b].key
                                              /\ heap'[b].value = heap[b].value
<1> DEFINE k == beginIndex
<1>1. /\ k \in Keys /\ contains(k)
      /\ \A b \in DOMAIN heap : k <= heap[b].key
  BY BeginKey, ContainsStored
<1>2. \A b \in DOMAIN heap : heap[b].key \in Nat /\ k \in Nat
  BY <1>1, TreeType, HeapType, BstAssumption DEF IInv
<1>3. remove(k)
  OBVIOUS
<1> HIDE DEF k
<1>4. IInv' /\ Removed(k)
  BY <1>1, <1>3, RemoveStep
<1>5. PICK d \in DOMAIN heap :
        /\ DOMAIN heap' = DOMAIN heap \ {d}
        /\ Others(heap, DOMAIN heap, d, k, [heap |-> heap', node |-> m_root'])
  BY <1>4 DEF Removed
<1>6. ~\E c \in DOMAIN heap : heap[c].key < k
  BY <1>1, <1>2
<1>7. /\ heap[d].key = k
      /\ \A b \in DOMAIN heap \ {d} : /\ heap'[b].key = heap[b].key
                                      /\ heap'[b].value = heap[b].value
  BY <1>5, <1>6 DEF Others
<1> QED
  BY <1>4, <1>5, <1>7 DEF k

(* A step of BeginNext leaves the nodes of the keys that stay alone.       *)
LEMMA BeginKeepsNodes ==
  ASSUME IInv, BeginNext
  PROVE  /\ IInv'
         /\ \A b \in DOMAIN heap \cap DOMAIN heap' :
              heap'[b].key = heap[b].key /\ heap'[b].value = heap[b].value
<1>1. ASSUME NEW k \in Keys, NEW m \in Messages, insert(k, m)
      PROVE  /\ IInv'
             /\ \A b \in DOMAIN heap \cap DOMAIN heap' :
                  heap'[b].key = heap[b].key /\ heap'[b].value = heap[b].value
  <2>1. IInv'
    BY <1>1, InsertStep
  <2>2. UNCHANGED heap \/ Added(k, m)
    BY <1>1, InsertStep DEF vars
  <2> QED BY <2>1, <2>2 DEF Added
<1>2. CASE ~empty /\ remove(beginIndex)
  BY <1>2, RemoveBegin
<1> QED
  BY <1>1, <1>2, AddKey DEF BeginNext, Insertion, add

(* A key that stays keeps its node. *)
LEMMA SameNode ==
  ASSUME IInv, BeginNext, NEW k \in Keys, contains(k), contains(k)'
  PROVE  search(heap, m_root, k)' = search(heap, m_root, k)
<1>1. IInv' /\ \A b \in DOMAIN heap \cap DOMAIN heap' : heap'[b].key = heap[b].key
  BY BeginKeepsNodes
<1> DEFINE a == search(heap, m_root, k)
<1>2. a \in DOMAIN heap /\ heap[a].key = k
  BY ContainsStored
<1>3. \A b \in DOMAIN heap' : heap'[b].key = k => search(heap, m_root, k)' = b
  <2>1. IsTree(heap', m_root')
    BY <1>1 DEF IInv
  <2> QED BY <2>1, SearchStored
<1>4. Stores(heap', k)
  <2>1. IsTree(heap', m_root') /\ search(heap', m_root', k) # nullptr
    BY <1>1 DEF IInv, contains
  <2> QED BY <2>1, SearchStored
<1> HIDE DEF a
<1>5. CASE a \in DOMAIN heap'
  BY <1>1, <1>2, <1>3, <1>5 DEF a
<1>6. CASE a \notin DOMAIN heap'
  (* Only a removal of the least key takes a node away, and its key too. *)
  <2>1. CASE Insertion
    <3>1. ASSUME NEW j \in Keys, NEW m \in Messages, insert(j, m)
          PROVE  DOMAIN heap \subseteq DOMAIN heap'
      <4>1. UNCHANGED heap \/ Added(j, m)
        BY <3>1, InsertStep DEF vars
      <4> QED BY <4>1 DEF Added
    <3>2. DOMAIN heap \subseteq DOMAIN heap'
      BY <2>1, <3>1, AddKey DEF Insertion, add
    <3> QED BY <1>2, <1>6, <3>2
  <2>2. CASE ~empty /\ remove(beginIndex)
    <3>1. PICK d \in DOMAIN heap :
            /\ DOMAIN heap' = DOMAIN heap \ {d}
            /\ \A b \in DOMAIN heap \ {d} : heap'[b].key = heap[b].key
      BY <2>2, RemoveBegin
    <3>2. d = a
      BY <1>2, <1>6, <3>1
    <3>3. PICK b \in DOMAIN heap \ {a} : heap[b].key = k
      BY <1>4, <3>1, <3>2 DEF Stores
    <3>4. a = b
      BY <3>3, ContainsStored DEF a
    <3> QED BY <3>3, <3>4
  <2> QED BY <2>1, <2>2 DEF BeginNext
<1> QED
  BY <1>5, <1>6

(* A reference returned by at() or beginValue() denotes the node of its    *)
(* key for as long as the key is stored, if keys are removed the way the   *)
(* consumer does.                                                          *)
THEOREM StableReferences == Spec => ReferencesStable
<1>1. ASSUME IInv, [Next]_vars
      PROVE  [BeginNext => \A k \in Keys : contains(k) /\ contains(k)' =>
                search(heap, m_root, k)' = search(heap, m_root, k)]_vars
  BY <1>1, SameNode
<1> QED
  BY <1>1, Invariance, PTL DEF Spec, ReferencesStable

-----------------------------------------------------------------------------
(* What an operation does to the set of the keys that are stored.          *)
LEMMA InsertKeys ==
  ASSUME IInv, NEW k \in Keys, NEW m \in Messages, insert(k, m)
  PROVE  \A j \in Keys : contains(j)' <=> j = k \/ contains(j)
<1>1. IInv'
  BY InsertStep
<1>2. \A j \in Keys : /\ contains(j) <=> Stores(heap, j)
                      /\ contains(j)' <=> Stores(heap', j)
  <2>1. IsTree(heap', m_root')
    BY <1>1 DEF IInv
  <2> QED BY <2>1, ContainsStored, SearchStored DEF contains
<1>3. CASE contains(k) /\ UNCHANGED vars
  BY <1>2, <1>3 DEF vars
<1>4. CASE Added(k, m)
  BY <1>2, <1>4 DEF Added, Stores
<1> QED
  BY <1>3, <1>4, InsertStep

LEMMA RemoveKeys ==
  ASSUME IInv, NEW k \in Keys, remove(k)
  PROVE  \A j \in Keys : contains(j)' <=> j # k /\ contains(j)
<1>1. IInv'
  BY RemoveStep
<1>2. IsTree(heap, m_root) /\ IsTree(heap', m_root')
  BY <1>1 DEF IInv
<1>3. \A j \in Keys : /\ contains(j) <=> Stores(heap, j)
                      /\ contains(j)' <=> Stores(heap', j)
  BY <1>2, SearchStored DEF contains
<1>4. CASE ~contains(k) /\ UNCHANGED vars
  BY <1>3, <1>4 DEF vars
<1>5. CASE Removed(k)
  <2>1. PICK d \in DOMAIN heap :
          /\ DOMAIN heap' = DOMAIN heap \ {d}
          /\ Others(heap, DOMAIN heap, d, k, [heap |-> heap', node |-> m_root'])
    BY <1>5 DEF Removed
  <2> DEFINE r == [heap |-> heap', node |-> m_root']
  <2>2. r.heap = heap' /\ r.node = m_root'
    OBVIOUS
  <2> HIDE DEF r
  <2>3. /\ ~Stores(r.heap, k)
        /\ \A j \in Keys \ {k} : Stores(r.heap, j) <=> Stores(heap, j)
    BY <1>2, <2>1, <2>2, OthersKeys DEF r
  <2> QED BY <1>3, <2>2, <2>3
<1> QED
  BY <1>4, <1>5, RemoveStep

KeySet == {j \in Keys : contains(j)}

(* The map of Stored, and of the keys alone, as functions on KeySet.       *)
LEMMA KeysInsert ==
  ASSUME IInv, NEW k \in Keys, NEW m \in Messages, insert(k, m)
  PROVE  KeySet' = KeySet \cup {k}
BY InsertKeys DEF KeySet

LEMMA KeysRemove ==
  ASSUME IInv, NEW k \in Keys, remove(k)
  PROVE  KeySet' = KeySet \ {k}
BY RemoveKeys DEF KeySet

(* Every operation inserts or removes the key it is given and no other:    *)
(* the tree implements a map, as far as its keys go, whatever is removed.  *)
THEOREM KeysImplemented == Spec => ImplementsKeys
<1>1. Init => KeyMap!Init
  <2> SUFFICES ASSUME Init PROVE KeyMap!Init
    OBVIOUS
  <2>1. \A j \in Keys : ~contains(j)
    <3>1. IInv /\ DOMAIN heap = {}
      BY InitIInv DEF Init
    <3> QED BY <3>1, ContainsStored DEF Stores
  <2>2. {j \in Keys : contains(j)} = {}
    BY <2>1
  <2> QED BY <2>2 DEF KeyMap!Init
<1>2. ASSUME IInv, NEW k \in Keys, NEW m \in Messages, insert(k, m)
      PROVE  KeyMap!Next
  <2>1. {j \in Keys : contains(j)}' = {j \in Keys : contains(j)} \cup {k}
    BY <1>2, KeysInsert DEF KeySet
  <2>2. KeyMap!Insert(k, AnyMessage)
    BY <2>1 DEF KeyMap!Insert
  <2> QED BY <2>2 DEF KeyMap!Next
<1>3. ASSUME IInv, NEW k \in Keys, remove(k)
      PROVE  KeyMap!Next
  <2>1. {j \in Keys : contains(j)}' = {j \in Keys : contains(j)} \ {k}
    BY <1>3, KeysRemove DEF KeySet
  <2>2. KeyMap!Remove(k)
    BY <2>1 DEF KeyMap!Remove
  <2> QED BY <2>2 DEF KeyMap!Next
<1>4. ASSUME IInv, Next PROVE KeyMap!Next
  BY <1>2, <1>3, <1>4, AddKey DEF Next, Insertion, add
<1>5. UNCHANGED vars => UNCHANGED [k \in {j \in Keys : contains(j)} |-> AnyMessage]
  BY DEF vars, contains
<1> QED
  BY <1>1, <1>4, <1>5, Invariance, PTL DEF Spec, ImplementsKeys, KeyMap!Spec

(* For a caller that removes least keys only the tree is a map from keys   *)
(* to messages: the first insertion under a key wins, at() returns what    *)
(* was inserted, and a removal forgets the key and nothing else.           *)
THEOREM MapImplementedAtBegin == Spec => ImplementsMapAtBegin
<1>1. ASSUME IInv, BeginNext, NEW k \in Keys, contains(k), contains(k)'
      PROVE  at(k)' = at(k)
  <2> DEFINE a == search(heap, m_root, k)
  <2>1. IInv' /\ \A b \in DOMAIN heap \cap DOMAIN heap' : heap'[b].value = heap[b].value
    BY <1>1, BeginKeepsNodes
  <2>2. a \in DOMAIN heap /\ a' = a
    BY <1>1, ContainsStored, SameNode
  <2>3. a' \in DOMAIN heap'
    <3>1. IsTree(heap', m_root') /\ search(heap', m_root', k) # nullptr
      BY <1>1, <2>1 DEF IInv, contains
    <3> QED BY <3>1, SearchStored
  <2>4. heap'[a].value = heap[a].value
    BY <2>1, <2>2, <2>3
  <2> QED BY <2>2, <2>4 DEF at
<1>2. ASSUME IInv, NEW k \in Keys, NEW m \in Messages, insert(k, m), BeginNext
      PROVE  Map!Next
  <2>1. KeySet' = KeySet \cup {k}
    BY <1>2, KeysInsert
  <2>2. k \notin KeySet => at(k)' = m
    <3> SUFFICES ASSUME k \notin KeySet PROVE at(k)' = m
      OBVIOUS
    <3>1. IInv' /\ Added(k, m)
      BY <1>2, InsertStep DEF KeySet
    <3>2. PICK new \in DOMAIN heap' : heap'[new].key = k /\ heap'[new].value = m
      BY <3>1 DEF Added
    <3>3. IsTree(heap', m_root')
      BY <3>1 DEF IInv
    <3>4. search(heap', m_root', k) = new
      BY <3>2, <3>3, SearchStored
    <3> QED BY <3>2, <3>4 DEF at
  <2>3. \A j \in KeySet : at(j)' = at(j)
    BY <1>1, <1>2, <2>1 DEF KeySet
  <2>4. Stored = [j \in KeySet |-> at(j)]
    BY DEF Stored, KeySet
  <2>5. Stored' = [j \in KeySet' |-> at(j)']
    BY DEF Stored, KeySet
  <2>6. Stored' = [j \in KeySet \cup {k} |-> IF j \in KeySet THEN Stored[j] ELSE m]
    <3>1. \A j \in KeySet \cup {k} : at(j)' = IF j \in KeySet THEN Stored[j] ELSE m
      BY <2>2, <2>3, <2>4
    <3> QED BY <2>1, <2>5, <3>1
  <2>7. DOMAIN Stored = KeySet
    BY <2>4
  <2>8. Map!Insert(k, m)
    BY <2>6, <2>7 DEF Map!Insert
  <2> QED BY <2>8 DEF Map!Next
<1>3. ASSUME IInv, NEW k \in Keys, remove(k), BeginNext
      PROVE  Map!Next
  <2>1. KeySet' = KeySet \ {k}
    BY <1>3, KeysRemove
  <2>2. \A j \in KeySet \ {k} : at(j)' = at(j)
    BY <1>1, <1>3, <2>1 DEF KeySet
  <2>3. Stored = [j \in KeySet |-> at(j)] /\ Stored' = [j \in KeySet' |-> at(j)']
    BY DEF Stored, KeySet
  <2>4. Stored' = [j \in KeySet \ {k} |-> Stored[j]] /\ DOMAIN Stored = KeySet
    BY <2>1, <2>2, <2>3
  <2>5. Map!Remove(k)
    BY <2>4 DEF Map!Remove
  <2> QED BY <2>5 DEF Map!Next
<1>4. ASSUME IInv, BeginNext PROVE Map!Next
  <2>1. ~empty => beginIndex \in Keys
    BY <1>4, BeginKey
  <2> QED
    BY <1>2, <1>3, <1>4, <2>1, AddKey DEF BeginNext, Insertion, add
<1>5. IInv => [BeginNext => [Map!Next]_Stored]_Stored
  BY <1>4
<1> QED
  BY <1>5, Invariance, PTL DEF ImplementsMapAtBegin
=============================================================================
