------------------------------- MODULE Bst -------------------------------
(***************************************************************************)
(* The binary search tree behind every container of the receiver:          *)
(* udp_receiver/bst_api.h (nodes and pointers) and bst_impl.cpp (the       *)
(* object with m_root and m_size).  Nodes live in a heap, a partial        *)
(* function from addresses to nodes, so that leaks, dangling pointers and  *)
(* the identity of a node (what a reference returned by at() denotes) are  *)
(* part of the state.  A recursive C++ function that returns a pointer and *)
(* writes through pointers becomes a recursive function to a record        *)
(* [heap, node].  The callers' mutex makes each operation one step.        *)
(***************************************************************************)
EXTENDS Naturals, Sequences, FiniteSets

CONSTANTS Keys,        \* the keys the callers use
          Messages,    \* the messages the callers store: records with a MessageId
          Addresses,   \* the addresses operator new may return
          nullptr

ASSUME BstAssumption ==
  /\ Keys \subseteq Nat
  /\ \A m \in Messages : m.MessageId \in Keys
  /\ nullptr \notin Addresses
  /\ Cardinality(Addresses) >= Cardinality(Keys)

VARIABLES heap,        \* the live nodes, by address
          m_root,      \* bst_impl::m_root
          m_size       \* bst_impl::m_size

vars == <<heap, m_root, m_size>>

Pointers == Addresses \cup {nullptr}

Node == [key : Keys, value : Messages, left : Pointers, right : Pointers]

-----------------------------------------------------------------------------
(* bst_api.h.  A function that walks the tree is defined for the pointers  *)
(* that may be followed: those to live nodes, and nullptr.                 *)

Live(h) == DOMAIN h \cup {nullptr}

makeNode(k, m) == [key |-> k, value |-> m, left |-> nullptr, right |-> nullptr]

(* Mutant of search: the two descents swapped. *)
searchMirrored(h, root, key) ==
  LET find[a \in Live(h)] ==
        IF a = nullptr \/ h[a].key = key THEN a
        ELSE IF h[a].key < key THEN find[h[a].left]
        ELSE find[h[a].right]
  IN  find[root]

(* The node under root that holds key, or nullptr. *)
search(h, root, key) ==
  LET find[a \in Live(h)] ==
        IF a = nullptr \/ h[a].key = key THEN a
        ELSE IF h[a].key < key THEN find[h[a].right]
        ELSE find[h[a].left]
  IN  find[root]

(* The keys under root in the order toString visits them. *)
inorder(h, root) ==
  LET visit[a \in Live(h)] ==
        IF a = nullptr THEN <<>>
        ELSE visit[h[a].left] \o <<h[a].key>> \o visit[h[a].right]
  IN  visit[root]

(* root->left = p, root->right = p *)
setLeft(h, a, p)  == [h EXCEPT ![a].left = p]
setRight(h, a, p) == [h EXCEPT ![a].right = p]

(* insertNode stores a new node at address new unless the key is present. *)
insertNode(h, root, key, msg, new) ==
  LET ins[a \in Live(h)] ==
        IF a = nullptr
          THEN [heap |-> [b \in DOMAIN h \cup {new} |->
                            IF b = new THEN makeNode(key, msg) ELSE h[b]],
                node |-> new]
        ELSE IF key < h[a].key
          THEN LET r == ins[h[a].left]
               IN  [heap |-> setLeft(r.heap, a, r.node), node |-> a]
        ELSE IF key > h[a].key
          THEN LET r == ins[h[a].right]
               IN  [heap |-> setRight(r.heap, a, r.node), node |-> a]
        ELSE [heap |-> h, node |-> a]
  IN  ins[root]

(* Mutants of minValueNode: no descent at all, and a single step of it. *)
minValueNodeRoot(h, root) == root

minValueNodeOneStep(h, root) ==
  IF root = nullptr \/ h[root].left = nullptr THEN root ELSE h[root].left

minValueNode(h, root) ==
  LET leftmost[a \in Live(h)] ==
        IF a = nullptr \/ h[a].left = nullptr THEN a ELSE leftmost[h[a].left]
  IN  leftmost[root]

(* Mutant of free: the node is unlinked and never deleted. *)
freeForgotten(h, a) == h

free(h, a) == [b \in DOMAIN h \ {a} |-> h[b]]

(* Mutant of deleteNode, for a node without a left child: its right child's *)
(* content is copied up and the child's node deleted in its stead.         *)
deleteNodeCopiesUp(h, root, key) ==
  LET a == search(h, root, key)
      c == h[a].right
      Unlinked(p) == IF p = a THEN nullptr ELSE p
  IN  IF c # nullptr
        THEN [heap |-> free([h EXCEPT ![a] = h[c]], c), node |-> root]
        ELSE [heap |-> [b \in DOMAIN h \ {a} |->
                          [h[b] EXCEPT !.left = Unlinked(@), !.right = Unlinked(@)]],
              node |-> Unlinked(root)]

(* A node with two children takes over the key of its in-order successor,  *)
(* and the successor's node is the one deleted: the code copies the key    *)
(* and leaves the value of the node in place.                              *)
deleteNode(h, root, key) ==
  LET del[a \in Live(h)] == [k \in Keys |->
        IF a = nullptr THEN [heap |-> h, node |-> a]
        ELSE IF k < h[a].key
          THEN LET r == del[h[a].left][k]
               IN  [heap |-> setLeft(r.heap, a, r.node), node |-> a]
        ELSE IF k > h[a].key
          THEN LET r == del[h[a].right][k]
               IN  [heap |-> setRight(r.heap, a, r.node), node |-> a]
        ELSE IF h[a].left = nullptr
          THEN [heap |-> free(h, a), node |-> h[a].right]
        ELSE IF h[a].right = nullptr
          THEN [heap |-> free(h, a), node |-> h[a].left]
        ELSE LET next == h[minValueNode(h, h[a].right)].key
                 r    == del[h[a].right][next]
             IN  [heap |-> [setRight(r.heap, a, r.node) EXCEPT ![a].key = next],
                  node |-> a]]
  IN  del[root][key]

-----------------------------------------------------------------------------
(* bst_impl.cpp *)

contains(k) == search(heap, m_root, k) # nullptr

at(k) == heap[search(heap, m_root, k)].value   \* callers hold contains(k)

empty == m_size = 0

beginIndex == heap[minValueNode(heap, m_root)].key   \* callers hold ~empty

beginValue == at(beginIndex)

Init == heap = [a \in {} |-> 0] /\ m_root = nullptr /\ m_size = 0

(* Mutants of insert: m_size not counted; the last insertion wins. *)
insertUncounted(k, m) ==
  \/ contains(k) /\ UNCHANGED vars
  \/ /\ ~contains(k)
     /\ \E new \in Addresses \ DOMAIN heap :
          LET r == insertNode(heap, m_root, k, m, new)
          IN  heap' = r.heap /\ m_root' = r.node
     /\ UNCHANGED m_size

insertOrAssign(k, m) ==
  \/ /\ contains(k)
     /\ heap' = [heap EXCEPT ![search(heap, m_root, k)].value = m]
     /\ UNCHANGED <<m_root, m_size>>
  \/ /\ ~contains(k)
     /\ \E new \in Addresses \ DOMAIN heap :
          LET r == insertNode(heap, m_root, k, m, new)
          IN  heap' = r.heap /\ m_root' = r.node
     /\ m_size' = m_size + 1

insert(k, m) ==
  \/ contains(k) /\ UNCHANGED vars
  \/ /\ ~contains(k)
     /\ \E new \in Addresses \ DOMAIN heap :
          LET r == insertNode(heap, m_root, k, m, new)
          IN  heap' = r.heap /\ m_root' = r.node
     /\ m_size' = m_size + 1

add(m) == insert(m.MessageId, m)

remove(k) ==
  \/ ~contains(k) /\ UNCHANGED vars
  \/ /\ contains(k)
     /\ LET r == deleteNode(heap, m_root, k)
        IN  heap' = r.heap /\ m_root' = r.node
     /\ m_size' = m_size - 1

Insertion == \E m \in Messages : add(m) \/ \E k \in Keys : insert(k, m)

(* Everything the interface allows. *)
Next == Insertion \/ \E k \in Keys : remove(k)

Spec == Init /\ [][Next]_vars

(* The way every caller in the repository removes: the least key, of a     *)
(* container that is not empty.                                            *)
BeginNext == Insertion \/ (~empty /\ remove(beginIndex))

-----------------------------------------------------------------------------
TypeOK ==
  /\ DOMAIN heap \subseteq Addresses
  /\ \A a \in DOMAIN heap : heap[a] \in Node
  /\ m_root \in Pointers
  /\ m_size \in Nat

(* The nodes reachable from the root. *)
Reachable ==
  LET reach[a \in Live(heap)] ==
        IF a = nullptr THEN {}
        ELSE {a} \cup reach[heap[a].left] \cup reach[heap[a].right]
  IN  reach[m_root]

(* deleteNode and insert keep the order search relies on: the keys in      *)
(* toString's order are strictly increasing, so no node is reachable twice *)
(* and no key is stored twice.                                             *)
SearchTree ==
  LET keys == inorder(heap, m_root)
  IN  \A i \in 1 .. Len(keys) - 1 : keys[i] < keys[i + 1]

(* No operation leaks a node or keeps a pointer to a freed one, and m_size *)
(* counts the nodes: the unlinked node is always the deleted one, also     *)
(* when a node with two children is removed.                               *)
NoLeakNoDangling ==
  /\ Reachable = DOMAIN heap
  /\ m_size = Cardinality(DOMAIN heap)

(* beginIndex, the leftmost node, is the least key of the container and    *)
(* beginValue does not throw: the receiver's consumer takes both blindly.  *)
BeginIsLeast ==
  ~empty => /\ m_root # nullptr
            /\ \A k \in Keys : contains(k) => beginIndex <= k
            /\ contains(beginIndex)

(* A reference returned by at() or beginValue() still denotes the node of  *)
(* its key after insertions and after removals of the least key.           *)
ReferencesStable ==
  [][BeginNext =>
       \A k \in Keys : contains(k) /\ contains(k)' =>
         search(heap, m_root, k)' = search(heap, m_root, k)]_vars

(* The tree implements the map, with the keys alone ... *)
AnyMessage == CHOOSE m \in Messages : TRUE

KeyMap == INSTANCE MessageMap WITH
            Messages <- {AnyMessage},
            store    <- [k \in {j \in Keys : contains(j)} |-> AnyMessage]

(* Every operation inserts or removes the key it is given and no other.    *)
ImplementsKeys == KeyMap!Spec

(* ... and with the messages stored under them. *)
Stored == [k \in {j \in Keys : contains(j)} |-> at(k)]

Map == INSTANCE MessageMap WITH store <- Stored

(* For a caller that removes least keys only, from any tree it may find,   *)
(* the container is a map from keys to messages.                           *)
ImplementsMapAtBegin == [][BeginNext => [Map!Next]_Stored]_vars

(* The container is a map, whatever key is removed: at(k) is the message   *)
(* inserted under k.  It is what bst_api.h:134 says of deleteNode, "Copy   *)
(* the inorder successor's content to this node".                          *)
ImplementsMap == Map!Spec
=============================================================================
