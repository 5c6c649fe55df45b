------------------------------ MODULE BstTrees ------------------------------
(***************************************************************************)
(* What the functions of bst_api.h compute on a search tree, for any       *)
(* finite set of nodes.                                                    *)
(***************************************************************************)
EXTENDS Bst, FiniteSetTheorems, SequenceTheorems, TLAPS

Heap == UNION {[D -> Node] : D \in SUBSET Addresses}

(* sub gives, for each pointer into the heap h, the addresses of the nodes *)
(* below it, itself included.  The node at a is in order: its subtrees are *)
(* disjoint, it is in neither, and its key separates theirs.               *)
InPlace(h, sub, a) ==
  LET l == h[a].left
      r == h[a].right
  IN  /\ l \in DOMAIN sub /\ r \in DOMAIN sub
      /\ sub[a] = {a} \cup sub[l] \cup sub[r]
      /\ a \notin sub[l] /\ a \notin sub[r] /\ sub[l] \cap sub[r] = {}
      /\ \A b \in sub[l] : h[b].key < h[a].key
      /\ \A b \in sub[r] : h[a].key < h[b].key

(* The nodes of h form search trees, and sub is what is below each. *)
Trees(h, sub) ==
  /\ h \in Heap /\ IsFiniteSet(DOMAIN h)
  /\ sub \in [Live(h) -> SUBSET DOMAIN h]
  /\ sub[nullptr] = {}
  /\ \A a \in DOMAIN h : InPlace(h, sub, a)

(* A heap whose nodes are all below root. *)
Rooted(h, sub, root) ==
  Trees(h, sub) /\ root \in Live(h) /\ sub[root] = DOMAIN h

-----------------------------------------------------------------------------
LEMMA HeapType ==
  ASSUME NEW h \in Heap
  PROVE  /\ DOMAIN h \subseteq Addresses /\ nullptr \notin DOMAIN h
         /\ h \in [DOMAIN h -> Node]
         /\ \A a \in DOMAIN h : /\ h[a] \in Node
                                /\ h[a].key \in Keys /\ h[a].key \in Nat
                                /\ h[a].value \in Messages
                                /\ h[a].left \in Pointers
                                /\ h[a].right \in Pointers
<1>1. PICK D \in SUBSET Addresses : h \in [D -> Node]
  BY DEF Heap
<1>2. D = DOMAIN h
  BY <1>1
<1>3. \A a \in DOMAIN h : h[a] \in Node
  BY <1>1, <1>2
<1> QED
  BY <1>1, <1>2, <1>3, BstAssumption DEF Node

(* What Trees says of one node. *)
LEMMA TreesAt ==
  ASSUME NEW h, NEW sub, Trees(h, sub), NEW a \in DOMAIN h
  PROVE  /\ h[a].left \in Live(h) /\ h[a].right \in Live(h)
         /\ sub[a] = {a} \cup sub[h[a].left] \cup sub[h[a].right]
         /\ a \in sub[a]
         /\ a \notin sub[h[a].left] /\ a \notin sub[h[a].right]
         /\ sub[h[a].left] \cap sub[h[a].right] = {}
         /\ \A b \in sub[h[a].left] : h[b].key < h[a].key
         /\ \A b \in sub[h[a].right] : h[a].key < h[b].key
BY DEF Trees, InPlace, Live

LEMMA SubType ==
  ASSUME NEW h, NEW sub, Trees(h, sub)
  PROVE  /\ \A a \in Live(h) : sub[a] \subseteq DOMAIN h
         /\ sub[nullptr] = {} /\ nullptr \in Live(h)
         /\ DOMAIN h \subseteq Live(h) /\ DOMAIN sub = Live(h)
         /\ nullptr \notin DOMAIN h
BY HeapType DEF Trees, Live

(* Induction from the leaves to the root. *)
LEMMA TreeInduction ==
  ASSUME NEW h, NEW sub, Trees(h, sub),
         NEW S, nullptr \in S,
         \A a \in DOMAIN h : h[a].left \in S /\ h[a].right \in S => a \in S
  PROVE  Live(h) \subseteq S
<1> DEFINE Bad == DOMAIN h \ S
           T == {sub[a] : a \in Bad}
           R == StrictSubsetOrdering(DOMAIN h)
<1> SUFFICES ASSUME Bad # {} PROVE FALSE
  BY DEF Live
<1>1. IsWellFoundedOn(R, FiniteSubsetsOf(DOMAIN h))
  BY FS_StrictSubsetOrderingWellFounded
<1>2. T \subseteq FiniteSubsetsOf(DOMAIN h) /\ T # {}
  <2>1. T \subseteq SUBSET DOMAIN h /\ T # {}
    BY SubType
  <2> QED
    BY <2>1, FS_FiniteSubsetsOfFinite DEF Trees
<1>3. PICK t \in T : \A u \in T : <<u, t>> \notin R
  <2> HIDE DEF R, T
  <2> QED BY <1>1, <1>2, WFMin
<1>4. PICK a \in Bad : t = sub[a]
  OBVIOUS
<1>5. ASSUME NEW c \in {h[a].left, h[a].right} PROVE c \in S
  <2>1. /\ c \in Live(h) /\ a \in sub[a] /\ a \notin sub[c]
        /\ sub[c] \subseteq sub[a] /\ sub[a] \subseteq DOMAIN h
    BY TreesAt, SubType
  <2>2. <<sub[c], t>> \in R
    BY <2>1, <1>4 DEF StrictSubsetOrdering
  <2>3. c \notin Bad
    BY <1>3, <2>2
  <2> QED
    BY <2>1, <2>3 DEF Live
<1> QED
  BY <1>4, <1>5

(* A node below another has its subtrees below it too. *)
LEMMA BelowClosed ==
  ASSUME NEW h, NEW sub, Trees(h, sub)
  PROVE  \A a \in Live(h) : \A b \in sub[a] :
           /\ b \in DOMAIN h /\ sub[b] \subseteq sub[a]
           /\ sub[h[b].left] \subseteq sub[a] /\ sub[h[b].right] \subseteq sub[a]
           /\ h[b].left \in sub[a] \cup {nullptr}
           /\ h[b].right \in sub[a] \cup {nullptr}
<1> DEFINE S == {a \in Live(h) : \A b \in sub[a] : sub[b] \subseteq sub[a]}
<1>1. nullptr \in S
  BY SubType
<1>2. ASSUME NEW a \in DOMAIN h, h[a].left \in S, h[a].right \in S
      PROVE  a \in S
  BY <1>2, TreesAt, SubType
<1>3. Live(h) \subseteq S
  <2> HIDE DEF S
  <2> QED BY <1>1, <1>2, TreeInduction
<1>4. ASSUME NEW a \in Live(h), NEW b \in sub[a]
      PROVE  /\ b \in DOMAIN h /\ sub[b] \subseteq sub[a]
             /\ sub[h[b].left] \subseteq sub[a] /\ sub[h[b].right] \subseteq sub[a]
             /\ h[b].left \in sub[a] \cup {nullptr}
             /\ h[b].right \in sub[a] \cup {nullptr}
  <2>1. b \in DOMAIN h /\ sub[b] \subseteq sub[a]
    BY <1>3, SubType
  <2>2. /\ h[b].left \in Live(h) /\ h[b].right \in Live(h)
        /\ sub[h[b].left] \subseteq sub[b] /\ sub[h[b].right] \subseteq sub[b]
    BY <2>1, TreesAt
  <2>3. \A c \in DOMAIN h : c \in sub[c]
    BY TreesAt
  <2> QED
    BY <2>1, <2>2, <2>3 DEF Live
<1> QED
  BY <1>4

(* No key is stored twice below a node. *)
LEMMA KeysDistinct ==
  ASSUME NEW h, NEW sub, Trees(h, sub)
  PROVE  \A a \in Live(h) : \A b, c \in sub[a] : h[b].key = h[c].key => b = c
<1> DEFINE S == {a \in Live(h) : \A b, c \in sub[a] : h[b].key = h[c].key => b = c}
<1>1. nullptr \in S
  BY SubType
<1>2. ASSUME NEW a \in DOMAIN h, h[a].left \in S, h[a].right \in S
      PROVE  a \in S
  <2>1. \A b \in sub[a] : h[b].key \in Nat
    BY SubType, HeapType DEF Trees
  <2> QED
    BY <1>2, <2>1, TreesAt, SubType
<1> HIDE DEF S
<1>3. Live(h) \subseteq S
  BY <1>1, <1>2, TreeInduction
<1> QED
  BY <1>3 DEF S

(* A function on the pointers may be defined by recursion over the trees.  *)
IsRecursion(f, h, V, v0, step) ==
  /\ f \in [Live(h) -> V]
  /\ f[nullptr] = v0
  /\ \A a \in DOMAIN h : f[a] = step[a][f[h[a].left]][f[h[a].right]]

LEMMA TreeRecursion ==
  ASSUME NEW h, NEW sub, NEW root, Rooted(h, sub, root),
         NEW V, NEW v0 \in V, NEW step \in [DOMAIN h -> [V -> [V -> V]]]
  PROVE  \E f : IsRecursion(f, h, V, v0, step)
<1> USE DEF Rooted, IsRecursion
<1> DEFINE Solves(f, B) ==
             /\ f \in [Live(h) -> V] /\ f[nullptr] = v0
             /\ \A b \in B : f[b] = step[b][f[h[b].left]][f[h[b].right]]
           S == {a \in Live(h) : \E f \in [Live(h) -> V] : Solves(f, sub[a])}
<1>1. nullptr \in S
  <2>1. Solves([a \in Live(h) |-> v0], sub[nullptr])
    BY SubType
  <2> QED BY <2>1, SubType
<1>2. ASSUME NEW a \in DOMAIN h, h[a].left \in S, h[a].right \in S
      PROVE  a \in S
  <2> DEFINE l == h[a].left
             r == h[a].right
  <2>1. PICK fl \in [Live(h) -> V] : Solves(fl, sub[l])
    BY <1>2
  <2>2. PICK fr \in [Live(h) -> V] : Solves(fr, sub[r])
    BY <1>2
  <2> DEFINE v == step[a][fl[l]][fr[r]]
             f == [b \in Live(h) |-> IF b \in sub[l] THEN fl[b]
                                     ELSE IF b \in sub[r] THEN fr[b]
                                     ELSE IF b = a THEN v ELSE v0]
  <2>3. /\ l \in Live(h) /\ r \in Live(h) /\ nullptr \in Live(h)
        /\ sub[a] = {a} \cup sub[l] \cup sub[r]
        /\ a \notin sub[l] /\ a \notin sub[r] /\ sub[l] \cap sub[r] = {}
        /\ nullptr # a /\ nullptr \notin sub[l] /\ nullptr \notin sub[r]
        /\ a \in Live(h)
    BY TreesAt, SubType
  <2>4. v \in V
    BY <2>3
  <2>5. f \in [Live(h) -> V] /\ f[nullptr] = v0
    BY <2>3, <2>4
  <2>6. f[l] = fl[l] /\ f[r] = fr[r]
    <3>1. \A c \in DOMAIN h : c \in sub[c]
      BY TreesAt
    <3> QED BY <2>1, <2>2, <2>3, <2>5, <3>1 DEF Live
  <2>7. f[a] = step[a][f[l]][f[r]]
    BY <2>3, <2>6
  <2>8. ASSUME NEW b \in sub[l] PROVE f[b] = step[b][f[h[b].left]][f[h[b].right]]
    <3>1. /\ h[b].left \in sub[l] \cup {nullptr} /\ h[b].right \in sub[l] \cup {nullptr}
          /\ b \in Live(h) /\ sub[l] \subseteq Live(h)
      BY <2>3, BelowClosed, SubType
    <3>2. \A c \in sub[l] \cup {nullptr} : f[c] = fl[c]
      BY <2>1, <2>3, <2>5, <3>1
    <3> QED BY <2>1, <3>1, <3>2
  <2>9. ASSUME NEW b \in sub[r] PROVE f[b] = step[b][f[h[b].left]][f[h[b].right]]
    <3>1. /\ h[b].left \in sub[r] \cup {nullptr} /\ h[b].right \in sub[r] \cup {nullptr}
          /\ b \in Live(h) /\ sub[r] \subseteq Live(h)
      BY <2>3, BelowClosed, SubType
    <3>2. \A c \in sub[r] \cup {nullptr} : f[c] = fr[c]
      BY <2>2, <2>3, <2>5, <3>1
    <3> QED BY <2>2, <3>1, <3>2
  <2> HIDE DEF f
  <2>10. Solves(f, sub[a])
    BY <2>3, <2>5, <2>7, <2>8, <2>9
  <2> QED
    BY <2>3, <2>5, <2>10
<1>3. root \in S
  <2> HIDE DEF S
  <2> QED BY <1>1, <1>2, TreeInduction
<1> QED
  BY <1>3

-----------------------------------------------------------------------------
IsSearch(f, h, key) ==
  f = [a \in Live(h) |->
         IF a = nullptr \/ h[a].key = key THEN a
         ELSE IF h[a].key < key THEN f[h[a].right]
         ELSE f[h[a].left]]

LEMMA SearchRecursion ==
  ASSUME NEW h, NEW sub, NEW root, Rooted(h, sub, root), NEW key \in Keys
  PROVE  \E f : search(h, root, key) = f[root] /\ IsSearch(f, h, key)
<1> DEFINE V == Live(h)
           step == [a \in DOMAIN h |-> [x \in V |-> [y \in V |->
                      IF h[a].key = key THEN a
                      ELSE IF h[a].key < key THEN y ELSE x]]]
           f == CHOOSE find : find = [a \in Live(h) |->
                  IF a = nullptr \/ h[a].key = key THEN a
                  ELSE IF h[a].key < key THEN find[h[a].right]
                  ELSE find[h[a].left]]
<1>1. step \in [DOMAIN h -> [V -> [V -> V]]] /\ nullptr \in V
  BY DEF Live
<1>2. PICK g : IsRecursion(g, h, V, nullptr, step)
  <2> HIDE DEF V, step
  <2> QED BY <1>1, TreeRecursion
<1>3. ASSUME NEW a \in Live(h)
      PROVE  g[a] = IF a = nullptr \/ h[a].key = key THEN a
                    ELSE IF h[a].key < key THEN g[h[a].right]
                    ELSE g[h[a].left]
  <2>1. CASE a = nullptr
    BY <1>2, <2>1 DEF IsRecursion
  <2>2. CASE a # nullptr
    <3>1. a \in DOMAIN h /\ g[h[a].left] \in V /\ g[h[a].right] \in V
      BY <1>2, <2>2, TreesAt DEF Live, Rooted, IsRecursion
    <3> QED
      BY <1>2, <2>2, <3>1 DEF IsRecursion
  <2> QED BY <2>1, <2>2
<1> HIDE DEF step
<1>4. g = [a \in Live(h) |->
                  IF a = nullptr \/ h[a].key = key THEN a
                  ELSE IF h[a].key < key THEN g[h[a].right]
                  ELSE g[h[a].left]]
  BY <1>2, <1>3 DEF IsRecursion
<1>5. f = [a \in Live(h) |->
                  IF a = nullptr \/ h[a].key = key THEN a
                  ELSE IF h[a].key < key THEN f[h[a].right]
                  ELSE f[h[a].left]]
  BY <1>4, Zenon
<1>6. search(h, root, key) = f[root]
  BY Zenon DEF search
<1> HIDE DEF f
<1> QED
  BY <1>5, <1>6 DEF IsSearch

(* search finds the node of a key, or nullptr if there is none. *)
LEMMA SearchFinds ==
  ASSUME NEW h, NEW sub, NEW root, Rooted(h, sub, root), NEW key \in Keys
  PROVE  LET a == search(h, root, key)
         IN  \/ a \in DOMAIN h /\ h[a].key = key
             \/ a = nullptr /\ \A b \in DOMAIN h : h[b].key # key
<1>1. PICK f : search(h, root, key) = f[root] /\ IsSearch(f, h, key)
  BY SearchRecursion
<1> DEFINE S == {a \in Live(h) :
                   \/ f[a] \in sub[a] /\ h[f[a]].key = key
                   \/ f[a] = nullptr /\ \A b \in sub[a] : h[b].key # key}
<1>2. nullptr \in S
  BY <1>1, SubType DEF IsSearch, Rooted
<1>3. ASSUME NEW a \in DOMAIN h, h[a].left \in S, h[a].right \in S
      PROVE  a \in S
  <2>1. f[a] = IF h[a].key = key THEN a
               ELSE IF h[a].key < key THEN f[h[a].right] ELSE f[h[a].left]
    BY <1>1, SubType DEF IsSearch, Rooted
  <2>2. key \in Nat /\ \A b \in DOMAIN h : h[b].key \in Nat
    BY HeapType, BstAssumption DEF Rooted, Trees
  <2>3. /\ sub[a] = {a} \cup sub[h[a].left] \cup sub[h[a].right] /\ a \in Live(h)
        /\ sub[a] \subseteq DOMAIN h
        /\ \A b \in sub[h[a].left] : h[b].key < h[a].key
        /\ \A b \in sub[h[a].right] : h[a].key < h[b].key
    BY TreesAt, SubType DEF Rooted
  <2>4. CASE h[a].key = key
    BY <2>1, <2>3, <2>4
  <2>5. CASE h[a].key < key
    <3>1. f[a] = f[h[a].right] /\ \A b \in {a} \cup sub[h[a].left] : h[b].key # key
      BY <2>1, <2>2, <2>3, <2>5
    <3> QED BY <1>3, <2>3, <3>1
  <2>6. CASE key < h[a].key
    <3>1. f[a] = f[h[a].left] /\ \A b \in {a} \cup sub[h[a].right] : h[b].key # key
      BY <2>1, <2>2, <2>3, <2>6
    <3> QED BY <1>3, <2>3, <3>1
  <2> QED BY <2>2, <2>4, <2>5, <2>6
<1>4. root \in S
  <2> HIDE DEF S
  <2> QED BY <1>2, <1>3, TreeInduction DEF Rooted
<1> QED
  BY <1>1, <1>4 DEF Rooted

IsLeftmost(f, h) ==
  f = [a \in Live(h) |->
         IF a = nullptr \/ h[a].left = nullptr THEN a ELSE f[h[a].left]]

LEMMA LeftmostRecursion ==
  ASSUME NEW h, NEW sub, NEW root, Rooted(h, sub, root), NEW start
  PROVE  \E f : minValueNode(h, start) = f[start] /\ IsLeftmost(f, h)
<1> DEFINE V == Live(h)
           step == [a \in DOMAIN h |-> [x \in V |-> [y \in V |->
                      IF h[a].left = nullptr THEN a ELSE x]]]
           f == CHOOSE leftmost : leftmost = [a \in Live(h) |->
                  IF a = nullptr \/ h[a].left = nullptr THEN a
                  ELSE leftmost[h[a].left]]
<1>1. step \in [DOMAIN h -> [V -> [V -> V]]] /\ nullptr \in V
  BY DEF Live
<1>2. PICK g : IsRecursion(g, h, V, nullptr, step)
  <2> HIDE DEF V, step
  <2> QED BY <1>1, TreeRecursion
<1>3. ASSUME NEW a \in Live(h)
      PROVE  g[a] = IF a = nullptr \/ h[a].left = nullptr THEN a
                    ELSE g[h[a].left]
  <2>1. CASE a = nullptr
    BY <1>2, <2>1 DEF IsRecursion
  <2>2. CASE a # nullptr
    <3>1. a \in DOMAIN h /\ g[h[a].left] \in V /\ g[h[a].right] \in V
      BY <1>2, <2>2, TreesAt DEF Live, Rooted, IsRecursion
    <3> QED
      BY <1>2, <2>2, <3>1 DEF IsRecursion
  <2> QED BY <2>1, <2>2
<1> HIDE DEF step
<1>4. g = [a \in Live(h) |->
                  IF a = nullptr \/ h[a].left = nullptr THEN a
                  ELSE g[h[a].left]]
  BY <1>2, <1>3 DEF IsRecursion
<1>5. f = [a \in Live(h) |->
                  IF a = nullptr \/ h[a].left = nullptr THEN a
                  ELSE f[h[a].left]]
  BY <1>4, Zenon
<1>6. minValueNode(h, start) = f[start]
  BY Zenon DEF minValueNode
<1> HIDE DEF f
<1> QED
  BY <1>5, <1>6 DEF IsLeftmost

(* minValueNode finds the node of the least key below a node.  It has no   *)
(* left child.                                                             *)
LEMMA LeftmostIsLeast ==
  ASSUME NEW h, NEW sub, NEW root, Rooted(h, sub, root), NEW start \in DOMAIN h
  PROVE  /\ minValueNode(h, start) \in sub[start]
         /\ \A b \in sub[start] : h[minValueNode(h, start)].key <= h[b].key
<1>1. PICK f : minValueNode(h, start) = f[start] /\ IsLeftmost(f, h)
  BY LeftmostRecursion
<1> DEFINE S == {a \in Live(h) :
                   a # nullptr => /\ f[a] \in sub[a]
                                  /\ \A b \in sub[a] : h[f[a]].key <= h[b].key}
<1>2. nullptr \in S
  BY SubType DEF Rooted
<1>3. ASSUME NEW a \in DOMAIN h, h[a].left \in S, h[a].right \in S
      PROVE  a \in S
  <2> DEFINE l == h[a].left
  <2>1. f[a] = IF l = nullptr THEN a ELSE f[l]
    BY <1>1, SubType DEF IsLeftmost, Rooted
  <2>2. \A b \in DOMAIN h : h[b].key \in Nat
    BY HeapType DEF Rooted, Trees
  <2>3. /\ sub[a] = {a} \cup sub[l] \cup sub[h[a].right] /\ a \in Live(h)
        /\ sub[a] \subseteq DOMAIN h /\ sub[l] \subseteq DOMAIN h
        /\ \A b \in sub[l] : h[b].key < h[a].key
        /\ \A b \in sub[h[a].right] : h[a].key < h[b].key
        /\ sub[nullptr] = {}
    BY TreesAt, SubType DEF Rooted
  <2>4. CASE l = nullptr
    BY <2>1, <2>2, <2>3, <2>4
  <2>5. CASE l # nullptr
    <3>1. f[a] = f[l] /\ f[l] \in sub[l] /\ \A b \in sub[l] : h[f[l]].key <= h[b].key
      BY <1>3, <2>1, <2>5
    <3>2. h[f[l]].key < h[a].key
      BY <2>3, <3>1
    <3> QED BY <2>2, <2>3, <3>1, <3>2
  <2> QED BY <2>4, <2>5
<1> HIDE DEF S
<1>4. start \in S /\ start # nullptr
  BY <1>2, <1>3, TreeInduction, SubType DEF Rooted
<1> QED
  BY <1>1, <1>4 DEF S

IsInorder(f, h) ==
  f = [a \in Live(h) |->
         IF a = nullptr THEN <<>>
         ELSE f[h[a].left] \o <<h[a].key>> \o f[h[a].right]]

LEMMA InorderRecursion ==
  ASSUME NEW h, NEW sub, NEW root, Rooted(h, sub, root)
  PROVE  \E f \in [Live(h) -> Seq(Nat)] :
           inorder(h, root) = f[root] /\ IsInorder(f, h)
<1> DEFINE V == Seq(Nat)
           v0 == <<>>
           step == [a \in DOMAIN h |-> [x \in V |-> [y \in V |->
                      x \o <<h[a].key>> \o y]]]
           f == CHOOSE visit : visit = [a \in Live(h) |->
                  IF a = nullptr THEN <<>>
                  ELSE visit[h[a].left] \o <<h[a].key>> \o visit[h[a].right]]
<1>1. step \in [DOMAIN h -> [V -> [V -> V]]] /\ v0 \in V
  <2>1. \A a \in DOMAIN h : <<h[a].key>> \in Seq(Nat)
    BY HeapType DEF Rooted, Trees
  <2>2. ASSUME NEW a \in DOMAIN h, NEW x \in V, NEW y \in V
        PROVE  x \o <<h[a].key>> \o y \in V
    BY <2>1, <2>2, ConcatProperties
  <2> QED BY <2>2, EmptySeq
<1>2. PICK g : IsRecursion(g, h, V, v0, step)
  <2> HIDE DEF V, step, v0
  <2> QED BY <1>1, TreeRecursion
<1>3. ASSUME NEW a \in Live(h)
      PROVE  g[a] = IF a = nullptr THEN <<>>
                    ELSE g[h[a].left] \o <<h[a].key>> \o g[h[a].right]
  <2>1. CASE a = nullptr
    BY <1>2, <2>1 DEF IsRecursion
  <2>2. CASE a # nullptr
    <3>1. /\ a \in DOMAIN h /\ g[h[a].left] \in V /\ g[h[a].right] \in V
      BY <1>2, <2>2, TreesAt DEF Live, Rooted, IsRecursion
    <3> HIDE DEF V
    <3> QED
      BY <1>2, <2>2, <3>1 DEF IsRecursion
  <2> QED BY <2>1, <2>2
<1> HIDE DEF step
<1>4. g = [a \in Live(h) |->
                  IF a = nullptr THEN <<>>
                  ELSE g[h[a].left] \o <<h[a].key>> \o g[h[a].right]]
  BY <1>2, <1>3 DEF IsRecursion
<1>5. f = [a \in Live(h) |->
                  IF a = nullptr THEN <<>>
                  ELSE f[h[a].left] \o <<h[a].key>> \o f[h[a].right]]
  BY <1>4, Zenon
<1>6. inorder(h, root) = f[root]
  BY Zenon DEF inorder
<1> HIDE DEF f
<1>7. f \in [Live(h) -> V]
  <2> DEFINE S == {a \in Live(h) : f[a] \in V}
  <2>1. nullptr \in S
    BY <1>5, SubType, EmptySeq DEF Rooted
  <2>2. ASSUME NEW a \in DOMAIN h, h[a].left \in S, h[a].right \in S
        PROVE  a \in S
    <3>1. f[a] = f[h[a].left] \o <<h[a].key>> \o f[h[a].right] /\ a \in Live(h)
      BY <1>5, SubType DEF Rooted
    <3>2. <<h[a].key>> \in Seq(Nat)
      BY HeapType DEF Rooted, Trees
    <3>3. f[h[a].left] \o <<h[a].key>> \in Seq(Nat)
      BY <2>2, <3>2, ConcatProperties
    <3>4. f[a] \in Seq(Nat)
      BY <2>2, <3>1, <3>3, ConcatProperties
    <3> QED BY <3>1, <3>4
  <2>3. Live(h) \subseteq S
    <3> HIDE DEF S
    <3> QED BY <2>1, <2>2, TreeInduction DEF Rooted
  <2> QED BY <1>5, <2>3
<1> QED
  BY <1>5, <1>6, <1>7 DEF IsInorder

Ascending(s) == \A i, j \in 1 .. Len(s) : i < j => s[i] < s[j]

Join(s, k, t) == s \o <<k>> \o t

Below(s, k) == \A i \in 1 .. Len(s) : s[i] < k

Above(s, k) == \A i \in 1 .. Len(s) : k < s[i]

(* Two ascending sequences with a number between them make a third.        *)
LEMMA AscendingJoin ==
  ASSUME NEW s \in Seq(Nat), NEW t \in Seq(Nat), NEW k \in Nat,
         Ascending(s), Ascending(t),
         Below(s, k), Above(t, k),
         NEW u, u = Join(s, k, t)
  PROVE  /\ Ascending(u)
         /\ \A i \in 1 .. Len(u) : \/ \E j \in 1 .. Len(s) : u[i] = s[j]
                                   \/ u[i] = k
                                   \/ \E j \in 1 .. Len(t) : u[i] = t[j]
<1> USE DEF Below, Above, Join
<1> DEFINE m == Len(s)
           n == Len(t)
<1>1. /\ m \in Nat /\ n \in Nat
      /\ \A i \in 1 .. m : s[i] \in Nat
      /\ \A i \in 1 .. n : t[i] \in Nat
  BY ElementOfSeq, LenProperties
<1>2. /\ s \o <<k>> \in Seq(Nat) /\ Len(s \o <<k>>) = m + 1
      /\ \A i \in 1 .. m : (s \o <<k>>)[i] = s[i]
      /\ (s \o <<k>>)[m + 1] = k
  BY <1>1
<1>3. Len(u) = m + 1 + n
  BY <1>1, <1>2
<1>4. \A i \in 1 .. m : u[i] = s[i]
  BY <1>1, <1>2
<1>5. u[m + 1] = k
  BY <1>1, <1>2
<1>6. \A i \in m + 2 .. m + 1 + n : u[i] = t[i - m - 1] /\ i - m - 1 \in 1 .. n
  BY <1>1, <1>2
<1>7. \A i \in 1 .. m + 1 + n : i \in 1 .. m \/ i = m + 1 \/ i \in m + 2 .. m + 1 + n
  BY <1>1
<1>8. ASSUME NEW i \in 1 .. Len(u), NEW j \in 1 .. Len(u), i < j
      PROVE  u[i] < u[j]
  <2>1. CASE i \in 1 .. m
    <3>1. u[i] = s[i] /\ s[i] < k /\ s[i] \in Nat
      BY <1>1, <1>4, <2>1
    <3>2. CASE j \in 1 .. m
      BY <1>1, <1>4, <1>8, <2>1, <3>2 DEF Ascending
    <3>3. CASE j = m + 1
      BY <1>5, <3>1, <3>3
    <3>4. CASE j \in m + 2 .. m + 1 + n
      <4>1. u[j] = t[j - m - 1] /\ j - m - 1 \in 1 .. n
        BY <1>6, <3>4
      <4>2. k < u[j] /\ u[j] \in Nat
        BY <1>1, <4>1
      <4> QED BY <3>1, <4>2
    <3> QED BY <1>3, <1>7, <3>2, <3>3, <3>4
  <2>2. CASE i = m + 1
    <3>1. j \in m + 2 .. m + 1 + n
      BY <1>1, <1>3, <1>8, <2>2
    <3>2. u[j] = t[j - m - 1] /\ j - m - 1 \in 1 .. n
      BY <1>6, <3>1
    <3> QED BY <1>5, <2>2, <3>2
  <2>3. CASE i \in m + 2 .. m + 1 + n
    <3>1. j \in m + 2 .. m + 1 + n
      BY <1>1, <1>3, <1>8, <2>3
    <3>2. /\ u[i] = t[i - m - 1] /\ i - m - 1 \in 1 .. n
          /\ u[j] = t[j - m - 1] /\ j - m - 1 \in 1 .. n
      BY <1>6, <2>3, <3>1
    <3>3. i - m - 1 < j - m - 1
      BY <1>1, <1>8, <2>3, <3>1
    <3> QED BY <3>2, <3>3 DEF Ascending
  <2> QED BY <1>3, <1>7, <2>1, <2>2, <2>3
<1>9. \A i \in 1 .. Len(u) : \/ \E j \in 1 .. m : u[i] = s[j]
                             \/ u[i] = k
                             \/ \E j \in 1 .. n : u[i] = t[j]
  BY <1>3, <1>4, <1>5, <1>6, <1>7
<1>10. Ascending(u)
  BY <1>8 DEF Ascending
<1> QED
  BY <1>9, <1>10

(* toString visits the keys in ascending order. *)
LEMMA InorderAscending ==
  ASSUME NEW h, NEW sub, NEW root, Rooted(h, sub, root)
  PROVE  inorder(h, root) \in Seq(Nat) /\ Ascending(inorder(h, root))
<1>1. PICK f \in [Live(h) -> Seq(Nat)] :
           inorder(h, root) = f[root] /\ IsInorder(f, h)
  BY InorderRecursion
<1> DEFINE S == {a \in Live(h) :
                   /\ Ascending(f[a])
                   /\ \A i \in 1 .. Len(f[a]) :
                        \E b \in sub[a] : f[a][i] = h[b].key}
<1>2. nullptr \in S
  <2>1. f[nullptr] = <<>> /\ nullptr \in Live(h)
    BY <1>1 DEF IsInorder, Live
  <2>2. Len(f[nullptr]) = 0
    BY <2>1
  <2> QED BY <2>1, <2>2 DEF Ascending
<1>3. ASSUME NEW a \in DOMAIN h, h[a].left \in S, h[a].right \in S
      PROVE  a \in S
  <2> DEFINE l == h[a].left
             r == h[a].right
             k == h[a].key
  <2>1. f[a] = f[l] \o <<k>> \o f[r] /\ a \in Live(h)
    BY <1>1, SubType DEF IsInorder, Rooted
  <2>2. k \in Nat
    BY HeapType DEF Rooted, Trees
  <2>3. /\ sub[a] = {a} \cup sub[l] \cup sub[r]
        /\ \A b \in sub[l] : h[b].key < k
        /\ \A b \in sub[r] : k < h[b].key
    BY TreesAt DEF Rooted
  <2>4. /\ Below(f[l], k) /\ Above(f[r], k)
        /\ Ascending(f[l]) /\ Ascending(f[r])
        /\ f[l] \in Seq(Nat) /\ f[r] \in Seq(Nat)
    BY <1>1, <1>3, <2>3 DEF Below, Above
  <2>5. /\ Ascending(f[a])
        /\ \A i \in 1 .. Len(f[a]) : \/ \E j \in 1 .. Len(f[l]) : f[a][i] = f[l][j]
                                     \/ f[a][i] = k
                                     \/ \E j \in 1 .. Len(f[r]) : f[a][i] = f[r][j]
    <3> DEFINE s == f[l]
               t == f[r]
               u == f[a]
    <3>1. /\ s \in Seq(Nat) /\ t \in Seq(Nat) /\ Ascending(s) /\ Ascending(t)
          /\ Below(s, k) /\ Above(t, k) /\ u = Join(s, k, t)
      BY <2>1, <2>4 DEF Join
    <3> HIDE DEF s, t, u, k
    <3>2. /\ Ascending(u)
          /\ \A i \in 1 .. Len(u) : \/ \E j \in 1 .. Len(s) : u[i] = s[j]
                                    \/ u[i] = k
                                    \/ \E j \in 1 .. Len(t) : u[i] = t[j]
      BY <2>2, <3>1, AscendingJoin
    <3> QED BY <3>2 DEF s, t, u
  <2>6. /\ \A i \in 1 .. Len(f[l]) : \E b \in sub[l] : f[l][i] = h[b].key
        /\ \A i \in 1 .. Len(f[r]) : \E b \in sub[r] : f[r][i] = h[b].key
    BY <1>3
  <2>7. a \in sub[a] /\ sub[l] \subseteq sub[a] /\ sub[r] \subseteq sub[a]
    BY <2>3
  <2> HIDE DEF l, r
  <2>8. ASSUME NEW i \in 1 .. Len(f[a])
        PROVE  \E b \in sub[a] : f[a][i] = h[b].key
    BY <2>5, <2>6, <2>7
  <2> QED BY <2>1, <2>5, <2>8
<1> HIDE DEF S
<1>4. root \in S
  BY <1>2, <1>3, TreeInduction DEF Rooted
<1> QED
  BY <1>1, <1>4 DEF S, Rooted

-----------------------------------------------------------------------------
(* What the setters of a link do to a heap, also for an address not in it. *)
LEMMA SetLinkType ==
  ASSUME NEW h \in Heap, NEW a, NEW p \in Pointers
  PROVE  /\ setLeft(h, a, p) \in Heap /\ DOMAIN setLeft(h, a, p) = DOMAIN h
         /\ setRight(h, a, p) \in Heap /\ DOMAIN setRight(h, a, p) = DOMAIN h
<1>1. DOMAIN h \subseteq Addresses /\ h \in [DOMAIN h -> Node]
  BY HeapType
<1>2. setLeft(h, a, p) \in [DOMAIN h -> Node] /\ setRight(h, a, p) \in [DOMAIN h -> Node]
  BY <1>1 DEF setLeft, setRight, Node
<1> QED
  BY <1>1, <1>2 DEF Heap

LEMMA SetLeft ==
  ASSUME NEW h \in Heap, NEW a \in DOMAIN h, NEW p \in Pointers
  PROVE  /\ setLeft(h, a, p) \in Heap /\ DOMAIN setLeft(h, a, p) = DOMAIN h
         /\ setLeft(h, a, p)[a].left = p
         /\ setLeft(h, a, p)[a].right = h[a].right
         /\ setLeft(h, a, p)[a].key = h[a].key
         /\ setLeft(h, a, p)[a].value = h[a].value
         /\ \A b \in DOMAIN h \ {a} : setLeft(h, a, p)[b] = h[b]
<1>1. h[a] \in Node
  BY HeapType
<1>2. setLeft(h, a, p) \in Heap /\ DOMAIN setLeft(h, a, p) = DOMAIN h
  BY SetLinkType
<1> QED
  BY <1>1, <1>2 DEF setLeft, Node

LEMMA SetRight ==
  ASSUME NEW h \in Heap, NEW a \in DOMAIN h, NEW p \in Pointers
  PROVE  /\ setRight(h, a, p) \in Heap /\ DOMAIN setRight(h, a, p) = DOMAIN h
         /\ setRight(h, a, p)[a].left = h[a].left
         /\ setRight(h, a, p)[a].right = p
         /\ setRight(h, a, p)[a].key = h[a].key
         /\ setRight(h, a, p)[a].value = h[a].value
         /\ \A b \in DOMAIN h \ {a} : setRight(h, a, p)[b] = h[b]
<1>1. h[a] \in Node
  BY HeapType
<1>2. setRight(h, a, p) \in Heap /\ DOMAIN setRight(h, a, p) = DOMAIN h
  BY SetLinkType
<1> QED
  BY <1>1, <1>2 DEF setRight, Node

LEMMA InPlaceFrame ==
  ASSUME NEW g, NEW h, NEW s, NEW t, NEW b, InPlace(g, s, b),
         h[b].key = g[b].key, h[b].left = g[b].left, h[b].right = g[b].right,
         t[b] = s[b],
         \A c \in {g[b].left, g[b].right} : c \in DOMAIN t /\ t[c] = s[c],
         \A c \in s[b] : h[c].key = g[c].key
  PROVE  InPlace(h, t, b)
BY DEF InPlace

(* Two heaps agree but on the node at a; how the keys of the nodes B       *)
(* compare with k.                                                         *)
SameBut(g, h, a) ==
  DOMAIN g = DOMAIN h /\ \A b \in DOMAIN h \ {a} : g[b] = h[b]

KeysBelow(h, B, k) == \A b \in B : h[b].key < k

KeysAbove(h, B, k) == \A b \in B : k < h[b].key

(* The subtree at a has been replaced by a tree of the nodes N, whose root *)
(* is r.node; the nodes that are not below a are as they were.             *)
Replaced(h, sub, a, N, r) ==
  /\ r.heap \in Heap
  /\ DOMAIN r.heap = (DOMAIN h \ sub[a]) \cup N
  /\ N \cap (DOMAIN h \ sub[a]) = {}
  /\ r.node \in N \cup {nullptr}
  /\ \A b \in DOMAIN h \ sub[a] : r.heap[b] = h[b]
  /\ \E s \in [Live(r.heap) -> SUBSET Addresses] :
       /\ s[nullptr] = {} /\ s[r.node] = N
       /\ \A b \in DOMAIN h \ sub[a] : s[b] = sub[b]
       /\ \A b \in N : InPlace(r.heap, s, b) /\ s[b] \subseteq N /\ b \in s[b]

(* A subtree that is replaced as a whole makes a tree of the new nodes.    *)
LEMMA ReplacedRoot ==
  ASSUME NEW h, NEW sub, NEW root, Rooted(h, sub, root),
         NEW N, IsFiniteSet(N), NEW r, Replaced(h, sub, root, N, r)
  PROVE  DOMAIN r.heap = N /\ \E s : Rooted(r.heap, s, r.node)
<1>1. DOMAIN r.heap = N /\ r.heap \in Heap
  BY DEF Rooted, Replaced
<1>2. PICK s \in [Live(r.heap) -> SUBSET Addresses] :
         /\ s[nullptr] = {} /\ s[r.node] = N
         /\ \A b \in N : InPlace(r.heap, s, b) /\ s[b] \subseteq N
  BY DEF Replaced
<1>3. s \in [Live(r.heap) -> SUBSET N]
  BY <1>1, <1>2 DEF Live
<1> QED
  BY <1>1, <1>2, <1>3 DEF Rooted, Trees, Replaced, Live

(* The subtree right of a is replaced, and a, its key perhaps changed, is  *)
(* linked to the new one.                                                  *)
LEMMA RelinkRight ==
  ASSUME NEW h, NEW sub, Trees(h, sub), NEW a \in DOMAIN h,
         NEW N, NEW r, Replaced(h, sub, h[a].right, N, r), a \notin N,
         N \cap sub[h[a].left] = {},
         NEW q, q.node = a, q.heap \in Heap, SameBut(q.heap, r.heap, a),
         q.heap[a].left = h[a].left, q.heap[a].right = r.node,
         KeysBelow(h, sub[h[a].left], q.heap[a].key),
         KeysAbove(r.heap, N, q.heap[a].key),
         NEW M, M = {a} \cup sub[h[a].left] \cup N
  PROVE  Replaced(h, sub, a, M, q)
<1> USE DEF SameBut, KeysBelow, KeysAbove
<1> DEFINE lt == h[a].left
           rt == h[a].right
           hp == q.heap
<1>1. /\ lt \in Live(h) /\ rt \in Live(h)
      /\ sub[a] = {a} \cup sub[lt] \cup sub[rt]
      /\ a \notin sub[lt] /\ a \notin sub[rt] /\ sub[lt] \cap sub[rt] = {}
      /\ sub[nullptr] = {} /\ nullptr \notin DOMAIN h
      /\ \A b \in Live(h) : sub[b] \subseteq DOMAIN h
      /\ \A b \in DOMAIN h : b \in sub[b]
  BY TreesAt, SubType
<1>2. /\ r.heap \in Heap /\ r.node \in Pointers /\ nullptr \notin N
      /\ a \in DOMAIN r.heap
  BY <1>1, HeapType DEF Replaced, Pointers
<1>4. PICK s \in [Live(r.heap) -> SUBSET Addresses] :
       /\ s[nullptr] = {} /\ s[r.node] = N
       /\ \A b \in DOMAIN h \ sub[rt] : s[b] = sub[b]
       /\ \A b \in N : InPlace(r.heap, s, b) /\ s[b] \subseteq N /\ b \in s[b]
  BY DEF Replaced
<1>5. DOMAIN r.heap = (DOMAIN h \ sub[rt]) \cup N
  BY DEF Replaced
<1>6. N \cap (DOMAIN h \ sub[rt]) = {} /\ r.node \in N \cup {nullptr}
      /\ \A b \in DOMAIN h \ sub[rt] : r.heap[b] = h[b]
  BY DEF Replaced
<1> DEFINE t == [s EXCEPT ![a] = M]
<1>7. DOMAIN hp = (DOMAIN h \ sub[a]) \cup M /\ M \cap (DOMAIN h \ sub[a]) = {}
  BY <1>1, <1>5, <1>6
<1>8. \A b \in DOMAIN h \ sub[a] : hp[b] = h[b]
  BY <1>1, <1>5, <1>6
<1>9. M \subseteq Addresses
  BY <1>7, HeapType
<1>10. /\ t \in [Live(hp) -> SUBSET Addresses]
       /\ t[a] = M
       /\ \A b \in Live(hp) \ {a} : t[b] = s[b]
  BY <1>2, <1>4, <1>9 DEF Live
<1> HIDE DEF t
<1>11. /\ t[nullptr] = {} /\ \A b \in DOMAIN h \ sub[a] : t[b] = sub[b]
  BY <1>1, <1>2, <1>4, <1>5, <1>10 DEF Live
<1>12. t[lt] = sub[lt] /\ t[r.node] = N /\ lt \in Live(hp) /\ r.node \in Live(hp)
  <2>1. lt \in (DOMAIN h \ sub[rt]) \cup {nullptr} /\ lt # a /\ r.node # a
    BY <1>1, <1>6 DEF Live
  <2>2. lt \in Live(hp) /\ r.node \in Live(hp) /\ nullptr \in Live(hp)
    BY <2>1, <1>5, <1>6 DEF Live
  <2>3. s[lt] = sub[lt]
    BY <2>1, <1>1, <1>4
  <2> QED BY <2>1, <2>2, <2>3, <1>4, <1>10
<1>13. ASSUME NEW b \in sub[lt]
       PROVE  hp[b] = h[b] /\ t[b] = sub[b] /\ b \in DOMAIN r.heap /\ r.heap[b] = h[b]
  BY <1>1, <1>4, <1>5, <1>6, <1>10 DEF Live
<1>14. InPlace(hp, t, a)
  <2>1. \A b \in N : hp[a].key < hp[b].key
    BY <1>5
  <2>2. \A b \in sub[lt] : hp[b].key < hp[a].key
    BY <1>13
  <2> QED
    BY <1>1, <1>6, <1>10, <1>12, <2>1, <2>2 DEF InPlace
<1>15. ASSUME NEW b \in sub[lt]
       PROVE  InPlace(hp, t, b) /\ t[b] \subseteq M /\ b \in t[b]
  <2>1. /\ b \in DOMAIN h /\ sub[b] \subseteq sub[lt]
        /\ h[b].left \in sub[lt] \cup {nullptr}
        /\ h[b].right \in sub[lt] \cup {nullptr}
    BY <1>1, BelowClosed
  <2>2. InPlace(h, sub, b)
    BY <2>1 DEF Trees
  <2>3. ASSUME NEW c \in sub[lt] \cup {nullptr}
        PROVE  c \in DOMAIN t /\ t[c] = sub[c]
    <3>1. CASE c = nullptr
      BY <3>1, <1>1, <1>10, <1>11 DEF Live
    <3>2. CASE c \in sub[lt]
      BY <3>2, <1>10, <1>13 DEF Live
    <3> QED BY <3>1, <3>2
  <2>4. InPlace(hp, t, b)
    BY <2>1, <2>2, <2>3, <1>13, InPlaceFrame
  <2> QED BY <2>1, <2>4, <1>1, <1>13
<1>16. ASSUME NEW b \in N
       PROVE  InPlace(hp, t, b) /\ t[b] \subseteq M /\ b \in t[b]
  <2>1. /\ InPlace(r.heap, s, b) /\ s[b] \subseteq N /\ b \in s[b] /\ b # a
        /\ b \in DOMAIN r.heap
    BY <1>4, <1>5
  <2>2. hp[b] = r.heap[b] /\ t[b] = s[b]
    BY <2>1, <1>10 DEF Live
  <2>3. \A c \in {r.heap[b].left, r.heap[b].right} : c \in DOMAIN s /\ s[c] \subseteq N
    BY <2>1 DEF InPlace
  <2>4. a \in s[a]
    BY <1>1, <1>4
  <2>5. \A c \in {r.heap[b].left, r.heap[b].right} : c \in DOMAIN t /\ t[c] = s[c]
    BY <2>3, <2>4, <1>4, <1>10 DEF Live
  <2>6. \A c \in s[b] : hp[c].key = r.heap[c].key
    BY <2>1, <1>5
  <2>7. InPlace(hp, t, b)
    BY <2>1, <2>2, <2>5, <2>6, InPlaceFrame
  <2> QED BY <2>1, <2>2, <2>7
<1>17. \A b \in M : InPlace(hp, t, b) /\ t[b] \subseteq M /\ b \in t[b]
  BY <1>10, <1>14, <1>15, <1>16
<1> QED
  BY <1>7, <1>8, <1>10, <1>11, <1>17 DEF Replaced

(* The same on the left.                                                   *)
LEMMA RelinkLeft ==
  ASSUME NEW h, NEW sub, Trees(h, sub), NEW a \in DOMAIN h,
         NEW N, NEW r, Replaced(h, sub, h[a].left, N, r), a \notin N,
         N \cap sub[h[a].right] = {},
         NEW q, q.node = a, q.heap \in Heap, SameBut(q.heap, r.heap, a),
         q.heap[a].right = h[a].right, q.heap[a].left = r.node,
         KeysAbove(h, sub[h[a].right], q.heap[a].key),
         KeysBelow(r.heap, N, q.heap[a].key),
         NEW M, M = {a} \cup sub[h[a].right] \cup N
  PROVE  Replaced(h, sub, a, M, q)
<1> USE DEF SameBut, KeysBelow, KeysAbove
<1> DEFINE lt == h[a].left
           rt == h[a].right
           hp == q.heap
<1>1. /\ rt \in Live(h) /\ lt \in Live(h)
      /\ sub[a] = {a} \cup sub[rt] \cup sub[lt]
      /\ a \notin sub[rt] /\ a \notin sub[lt] /\ sub[rt] \cap sub[lt] = {}
      /\ sub[nullptr] = {} /\ nullptr \notin DOMAIN h
      /\ \A b \in Live(h) : sub[b] \subseteq DOMAIN h
      /\ \A b \in DOMAIN h : b \in sub[b]
  BY TreesAt, SubType
<1>2. /\ r.heap \in Heap /\ r.node \in Pointers /\ nullptr \notin N
      /\ a \in DOMAIN r.heap
  BY <1>1, HeapType DEF Replaced, Pointers
<1>4. PICK s \in [Live(r.heap) -> SUBSET Addresses] :
       /\ s[nullptr] = {} /\ s[r.node] = N
       /\ \A b \in DOMAIN h \ sub[lt] : s[b] = sub[b]
       /\ \A b \in N : InPlace(r.heap, s, b) /\ s[b] \subseteq N /\ b \in s[b]
  BY DEF Replaced
<1>5. DOMAIN r.heap = (DOMAIN h \ sub[lt]) \cup N
  BY DEF Replaced
<1>6. N \cap (DOMAIN h \ sub[lt]) = {} /\ r.node \in N \cup {nullptr}
      /\ \A b \in DOMAIN h \ sub[lt] : r.heap[b] = h[b]
  BY DEF Replaced
<1> DEFINE t == [s EXCEPT ![a] = M]
<1>7. DOMAIN hp = (DOMAIN h \ sub[a]) \cup M /\ M \cap (DOMAIN h \ sub[a]) = {}
  BY <1>1, <1>5, <1>6
<1>8. \A b \in DOMAIN h \ sub[a] : hp[b] = h[b]
  BY <1>1, <1>5, <1>6
<1>9. M \subseteq Addresses
  BY <1>7, HeapType
<1>10. /\ t \in [Live(hp) -> SUBSET Addresses]
       /\ t[a] = M
       /\ \A b \in Live(hp) \ {a} : t[b] = s[b]
  BY <1>2, <1>4, <1>9 DEF Live
<1> HIDE DEF t
<1>11. /\ t[nullptr] = {} /\ \A b \in DOMAIN h \ sub[a] : t[b] = sub[b]
  BY <1>1, <1>2, <1>4, <1>5, <1>10 DEF Live
<1>12. t[rt] = sub[rt] /\ t[r.node] = N /\ rt \in Live(hp) /\ r.node \in Live(hp)
  <2>1. rt \in (DOMAIN h \ sub[lt]) \cup {nullptr} /\ rt # a /\ r.node # a
    BY <1>1, <1>6 DEF Live
  <2>2. rt \in Live(hp) /\ r.node \in Live(hp) /\ nullptr \in Live(hp)
    BY <2>1, <1>5, <1>6 DEF Live
  <2>3. s[rt] = sub[rt]
    BY <2>1, <1>1, <1>4
  <2> QED BY <2>1, <2>2, <2>3, <1>4, <1>10
<1>13. ASSUME NEW b \in sub[rt]
       PROVE  hp[b] = h[b] /\ t[b] = sub[b] /\ b \in DOMAIN r.heap /\ r.heap[b] = h[b]
  BY <1>1, <1>4, <1>5, <1>6, <1>10 DEF Live
<1>14. InPlace(hp, t, a)
  <2>1. \A b \in N : hp[b].key < hp[a].key
    BY <1>5
  <2>2. \A b \in sub[rt] : hp[a].key < hp[b].key
    BY <1>13
  <2> QED
    BY <1>1, <1>6, <1>10, <1>12, <2>1, <2>2 DEF InPlace
<1>15. ASSUME NEW b \in sub[rt]
       PROVE  InPlace(hp, t, b) /\ t[b] \subseteq M /\ b \in t[b]
  <2>1. /\ b \in DOMAIN h /\ sub[b] \subseteq sub[rt]
        /\ h[b].left \in sub[rt] \cup {nullptr}
        /\ h[b].right \in sub[rt] \cup {nullptr}
    BY <1>1, BelowClosed
  <2>2. InPlace(h, sub, b)
    BY <2>1 DEF Trees
  <2>3. ASSUME NEW c \in sub[rt] \cup {nullptr}
        PROVE  c \in DOMAIN t /\ t[c] = sub[c]
    <3>1. CASE c = nullptr
      BY <3>1, <1>1, <1>10, <1>11 DEF Live
    <3>2. CASE c \in sub[rt]
      BY <3>2, <1>10, <1>13 DEF Live
    <3> QED BY <3>1, <3>2
  <2>4. InPlace(hp, t, b)
    BY <2>1, <2>2, <2>3, <1>13, InPlaceFrame
  <2> QED BY <2>1, <2>4, <1>1, <1>13
<1>16. ASSUME NEW b \in N
       PROVE  InPlace(hp, t, b) /\ t[b] \subseteq M /\ b \in t[b]
  <2>1. /\ InPlace(r.heap, s, b) /\ s[b] \subseteq N /\ b \in s[b] /\ b # a
        /\ b \in DOMAIN r.heap
    BY <1>4, <1>5
  <2>2. hp[b] = r.heap[b] /\ t[b] = s[b]
    BY <2>1, <1>10 DEF Live
  <2>3. \A c \in {r.heap[b].left, r.heap[b].right} : c \in DOMAIN s /\ s[c] \subseteq N
    BY <2>1 DEF InPlace
  <2>4. a \in s[a]
    BY <1>1, <1>4
  <2>5. \A c \in {r.heap[b].left, r.heap[b].right} : c \in DOMAIN t /\ t[c] = s[c]
    BY <2>3, <2>4, <1>4, <1>10 DEF Live
  <2>6. \A c \in s[b] : hp[c].key = r.heap[c].key
    BY <2>1, <1>5
  <2>7. InPlace(hp, t, b)
    BY <2>1, <2>2, <2>5, <2>6, InPlaceFrame
  <2> QED BY <2>1, <2>2, <2>7
<1>17. \A b \in M : InPlace(hp, t, b) /\ t[b] \subseteq M /\ b \in t[b]
  BY <1>10, <1>14, <1>15, <1>16
<1> QED
  BY <1>7, <1>8, <1>10, <1>11, <1>17 DEF Replaced

-----------------------------------------------------------------------------
IsInsertion(f, h, key, msg, new) ==
  f = [a \in Live(h) |->
        IF a = nullptr
          THEN [heap |-> [b \in DOMAIN h \cup {new} |->
                            IF b = new THEN makeNode(key, msg) ELSE h[b]],
                node |-> new]
        ELSE IF key < h[a].key
          THEN [heap |-> setLeft(f[h[a].left].heap, a, f[h[a].left].node),
                node |-> a]
        ELSE IF key > h[a].key
          THEN [heap |-> setRight(f[h[a].right].heap, a, f[h[a].right].node),
                node |-> a]
        ELSE [heap |-> h, node |-> a]]

LEMMA InsertRecursion ==
  ASSUME NEW h, NEW sub, NEW root, Rooted(h, sub, root),
         NEW key \in Keys, NEW msg \in Messages, NEW new \in Addresses \ DOMAIN h
  PROVE  \E f : insertNode(h, root, key, msg, new) = f[root]
                /\ IsInsertion(f, h, key, msg, new)
<1> DEFINE V == [heap : Heap, node : Pointers]
           v0 == [heap |-> [b \in DOMAIN h \cup {new} |->
                              IF b = new THEN makeNode(key, msg) ELSE h[b]],
                  node |-> new]
           step == [a \in DOMAIN h |-> [x \in V |-> [y \in V |->
                      IF key < h[a].key
                        THEN [heap |-> setLeft(x.heap, a, x.node), node |-> a]
                      ELSE IF key > h[a].key
                        THEN [heap |-> setRight(y.heap, a, y.node), node |-> a]
                      ELSE [heap |-> h, node |-> a]]]]
           f == CHOOSE ins : ins = [a \in Live(h) |->
        IF a = nullptr
          THEN [heap |-> [b \in DOMAIN h \cup {new} |->
                            IF b = new THEN makeNode(key, msg) ELSE h[b]],
                node |-> new]
        ELSE IF key < h[a].key
          THEN LET r == ins[h[a].left]
               IN  [heap |-> setLeft(r.heap, a, r.node), node |-> a]
        ELSE IF key > h[a].key
          THEN LET r == ins[h[a].right]
               IN  [heap |-> setRight(r.heap, a, r.node), node |-> a]
        ELSE [heap |-> h, node |-> a]]
<1>0. h \in Heap /\ DOMAIN h \subseteq Addresses /\ h \in [DOMAIN h -> Node]
  BY HeapType DEF Rooted, Trees
<1>1. step \in [DOMAIN h -> [V -> [V -> V]]] /\ v0 \in V
  <2>1. makeNode(key, msg) \in Node
    BY DEF makeNode, Node, Pointers
  <2>2. [b \in DOMAIN h \cup {new} |->
           IF b = new THEN makeNode(key, msg) ELSE h[b]] \in [DOMAIN h \cup {new} -> Node]
    BY <1>0, <2>1
  <2>3. v0 \in V
    BY <1>0, <2>2 DEF Heap, Pointers
  <2>4. \A x \in V : x.heap \in Heap /\ x.node \in Pointers
    OBVIOUS
  <2>5. ASSUME NEW a \in DOMAIN h, NEW x \in V, NEW y \in V
        PROVE  /\ [heap |-> setLeft(x.heap, a, x.node), node |-> a] \in V
               /\ [heap |-> setRight(y.heap, a, y.node), node |-> a] \in V
               /\ [heap |-> h, node |-> a] \in V
    BY <1>0, <2>4, SetLinkType DEF Pointers
  <2> HIDE DEF V
  <2>6. step \in [DOMAIN h -> [V -> [V -> V]]]
    BY <2>5
  <2> QED BY <2>3, <2>6
<1>2. PICK g : IsRecursion(g, h, V, v0, step)
  <2> HIDE DEF V, step, v0
  <2> QED BY <1>1, TreeRecursion
<1> HIDE DEF V
<1>3. ASSUME NEW a \in Live(h)
      PROVE  g[a] = IF a = nullptr THEN v0
        ELSE IF key < h[a].key
          THEN [heap |-> setLeft(g[h[a].left].heap, a, g[h[a].left].node),
                node |-> a]
        ELSE IF key > h[a].key
          THEN [heap |-> setRight(g[h[a].right].heap, a, g[h[a].right].node),
                node |-> a]
        ELSE [heap |-> h, node |-> a]
  <2> HIDE DEF v0
  <2>1. CASE a = nullptr
    BY <1>2, <2>1 DEF IsRecursion
  <2>2. CASE a # nullptr
    <3>1. /\ a \in DOMAIN h /\ g[h[a].left] \in V /\ g[h[a].right] \in V
      BY <1>2, <2>2, TreesAt DEF Live, Rooted, IsRecursion
    <3> QED
      BY <1>2, <2>2, <3>1 DEF IsRecursion
  <2> QED BY <2>1, <2>2
<1> HIDE DEF step
<1>4. IsInsertion(g, h, key, msg, new)
  <2>1. g = [a \in Live(h) |-> g[a]]
    BY <1>2 DEF IsRecursion
  <2> QED BY <1>3, <2>1, Zenon DEF IsInsertion
<1>5. f = [a \in Live(h) |->
        IF a = nullptr
          THEN [heap |-> [b \in DOMAIN h \cup {new} |->
                            IF b = new THEN makeNode(key, msg) ELSE h[b]],
                node |-> new]
        ELSE IF key < h[a].key
          THEN LET r == f[h[a].left]
               IN  [heap |-> setLeft(r.heap, a, r.node), node |-> a]
        ELSE IF key > h[a].key
          THEN LET r == f[h[a].right]
               IN  [heap |-> setRight(r.heap, a, r.node), node |-> a]
        ELSE [heap |-> h, node |-> a]]
  BY <1>4, Zenon DEF IsInsertion
<1>6. insertNode(h, root, key, msg, new) = f[root]
  BY Zenon DEF insertNode
<1> HIDE DEF f
<1>7. IsInsertion(f, h, key, msg, new)
  BY <1>5, Zenon DEF IsInsertion
<1> QED
  BY <1>6, <1>7

(* The nodes below a, and a new one with the message; old nodes keep their *)
(* keys and values.                                                        *)
Inserted(h, sub, a, key, msg, new, r) ==
  /\ Replaced(h, sub, a, sub[a] \cup {new}, r)
  /\ \A b \in DOMAIN h : r.heap[b].key = h[b].key /\ r.heap[b].value = h[b].value
  /\ r.heap[new].key = key /\ r.heap[new].value = msg

(* insertNode adds one node for a key that is not stored yet, in its place. *)
LEMMA InsertSpec ==
  ASSUME NEW h, NEW sub, NEW root, Rooted(h, sub, root),
         NEW key \in Keys, NEW msg \in Messages, NEW new \in Addresses \ DOMAIN h,
         \A b \in DOMAIN h : h[b].key # key
  PROVE  Inserted(h, sub, root, key, msg, new, insertNode(h, root, key, msg, new))
<1>1. PICK f : insertNode(h, root, key, msg, new) = f[root]
               /\ IsInsertion(f, h, key, msg, new)
  BY InsertRecursion
<1> DEFINE S == {a \in Live(h) : Inserted(h, sub, a, key, msg, new, f[a])}
<1>2. /\ h \in Heap /\ DOMAIN h \subseteq Addresses /\ h \in [DOMAIN h -> Node]
      /\ nullptr \notin DOMAIN h /\ new # nullptr /\ key \in Nat
      /\ sub \in [Live(h) -> SUBSET DOMAIN h] /\ sub[nullptr] = {}
      /\ \A b \in DOMAIN h : h[b].key \in Nat
      /\ Trees(h, sub)
  BY HeapType, BstAssumption DEF Rooted, Trees
<1>3. nullptr \in S
  <2> DEFINE hp == [b \in DOMAIN h \cup {new} |->
                      IF b = new THEN makeNode(key, msg) ELSE h[b]]
             s == [b \in Live(hp) |-> IF b = new THEN {new} ELSE sub[b]]
             r == [heap |-> hp, node |-> new]
  <2>1. f[nullptr] = r /\ nullptr \in Live(h)
    BY <1>1 DEF IsInsertion, Live
  <2>2. makeNode(key, msg) \in Node /\ makeNode(key, msg).key = key
        /\ makeNode(key, msg).value = msg
        /\ makeNode(key, msg).left = nullptr /\ makeNode(key, msg).right = nullptr
    BY DEF makeNode, Node, Pointers
  <2>3. hp \in [DOMAIN h \cup {new} -> Node]
    BY <1>2, <2>2
  <2>4. hp \in Heap
    BY <1>2, <2>3 DEF Heap
  <2>5. s \in [Live(hp) -> SUBSET Addresses] /\ s[nullptr] = {} /\ s[new] = {new}
    BY <1>2 DEF Live
  <2>6. InPlace(hp, s, new)
    BY <2>2, <2>5, <1>2 DEF InPlace, Live
  <2>7. \A b \in DOMAIN h : s[b] = sub[b]
    BY <1>2 DEF Live
  <2>8. \A b \in DOMAIN h : hp[b] = h[b]
    BY <1>2
  <2>9. hp[new] = makeNode(key, msg) /\ DOMAIN hp = DOMAIN h \cup {new}
    OBVIOUS
  <2> HIDE DEF hp, s
  <2>10. Replaced(h, sub, nullptr, {new}, [heap |-> hp, node |-> new])
    BY <1>2, <2>4, <2>5, <2>6, <2>7, <2>8, <2>9 DEF Replaced
  <2>11. hp[new].key = key /\ hp[new].value = msg /\ sub[nullptr] \cup {new} = {new}
    BY <1>2, <2>2, <2>9
  <2>12. Inserted(h, sub, nullptr, key, msg, new, [heap |-> hp, node |-> new])
    BY <2>8, <2>10, <2>11 DEF Inserted
  <2> QED
    BY <2>1, <2>12
<1>4. ASSUME NEW a \in DOMAIN h, h[a].left \in S, h[a].right \in S
      PROVE  a \in S
  <2> DEFINE l == h[a].left
             r == h[a].right
  <2>1. /\ sub[a] = {a} \cup sub[l] \cup sub[r] /\ a \in Live(h)
        /\ l \in Live(h) /\ r \in Live(h)
        /\ a \notin sub[l] /\ a \notin sub[r] /\ sub[l] \cap sub[r] = {}
        /\ sub[l] \subseteq DOMAIN h /\ sub[r] \subseteq DOMAIN h
        /\ \A b \in sub[l] : h[b].key < h[a].key
        /\ \A b \in sub[r] : h[a].key < h[b].key
    BY <1>2, TreesAt, SubType
  <2>2. h[a].key \in Nat /\ h[a].key # key
    BY <1>2
  <2>3. CASE key < h[a].key
    <3> DEFINE p == f[l]
               q == f[a]
               N == sub[l] \cup {new}
    <3>1. q = [heap |-> setLeft(p.heap, a, p.node), node |-> a]
      BY <1>1, <1>2, <2>1, <2>2, <2>3, Zenon DEF IsInsertion
    <3>2. Inserted(h, sub, l, key, msg, new, p)
      BY <1>4
    <3> HIDE DEF p, q
    <3>3. /\ Replaced(h, sub, l, N, p)
          /\ \A b \in DOMAIN h : p.heap[b].key = h[b].key /\ p.heap[b].value = h[b].value
          /\ p.heap[new].key = key /\ p.heap[new].value = msg
      BY <3>2 DEF Inserted
    <3>4. /\ p.heap \in Heap /\ DOMAIN p.heap = (DOMAIN h \ sub[l]) \cup N
          /\ p.node \in N \cup {nullptr} /\ p.heap[a] = h[a]
      BY <2>1, <3>3 DEF Replaced
    <3>5. /\ p.node \in Pointers /\ a \in DOMAIN p.heap /\ p.heap \in Heap
          /\ new \in DOMAIN p.heap /\ DOMAIN h \subseteq DOMAIN p.heap /\ new # a
      BY <1>2, <2>1, <3>4 DEF Pointers
    <3>6. /\ q.node = a /\ q.heap \in Heap /\ DOMAIN q.heap = DOMAIN p.heap
          /\ q.heap[a].left = p.node /\ q.heap[a].right = r
          /\ q.heap[a].key = h[a].key /\ q.heap[a].value = h[a].value
          /\ SameBut(q.heap, p.heap, a)
      <4>1. q.node = a /\ q.heap = setLeft(p.heap, a, p.node)
        BY <3>1
      <4>2. q.heap \in Heap /\ DOMAIN q.heap = DOMAIN p.heap
        BY <4>1, <3>5, SetLeft
      <4>3. \A b \in DOMAIN p.heap \ {a} : q.heap[b] = p.heap[b]
        BY <4>1, <3>5, SetLeft
      <4>4. /\ q.heap[a].left = p.node /\ q.heap[a].right = p.heap[a].right
            /\ q.heap[a].key = p.heap[a].key /\ q.heap[a].value = p.heap[a].value
        BY <4>1, <3>5, SetLeft
      <4> QED BY <4>1, <4>2, <4>3, <4>4, <3>4 DEF SameBut
    <3>7. KeysBelow(p.heap, N, q.heap[a].key) /\ KeysAbove(h, sub[r], q.heap[a].key)
      BY <1>2, <2>1, <2>2, <2>3, <3>3, <3>6 DEF KeysBelow, KeysAbove
    <3>8. /\ a \notin N /\ N \cap sub[r] = {}
          /\ sub[a] \cup {new} = {a} \cup sub[r] \cup N
      BY <2>1, <3>5
    <3>9. Replaced(h, sub, a, sub[a] \cup {new}, q)
      BY <1>2, <2>1, <3>3, <3>6, <3>7, <3>8, RelinkLeft
    <3>10. Inserted(h, sub, a, key, msg, new, q)
      BY <3>3, <3>4, <3>5, <3>6, <3>9 DEF Inserted, SameBut
    <3> QED
      BY <2>1, <3>10 DEF q
  <2>4. CASE key > h[a].key
    <3> DEFINE p == f[r]
               q == f[a]
               N == sub[r] \cup {new}
    <3>0. ~(key < h[a].key)
      BY <1>2, <2>2, <2>4
    <3>1. q = [heap |-> setRight(p.heap, a, p.node), node |-> a]
      BY <1>1, <1>2, <2>1, <2>4, <3>0, Zenon DEF IsInsertion
    <3>2. Inserted(h, sub, r, key, msg, new, p)
      BY <1>4
    <3> HIDE DEF p, q
    <3>3. /\ Replaced(h, sub, r, N, p)
          /\ \A b \in DOMAIN h : p.heap[b].key = h[b].key /\ p.heap[b].value = h[b].value
          /\ p.heap[new].key = key /\ p.heap[new].value = msg
      BY <3>2 DEF Inserted
    <3>4. /\ p.heap \in Heap /\ DOMAIN p.heap = (DOMAIN h \ sub[r]) \cup N
          /\ p.node \in N \cup {nullptr} /\ p.heap[a] = h[a]
      BY <2>1, <3>3 DEF Replaced
    <3>5. /\ p.node \in Pointers /\ a \in DOMAIN p.heap /\ p.heap \in Heap
          /\ new \in DOMAIN p.heap /\ DOMAIN h \subseteq DOMAIN p.heap /\ new # a
      BY <1>2, <2>1, <3>4 DEF Pointers
    <3>6. /\ q.node = a /\ q.heap \in Heap /\ DOMAIN q.heap = DOMAIN p.heap
          /\ q.heap[a].right = p.node /\ q.heap[a].left = l
          /\ q.heap[a].key = h[a].key /\ q.heap[a].value = h[a].value
          /\ SameBut(q.heap, p.heap, a)
      <4>1. q.node = a /\ q.heap = setRight(p.heap, a, p.node)
        BY <3>1
      <4>2. q.heap \in Heap /\ DOMAIN q.heap = DOMAIN p.heap
        BY <4>1, <3>5, SetRight
      <4>3. \A b \in DOMAIN p.heap \ {a} : q.heap[b] = p.heap[b]
        BY <4>1, <3>5, SetRight
      <4>4. /\ q.heap[a].right = p.node /\ q.heap[a].left = p.heap[a].left
            /\ q.heap[a].key = p.heap[a].key /\ q.heap[a].value = p.heap[a].value
        BY <4>1, <3>5, SetRight
      <4> QED BY <4>1, <4>2, <4>3, <4>4, <3>4 DEF SameBut
    <3>7. KeysAbove(p.heap, N, q.heap[a].key) /\ KeysBelow(h, sub[l], q.heap[a].key)
      BY <1>2, <2>1, <2>2, <2>4, <3>3, <3>6 DEF KeysBelow, KeysAbove
    <3>8. /\ a \notin N /\ N \cap sub[l] = {}
          /\ sub[a] \cup {new} = {a} \cup sub[l] \cup N
      BY <2>1, <3>5
    <3>9. Replaced(h, sub, a, sub[a] \cup {new}, q)
      BY <1>2, <2>1, <3>3, <3>6, <3>7, <3>8, RelinkRight
    <3>10. Inserted(h, sub, a, key, msg, new, q)
      BY <3>3, <3>4, <3>5, <3>6, <3>9 DEF Inserted, SameBut
    <3> QED
      BY <2>1, <3>10 DEF q
  <2> QED BY <1>2, <2>2, <2>3, <2>4
<1> HIDE DEF S
<1>5. root \in S
  BY <1>3, <1>4, TreeInduction DEF Rooted
<1> QED
  BY <1>1, <1>5 DEF S

-----------------------------------------------------------------------------
(* What deleteNode returns for the node at a and the key k, x and y being  *)
(* what it returns for the subtrees.                                       *)
DelStep(h, a, x, y, k) ==
  IF k < h[a].key
    THEN [heap |-> setLeft(x[k].heap, a, x[k].node), node |-> a]
  ELSE IF k > h[a].key
    THEN [heap |-> setRight(y[k].heap, a, y[k].node), node |-> a]
  ELSE IF h[a].left = nullptr
    THEN [heap |-> free(h, a), node |-> h[a].right]
  ELSE IF h[a].right = nullptr
    THEN [heap |-> free(h, a), node |-> h[a].left]
  ELSE LET next == h[minValueNode(h, h[a].right)].key
       IN  [heap |-> [setRight(y[next].heap, a, y[next].node) EXCEPT ![a].key = next],
            node |-> a]

IsDeletion(f, h) ==
  f = [a \in Live(h) |-> [k \in Keys |->
         IF a = nullptr THEN [heap |-> h, node |-> a]
         ELSE DelStep(h, a, f[h[a].left], f[h[a].right], k)]]

LEMMA FreeType ==
  ASSUME NEW h \in Heap, NEW a
  PROVE  /\ free(h, a) \in Heap /\ DOMAIN free(h, a) = DOMAIN h \ {a}
         /\ \A b \in DOMAIN h \ {a} : free(h, a)[b] = h[b]
<1>1. DOMAIN h \subseteq Addresses /\ h \in [DOMAIN h -> Node]
  BY HeapType
<1>2. free(h, a) \in [DOMAIN h \ {a} -> Node]
  BY <1>1 DEF free
<1> QED
  BY <1>1, <1>2 DEF Heap, free

setKey(h, a, k) == [h EXCEPT ![a].key = k]

LEMMA SetKeyType ==
  ASSUME NEW h \in Heap, NEW a, NEW k \in Keys
  PROVE  /\ setKey(h, a, k) \in Heap /\ DOMAIN setKey(h, a, k) = DOMAIN h
         /\ \A b \in DOMAIN h \ {a} : setKey(h, a, k)[b] = h[b]
         /\ a \in DOMAIN h => /\ setKey(h, a, k)[a].key = k
                              /\ setKey(h, a, k)[a].value = h[a].value
                              /\ setKey(h, a, k)[a].left = h[a].left
                              /\ setKey(h, a, k)[a].right = h[a].right
<1> USE DEF setKey
<1> DEFINE g == [h EXCEPT ![a].key = k]
<1>1. DOMAIN h \subseteq Addresses /\ h \in [DOMAIN h -> Node]
  BY HeapType
<1>2. g \in [DOMAIN h -> Node]
  BY <1>1 DEF Node
<1>3. g \in Heap /\ DOMAIN g = DOMAIN h
  BY <1>1, <1>2 DEF Heap
<1> QED
  BY <1>1, <1>3 DEF Node

LEMMA DeleteRecursion ==
  ASSUME NEW h, NEW sub, NEW root, Rooted(h, sub, root)
  PROVE  \E f : IsDeletion(f, h)
                /\ \A key : deleteNode(h, root, key) = f[root][key]
<1> DEFINE V == [Keys -> [heap : Heap, node : Pointers]]
           v0 == [k \in Keys |-> [heap |-> h, node |-> nullptr]]
           step == [a \in DOMAIN h |-> [x \in V |-> [y \in V |->
                      [k \in Keys |-> DelStep(h, a, x, y, k)]]]]
           f == CHOOSE del : del = [a \in Live(h) |-> [k \in Keys |->
        IF a = nullptr THEN [heap |-> h, node |-> a]
        ELSE IF k < h[a].key
          THEN LET r == del[h[a].left][k]
               IN  [heap |-> setLeft(r.heap, a, r.node), node |-> a]
        ELSE IF k > h[a].key
          THEN LET r == del[h[a].right][k]
               IN  [heap |-> setRight(r.heap, a, r.node), node |-> a]
        ELSE IF h[a].left = nullptr
          THEN [heap |-> free(h, a), node |-> h[a].right]
        ELSE IF h[a].right = nullptr
          THEN [heap |-> free(h, a), node |-> h[a].left]
        ELSE LET next == h[minValueNode(h, h[a].right)].key
                 r    == del[h[a].right][next]
             IN  [heap |-> [setRight(r.heap, a, r.node) EXCEPT ![a].key = next],
                  node |-> a]]]
<1>0. h \in Heap /\ DOMAIN h \subseteq Addresses /\ h \in [DOMAIN h -> Node]
      /\ nullptr \notin DOMAIN h
  BY HeapType DEF Rooted, Trees
<1>1. step \in [DOMAIN h -> [V -> [V -> V]]] /\ v0 \in V
  <2>1. v0 \in V
    BY <1>0 DEF Pointers
  <2>2. ASSUME NEW x \in V, NEW k \in Keys
        PROVE  x[k].heap \in Heap /\ x[k].node \in Pointers
    OBVIOUS
  <2>3. ASSUME NEW a \in DOMAIN h, NEW x \in V, NEW y \in V, NEW k \in Keys
        PROVE  DelStep(h, a, x, y, k) \in [heap : Heap, node : Pointers]
    <3> DEFINE W == [heap : Heap, node : Pointers]
               next == h[minValueNode(h, h[a].right)].key
               g == setRight(y[next].heap, a, y[next].node)
    <3>1. [heap |-> setLeft(x[k].heap, a, x[k].node), node |-> a] \in W
      BY <1>0, <2>2, SetLinkType DEF Pointers
    <3>2. [heap |-> setRight(y[k].heap, a, y[k].node), node |-> a] \in W
      BY <1>0, <2>2, SetLinkType DEF Pointers
    <3>3. /\ [heap |-> free(h, a), node |-> h[a].right] \in W
          /\ [heap |-> free(h, a), node |-> h[a].left] \in W
      BY <1>0, FreeType, HeapType
    <3>4. ASSUME h[a].right # nullptr
          PROVE  [heap |-> [g EXCEPT ![a].key = next], node |-> a] \in W
      <4>1. h[a].right \in DOMAIN h /\ h[a].right \in Live(h)
        BY <3>4, TreesAt DEF Rooted, Live
      <4>2. minValueNode(h, h[a].right) \in sub[h[a].right]
        BY <4>1, LeftmostIsLeast
      <4>3. sub[h[a].right] \subseteq DOMAIN h
        BY <4>1, SubType DEF Rooted
      <4>4. next \in Keys
        BY <4>2, <4>3, <1>0, HeapType
      <4>5. y[next].heap \in Heap /\ y[next].node \in Pointers
        BY <4>4, <2>2
      <4>6. g \in Heap
        BY <4>5, SetLinkType
      <4> HIDE DEF next, g
      <4>7. [g EXCEPT ![a].key = next] \in Heap
        BY <4>4, <4>6, SetKeyType DEF setKey
      <4> QED BY <4>7, <1>0 DEF Pointers
    <3> HIDE DEF W
    <3> QED BY <3>1, <3>2, <3>3, <3>4, Zenon DEF DelStep, W
  <2>4. step \in [DOMAIN h -> [V -> [V -> V]]]
    BY <2>3
  <2> QED BY <2>1, <2>4
<1>2. PICK g : IsRecursion(g, h, V, v0, step)
  <2> HIDE DEF V, step, v0
  <2> QED BY <1>1, TreeRecursion
<1> HIDE DEF V
<1>3. ASSUME NEW a \in Live(h)
      PROVE  g[a] = [k \in Keys |->
                       IF a = nullptr THEN [heap |-> h, node |-> a]
                       ELSE DelStep(h, a, g[h[a].left], g[h[a].right], k)]
  <2>1. CASE a = nullptr
    BY <1>2, <2>1 DEF IsRecursion
  <2>2. CASE a # nullptr
    <3>1. a \in DOMAIN h /\ g[h[a].left] \in V /\ g[h[a].right] \in V
      BY <1>2, <2>2, TreesAt DEF Live, Rooted, IsRecursion
    <3> QED
      BY <1>2, <2>2, <3>1 DEF IsRecursion
  <2> QED BY <2>1, <2>2
<1> HIDE DEF step
<1>4. IsDeletion(g, h)
  <2>1. g = [a \in Live(h) |-> g[a]]
    BY <1>2 DEF IsRecursion
  <2> QED BY <1>3, <2>1, Zenon DEF IsDeletion
<1>5. f = [a \in Live(h) |-> [k \in Keys |->
        IF a = nullptr THEN [heap |-> h, node |-> a]
        ELSE IF k < h[a].key
          THEN LET r == f[h[a].left][k]
               IN  [heap |-> setLeft(r.heap, a, r.node), node |-> a]
        ELSE IF k > h[a].key
          THEN LET r == f[h[a].right][k]
               IN  [heap |-> setRight(r.heap, a, r.node), node |-> a]
        ELSE IF h[a].left = nullptr
          THEN [heap |-> free(h, a), node |-> h[a].right]
        ELSE IF h[a].right = nullptr
          THEN [heap |-> free(h, a), node |-> h[a].left]
        ELSE LET next == h[minValueNode(h, h[a].right)].key
                 r    == f[h[a].right][next]
             IN  [heap |-> [setRight(r.heap, a, r.node) EXCEPT ![a].key = next],
                  node |-> a]]]
  BY <1>4, Zenon DEF IsDeletion, DelStep
<1>6. \A key : deleteNode(h, root, key) = f[root][key]
  BY Zenon DEF deleteNode
<1> HIDE DEF f
<1>7. IsDeletion(f, h)
  BY <1>5, Zenon DEF IsDeletion, DelStep
<1> QED
  BY <1>6, <1>7

(* What happens to the other nodes when the node d, one of B, goes and the *)
(* key k with it: either it is the key of d, or that of a node with two    *)
(* subtrees, which takes over the key of d, and then k is not the least.   *)
(* Every other node keeps its key; all of them their values.               *)
Others(h, B, d, k, r) ==
  /\ \A b \in DOMAIN h \ {d} : r.heap[b].value = h[b].value
  /\ \/ /\ h[d].key = k
        /\ \A b \in DOMAIN h \ {d} : r.heap[b].key = h[b].key
     \/ /\ \E t \in B \ {d} :
             /\ h[t].key = k /\ r.heap[t].key = h[d].key
             /\ \A b \in DOMAIN h \ {d, t} : r.heap[b].key = h[b].key
        /\ \E c \in B : h[c].key < k

Deleted(h, sub, a, k, r) ==
  \E d \in sub[a] : Replaced(h, sub, a, sub[a] \ {d}, r) /\ Others(h, sub[a], d, k, r)

(* A node without a left or a right subtree is replaced by the other one.  *)
LEMMA FreeSpec ==
  ASSUME NEW h, NEW sub, Trees(h, sub), NEW a \in DOMAIN h,
         NEW c \in {h[a].left, h[a].right},
         nullptr \in {h[a].left, h[a].right} \ {c} \/ h[a].left = h[a].right
  PROVE  Deleted(h, sub, a, h[a].key, [heap |-> free(h, a), node |-> c])
<1> DEFINE hp == free(h, a)
           s == [b \in Live(hp) |-> sub[b]]
<1>1. /\ h \in Heap /\ DOMAIN h \subseteq Addresses /\ nullptr \notin DOMAIN h
      /\ sub \in [Live(h) -> SUBSET DOMAIN h] /\ sub[nullptr] = {}
  BY HeapType DEF Trees
<1>2. /\ sub[a] = {a} \cup sub[h[a].left] \cup sub[h[a].right] /\ a \in Live(h)
      /\ h[a].left \in Live(h) /\ h[a].right \in Live(h)
      /\ a \notin sub[h[a].left] /\ a \notin sub[h[a].right]
      /\ sub[h[a].left] \cap sub[h[a].right] = {} /\ a \in sub[a]
      /\ \A b \in DOMAIN h : b \in sub[b]
  BY TreesAt, SubType
<1>3. sub[a] \ {a} = sub[c] /\ c \in sub[c] \cup {nullptr} /\ c # a
  BY <1>1, <1>2 DEF Live
<1>4. /\ hp \in Heap /\ DOMAIN hp = DOMAIN h \ {a}
      /\ \A b \in DOMAIN h \ {a} : hp[b] = h[b]
  BY <1>1, FreeType
<1>5. s \in [Live(hp) -> SUBSET Addresses] /\ \A b \in Live(hp) : s[b] = sub[b]
  BY <1>1, <1>4 DEF Live
<1> HIDE DEF hp, s
<1>6. ASSUME NEW b \in sub[c]
      PROVE  InPlace(hp, s, b) /\ s[b] \subseteq sub[c] /\ b \in s[b]
  <2>1. /\ b \in DOMAIN h /\ sub[b] \subseteq sub[c] /\ b # a
        /\ h[b].left \in sub[c] \cup {nullptr}
        /\ h[b].right \in sub[c] \cup {nullptr}
        /\ a \notin sub[c] /\ sub[c] \subseteq DOMAIN h
    BY <1>1, <1>2, BelowClosed
  <2>2. InPlace(h, sub, b)
    BY <2>1 DEF Trees
  <2>3. \A e \in {h[b].left, h[b].right} : e \in DOMAIN s /\ s[e] = sub[e]
    BY <2>1, <1>4, <1>5 DEF Live
  <2>4. s[b] = sub[b] /\ hp[b] = h[b]
    BY <2>1, <1>4, <1>5 DEF Live
  <2>5. \A e \in sub[b] : hp[e].key = h[e].key
    BY <2>1, <1>4
  <2>6. InPlace(hp, s, b)
    BY <2>2, <2>3, <2>4, <2>5, InPlaceFrame
  <2> QED BY <1>2, <2>1, <2>4, <2>6
<1>7. s[nullptr] = {} /\ s[c] = sub[c] /\ \A b \in DOMAIN h \ sub[a] : s[b] = sub[b]
  BY <1>1, <1>2, <1>3, <1>4, <1>5 DEF Live
<1>8. Replaced(h, sub, a, sub[a] \ {a}, [heap |-> hp, node |-> c])
  <2>1. DOMAIN hp = (DOMAIN h \ sub[a]) \cup (sub[a] \ {a})
    BY <1>1, <1>2, <1>4
  <2>2. \A b \in DOMAIN h \ sub[a] : hp[b] = h[b]
    BY <1>2, <1>4
  <2> QED
    BY <1>3, <1>4, <1>5, <1>6, <1>7, <2>1, <2>2 DEF Replaced
<1>9. Deleted(h, sub, a, h[a].key, [heap |-> hp, node |-> c])
  BY <1>2, <1>4, <1>8 DEF Deleted, Others
<1> QED
  BY <1>9 DEF hp

(* deleteNode removes the key it is given, if it is stored, and no other.  *)
LEMMA DeleteSpec ==
  ASSUME NEW h, NEW sub, NEW root, Rooted(h, sub, root),
         NEW key \in Keys, \E b \in DOMAIN h : h[b].key = key
  PROVE  Deleted(h, sub, root, key, deleteNode(h, root, key))
<1>1. PICK f : IsDeletion(f, h) /\ \A k : deleteNode(h, root, k) = f[root][k]
  BY DeleteRecursion
<1> DEFINE S == {a \in Live(h) : \A k \in Keys :
                   (\E b \in sub[a] : h[b].key = k) => Deleted(h, sub, a, k, f[a][k])}
<1>2. /\ h \in Heap /\ DOMAIN h \subseteq Addresses /\ h \in [DOMAIN h -> Node]
      /\ nullptr \notin DOMAIN h /\ Keys \subseteq Nat
      /\ sub \in [Live(h) -> SUBSET DOMAIN h] /\ sub[nullptr] = {}
      /\ \A b \in DOMAIN h : h[b].key \in Nat /\ h[b].key \in Keys
      /\ Trees(h, sub) /\ nullptr \in Live(h)
  BY HeapType, BstAssumption DEF Rooted, Trees, Live
<1>3. nullptr \in S
  BY <1>2
<1>4. ASSUME NEW a \in DOMAIN h, h[a].left \in S, h[a].right \in S
      PROVE  a \in S
  <2> DEFINE l == h[a].left
             r == h[a].right
  <2>1. /\ sub[a] = {a} \cup sub[l] \cup sub[r] /\ a \in Live(h)
        /\ l \in Live(h) /\ r \in Live(h)
        /\ a \notin sub[l] /\ a \notin sub[r] /\ sub[l] \cap sub[r] = {}
        /\ sub[l] \subseteq DOMAIN h /\ sub[r] \subseteq DOMAIN h
        /\ \A b \in sub[l] : h[b].key < h[a].key
        /\ \A b \in sub[r] : h[a].key < h[b].key
    BY <1>2, TreesAt, SubType
  <2>2. h[a].key \in Nat /\ h[a].key \in Keys
    BY <1>2
  <2> SUFFICES ASSUME NEW k \in Keys, \E b \in sub[a] : h[b].key = k
               PROVE  Deleted(h, sub, a, k, f[a][k])
    BY <2>1
  <2>3. k \in Nat
    BY <1>2
  <2>0. f[a][k] = DelStep(h, a, f[l], f[r], k)
    BY <1>1, <1>2, <2>1 DEF IsDeletion
  <2>4. CASE k < h[a].key
    <3> DEFINE p == f[l][k]
               q == f[a][k]
    <3>1. q = [heap |-> setLeft(p.heap, a, p.node), node |-> a]
      BY <2>0, <2>4, Zenon DEF DelStep
    <3>2. Deleted(h, sub, l, k, p)
      <4>1. \E b \in sub[l] : h[b].key = k
        BY <1>2, <2>1, <2>2, <2>3, <2>4
      <4> QED BY <1>4, <4>1
    <3> HIDE DEF p, q
    <3>3. PICK d \in sub[l] :
            /\ Replaced(h, sub, l, sub[l] \ {d}, p)
            /\ Others(h, sub[l], d, k, p)
      BY <3>2 DEF Deleted
    <3> DEFINE N == sub[l] \ {d}
    <3>4. /\ p.heap \in Heap /\ DOMAIN p.heap = (DOMAIN h \ sub[l]) \cup N
          /\ p.node \in N \cup {nullptr} /\ p.heap[a] = h[a]
      BY <2>1, <3>3 DEF Replaced
    <3>5. /\ p.node \in Pointers /\ a \in DOMAIN p.heap /\ p.heap \in Heap
          /\ DOMAIN h \ {d} \subseteq DOMAIN p.heap /\ d # a /\ d \in sub[a]
      BY <1>2, <2>1, <3>4 DEF Pointers
    <3>6. /\ q.node = a /\ q.heap \in Heap
          /\ q.heap[a].left = p.node /\ q.heap[a].right = r
          /\ q.heap[a].key = h[a].key /\ q.heap[a].value = h[a].value
          /\ SameBut(q.heap, p.heap, a)
      <4>1. q.node = a /\ q.heap = setLeft(p.heap, a, p.node)
        BY <3>1
      <4>2. q.heap \in Heap /\ DOMAIN q.heap = DOMAIN p.heap
        BY <4>1, <3>5, SetLeft
      <4>3. \A b \in DOMAIN p.heap \ {a} : q.heap[b] = p.heap[b]
        BY <4>1, <3>5, SetLeft
      <4>4. /\ q.heap[a].left = p.node /\ q.heap[a].right = p.heap[a].right
            /\ q.heap[a].key = p.heap[a].key /\ q.heap[a].value = p.heap[a].value
        BY <4>1, <3>5, SetLeft
      <4> QED BY <4>1, <4>2, <4>3, <4>4, <3>4 DEF SameBut
    <3>7. KeysBelow(p.heap, N, q.heap[a].key) /\ KeysAbove(h, sub[r], q.heap[a].key)
      <4>1. \A b \in N : h[b].key \in Nat /\ p.heap[b].key \in Nat
        BY <1>2, <2>1, <3>4, HeapType
      <4>2. \A b \in N : \E c \in sub[l] : p.heap[b].key = h[c].key
        BY <2>1, <3>3 DEF Others
      <4> QED BY <2>1, <3>6, <4>1, <4>2 DEF KeysBelow, KeysAbove
    <3>8. /\ a \notin N /\ N \cap sub[r] = {}
          /\ sub[a] \ {d} = {a} \cup sub[r] \cup N
      BY <2>1, <3>5
    <3>9. Replaced(h, sub, a, sub[a] \ {d}, q)
      BY <1>2, <2>1, <3>3, <3>6, <3>7, <3>8, RelinkLeft
    <3>10. \A b \in DOMAIN h \ {d} : /\ q.heap[b].key = p.heap[b].key
                                      /\ q.heap[b].value = p.heap[b].value
      BY <3>4, <3>5, <3>6 DEF SameBut
    <3>11. Others(h, sub[a], d, k, q)
      BY <2>1, <3>3, <3>10 DEF Others
    <3> QED
      BY <3>5, <3>9, <3>11 DEF Deleted, q
  <2>5. CASE k > h[a].key
    <3> DEFINE p == f[r][k]
               q == f[a][k]
    <3>0. ~(k < h[a].key)
      BY <2>2, <2>3, <2>5
    <3>1. q = [heap |-> setRight(p.heap, a, p.node), node |-> a]
      BY <2>0, <2>5, <3>0, Zenon DEF DelStep
    <3>2. Deleted(h, sub, r, k, p)
      <4>1. \E b \in sub[r] : h[b].key = k
        BY <1>2, <2>1, <2>2, <2>3, <2>5
      <4> QED BY <1>4, <4>1
    <3> HIDE DEF p, q
    <3>3. PICK d \in sub[r] :
            /\ Replaced(h, sub, r, sub[r] \ {d}, p)
            /\ Others(h, sub[r], d, k, p)
      BY <3>2 DEF Deleted
    <3> DEFINE N == sub[r] \ {d}
    <3>4. /\ p.heap \in Heap /\ DOMAIN p.heap = (DOMAIN h \ sub[r]) \cup N
          /\ p.node \in N \cup {nullptr} /\ p.heap[a] = h[a]
      BY <2>1, <3>3 DEF Replaced
    <3>5. /\ p.node \in Pointers /\ a \in DOMAIN p.heap /\ p.heap \in Heap
          /\ DOMAIN h \ {d} \subseteq DOMAIN p.heap /\ d # a /\ d \in sub[a]
      BY <1>2, <2>1, <3>4 DEF Pointers
    <3>6. /\ q.node = a /\ q.heap \in Heap
          /\ q.heap[a].right = p.node /\ q.heap[a].left = l
          /\ q.heap[a].key = h[a].key /\ q.heap[a].value = h[a].value
          /\ SameBut(q.heap, p.heap, a)
      <4>1. q.node = a /\ q.heap = setRight(p.heap, a, p.node)
        BY <3>1
      <4>2. q.heap \in Heap /\ DOMAIN q.heap = DOMAIN p.heap
        BY <4>1, <3>5, SetRight
      <4>3. \A b \in DOMAIN p.heap \ {a} : q.heap[b] = p.heap[b]
        BY <4>1, <3>5, SetRight
      <4>4. /\ q.heap[a].right = p.node /\ q.heap[a].left = p.heap[a].left
            /\ q.heap[a].key = p.heap[a].key /\ q.heap[a].value = p.heap[a].value
        BY <4>1, <3>5, SetRight
      <4> QED BY <4>1, <4>2, <4>3, <4>4, <3>4 DEF SameBut
    <3>7. KeysAbove(p.heap, N, q.heap[a].key) /\ KeysBelow(h, sub[l], q.heap[a].key)
      <4>1. \A b \in N : h[b].key \in Nat /\ p.heap[b].key \in Nat
        BY <1>2, <2>1, <3>4, HeapType
      <4>2. \A b \in N : \E c \in sub[r] : p.heap[b].key = h[c].key
        BY <2>1, <3>3 DEF Others
      <4> QED BY <2>1, <3>6, <4>1, <4>2 DEF KeysBelow, KeysAbove
    <3>8. /\ a \notin N /\ N \cap sub[l] = {}
          /\ sub[a] \ {d} = {a} \cup sub[l] \cup N
      BY <2>1, <3>5
    <3>9. Replaced(h, sub, a, sub[a] \ {d}, q)
      BY <1>2, <2>1, <3>3, <3>6, <3>7, <3>8, RelinkRight
    <3>10. \A b \in DOMAIN h \ {d} : /\ q.heap[b].key = p.heap[b].key
                                      /\ q.heap[b].value = p.heap[b].value
      BY <3>4, <3>5, <3>6 DEF SameBut
    <3>11. Others(h, sub[a], d, k, q)
      BY <2>1, <3>3, <3>10 DEF Others
    <3> QED
      BY <3>5, <3>9, <3>11 DEF Deleted, q
  <2>6. CASE k = h[a].key /\ l = nullptr
    <3>0. ~(k < h[a].key) /\ ~(k > h[a].key)
      BY <2>2, <2>6
    <3>1. f[a][k] = [heap |-> free(h, a), node |-> r]
      BY <2>0, <2>6, <3>0, Zenon DEF DelStep
    <3>2. Deleted(h, sub, a, h[a].key, [heap |-> free(h, a), node |-> r])
      BY <1>2, <2>6, FreeSpec
    <3> QED BY <2>6, <3>1, <3>2
  <2>7. CASE k = h[a].key /\ l # nullptr /\ r = nullptr
    <3>0. ~(k < h[a].key) /\ ~(k > h[a].key)
      BY <2>2, <2>7
    <3>1. f[a][k] = [heap |-> free(h, a), node |-> l]
      BY <2>0, <2>7, <3>0, Zenon DEF DelStep
    <3>2. Deleted(h, sub, a, h[a].key, [heap |-> free(h, a), node |-> l])
      BY <1>2, <2>7, FreeSpec
    <3> QED BY <2>7, <3>1, <3>2
  <2>8. CASE k = h[a].key /\ l # nullptr /\ r # nullptr
    <3> DEFINE m == minValueNode(h, r)
               next == h[m].key
               p == f[r][next]
               g == setRight(p.heap, a, p.node)
               q == f[a][k]
    <3>0. ~(k < h[a].key) /\ ~(k > h[a].key)
      BY <2>2, <2>8
    <3>1. q = [heap |-> [g EXCEPT ![a].key = next], node |-> a]
      BY <2>0, <2>8, <3>0, Zenon DEF DelStep
    <3>2. /\ m \in sub[r] /\ m \in DOMAIN h
          /\ \A b \in sub[r] : next <= h[b].key
      <4>1. r \in DOMAIN h
        BY <2>1, <2>8 DEF Live
      <4> QED BY <2>1, <4>1, LeftmostIsLeast
    <3>3. next \in Nat /\ next \in Keys /\ h[a].key < next
      BY <1>2, <2>1, <3>2
    <3>4. Deleted(h, sub, r, next, p)
      BY <1>4, <3>2, <3>3
    <3> HIDE DEF p, q, next, m
    <3>5. PICK d \in sub[r] :
            /\ Replaced(h, sub, r, sub[r] \ {d}, p)
            /\ \A b \in DOMAIN h \ {d} : p.heap[b].value = h[b].value
            /\ h[d].key = next
            /\ \A b \in DOMAIN h \ {d} : p.heap[b].key = h[b].key
      <4>1. \A c \in sub[r] : ~(h[c].key < next)
        BY <1>2, <2>1, <3>2, <3>3
      <4> QED BY <3>4, <4>1 DEF Deleted, Others
    <3> DEFINE N == sub[r] \ {d}
    <3>6. /\ p.heap \in Heap /\ DOMAIN p.heap = (DOMAIN h \ sub[r]) \cup N
          /\ p.node \in N \cup {nullptr} /\ p.heap[a] = h[a]
      BY <2>1, <3>5 DEF Replaced
    <3>7. /\ p.node \in Pointers /\ a \in DOMAIN p.heap /\ p.heap \in Heap
          /\ DOMAIN h \ {d} \subseteq DOMAIN p.heap /\ d # a /\ d \in sub[a]
      BY <1>2, <2>1, <3>6 DEF Pointers
    <3>8. /\ g \in Heap /\ DOMAIN g = DOMAIN p.heap
          /\ g[a].left = p.heap[a].left /\ g[a].right = p.node
          /\ g[a].value = p.heap[a].value
          /\ \A b \in DOMAIN p.heap \ {a} : g[b] = p.heap[b]
      BY <3>7, SetRight
    <3> HIDE DEF g
    <3>9. /\ q.node = a /\ q.heap \in Heap
          /\ q.heap[a].right = p.node /\ q.heap[a].left = l
          /\ q.heap[a].key = next /\ q.heap[a].value = h[a].value
          /\ SameBut(q.heap, p.heap, a)
      <4>1. q.node = a /\ q.heap = setKey(g, a, next)
        BY <3>1, Zenon DEF setKey
      <4>2. /\ q.heap \in Heap /\ DOMAIN q.heap = DOMAIN g
            /\ \A b \in DOMAIN g \ {a} : q.heap[b] = g[b]
            /\ a \in DOMAIN g => /\ q.heap[a].key = next
                                 /\ q.heap[a].value = g[a].value
                                 /\ q.heap[a].left = g[a].left
                                 /\ q.heap[a].right = g[a].right
        BY <3>3, <3>8, <4>1, SetKeyType
      <4> QED BY <4>1, <4>2, <3>6, <3>7, <3>8 DEF SameBut
    <3>10. KeysAbove(p.heap, N, q.heap[a].key) /\ KeysBelow(h, sub[l], q.heap[a].key)
      <4>1. \A b \in N : h[b].key # h[d].key
        BY <1>2, <2>1, <3>5, KeysDistinct
      <4>2. \A b \in N : next < p.heap[b].key
        BY <1>2, <2>1, <3>2, <3>3, <3>5, <4>1
      <4>3. \A b \in sub[l] : h[b].key < h[a].key /\ h[b].key \in Nat
        BY <1>2, <2>1
      <4> QED BY <2>2, <3>3, <3>9, <4>2, <4>3 DEF KeysBelow, KeysAbove
    <3>11. /\ a \notin N /\ N \cap sub[l] = {}
           /\ sub[a] \ {d} = {a} \cup sub[l] \cup N
      BY <2>1, <3>7
    <3>12. Replaced(h, sub, a, sub[a] \ {d}, q)
      BY <1>2, <2>1, <3>5, <3>9, <3>10, <3>11, RelinkRight
    <3>13. \A b \in DOMAIN h \ {d, a} : /\ q.heap[b].key = h[b].key
                                         /\ q.heap[b].value = h[b].value
      BY <3>5, <3>6, <3>7, <3>9 DEF SameBut
    <3>14. l \in sub[a] /\ h[l].key < k
      <4>1. l \in DOMAIN h /\ l \in sub[l]
        BY <1>2, <2>1, <2>8, TreesAt DEF Live
      <4> QED BY <4>1, <2>1, <2>8
    <3>15. Others(h, sub[a], d, k, q)
      <4>1. a \in sub[a] \ {d} /\ h[a].key = k /\ q.heap[a].key = h[d].key
        BY <2>1, <2>8, <3>5, <3>7, <3>9
      <4>2. \A b \in DOMAIN h \ {d} : q.heap[b].value = h[b].value
        BY <3>9, <3>13
      <4> QED BY <3>13, <3>14, <4>1, <4>2 DEF Others
    <3> QED
      BY <3>7, <3>12, <3>15 DEF Deleted, q
  <2> QED BY <2>2, <2>3, <2>4, <2>5, <2>6, <2>7, <2>8
<1> HIDE DEF S
<1>5. root \in S
  BY <1>3, <1>4, TreeInduction DEF Rooted
<1> QED
  BY <1>1, <1>5 DEF S, Rooted

-----------------------------------------------------------------------------
(* What the modules that use a tree need to know of it.                    *)
IsTree(h, root) == \E sub : Rooted(h, sub, root)

Stores(h, k) == \E b \in DOMAIN h : h[b].key = k

LEMMA EmptyTree == IsTree([a \in {} |-> 0], nullptr)
<1> DEFINE h == [a \in {} |-> 0]
           sub == [a \in {nullptr} |-> {}]
<1>1. DOMAIN h = {} /\ Live(h) = {nullptr}
  BY DEF Live
<1>2. h \in [{} -> Node]
  OBVIOUS
<1>3. h \in Heap
  BY <1>2 DEF Heap
<1>4. IsFiniteSet({})
  BY FS_EmptySet
<1> HIDE DEF h
<1>5. Rooted(h, sub, nullptr)
  BY <1>1, <1>3, <1>4 DEF Rooted, Trees
<1> QED
  BY <1>5 DEF IsTree, h

LEMMA TreeType ==
  ASSUME NEW h, NEW root, IsTree(h, root)
  PROVE  /\ h \in Heap /\ IsFiniteSet(DOMAIN h) /\ root \in Pointers
         /\ root = nullptr <=> DOMAIN h = {}
         /\ root # nullptr => root \in DOMAIN h
<1>1. PICK sub : Rooted(h, sub, root)
  BY DEF IsTree
<1>2. Trees(h, sub) /\ root \in Live(h) /\ sub[root] = DOMAIN h
  BY <1>1 DEF Rooted
<1>3. DOMAIN h \subseteq Addresses /\ nullptr \notin DOMAIN h /\ sub[nullptr] = {}
  BY <1>2, SubType, HeapType DEF Trees
<1>4. h \in Heap /\ IsFiniteSet(DOMAIN h)
  BY <1>2 DEF Trees
<1> QED
  BY <1>2, <1>3, <1>4 DEF Live, Pointers

(* search finds a key that is stored, at the one node that has it, and     *)
(* returns null for every other key.                                       *)
LEMMA SearchStored ==
  ASSUME NEW h, NEW root, IsTree(h, root), NEW k \in Keys
  PROVE  /\ search(h, root, k) # nullptr <=> Stores(h, k)
         /\ Stores(h, k) => /\ search(h, root, k) \in DOMAIN h
                            /\ h[search(h, root, k)].key = k
         /\ \A b \in DOMAIN h : h[b].key = k => search(h, root, k) = b
<1>1. PICK sub : Rooted(h, sub, root)
  BY DEF IsTree
<1> DEFINE a == search(h, root, k)
<1>2. \/ a \in DOMAIN h /\ h[a].key = k
      \/ a = nullptr /\ \A b \in DOMAIN h : h[b].key # k
  BY <1>1, SearchFinds
<1>3. nullptr \notin DOMAIN h /\ \A b, c \in DOMAIN h : h[b].key = h[c].key => b = c
  BY <1>1, KeysDistinct, SubType DEF Rooted
<1> HIDE DEF a
<1>4. /\ a # nullptr <=> Stores(h, k)
      /\ Stores(h, k) => a \in DOMAIN h /\ h[a].key = k
      /\ \A b \in DOMAIN h : h[b].key = k => a = b
  BY <1>2, <1>3 DEF Stores
<1> QED
  BY <1>4 DEF a

LEMMA InsertTree ==
  ASSUME NEW h, NEW root, IsTree(h, root), NEW key \in Keys, NEW msg \in Messages,
         NEW new \in Addresses \ DOMAIN h, ~Stores(h, key),
         NEW r, r = insertNode(h, root, key, msg, new)
  PROVE  /\ IsTree(r.heap, r.node)
         /\ DOMAIN r.heap = DOMAIN h \cup {new}
         /\ \A b \in DOMAIN h : r.heap[b].key = h[b].key /\ r.heap[b].value = h[b].value
         /\ r.heap[new].key = key /\ r.heap[new].value = msg
<1>1. PICK sub : Rooted(h, sub, root)
  BY DEF IsTree
<1>2. Inserted(h, sub, root, key, msg, new, r)
  BY <1>1, InsertSpec DEF Stores
<1>3. sub[root] = DOMAIN h /\ IsFiniteSet(DOMAIN h)
  BY <1>1 DEF Rooted, Trees
<1> DEFINE N == DOMAIN h \cup {new}
<1>4. IsFiniteSet(N)
  BY <1>3, FS_AddElement
<1>5. Replaced(h, sub, root, N, r)
  BY <1>2, <1>3 DEF Inserted
<1> HIDE DEF N
<1>6. DOMAIN r.heap = N /\ IsTree(r.heap, r.node)
  BY <1>1, <1>4, <1>5, ReplacedRoot DEF IsTree
<1> QED
  BY <1>2, <1>6 DEF Inserted, N

LEMMA DeleteTree ==
  ASSUME NEW h, NEW root, IsTree(h, root), NEW key \in Keys, Stores(h, key),
         NEW r, r = deleteNode(h, root, key)
  PROVE  /\ IsTree(r.heap, r.node)
         /\ \E d \in DOMAIN h : /\ DOMAIN r.heap = DOMAIN h \ {d}
                                /\ Others(h, DOMAIN h, d, key, r)
<1>1. PICK sub : Rooted(h, sub, root)
  BY DEF IsTree
<1>2. Deleted(h, sub, root, key, r)
  BY <1>1, DeleteSpec DEF Stores
<1>3. sub[root] = DOMAIN h /\ IsFiniteSet(DOMAIN h)
  BY <1>1 DEF Rooted, Trees
<1>4. PICK d \in DOMAIN h : /\ Replaced(h, sub, root, DOMAIN h \ {d}, r)
                            /\ Others(h, DOMAIN h, d, key, r)
  BY <1>2, <1>3 DEF Deleted
<1> DEFINE N == DOMAIN h \ {d}
<1>5. IsFiniteSet(N)
  BY <1>3, FS_RemoveElement
<1> HIDE DEF N
<1>6. DOMAIN r.heap = N /\ IsTree(r.heap, r.node)
  BY <1>1, <1>4, <1>5, ReplacedRoot DEF IsTree, N
<1> QED
  BY <1>4, <1>6 DEF N

(* A removed key is gone and every other key stays.                        *)
LEMMA OthersKeys ==
  ASSUME NEW h, NEW root, IsTree(h, root), NEW r, IsTree(r.heap, r.node),
         NEW d \in DOMAIN h, NEW key \in Keys,
         DOMAIN r.heap = DOMAIN h \ {d}, Others(h, DOMAIN h, d, key, r)
  PROVE  /\ ~Stores(r.heap, key)
         /\ \A k \in Keys \ {key} : Stores(r.heap, k) <=> Stores(h, k)
<1>1. PICK sub : Rooted(h, sub, root)
  BY DEF IsTree
<1>2. \A b, c \in DOMAIN h : h[b].key = h[c].key => b = c
  BY <1>1, KeysDistinct DEF Rooted
<1>3. CASE h[d].key = key /\ \A b \in DOMAIN h \ {d} : r.heap[b].key = h[b].key
  BY <1>2, <1>3 DEF Stores
<1>4. ASSUME NEW t \in DOMAIN h \ {d}, h[t].key = key, r.heap[t].key = h[d].key,
             \A b \in DOMAIN h \ {d, t} : r.heap[b].key = h[b].key
      PROVE  /\ ~Stores(r.heap, key)
             /\ \A k \in Keys \ {key} : Stores(r.heap, k) <=> Stores(h, k)
  <2>1. \A b \in DOMAIN r.heap : r.heap[b].key # key
    BY <1>2, <1>4
  <2>2. ASSUME NEW k \in Keys \ {key}, Stores(h, k) PROVE Stores(r.heap, k)
    <3>1. PICK b \in DOMAIN h : h[b].key = k
      BY <2>2 DEF Stores
    <3>2. CASE b = d
      BY <1>4, <3>1, <3>2 DEF Stores
    <3>3. CASE b # d
      BY <1>4, <3>1, <3>3 DEF Stores
    <3> QED BY <3>2, <3>3
  <2>3. ASSUME NEW k \in Keys \ {key}, Stores(r.heap, k) PROVE Stores(h, k)
    <3>1. PICK b \in DOMAIN h \ {d} : r.heap[b].key = k
      BY <2>3 DEF Stores
    <3>2. CASE b = t
      BY <1>4, <3>1, <3>2 DEF Stores
    <3>3. CASE b # t
      BY <1>4, <3>1, <3>3 DEF Stores
    <3> QED BY <3>2, <3>3
  <2> QED BY <2>1, <2>2, <2>3 DEF Stores
<1> QED
  BY <1>3, <1>4 DEF Others
=============================================================================
