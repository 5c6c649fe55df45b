----------------------------- MODULE Container -----------------------------
(***************************************************************************)
(* udp_receiver/container.cpp: the tree of Bst.tla behind a lock, called   *)
(* by several threads.  Bst.tla takes an operation as one step; here it is *)
(* the lookup, the change of the nodes and the change of m_size, with the  *)
(* other threads in between, and what keeps them apart is the lock each    *)
(* operation takes and releases.  beginIndex and beginValue, which need a  *)
(* container that is not empty, are left to Client.tla: their callers have *)
(* a mutex of their own.                                                   *)
(***************************************************************************)
EXTENDS Naturals, Sequences, FiniteSets

CONSTANTS
  Threads, None,
  Keys, Messages, Addresses, nullptr,   \* as in Bst.tla
  Operations,                           \* the operations that are called
  Builds   \* is ATTO_ENABLE_SHARED_TIMED_MUTEX defined?  container.h:10: FALSE

VARIABLES
  heap, m_root, m_size,   \* the tree
  shared,                 \* the build: m_pimplSharedMutex, or m_pimplMutex
  writer, readers,        \* who holds that mutex
  pc, call,               \* where each thread is, and in which operation
  ref                     \* what at() has returned to each thread

treeVars == <<heap, m_root, m_size>>
lockVars == <<shared, writer, readers>>
vars == <<treeVars, lockVars, pc, call, ref>>

Tree == INSTANCE Bst

ASSUME ContainerAssumption == None \notin Threads /\ Tree!BstAssumption

Calls == [name : Operations, key : Keys, msg : Messages]

(* The operations that take the shared mutex shared (at: the const one).   *)
Readers == {"contains", "at", "size"}

Init ==
  /\ Tree!Init
  /\ shared \in Builds /\ writer = None /\ readers = {}
  /\ pc = [t \in Threads |-> "idle"]
  /\ call \in [Threads -> {c \in Calls : c.name = "size"}]
  /\ ref = [t \in Threads |-> nullptr]

goto(t, label) == pc' = [pc EXCEPT ![t] = label]

(* A thread uses the reference at() gave it until its next call. *)
Call(t) ==
  /\ pc[t] = "idle" /\ goto(t, "lock")
  /\ \E c \in Calls : call' = [call EXCEPT ![t] = c]
  /\ ref' = [ref EXCEPT ![t] = nullptr]
  /\ UNCHANGED <<treeVars, lockVars>>

(* Mutant of Lock: every operation takes the lock shared. *)
LockShared(t) ==
  /\ pc[t] = "lock" /\ goto(t, "lookup")
  /\ writer = None /\ readers' = readers \cup {t}
  /\ UNCHANGED <<treeVars, shared, writer, call, ref>>

Lock(t) ==
  /\ pc[t] = "lock" /\ goto(t, "lookup")
  /\ writer = None
  /\ \/ /\ shared /\ call[t].name \in Readers
        /\ readers' = readers \cup {t} /\ UNCHANGED writer
     \/ /\ ~(shared /\ call[t].name \in Readers)
        /\ readers = {} /\ writer' = t /\ UNCHANGED readers
  /\ UNCHANGED <<treeVars, shared, call, ref>>

contains(t) == Tree!contains(call[t].key)

(* contains(), which every operation but size begins with: insert goes on  *)
(* if the key is absent, remove and at if it is present; at throws if not. *)
Lookup(t) ==
  /\ pc[t] = "lookup"
  /\ goto(t, CASE call[t].name = "insert" /\ ~contains(t) -> "link"
               [] call[t].name = "remove" /\ contains(t)  -> "unlink"
               [] call[t].name = "at" /\ contains(t)      -> "refer"
               [] OTHER                                   -> "unlock")
  /\ UNCHANGED <<treeVars, lockVars, call, ref>>

Link(t) ==
  /\ pc[t] = "link" /\ goto(t, "linked")
  /\ \E new \in Addresses \ DOMAIN heap :
       LET r == Tree!insertNode(heap, m_root, call[t].key, call[t].msg, new)
       IN  heap' = r.heap /\ m_root' = r.node
  /\ UNCHANGED <<m_size, lockVars, call, ref>>

Unlink(t) ==
  /\ pc[t] = "unlink" /\ goto(t, "unlinked")
  /\ LET r == Tree!deleteNode(heap, m_root, call[t].key)
     IN  heap' = r.heap /\ m_root' = r.node
  /\ UNCHANGED <<m_size, lockVars, call, ref>>

(* ++m_size, --m_size *)
Count(t) ==
  /\ pc[t] \in {"linked", "unlinked"} /\ goto(t, "unlock")
  /\ m_size' = IF pc[t] = "linked" THEN m_size + 1 ELSE m_size - 1
  /\ UNCHANGED <<heap, m_root, lockVars, call, ref>>

(* Mutant of Refer: a reference to the root. *)
ReferToRoot(t) ==
  /\ pc[t] = "refer" /\ goto(t, "unlock")
  /\ ref' = [ref EXCEPT ![t] = m_root]
  /\ UNCHANGED <<treeVars, lockVars, call>>

(* The second search of at(). *)
Refer(t) ==
  /\ pc[t] = "refer" /\ goto(t, "unlock")
  /\ ref' = [ref EXCEPT ![t] = Tree!search(heap, m_root, call[t].key)]
  /\ UNCHANGED <<treeVars, lockVars, call>>

(* The lock goes out of scope, also when at() throws; the reference does   *)
(* not.                                                                    *)
Unlock(t) ==
  /\ pc[t] = "unlock" /\ goto(t, "idle")
  /\ writer' = IF writer = t THEN None ELSE writer
  /\ readers' = readers \ {t}
  /\ UNCHANGED <<treeVars, shared, call, ref>>

Next ==
  \E t \in Threads :
    Call(t) \/ Lock(t) \/ Lookup(t) \/ Link(t) \/ Unlink(t) \/ Count(t)
      \/ Refer(t) \/ Unlock(t)

Spec == Init /\ [][Next]_vars

-----------------------------------------------------------------------------
TypeOK ==
  /\ Tree!TypeOK
  /\ shared \in Builds
  /\ writer \in Threads \cup {None} /\ readers \subseteq Threads
  /\ pc \in [Threads -> {"idle", "lock", "lookup", "link", "linked",
                         "unlink", "unlinked", "refer", "unlock"}]
  /\ call \in [Threads -> Calls]
  /\ ref \in [Threads -> Addresses \cup {nullptr}]

(* What a lookup has found is still so when the thread acts on it: insert  *)
(* adds an absent key, remove takes out a present one, and the second      *)
(* search of at() does not return null.                                    *)
LookupStillHolds ==
  \A t \in Threads :
    /\ pc[t] = "link" => ~contains(t)
    /\ pc[t] \in {"unlink", "refer"} => contains(t)

(* A thread that has taken the lock, either way, finds a search tree with  *)
(* no node leaked, and m_size says how many there are: so size() and       *)
(* empty() never return what an unfinished operation has left.             *)
ConsistentUnderLock ==
  (\E t \in Threads : pc[t] = "lookup") =>
    Tree!SearchTree /\ Tree!NoLeakNoDangling

(* m_size as it is once the operation that has changed the nodes counts    *)
(* them.                                                                   *)
countedSize ==
  IF \E t \in Threads : pc[t] = "linked" THEN m_size + 1
  ELSE IF \E t \in Threads : pc[t] = "unlinked" THEN m_size - 1
  ELSE m_size

Atomic == INSTANCE Bst WITH m_size <- countedSize

(* The lock makes every operation one step: the threads together use the   *)
(* tree as Bst.tla says, each operation taking effect where it changes the *)
(* nodes.                                                                  *)
ImplementsTree == Atomic!Spec

Denotes(t) == ref[t] \in DOMAIN heap /\ heap[ref[t]].key = call[t].key

(* The reference at() returns past its lock denotes the node of the key it *)
(* was asked for, and keeps doing so whatever other threads insert: only a *)
(* removal can take the node away.                                         *)
ReferencesLive ==
  [][\A t \in Threads :
       /\ ref'[t] # nullptr
       /\ ref[t] = nullptr \/ (Denotes(t) /\ ~\E u \in Threads : Unlink(u))
       => Denotes(t)']_vars
=============================================================================
