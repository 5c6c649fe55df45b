---------------------------- MODULE QueueTraffic ----------------------------
(***************************************************************************)
(* m_containerTcpQueue without its messages and its history, so that the   *)
(* traffic through it need not end: the set of the indices in use, and one *)
(* message watched from its push to its pop.  TcpQueue.tla is shown to     *)
(* follow it, whichever message is watched.                                *)
(***************************************************************************)
EXTENDS Naturals, FiniteSets, FiniteSetsExt

VARIABLES queue,      \* the indices in use
          watched     \* {}, or the index of the watched message

vars == <<queue, watched>>

Init == queue = {} /\ watched = {}

(* Mutant of Push: the new message gets the least index that is free.      *)
PushLeastFree ==
  LET free == Min((0 .. Cardinality(queue)) \ queue)
  IN  /\ queue' = queue \cup {free}
      /\ UNCHANGED watched \/ (watched = {} /\ watched' = {free})

(* Mutant of Push: the size is read again after the insertion. *)
PushSizeAfter ==
  LET size == Cardinality(queue)
  IN  /\ queue' = queue \cup {size}
      /\ \/ UNCHANGED watched
         \/ watched = {} /\ size \notin queue /\ watched' = {size + 1}

(* The new message gets the index size(), unless that is in use. *)
Push ==
  LET size == Cardinality(queue)
  IN  /\ queue' = queue \cup {size}
      /\ \/ UNCHANGED watched
         \/ watched = {} /\ size \notin queue /\ watched' = {size}

(* Mutant of Pop: the newest index. *)
PopNewest ==
  /\ queue # {}
  /\ queue' = queue \ {Max(queue)} /\ watched' = watched \ {Max(queue)}

Pop ==
  /\ queue # {}
  /\ queue' = queue \ {Min(queue)} /\ watched' = watched \ {Min(queue)}

Next == Push \/ Pop

Spec == Init /\ [][Next]_vars

(* The TCP thread pops again and again; pushes may go on for ever. *)
Fairness == WF_vars(Pop)

-----------------------------------------------------------------------------
TypeOK == watched \subseteq queue /\ Cardinality(watched) <= 1

(* A message at index 0 or 1 is not overtaken: whatever is pushed while it *)
(* waits goes behind it, so every pop brings it nearer.                    *)
LowIndexNotOvertaken ==
  [][watched \cap {0, 1} # {} =>
       \A i \in watched \cap watched', j \in queue' : j < i => j \in queue]_vars

(* A message pushed into a queue of at most one is popped, however much is *)
(* pushed after it: nothing that comes later can go before it for ever.    *)
(* Behind two others it may wait for ever, while newer messages are given  *)
(* the indices below its own.                                              *)
LowIndexPopped == watched \cap {0, 1} # {} ~> watched = {}
=============================================================================
