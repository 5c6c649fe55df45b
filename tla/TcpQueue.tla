----------------------------- MODULE TcpQueue -----------------------------
(***************************************************************************)
(* Client::m_containerTcpQueue, the container the UDP threads push the     *)
(* messages to resend into and the TCP thread pops them from, with each    *)
(* critical section of m_mutex_tcp as one step.  The queue is an ordered   *)
(* map: a push inserts under index size(), a pop takes the least index.    *)
(* Client.tla, which executes the sections statement by statement, is      *)
(* shown to implement this specification.                                  *)
(*                                                                         *)
(* The container itself is used at the level of MessageMap.tla, which      *)
(* Bst.tla implements for callers that only remove the least key.          *)
(***************************************************************************)
EXTENDS Naturals, Sequences, FiniteSets, FiniteSetsExt

CONSTANT Messages        \* what can be pushed

VARIABLES
  queue,    \* m_containerTcpQueue: a partial function from indices to messages
  \* The history of the queue.  Pushes are numbered 1, 2, ...: their tickets.
  pushes,   \* how many pushes there have been
  ticket,   \* for each index of queue, the ticket of the push that put it there
  lost,     \* tickets of the pushes the container ignored
  popped,   \* tickets popped, in order
  peak      \* the largest size the queue has had

vars == <<queue, pushes, ticket, lost, popped, peak>>

-----------------------------------------------------------------------------
Init ==
  /\ queue = [i \in {} |-> 0]
  /\ pushes = 0
  /\ ticket = [i \in {} |-> 0]
  /\ lost = {}
  /\ popped = <<>>
  /\ peak = 0

(* Mutant of size: counts one too few. *)
sizeOffByOne == Cardinality(DOMAIN queue) - 1

size == Cardinality(DOMAIN queue)

beginIndex == Min(DOMAIN queue)

(* Mutant of insert: an index in use is assigned the new message. *)
insertOrAssign(i, m) ==
  /\ pushes' = pushes + 1
  /\ queue'  = [j \in DOMAIN queue \cup {i} |-> IF j = i THEN m ELSE queue[j]]
  /\ ticket' = [j \in DOMAIN queue \cup {i} |->
                  IF j = i THEN pushes + 1 ELSE ticket[j]]
  /\ peak'   = Max({peak, Cardinality(DOMAIN queue')})
  /\ UNCHANGED <<lost, popped>>

(* Inserting under an index in use changes nothing: the push is lost. *)
insert(i, m) ==
  /\ pushes' = pushes + 1
  /\ \/ /\ i \in DOMAIN queue
        /\ lost' = lost \cup {pushes + 1}
        /\ UNCHANGED <<queue, ticket, peak>>
     \/ /\ i \notin DOMAIN queue
        /\ queue'  = [j \in DOMAIN queue \cup {i} |->
                        IF j = i THEN m ELSE queue[j]]
        /\ ticket' = [j \in DOMAIN queue \cup {i} |->
                        IF j = i THEN pushes + 1 ELSE ticket[j]]
        /\ peak'   = IF size + 1 > peak THEN size + 1 ELSE peak
        /\ UNCHANGED lost
  /\ UNCHANGED popped

remove(i) ==
  /\ queue'  = [j \in DOMAIN queue \ {i} |-> queue[j]]
  /\ ticket' = [j \in DOMAIN queue \ {i} |-> ticket[j]]
  /\ popped' = Append(popped, ticket[i])
  /\ UNCHANGED <<pushes, lost, peak>>

(* Mutant of Push: a fixed index. *)
PushAtZero(m) == insert(0, m)

Push(m) == insert(size, m)

(* Mutants of Pop: the newest index, and whichever node is at hand. *)
PopNewest == DOMAIN queue # {} /\ remove(Max(DOMAIN queue))

PopAny == \E i \in DOMAIN queue : remove(i)

Pop == DOMAIN queue # {} /\ remove(beginIndex)

Next == Pop \/ \E m \in Messages : Push(m)

Spec == Init /\ [][Next]_vars

-----------------------------------------------------------------------------
TypeOK ==
  /\ DOMAIN queue \subseteq Nat /\ IsFiniteSet(DOMAIN queue)
  /\ \A i \in DOMAIN queue : queue[i] \in Messages
  /\ pushes \in Nat
  /\ DOMAIN ticket = DOMAIN queue
  /\ queue = [i \in DOMAIN queue |-> queue[i]]
  /\ ticket \in [DOMAIN queue -> 1 .. pushes]
  /\ lost \subseteq 1 .. pushes
  /\ popped \in Seq(1 .. pushes)
  /\ peak \in Nat

(* Every push ends up in exactly one place, once: still in the queue, lost *)
(* on insertion, or popped.  Nothing is popped that was not pushed, and no *)
(* later push disturbs an earlier one.                                     *)
Queued == {ticket[i] : i \in DOMAIN queue}
Popped == {popped[n] : n \in DOMAIN popped}

Accounted ==
  /\ Queued \cup lost \cup Popped = 1 .. pushes
  /\ Queued \cap lost = {} /\ Queued \cap Popped = {} /\ lost \cap Popped = {}
  /\ \A i, j \in DOMAIN queue : ticket[i] = ticket[j] => i = j
  /\ \A n, o \in DOMAIN popped : popped[n] = popped[o] => n = o

(* While the message at index 0 has not been popped, the next push is      *)
(* accepted and goes behind every message in the queue.                    *)
AppendsUntilFirstPop ==
  0 \in DOMAIN queue => \A i \in DOMAIN queue : i < size

(* A push is lost only if two messages have been waiting at the same time: *)
(* the index size() is in use only after a pop from a longer queue.        *)
LossNeedsBacklog == lost # {} => peak >= 2

(* Messages are popped in the order they were pushed as long as no three   *)
(* have been waiting at the same time.                                     *)
OrderNeedsBacklog ==
  peak <= 2 => \A n, o \in DOMAIN popped : n < o => popped[n] < popped[o]

(* The queue as the traffic of QueueTraffic.tla, with the n-th push        *)
(* watched.                                                                *)
Watched(n) == {i \in DOMAIN queue : ticket[i] = n}

Traffic(n) == INSTANCE QueueTraffic WITH queue   <- DOMAIN queue,
                                         watched <- Watched(n)

(* Whichever push is watched, the next one included, the queue follows     *)
(* QueueTraffic.tla: what is shown there of one message holds of each that *)
(* is handed over.                                                         *)
FollowsTraffic ==
  /\ \A n \in 1 .. pushes + 1 : Traffic(n)!Init
  /\ [][\A n \in 1 .. pushes + 1 :
           [Traffic(n)!Next]_<<DOMAIN queue, Watched(n)>>]_vars
=============================================================================
