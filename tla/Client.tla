------------------------------ MODULE Client ------------------------------
(***************************************************************************)
(* The receiver process: udp_receiver/main.cpp and client.{h,cpp}.         *)
(*                                                                         *)
(* main constructs the Client, which starts the listening thread           *)
(* (TcpLink.tla) and connects to it, then spawns the threads that receive  *)
(* datagrams (Client::start) and the one that resends some of them over    *)
(* TCP (Client::sendViaTcpSocket).  The UDP threads share the socket under *)
(* m_mutex_message; they hand messages to the TCP thread through           *)
(* m_containerTcpQueue under m_mutex_tcp and m_cv_tcp.  One action is one  *)
(* statement between two points where another thread can interfere.        *)
(* Containers are used through their atomic operations (MessageMap.tla).   *)
(***************************************************************************)
EXTENDS MessageFormat, Sequences, FiniteSets

CONSTANTS
  UdpThreads,   \* th1 and th2 of main
  TcpThread,    \* th3 of main
  None,         \* nobody, nothing
  Messages,     \* what the datagrams carry
  Server,       \* the sender's address the receiver is configured with
  RecvBuf,      \* datagrams the kernel keeps for the UDP socket
  TcpBuf,       \* messages the two TCP socket buffers hold
  Failures      \* the system calls that may fail

ASSUME ClientAssumption ==
  /\ Messages \subseteq Message
  /\ TcpThread \notin UdpThreads
  /\ None \notin UdpThreads \cup {TcpThread} \cup Messages \cup {Server}
  /\ None # TRUE
  /\ RecvBuf \in Nat \ {0}
  /\ TcpBuf \in Nat \ {0}

VARIABLES
  mainPc,         \* where main is
  pc,             \* where each UDP thread is in start
  tcpPc,          \* where the TCP thread is in sendViaTcpSocket
  messageMutex,   \* who holds m_mutex_message
  tcpMutex,       \* who holds m_mutex_tcp
  msg,            \* local m of start, per thread
  queueSize,      \* local tcpQueueSize of start, per thread
  index, value,   \* locals index and msg of sendViaTcpSocket
  m_container,    \* the saved messages, by id
  announced,      \* some command has been sent: the sender knows this socket
  received,       \* history: the messages recv_bytes has returned, in order
  \* the UDP socket (UdpSocket.tla)
  open, peer, inbox, recvSet, sendSet,
  \* the TCP connection and the listening thread (TcpLink.tla)
  srv, listening, m_connected, stream, served,
  \* m_containerTcpQueue and its history (TcpQueue.tla)
  queue, pushes, ticket, lost, popped, peak

(* sendViaTcpRequired *)
sendViaTcpRequired(m) == m.MessageId = TCPResendID

RelayMessages == {m \in Messages : sendViaTcpRequired(m)}

Udp   == INSTANCE UdpSocket WITH Addresses <- {Server}, NoAddress <- None,
                                 Payloads <- Messages
Link  == INSTANCE TcpLink WITH Messages <- RelayMessages
Q     == INSTANCE TcpQueue WITH Messages <- RelayMessages
Saved == INSTANCE MessageMap WITH Keys <- {m.MessageId : m \in Messages},
                                  store <- m_container

controlVars == <<mainPc, pc, tcpPc>>
mutexVars   == <<messageMutex, tcpMutex>>
localVars   == <<msg, queueSize, index, value>>
historyVars == <<announced, received>>
socketVars  == <<open, peer, inbox, recvSet, sendSet>>
linkVars    == <<srv, listening, m_connected, stream, served>>
queueVars   == <<queue, pushes, ticket, lost, popped, peak>>

vars == <<controlVars, mutexVars, localVars, m_container, historyVars,
          socketVars, linkVars, queueVars>>

-----------------------------------------------------------------------------
UdpLabels == {"unborn", "lock", "select", "command", "recv", "save",
              "lockTcp", "size", "insert", "notify", "sleep", "done"}

TcpLabels == {"unborn", "lock", "check", "waiting", "begin", "value",
              "remove", "send"}

(* The sections of start that hold m_mutex_message and m_mutex_tcp, and    *)
(* the section of sendViaTcpSocket that holds m_mutex_tcp.                 *)
UdpTcpSection  == {"size", "insert", "notify"}
MessageSection == {"select", "command", "recv", "save", "lockTcp", "sleep"}
                    \cup UdpTcpSection
TcpSection     == {"check", "begin", "value", "remove", "send"}

Init ==
  /\ mainPc = "construct"
  /\ pc = [t \in UdpThreads |-> "unborn"]
  /\ tcpPc = "unborn"
  /\ messageMutex = None /\ tcpMutex = None
  /\ msg = [t \in UdpThreads |-> None]
  /\ queueSize = [t \in UdpThreads |-> 0]
  /\ index = 0 /\ value = None
  /\ m_container = [k \in {} |-> 0]
  /\ announced = FALSE /\ received = <<>>
  /\ Udp!Init /\ Link!Init /\ Q!Init

-----------------------------------------------------------------------------
(* main: the constructor starts the listening thread, opens the UDP socket *)
(* and makes the only attempt to connect; main then spawns the threads and *)
(* waits for ever.                                                         *)
Construct ==
  /\ mainPc = "construct" /\ mainPc' = "connect"
  /\ \E success \in BOOLEAN :
       /\ success \/ "udp" \in Failures
       /\ Udp!construct(success, Server)
  /\ Link!startServer
  /\ UNCHANGED <<pc, tcpPc, mutexVars, localVars, m_container, historyVars,
                 queueVars>>

Connect ==
  /\ mainPc = "connect" /\ mainPc' = "spawn"
  /\ Link!connect
  /\ UNCHANGED <<pc, tcpPc, mutexVars, localVars, m_container, historyVars,
                 socketVars, queueVars>>

SpawnUdp(t) ==
  /\ mainPc = "spawn" /\ pc[t] = "unborn"
  /\ pc' = [pc EXCEPT ![t] = "lock"]
  /\ UNCHANGED <<mainPc, tcpPc, mutexVars, localVars, m_container,
                 historyVars, socketVars, linkVars, queueVars>>

SpawnTcp ==
  /\ mainPc = "spawn" /\ \A t \in UdpThreads : pc[t] # "unborn"
  /\ mainPc' = "running" /\ tcpPc' = "lock"
  /\ UNCHANGED <<pc, mutexVars, localVars, m_container, historyVars,
                 socketVars, linkVars, queueVars>>

Main == Construct \/ Connect \/ SpawnTcp \/ \E t \in UdpThreads : SpawnUdp(t)

-----------------------------------------------------------------------------
(* Client::start, thread t *)

goto(t, label) == pc' = [pc EXCEPT ![t] = label]

(* The end of an iteration, also by continue: the locals and the lock go   *)
(* out of scope.                                                           *)
continue(t) ==
  /\ goto(t, "lock")
  /\ messageMutex' = None
  /\ msg' = [msg EXCEPT ![t] = None]
  /\ queueSize' = [queueSize EXCEPT ![t] = 0]
  /\ UNCHANGED <<tcpMutex, index, value>>

(* The loop condition is false: the socket could not be created. *)
Return(t) ==
  /\ pc[t] = "lock" /\ ~open
  /\ goto(t, "done")
  /\ UNCHANGED <<mainPc, tcpPc, mutexVars, localVars, m_container,
                 historyVars, socketVars, linkVars, queueVars>>

(* Mutant of LockMessage: no mutual exclusion. *)
LockMessageShared(t) ==
  /\ pc[t] = "lock" /\ open
  /\ messageMutex' = t
  /\ goto(t, "select")
  /\ UNCHANGED <<mainPc, tcpPc, tcpMutex, localVars, m_container,
                 historyVars, socketVars, linkVars, queueVars>>

LockMessage(t) ==
  /\ pc[t] = "lock" /\ open
  /\ messageMutex = None /\ messageMutex' = t
  /\ goto(t, "select")
  /\ UNCHANGED <<mainPc, tcpPc, tcpMutex, localVars, m_container,
                 historyVars, socketVars, linkVars, queueVars>>

(* select() under the mutex; an error or a timeout is a continue. *)
Select(t) ==
  /\ pc[t] = "select"
  /\ \/ "select" \in Failures /\ Udp!selectError /\ continue(t)
     \/ Udp!selectTimeout /\ continue(t)
     \/ /\ Udp!selectReady
        /\ goto(t, "command")
        /\ UNCHANGED <<mutexVars, localVars>>
  /\ UNCHANGED <<mainPc, tcpPc, m_container, historyVars, linkVars,
                 queueVars>>

(* readySend: the sync command goes out; then hasServer and readyRecv. *)
Command(t) ==
  /\ pc[t] = "command"
  /\ announced' = (announced \/ sendSet)
  /\ \/ ~Udp!hasPeer /\ continue(t)
     \/ /\ Udp!hasPeer
        /\ goto(t, IF recvSet THEN "recv" ELSE "sleep")
        /\ UNCHANGED <<mutexVars, localVars>>
  /\ UNCHANGED <<mainPc, tcpPc, m_container, received, socketVars,
                 linkVars, queueVars>>

(* recvMessage, on a non-blocking socket. *)
Recv(t) ==
  /\ pc[t] = "recv"
  /\ \/ /\ Udp!recv_bytes
        /\ msg' = [msg EXCEPT ![t] = Head(inbox).data]
        /\ received' = Append(received, Head(inbox).data)
        /\ goto(t, "save")
     \/ /\ inbox = <<>> \/ "recv" \in Failures
        /\ goto(t, "sleep")
        /\ UNCHANGED <<msg, received, socketVars>>
  /\ UNCHANGED <<mainPc, tcpPc, mutexVars, queueSize, index, value,
                 m_container, announced, linkVars, queueVars>>

(* Mutant of Save: only what is relayed is saved. *)
SaveRelayOnly(t) ==
  /\ pc[t] = "save"
  /\ IF sendViaTcpRequired(msg[t])
       THEN Saved!Insert(msg[t].MessageId, msg[t]) /\ goto(t, "lockTcp")
       ELSE UNCHANGED m_container /\ goto(t, "sleep")
  /\ UNCHANGED <<mainPc, tcpPc, mutexVars, localVars, historyVars,
                 socketVars, linkVars, queueVars>>

(* Mutant of Save: every message is to be resent. *)
SaveAndRelayAll(t) ==
  /\ pc[t] = "save"
  /\ Saved!Insert(msg[t].MessageId, msg[t])
  /\ goto(t, "lockTcp")
  /\ UNCHANGED <<mainPc, tcpPc, mutexVars, localVars, historyVars,
                 socketVars, linkVars, queueVars>>

(* saveMessage, then the test for the messages to resend. *)
Save(t) ==
  /\ pc[t] = "save"
  /\ Saved!Insert(msg[t].MessageId, msg[t])
  /\ goto(t, IF sendViaTcpRequired(msg[t]) THEN "lockTcp" ELSE "sleep")
  /\ UNCHANGED <<mainPc, tcpPc, mutexVars, localVars, historyVars,
                 socketVars, linkVars, queueVars>>

(* Mutant of LockTcp: no mutual exclusion with the TCP thread. *)
LockTcpShared(t) ==
  /\ pc[t] = "lockTcp"
  /\ tcpMutex' = t
  /\ goto(t, "size")
  /\ UNCHANGED <<mainPc, tcpPc, messageMutex, localVars, m_container,
                 historyVars, socketVars, linkVars, queueVars>>

(* m_mutex_tcp is taken while m_mutex_message is held. *)
LockTcp(t) ==
  /\ pc[t] = "lockTcp"
  /\ tcpMutex = None /\ tcpMutex' = t
  /\ goto(t, "size")
  /\ UNCHANGED <<mainPc, tcpPc, messageMutex, localVars, m_container,
                 historyVars, socketVars, linkVars, queueVars>>

Size(t) ==
  /\ pc[t] = "size"
  /\ queueSize' = [queueSize EXCEPT ![t] = Q!size]
  /\ goto(t, "insert")
  /\ UNCHANGED <<mainPc, tcpPc, mutexVars, msg, index, value, m_container,
                 historyVars, socketVars, linkVars, queueVars>>

Insert(t) ==
  /\ pc[t] = "insert"
  /\ Q!insert(queueSize[t], msg[t])
  /\ goto(t, "notify")
  /\ UNCHANGED <<mainPc, tcpPc, mutexVars, localVars, m_container,
                 historyVars, socketVars, linkVars>>

(* Mutant of Notify: nobody is notified. *)
NotifyNobody(t) ==
  /\ pc[t] = "notify"
  /\ tcpMutex' = None
  /\ goto(t, "sleep")
  /\ UNCHANGED <<mainPc, tcpPc, messageMutex, localVars, m_container,
                 historyVars, socketVars, linkVars, queueVars>>

(* Mutant of Notify: the mutex stays locked. *)
NotifyLocked(t) ==
  /\ pc[t] = "notify"
  /\ tcpPc' = IF tcpPc = "waiting" THEN "lock" ELSE tcpPc
  /\ goto(t, "sleep")
  /\ UNCHANGED <<mainPc, mutexVars, localVars, m_container,
                 historyVars, socketVars, linkVars, queueVars>>

(* notify_one, and the end of the scope of lock_tcp. *)
Notify(t) ==
  /\ pc[t] = "notify"
  /\ tcpPc' = IF tcpPc = "waiting" THEN "lock" ELSE tcpPc
  /\ tcpMutex' = None
  /\ goto(t, "sleep")
  /\ UNCHANGED <<mainPc, messageMutex, localVars, m_container,
                 historyVars, socketVars, linkVars, queueVars>>

(* sleepMS(200), still holding m_mutex_message. *)
Sleep(t) ==
  /\ pc[t] = "sleep"
  /\ continue(t)
  /\ UNCHANGED <<mainPc, tcpPc, m_container, historyVars, socketVars,
                 linkVars, queueVars>>

(* What a UDP thread does between taking m_mutex_message and releasing it, *)
(* except waiting for m_mutex_tcp.                                         *)
UdpStep(t) ==
  \/ Select(t) \/ Command(t) \/ Recv(t) \/ Save(t) \/ Size(t) \/ Insert(t)
  \/ Notify(t) \/ Sleep(t)

UdpThread(t) == Return(t) \/ LockMessage(t) \/ LockTcp(t) \/ UdpStep(t)

-----------------------------------------------------------------------------
(* Client::sendViaTcpSocket *)

TcpLock ==
  /\ tcpPc = "lock" /\ tcpPc' = "check"
  /\ tcpMutex = None /\ tcpMutex' = TcpThread
  /\ UNCHANGED <<mainPc, pc, messageMutex, localVars, m_container,
                 historyVars, socketVars, linkVars, queueVars>>

(* Mutant of Check: the thread waits without releasing the mutex. *)
CheckLocked ==
  /\ tcpPc = "check"
  /\ tcpPc' = IF DOMAIN queue # {} THEN "begin" ELSE "waiting"
  /\ UNCHANGED <<mainPc, pc, mutexVars, localVars, m_container,
                 historyVars, socketVars, linkVars, queueVars>>

(* Mutant of Check: the queue is not looked at again after a wakeup. *)
CheckNothing ==
  /\ tcpPc = "check" /\ tcpPc' = "begin"
  /\ UNCHANGED <<mainPc, pc, mutexVars, localVars, m_container,
                 historyVars, socketVars, linkVars, queueVars>>

(* The predicate of m_cv_tcp.wait: the thread goes on if the queue is not  *)
(* empty, else releases the mutex and waits, in one step.                  *)
Check ==
  /\ tcpPc = "check"
  /\ \/ DOMAIN queue # {} /\ tcpPc' = "begin" /\ UNCHANGED tcpMutex
     \/ DOMAIN queue = {} /\ tcpPc' = "waiting" /\ tcpMutex' = None
  /\ UNCHANGED <<mainPc, pc, messageMutex, localVars, m_container,
                 historyVars, socketVars, linkVars, queueVars>>

(* A wakeup without a notification, which the predicate guards against. *)
SpuriousWakeup ==
  /\ tcpPc = "waiting" /\ tcpPc' = "lock"
  /\ UNCHANGED <<mainPc, pc, mutexVars, localVars, m_container,
                 historyVars, socketVars, linkVars, queueVars>>

BeginIndex ==
  /\ tcpPc = "begin" /\ tcpPc' = "value"
  /\ index' = Q!beginIndex
  /\ UNCHANGED <<mainPc, pc, mutexVars, msg, queueSize, value, m_container,
                 historyVars, socketVars, linkVars, queueVars>>

BeginValue ==
  /\ tcpPc = "value" /\ tcpPc' = "remove"
  /\ value' = queue[Q!beginIndex]
  /\ UNCHANGED <<mainPc, pc, mutexVars, msg, queueSize, index, m_container,
                 historyVars, socketVars, linkVars, queueVars>>

Remove ==
  /\ tcpPc = "remove" /\ tcpPc' = "send"
  /\ Q!remove(index)
  /\ UNCHANGED <<mainPc, pc, mutexVars, localVars, m_container,
                 historyVars, socketVars, linkVars>>

(* Mutant of Send: the message is dropped when the stream is full. *)
SendOrDrop ==
  /\ tcpPc = "send" /\ tcpPc' = "lock"
  /\ \/ m_connected /\ Link!sendBytes(value)
     \/ (~m_connected \/ Len(stream) = TcpBuf) /\ UNCHANGED linkVars
  /\ tcpMutex' = None
  /\ index' = 0 /\ value' = None
  /\ UNCHANGED <<mainPc, pc, messageMutex, msg, queueSize, m_container,
                 historyVars, socketVars, queueVars>>

(* A send while holding m_mutex_tcp: it may block.  Without a connection   *)
(* the message is skipped.  The locals and the lock go out of scope.       *)
Send ==
  /\ tcpPc = "send" /\ tcpPc' = "lock"
  /\ \/ m_connected /\ Link!sendBytes(value)
     \/ ~m_connected /\ UNCHANGED linkVars
  /\ tcpMutex' = None
  /\ index' = 0 /\ value' = None
  /\ UNCHANGED <<mainPc, pc, messageMutex, msg, queueSize, m_container,
                 historyVars, socketVars, queueVars>>

TcpStep == Check \/ BeginIndex \/ BeginValue \/ Remove \/ Send

-----------------------------------------------------------------------------
(* The listening thread, and the sender's datagrams: it sends only to a    *)
(* socket it has had a command from.                                       *)
TcpServer ==
  /\ Link!ListeningThread
  /\ UNCHANGED <<controlVars, mutexVars, localVars, m_container, historyVars,
                 socketVars, queueVars>>

Arrive ==
  /\ announced
  /\ \E m \in Messages : Udp!arrive([from |-> Server, data |-> m])
  /\ UNCHANGED <<controlVars, mutexVars, localVars, m_container, historyVars,
                 linkVars, queueVars>>

Next ==
  \/ Main \/ TcpServer \/ Arrive
  \/ \E t \in UdpThreads : UdpThread(t)
  \/ TcpLock \/ TcpStep \/ SpuriousWakeup

Spec == Init /\ [][Next]_vars

(* Threads that can run do run.  m_mutex_message goes to some thread that  *)
(* waits for it, not to each: a thread releases it and takes it again at   *)
(* once.  m_mutex_tcp does go to the TCP thread, because a UDP thread that *)
(* has released it sleeps before it can want it again, and to the one UDP  *)
(* thread that wants it, because the TCP thread, with nothing left to pop, *)
(* takes it again only after a spurious wakeup.  Nobody counts on those.   *)
Fairness ==
  /\ WF_vars(Main)
  /\ WF_vars(TcpServer)
  /\ WF_vars(\E t \in UdpThreads : LockMessage(t))
  /\ \A t \in UdpThreads : WF_vars(UdpStep(t)) /\ SF_vars(LockTcp(t))
  /\ SF_vars(TcpLock)
  /\ WF_vars(TcpStep)

FairSpec == Spec /\ Fairness

-----------------------------------------------------------------------------
TypeOK ==
  /\ mainPc \in {"construct", "connect", "spawn", "running"}
  /\ pc \in [UdpThreads -> UdpLabels]
  /\ tcpPc \in TcpLabels
  /\ messageMutex \in UdpThreads \cup {None}
  /\ tcpMutex \in UdpThreads \cup {TcpThread, None}
  /\ msg \in [UdpThreads -> Messages \cup {None}]
  /\ queueSize \in [UdpThreads -> Nat]
  /\ index \in Nat
  /\ value \in RelayMessages \cup {None}
  /\ \A id \in DOMAIN m_container : m_container[id] \in Messages
  /\ announced \in BOOLEAN
  /\ received \in Seq(Messages)
  /\ Udp!TypeOK /\ Link!TypeOK /\ Q!TypeOK

(* What each mutex protects: a thread is inside a section exactly while it *)
(* holds the section's mutex, so at most one UDP thread is between select  *)
(* and the end of its sleep, and at most one thread at the queue.          *)
Sections ==
  /\ \A t \in UdpThreads : pc[t] \in MessageSection <=> messageMutex = t
  /\ \A t \in UdpThreads : pc[t] \in UdpTcpSection <=> tcpMutex = t
  /\ tcpPc \in TcpSection <=> tcpMutex = TcpThread

(* A socket that select has found readable is still readable when the      *)
(* thread gets to recvfrom: no other thread has taken the datagram.        *)
ReadableUntilRecv == \A t \in UdpThreads : pc[t] = "recv" => inbox # <<>>

(* The size read before an insertion is the size at the insertion, so the  *)
(* two statements of start act as one push.                                *)
SizeIsFresh ==
  \A t \in UdpThreads : pc[t] = "insert" => queueSize[t] = Q!size

(* beginIndex and beginValue, which do not look, find a queue that is not  *)
(* empty, and the three statements of the TCP thread act as one pop.       *)
ConsumerSafe ==
  /\ tcpPc \in {"begin", "value", "remove"} => DOMAIN queue # {}
  /\ tcpPc \in {"value", "remove"} => index = Q!beginIndex
  /\ tcpPc = "remove" => value = queue[index]

(* The received messages that must be resent, in the order of reception:   *)
(* SelectSeq(received, sendViaTcpRequired), in a form the provers can      *)
(* unfold.                                                                 *)
toRelay(s) ==
  LET relay[n \in 0 .. Len(s)] ==
        IF n = 0 THEN <<>>
        ELSE IF sendViaTcpRequired(s[n]) THEN Append(relay[n - 1], s[n])
        ELSE relay[n - 1]
  IN  relay[Len(s)]

Relay == toRelay(received)

(* The UDP threads between the reception and the push of such a message. *)
Pushing ==
  {t \in UdpThreads : /\ pc[t] \in {"save", "lockTcp", "size", "insert"}
                      /\ sendViaTcpRequired(msg[t])}

(* Messages are pushed in the order they are received, none twice and none *)
(* left out, whichever threads receive them: the n-th push is the n-th     *)
(* message received that must be resent.                                   *)
PushedInOrder ==
  /\ pushes + Cardinality(Pushing) = Len(Relay)
  /\ \A t \in Pushing : msg[t] = Relay[Len(Relay)]
  /\ \A i \in DOMAIN queue : queue[i] = Relay[ticket[i]]

InHand == IF tcpPc = "send" THEN <<value>> ELSE <<>>

(* Over an established connection every message popped is sent and         *)
(* reported exactly once, in the order of the pops, also when the stream   *)
(* fills; without a connection nothing is ever sent.                       *)
SentAsPopped ==
  IF m_connected
    THEN served \o stream \o InHand
           = [n \in DOMAIN popped |-> Relay[popped[n]]]
    ELSE served = <<>> /\ stream = <<>>

(* The receptions whose message has been through saveMessage. *)
Settled ==
  {n \in DOMAIN received :
     ~(n = Len(received) /\ \E t \in UdpThreads : pc[t] = "save")}

(* m_container has an entry for every id received, the first message       *)
(* received with it, and no other.                                         *)
SavesFirstPerId ==
  /\ DOMAIN m_container = {received[n].MessageId : n \in Settled}
  /\ \A n \in Settled :
       (\A o \in 1 .. n - 1 : received[o].MessageId # received[n].MessageId)
         => m_container[received[n].MessageId] = received[n]

(* The threads together use m_containerTcpQueue as TcpQueue.tla specifies: *)
(* every push under the current size, every pop of the least index.        *)
ImplementsQueue == Q!Spec

(* All threads together act as one sequential loop (Receiver.tla): a       *)
(* message is received, saved and, if it must be resent, handed over       *)
(* before the next one is received, whichever threads do it.               *)
Handling == {t \in UdpThreads : pc[t] \in {"save", "lockTcp", "size", "insert"}}
Handler  == CHOOSE t \in Handling : TRUE

OneLoop == INSTANCE Receiver WITH
  Relayed <- RelayMessages,
  Ports   <- {TRUE},
  None    <- None,
  address <- IF announced THEN TRUE ELSE None,
  inbox   <- [n \in DOMAIN inbox |-> inbox[n].data],
  hand    <- IF Handling = {} THEN None ELSE msg[Handler],
  todo    <- IF Handling = {} THEN "receive"
             ELSE IF pc[Handler] = "save" THEN "save" ELSE "push",
  handed  <- SubSeq(Relay, 1, pushes)

ImplementsReceiver == OneLoop!Spec

(* client.h:29, "m_container is a container that saves all the received    *)
(* messages".                                                              *)
SavesAllReceived ==
  \A n \in Settled :
    \E id \in DOMAIN m_container : m_container[id] = received[n]

(* client.h:32, "m_containerTcpQueue is a container that saves all the     *)
(* messages that would be send via tcp socket".                            *)
QueueSavesAll == lost = {}

(* client.h:38, "Tcp socket that the client is using for sending the       *)
(* messages that meets the criteria to be sent".                           *)
SendsWhatMeetsCriteria == Len(served \o stream \o InHand) = Len(popped)

(* The listening thread has given up on an open connection, and the stream *)
(* nobody reads is full.                                                   *)
Stalled ==
  /\ tcpPc = "send" /\ m_connected /\ Len(stream) = TcpBuf
  /\ srv = "returned"

(* A UDP thread always gives the socket up again, after a timeout, an      *)
(* error or a message.  One thing can stop it for ever, through both       *)
(* mutexes: a stream that nobody reads.                                    *)
MessageMutexReleased ==
  \A t \in UdpThreads : messageMutex = t ~> (messageMutex # t \/ Stalled)

(* The datagrams the kernel holds are all received, by whichever thread. *)
InboxDrains == inbox # <<>> ~> (inbox = <<>> \/ Stalled)

(* No wakeup is lost: what is pushed is popped, with or without a          *)
(* connection.                                                             *)
QueueDrains == DOMAIN queue # {} ~> (DOMAIN queue = {} \/ Stalled)

(* What was sent is reported, unless the listening thread failed before it *)
(* accepted the connection: nothing ends it later.                         *)
StreamDrains ==
  stream # <<>> ~> (stream = <<>> \/ (srv = "returned" /\ served = <<>>))
=============================================================================
