---------------------------- MODULE ClientProofs ----------------------------
(***************************************************************************)
(* Proofs about Client.tla, for any number of UDP threads, any messages,   *)
(* any buffer sizes and any combination of failing system calls: the       *)
(* mutexes protect what they are meant to protect, the threads together    *)
(* use the queue as TcpQueue.tla specifies, and what is proved of the      *)
(* queue therefore holds of the program.                                   *)
(***************************************************************************)
EXTENDS Client, FiniteSetTheorems, SequenceTheorems, TLAPS

-----------------------------------------------------------------------------
(* The inductive invariant: control and locals are well typed, each        *)
(* section is entered with its mutex, and, in the sections, the values     *)
(* read are still current.                                                 *)
ControlTypeOK ==
  /\ mainPc \in {"construct", "connect", "spawn", "running"}
  /\ pc \in [UdpThreads -> UdpLabels]
  /\ tcpPc \in TcpLabels
  /\ mainPc # "running" => tcpPc = "unborn"
  /\ msg \in [UdpThreads -> Messages \cup {None}]
  /\ queueSize = [t \in UdpThreads |-> queueSize[t]]
  /\ Udp!TypeOK

(* What select found readable stays so, from select to recvfrom. *)
Readable ==
  \A t \in UdpThreads :
    pc[t] = "recv" \/ (pc[t] = "command" /\ recvSet) => inbox # <<>>

(* The local m of start is a message once received, and one to resend      *)
(* where the queue is concerned.                                           *)
RelayOnly ==
  \A t \in UdpThreads :
    /\ pc[t] = "save" => msg[t] \in Messages
    /\ pc[t] \in {"lockTcp", "size", "insert"} => msg[t] \in RelayMessages

Inv ==
  /\ ControlTypeOK
  /\ Sections
  /\ Readable
  /\ RelayOnly
  /\ SizeIsFresh
  /\ ConsumerSafe

LEMMA InitInv == Init => Inv
<1> SUFFICES ASSUME Init PROVE Inv
  OBVIOUS
<1> USE ClientAssumption DEF Init, Udp!Init
<1>1. ControlTypeOK
  <2>1. queueSize = [t \in UdpThreads |-> queueSize[t]]
    OBVIOUS
  <2>2. inbox \in Seq(Udp!Datagram) /\ Len(inbox) <= RecvBuf
    BY EmptySeq
  <2>3. Udp!TypeOK
    BY <2>2 DEF Udp!TypeOK
  <2> QED BY <2>1, <2>3 DEF ControlTypeOK, UdpLabels, TcpLabels
<1>2. Sections
  BY DEF Sections, MessageSection, UdpTcpSection, TcpSection
<1>3. Readable /\ RelayOnly /\ SizeIsFresh /\ ConsumerSafe
  BY DEF Readable, RelayOnly, SizeIsFresh, ConsumerSafe
<1> QED BY <1>1, <1>2, <1>3 DEF Inv

-----------------------------------------------------------------------------
(* The invariant is preserved, action by action. *)

USE DEF controlVars, mutexVars, localVars, historyVars, socketVars, linkVars,
        queueVars

LEMMA ConstructStep ==
  ASSUME Inv, Construct
  PROVE  Inv'
<1> USE ClientAssumption DEF Inv, Construct, Udp!construct, Link!startServer
<1>1. ControlTypeOK'
  BY DEF ControlTypeOK, UdpLabels, TcpLabels, Udp!TypeOK
<1>2. Sections'
  BY DEF ControlTypeOK, Sections, MessageSection, UdpTcpSection, TcpSection
<1>3. Readable'
  BY DEF ControlTypeOK, Readable, Sections, MessageSection, Udp!TypeOK
<1>4. RelayOnly'
  BY DEF ControlTypeOK, RelayOnly, RelayMessages
<1>5. SizeIsFresh' /\ ConsumerSafe'
  BY DEF ControlTypeOK, Sections, SizeIsFresh, ConsumerSafe, Q!size,
         Q!beginIndex, UdpTcpSection, TcpSection
<1> QED BY <1>1, <1>2, <1>3, <1>4, <1>5

LEMMA ConnectStep ==
  ASSUME Inv, Connect
  PROVE  Inv'
<1> USE ClientAssumption DEF Inv, Connect, Link!connect
<1>1. ControlTypeOK'
  BY DEF ControlTypeOK, UdpLabels, TcpLabels, Udp!TypeOK
<1>2. Sections'
  BY DEF ControlTypeOK, Sections, MessageSection, UdpTcpSection, TcpSection
<1>3. Readable'
  BY DEF ControlTypeOK, Readable, Sections, MessageSection, Udp!TypeOK
<1>4. RelayOnly'
  BY DEF ControlTypeOK, RelayOnly, RelayMessages
<1>5. SizeIsFresh' /\ ConsumerSafe'
  BY DEF ControlTypeOK, Sections, SizeIsFresh, ConsumerSafe, Q!size,
         Q!beginIndex, UdpTcpSection, TcpSection
<1> QED BY <1>1, <1>2, <1>3, <1>4, <1>5

LEMMA SpawnUdpStep ==
  ASSUME Inv, NEW t \in UdpThreads, SpawnUdp(t)
  PROVE  Inv'
<1> USE ClientAssumption DEF Inv, SpawnUdp, goto
<1>1. ControlTypeOK'
  BY DEF ControlTypeOK, UdpLabels, TcpLabels, Udp!TypeOK
<1>2. Sections'
  BY DEF ControlTypeOK, Sections, MessageSection, UdpTcpSection, TcpSection
<1>3. Readable'
  BY DEF ControlTypeOK, Readable, Sections, MessageSection, Udp!TypeOK
<1>4. RelayOnly'
  BY DEF ControlTypeOK, RelayOnly, RelayMessages
<1>5. SizeIsFresh' /\ ConsumerSafe'
  BY DEF ControlTypeOK, Sections, SizeIsFresh, ConsumerSafe, Q!size,
         Q!beginIndex, UdpTcpSection, TcpSection
<1> QED BY <1>1, <1>2, <1>3, <1>4, <1>5

LEMMA SpawnTcpStep ==
  ASSUME Inv, SpawnTcp
  PROVE  Inv'
<1> USE ClientAssumption DEF Inv, SpawnTcp
<1>1. ControlTypeOK'
  BY DEF ControlTypeOK, UdpLabels, TcpLabels, Udp!TypeOK
<1>2. Sections'
  BY DEF ControlTypeOK, Sections, MessageSection, UdpTcpSection, TcpSection
<1>3. Readable'
  BY DEF ControlTypeOK, Readable, Sections, MessageSection, Udp!TypeOK
<1>4. RelayOnly'
  BY DEF ControlTypeOK, RelayOnly, RelayMessages
<1>5. SizeIsFresh' /\ ConsumerSafe'
  BY DEF ControlTypeOK, Sections, SizeIsFresh, ConsumerSafe, Q!size,
         Q!beginIndex, UdpTcpSection, TcpSection
<1> QED BY <1>1, <1>2, <1>3, <1>4, <1>5

LEMMA ReturnStep ==
  ASSUME Inv, NEW t \in UdpThreads, Return(t)
  PROVE  Inv'
<1> USE ClientAssumption DEF Inv, Return, goto
<1>1. ControlTypeOK'
  BY DEF ControlTypeOK, UdpLabels, TcpLabels, Udp!TypeOK
<1>2. Sections'
  BY DEF ControlTypeOK, Sections, MessageSection, UdpTcpSection, TcpSection
<1>3. Readable'
  BY DEF ControlTypeOK, Readable, Sections, MessageSection, Udp!TypeOK
<1>4. RelayOnly'
  BY DEF ControlTypeOK, RelayOnly, RelayMessages
<1>5. SizeIsFresh' /\ ConsumerSafe'
  BY DEF ControlTypeOK, Sections, SizeIsFresh, ConsumerSafe, Q!size,
         Q!beginIndex, UdpTcpSection, TcpSection
<1> QED BY <1>1, <1>2, <1>3, <1>4, <1>5

LEMMA LockMessageStep ==
  ASSUME Inv, NEW t \in UdpThreads, LockMessage(t)
  PROVE  Inv'
<1> USE ClientAssumption DEF Inv, LockMessage, goto
<1>1. ControlTypeOK'
  BY DEF ControlTypeOK, UdpLabels, TcpLabels, Udp!TypeOK
<1>2. Sections'
  BY DEF ControlTypeOK, Sections, MessageSection, UdpTcpSection, TcpSection
<1>3. Readable'
  BY DEF ControlTypeOK, Readable, Sections, MessageSection, Udp!TypeOK
<1>4. RelayOnly'
  BY DEF ControlTypeOK, RelayOnly, RelayMessages
<1>5. SizeIsFresh' /\ ConsumerSafe'
  BY DEF ControlTypeOK, Sections, SizeIsFresh, ConsumerSafe, Q!size,
         Q!beginIndex, UdpTcpSection, TcpSection
<1> QED BY <1>1, <1>2, <1>3, <1>4, <1>5

LEMMA SelectStep ==
  ASSUME Inv, NEW t \in UdpThreads, Select(t)
  PROVE  Inv'
<1> USE ClientAssumption DEF Inv, Select, goto, continue
<1>1. ControlTypeOK'
  <2>1. Udp!TypeOK'
    BY DEF ControlTypeOK, Udp!TypeOK, Udp!selectError, Udp!selectTimeout,
           Udp!selectReady
  <2> QED BY <2>1 DEF ControlTypeOK, UdpLabels
<1>2. Sections'
  BY DEF ControlTypeOK, Sections, MessageSection, UdpTcpSection, TcpSection
<1>3. Readable'
  <2>1. \A u \in UdpThreads \ {t} : pc[u] \notin {"command", "recv"}
    BY DEF Sections, MessageSection
  <2>2. \A u \in UdpThreads \ {t} : pc'[u] = pc[u]
    BY DEF ControlTypeOK
  <2>3. pc'[t] # "recv" /\ (pc'[t] = "command" => Udp!selectReady)
    BY DEF ControlTypeOK
  <2>4. Udp!selectReady /\ recvSet' => inbox' # <<>>
    BY DEF Udp!selectReady
  <2> QED BY <2>1, <2>2, <2>3, <2>4 DEF Readable
<1>4. RelayOnly'
  BY DEF ControlTypeOK, RelayOnly, RelayMessages
<1>5. SizeIsFresh' /\ ConsumerSafe'
  BY DEF ControlTypeOK, Sections, SizeIsFresh, ConsumerSafe, Q!size,
         Q!beginIndex, UdpTcpSection, TcpSection
<1> QED BY <1>1, <1>2, <1>3, <1>4, <1>5

LEMMA CommandStep ==
  ASSUME Inv, NEW t \in UdpThreads, Command(t)
  PROVE  Inv'
<1> USE ClientAssumption DEF Inv, Command, goto, continue
<1>1. ControlTypeOK'
  BY DEF ControlTypeOK, UdpLabels, TcpLabels, Udp!TypeOK
<1>2. Sections'
  BY DEF ControlTypeOK, Sections, MessageSection, UdpTcpSection, TcpSection
<1>3. Readable'
  BY DEF ControlTypeOK, Readable, Sections, MessageSection, Udp!TypeOK
<1>4. RelayOnly'
  BY DEF ControlTypeOK, RelayOnly, RelayMessages
<1>5. SizeIsFresh' /\ ConsumerSafe'
  BY DEF ControlTypeOK, Sections, SizeIsFresh, ConsumerSafe, Q!size,
         Q!beginIndex, UdpTcpSection, TcpSection
<1> QED BY <1>1, <1>2, <1>3, <1>4, <1>5

LEMMA RecvStep ==
  ASSUME Inv, NEW t \in UdpThreads, Recv(t)
  PROVE  Inv'
<1> USE ClientAssumption DEF Inv, Recv, goto
<1>1. inbox # <<>> => /\ Head(inbox).data \in Messages
                      /\ Head(inbox).from = Server
                      /\ Tail(inbox) \in Seq(Udp!Datagram)
                      /\ Len(Tail(inbox)) <= RecvBuf
  <2>1. inbox # <<>> => /\ Head(inbox) \in Udp!Datagram
                        /\ Tail(inbox) \in Seq(Udp!Datagram)
                        /\ Len(Tail(inbox)) = Len(inbox) - 1
    BY HeadTailProperties DEF ControlTypeOK, Udp!TypeOK
  <2>2. Len(inbox) \in Nat /\ Len(inbox) <= RecvBuf
    BY LenProperties DEF ControlTypeOK, Udp!TypeOK
  <2> QED BY <2>1, <2>2 DEF Udp!Datagram
<1>2. ControlTypeOK'
  <2>1. Udp!TypeOK'
    BY <1>1 DEF ControlTypeOK, Udp!TypeOK, Udp!recv_bytes
  <2>2. msg' \in [UdpThreads -> Messages \cup {None}]
    BY <1>1 DEF ControlTypeOK, Udp!recv_bytes
  <2> QED BY <2>1, <2>2 DEF ControlTypeOK, UdpLabels
<1>3. Sections'
  BY DEF ControlTypeOK, Sections, MessageSection, UdpTcpSection, TcpSection
<1>4. Readable'
  BY DEF ControlTypeOK, Readable, Sections, MessageSection
<1>5. RelayOnly'
  BY <1>1 DEF ControlTypeOK, RelayOnly, Udp!recv_bytes
<1>6. SizeIsFresh' /\ ConsumerSafe'
  BY DEF ControlTypeOK, Sections, SizeIsFresh, ConsumerSafe, Q!size,
         Q!beginIndex, UdpTcpSection, TcpSection
<1> QED BY <1>2, <1>3, <1>4, <1>5, <1>6

LEMMA SaveStep ==
  ASSUME Inv, NEW t \in UdpThreads, Save(t)
  PROVE  Inv'
<1> USE ClientAssumption DEF Inv, Save, goto
<1>1. ControlTypeOK'
  BY DEF ControlTypeOK, UdpLabels, TcpLabels, Udp!TypeOK
<1>2. Sections'
  BY DEF ControlTypeOK, Sections, MessageSection, UdpTcpSection, TcpSection
<1>3. Readable'
  BY DEF ControlTypeOK, Readable, Sections, MessageSection, Udp!TypeOK
<1>4. RelayOnly'
  BY DEF ControlTypeOK, RelayOnly, RelayMessages
<1>5. SizeIsFresh' /\ ConsumerSafe'
  BY DEF ControlTypeOK, Sections, SizeIsFresh, ConsumerSafe, Q!size,
         Q!beginIndex, UdpTcpSection, TcpSection
<1> QED BY <1>1, <1>2, <1>3, <1>4, <1>5

LEMMA LockTcpStep ==
  ASSUME Inv, NEW t \in UdpThreads, LockTcp(t)
  PROVE  Inv'
<1> USE ClientAssumption DEF Inv, LockTcp, goto
<1>1. ControlTypeOK'
  BY DEF ControlTypeOK, UdpLabels, TcpLabels, Udp!TypeOK
<1>2. Sections'
  BY DEF ControlTypeOK, Sections, MessageSection, UdpTcpSection, TcpSection
<1>3. Readable'
  BY DEF ControlTypeOK, Readable, Sections, MessageSection, Udp!TypeOK
<1>4. RelayOnly'
  BY DEF ControlTypeOK, RelayOnly, RelayMessages
<1>5. SizeIsFresh' /\ ConsumerSafe'
  BY DEF ControlTypeOK, Sections, SizeIsFresh, ConsumerSafe, Q!size,
         Q!beginIndex, UdpTcpSection, TcpSection
<1> QED BY <1>1, <1>2, <1>3, <1>4, <1>5

LEMMA SizeStep ==
  ASSUME Inv, NEW t \in UdpThreads, Size(t)
  PROVE  Inv'
<1> USE ClientAssumption DEF Inv, Size, goto
<1>1. ControlTypeOK'
  BY DEF ControlTypeOK, UdpLabels, TcpLabels, Udp!TypeOK
<1>2. Sections'
  BY DEF ControlTypeOK, Sections, MessageSection, UdpTcpSection, TcpSection
<1>3. Readable'
  BY DEF ControlTypeOK, Readable, Sections, MessageSection, Udp!TypeOK
<1>4. RelayOnly'
  BY DEF ControlTypeOK, RelayOnly, RelayMessages
<1>5. SizeIsFresh' /\ ConsumerSafe'
  BY DEF ControlTypeOK, Sections, SizeIsFresh, ConsumerSafe, Q!size,
         Q!beginIndex, UdpTcpSection, TcpSection
<1> QED BY <1>1, <1>2, <1>3, <1>4, <1>5

LEMMA InsertStep ==
  ASSUME Inv, NEW t \in UdpThreads, Insert(t)
  PROVE  Inv'
<1> USE ClientAssumption DEF Inv, Insert, goto, Q!insert
<1>1. ControlTypeOK'
  BY DEF ControlTypeOK, UdpLabels, TcpLabels, Udp!TypeOK
<1>2. Sections'
  BY DEF ControlTypeOK, Sections, MessageSection, UdpTcpSection, TcpSection
<1>3. Readable'
  BY DEF ControlTypeOK, Readable, Sections, MessageSection, Udp!TypeOK
<1>4. RelayOnly'
  BY DEF ControlTypeOK, RelayOnly, RelayMessages
<1>5. SizeIsFresh' /\ ConsumerSafe'
  BY DEF ControlTypeOK, Sections, SizeIsFresh, ConsumerSafe, Q!size,
         Q!beginIndex, UdpTcpSection, TcpSection
<1> QED BY <1>1, <1>2, <1>3, <1>4, <1>5

LEMMA NotifyStep ==
  ASSUME Inv, NEW t \in UdpThreads, Notify(t)
  PROVE  Inv'
<1> USE ClientAssumption DEF Inv, Notify, goto
<1>1. ControlTypeOK'
  BY DEF ControlTypeOK, UdpLabels, TcpLabels, Udp!TypeOK
<1>2. Sections'
  BY DEF ControlTypeOK, Sections, MessageSection, UdpTcpSection, TcpSection
<1>3. Readable'
  BY DEF ControlTypeOK, Readable, Sections, MessageSection, Udp!TypeOK
<1>4. RelayOnly'
  BY DEF ControlTypeOK, RelayOnly, RelayMessages
<1>5. SizeIsFresh' /\ ConsumerSafe'
  BY DEF ControlTypeOK, Sections, SizeIsFresh, ConsumerSafe, Q!size,
         Q!beginIndex, UdpTcpSection, TcpSection
<1> QED BY <1>1, <1>2, <1>3, <1>4, <1>5

LEMMA SleepStep ==
  ASSUME Inv, NEW t \in UdpThreads, Sleep(t)
  PROVE  Inv'
<1> USE ClientAssumption DEF Inv, Sleep, goto, continue
<1>1. ControlTypeOK'
  BY DEF ControlTypeOK, UdpLabels, TcpLabels, Udp!TypeOK
<1>2. Sections'
  BY DEF ControlTypeOK, Sections, MessageSection, UdpTcpSection, TcpSection
<1>3. Readable'
  BY DEF ControlTypeOK, Readable, Sections, MessageSection, Udp!TypeOK
<1>4. RelayOnly'
  BY DEF ControlTypeOK, RelayOnly, RelayMessages
<1>5. SizeIsFresh' /\ ConsumerSafe'
  BY DEF ControlTypeOK, Sections, SizeIsFresh, ConsumerSafe, Q!size,
         Q!beginIndex, UdpTcpSection, TcpSection
<1> QED BY <1>1, <1>2, <1>3, <1>4, <1>5

LEMMA TcpLockStep ==
  ASSUME Inv, TcpLock
  PROVE  Inv'
<1> USE ClientAssumption DEF Inv, TcpLock
<1>1. ControlTypeOK'
  BY DEF ControlTypeOK, UdpLabels, TcpLabels, Udp!TypeOK
<1>2. Sections'
  BY DEF ControlTypeOK, Sections, MessageSection, UdpTcpSection, TcpSection
<1>3. Readable'
  BY DEF ControlTypeOK, Readable, Sections, MessageSection, Udp!TypeOK
<1>4. RelayOnly'
  BY DEF ControlTypeOK, RelayOnly, RelayMessages
<1>5. SizeIsFresh' /\ ConsumerSafe'
  BY DEF ControlTypeOK, Sections, SizeIsFresh, ConsumerSafe, Q!size,
         Q!beginIndex, UdpTcpSection, TcpSection
<1> QED BY <1>1, <1>2, <1>3, <1>4, <1>5

LEMMA CheckStep ==
  ASSUME Inv, Check
  PROVE  Inv'
<1> USE ClientAssumption DEF Inv, Check
<1>1. ControlTypeOK'
  BY DEF ControlTypeOK, UdpLabels, TcpLabels, Udp!TypeOK
<1>2. Sections'
  BY DEF ControlTypeOK, Sections, MessageSection, UdpTcpSection, TcpSection
<1>3. Readable'
  BY DEF ControlTypeOK, Readable, Sections, MessageSection, Udp!TypeOK
<1>4. RelayOnly'
  BY DEF ControlTypeOK, RelayOnly, RelayMessages
<1>5. SizeIsFresh' /\ ConsumerSafe'
  BY DEF ControlTypeOK, Sections, SizeIsFresh, ConsumerSafe, Q!size,
         Q!beginIndex, UdpTcpSection, TcpSection
<1> QED BY <1>1, <1>2, <1>3, <1>4, <1>5

LEMMA SpuriousWakeupStep ==
  ASSUME Inv, SpuriousWakeup
  PROVE  Inv'
<1> USE ClientAssumption DEF Inv, SpuriousWakeup
<1>1. ControlTypeOK'
  BY DEF ControlTypeOK, UdpLabels, TcpLabels, Udp!TypeOK
<1>2. Sections'
  BY DEF ControlTypeOK, Sections, MessageSection, UdpTcpSection, TcpSection
<1>3. Readable'
  BY DEF ControlTypeOK, Readable, Sections, MessageSection, Udp!TypeOK
<1>4. RelayOnly'
  BY DEF ControlTypeOK, RelayOnly, RelayMessages
<1>5. SizeIsFresh' /\ ConsumerSafe'
  BY DEF ControlTypeOK, Sections, SizeIsFresh, ConsumerSafe, Q!size,
         Q!beginIndex, UdpTcpSection, TcpSection
<1> QED BY <1>1, <1>2, <1>3, <1>4, <1>5

LEMMA BeginIndexStep ==
  ASSUME Inv, BeginIndex
  PROVE  Inv'
<1> USE ClientAssumption DEF Inv, BeginIndex
<1>1. ControlTypeOK'
  BY DEF ControlTypeOK, UdpLabels, TcpLabels, Udp!TypeOK
<1>2. Sections'
  BY DEF ControlTypeOK, Sections, MessageSection, UdpTcpSection, TcpSection
<1>3. Readable'
  BY DEF ControlTypeOK, Readable, Sections, MessageSection, Udp!TypeOK
<1>4. RelayOnly'
  BY DEF ControlTypeOK, RelayOnly, RelayMessages
<1>5. SizeIsFresh' /\ ConsumerSafe'
  BY DEF ControlTypeOK, Sections, SizeIsFresh, ConsumerSafe, Q!size,
         Q!beginIndex, UdpTcpSection, TcpSection
<1> QED BY <1>1, <1>2, <1>3, <1>4, <1>5

LEMMA BeginValueStep ==
  ASSUME Inv, BeginValue
  PROVE  Inv'
<1> USE ClientAssumption DEF Inv, BeginValue
<1>1. ControlTypeOK'
  BY DEF ControlTypeOK, UdpLabels, TcpLabels, Udp!TypeOK
<1>2. Sections'
  BY DEF ControlTypeOK, Sections, MessageSection, UdpTcpSection, TcpSection
<1>3. Readable'
  BY DEF ControlTypeOK, Readable, Sections, MessageSection, Udp!TypeOK
<1>4. RelayOnly'
  BY DEF ControlTypeOK, RelayOnly, RelayMessages
<1>5. SizeIsFresh' /\ ConsumerSafe'
  BY DEF ControlTypeOK, Sections, SizeIsFresh, ConsumerSafe, Q!size,
         Q!beginIndex, UdpTcpSection, TcpSection
<1> QED BY <1>1, <1>2, <1>3, <1>4, <1>5

LEMMA RemoveStep ==
  ASSUME Inv, Remove
  PROVE  Inv'
<1> USE ClientAssumption DEF Inv, Remove, Q!remove
<1>1. ControlTypeOK'
  BY DEF ControlTypeOK, UdpLabels, TcpLabels, Udp!TypeOK
<1>2. Sections'
  BY DEF ControlTypeOK, Sections, MessageSection, UdpTcpSection, TcpSection
<1>3. Readable'
  BY DEF ControlTypeOK, Readable, Sections, MessageSection, Udp!TypeOK
<1>4. RelayOnly'
  BY DEF ControlTypeOK, RelayOnly, RelayMessages
<1>5. SizeIsFresh' /\ ConsumerSafe'
  BY DEF ControlTypeOK, Sections, SizeIsFresh, ConsumerSafe, Q!size,
         Q!beginIndex, UdpTcpSection, TcpSection
<1> QED BY <1>1, <1>2, <1>3, <1>4, <1>5

LEMMA SendStep ==
  ASSUME Inv, Send
  PROVE  Inv'
<1> USE ClientAssumption DEF Inv, Send
<1>1. ControlTypeOK'
  BY DEF ControlTypeOK, UdpLabels, TcpLabels, Udp!TypeOK
<1>2. Sections'
  BY DEF ControlTypeOK, Sections, MessageSection, UdpTcpSection, TcpSection
<1>3. Readable'
  BY DEF ControlTypeOK, Readable, Sections, MessageSection, Udp!TypeOK
<1>4. RelayOnly'
  BY DEF ControlTypeOK, RelayOnly, RelayMessages
<1>5. SizeIsFresh' /\ ConsumerSafe'
  BY DEF ControlTypeOK, Sections, SizeIsFresh, ConsumerSafe, Q!size,
         Q!beginIndex, UdpTcpSection, TcpSection
<1> QED BY <1>1, <1>2, <1>3, <1>4, <1>5

LEMMA TcpServerStep ==
  ASSUME Inv, TcpServer
  PROVE  Inv'
<1> USE ClientAssumption DEF Inv, TcpServer
<1>1. ControlTypeOK'
  BY DEF ControlTypeOK, UdpLabels, TcpLabels, Udp!TypeOK
<1>2. Sections'
  BY DEF ControlTypeOK, Sections, MessageSection, UdpTcpSection, TcpSection
<1>3. Readable'
  BY DEF ControlTypeOK, Readable, Sections, MessageSection, Udp!TypeOK
<1>4. RelayOnly'
  BY DEF ControlTypeOK, RelayOnly, RelayMessages
<1>5. SizeIsFresh' /\ ConsumerSafe'
  BY DEF ControlTypeOK, Sections, SizeIsFresh, ConsumerSafe, Q!size,
         Q!beginIndex, UdpTcpSection, TcpSection
<1> QED BY <1>1, <1>2, <1>3, <1>4, <1>5

LEMMA ArriveStep ==
  ASSUME Inv, Arrive
  PROVE  Inv'
<1> USE ClientAssumption DEF Inv, Arrive
<1>1. ControlTypeOK'
  BY DEF ControlTypeOK, UdpLabels, TcpLabels, Udp!TypeOK, Udp!Datagram,
         Udp!arrive
<1>2. Sections'
  BY DEF ControlTypeOK, Sections, MessageSection, UdpTcpSection, TcpSection
<1>3. Readable'
  BY DEF ControlTypeOK, Readable, Sections, MessageSection, Udp!TypeOK,
         Udp!arrive
<1>4. RelayOnly'
  BY DEF ControlTypeOK, RelayOnly, RelayMessages
<1>5. SizeIsFresh' /\ ConsumerSafe'
  BY DEF ControlTypeOK, Sections, SizeIsFresh, ConsumerSafe, Q!size,
         Q!beginIndex, UdpTcpSection, TcpSection
<1> QED BY <1>1, <1>2, <1>3, <1>4, <1>5

LEMMA StepInv == Inv /\ [Next]_vars => Inv'
<1> SUFFICES ASSUME Inv, [Next]_vars PROVE Inv'
  OBVIOUS
<1>1. CASE Main
  BY <1>1, ConstructStep, ConnectStep, SpawnUdpStep, SpawnTcpStep DEF Main
<1>2. ASSUME NEW t \in UdpThreads, UdpThread(t) PROVE Inv'
  <2>1. CASE UdpStep(t)
    BY <2>1, SelectStep, CommandStep, RecvStep, SaveStep, SizeStep,
       InsertStep, NotifyStep, SleepStep DEF UdpStep
  <2> QED BY <1>2, <2>1, ReturnStep, LockMessageStep, LockTcpStep DEF UdpThread
<1>3. CASE TcpLock \/ TcpStep \/ SpuriousWakeup
  BY <1>3, TcpLockStep, CheckStep, SpuriousWakeupStep, BeginIndexStep,
     BeginValueStep, RemoveStep, SendStep DEF TcpStep
<1>4. CASE TcpServer \/ Arrive
  BY <1>4, TcpServerStep, ArriveStep
<1>5. CASE UNCHANGED vars
  <2> USE <1>5 DEF Inv, vars
  <2>1. ControlTypeOK' /\ Sections' /\ Readable' /\ RelayOnly'
    BY DEF ControlTypeOK, Udp!TypeOK, Sections, Readable, RelayOnly
  <2>2. SizeIsFresh' /\ ConsumerSafe'
    BY DEF SizeIsFresh, ConsumerSafe, Q!size, Q!beginIndex
  <2> QED BY <2>1, <2>2
<1> QED BY <1>1, <1>2, <1>3, <1>4, <1>5 DEF Next

(* In every state the sections exclude each other and their reads hold.    *)
THEOREM Invariance == Spec => []Inv
BY InitInv, StepInv, PTL DEF Spec

(* m_mutex_message admits one UDP thread between select and the end of its *)
(* sleep, m_mutex_tcp one thread at the queue.                             *)
THEOREM MutualExclusion == Spec => []Sections
<1>1. Inv => Sections
  BY DEF Inv
<1> QED BY <1>1, Invariance, PTL

(* recvfrom is called on a socket that has a datagram. *)
THEOREM RecvFindsDatagram == Spec => []ReadableUntilRecv
<1>1. Inv => ReadableUntilRecv
  BY DEF Inv, Readable, ReadableUntilRecv
<1> QED BY <1>1, Invariance, PTL

(* The size a UDP thread inserts under is the size at the insertion. *)
THEOREM FreshSize == Spec => []SizeIsFresh
<1>1. Inv => SizeIsFresh
  BY DEF Inv
<1> QED BY <1>1, Invariance, PTL

(* beginIndex and beginValue never see an empty queue, and the TCP thread  *)
(* removes and sends the same message.                                     *)
THEOREM SafeConsumer == Spec => []ConsumerSafe
<1>1. Inv => ConsumerSafe
  BY DEF Inv
<1> QED BY <1>1, Invariance, PTL

-----------------------------------------------------------------------------
(* The program implements the queue of TcpQueue.tla: the insertion of a    *)
(* UDP thread is a push, the removal of the TCP thread a pop, and no other *)
(* action touches the queue.                                               *)
QP == INSTANCE TcpQueueProofs WITH Messages <- RelayMessages

LEMMA QueueStep == Inv /\ [Next]_vars => [Q!Next]_(Q!vars)
<1> SUFFICES ASSUME Inv, [Next]_vars PROVE Q!Next \/ UNCHANGED queueVars
  BY DEF Q!vars, queueVars
<1>1. CASE Main
  BY <1>1 DEF Main, Construct, Connect, SpawnUdp, SpawnTcp
<1>2. ASSUME NEW t \in UdpThreads, UdpThread(t)
      PROVE  Q!Next \/ UNCHANGED queueVars
  <2>1. CASE Insert(t)
    <3>1. Q!insert(Q!size, msg[t]) /\ msg[t] \in RelayMessages
      BY <2>1 DEF Inv, SizeIsFresh, RelayOnly, Insert
    <3> QED BY <3>1 DEF Q!Next, Q!Push
  <2>2. CASE UdpThread(t) /\ ~Insert(t)
    BY <2>2 DEF UdpThread, UdpStep, Return, LockMessage, LockTcp, Select,
                Command, Recv, Save, Size, Notify, Sleep
  <2> QED BY <1>2, <2>1, <2>2
<1>3. CASE TcpLock \/ TcpStep \/ SpuriousWakeup
  <2>1. CASE Remove
    <3>1. DOMAIN queue # {} /\ Q!remove(Q!beginIndex)
      BY <2>1 DEF Inv, ConsumerSafe, Remove
    <3> QED BY <3>1 DEF Q!Next, Q!Pop
  <2> QED BY <1>3, <2>1 DEF TcpLock, TcpStep, SpuriousWakeup, Check,
                            BeginIndex, BeginValue, Send
<1>4. CASE TcpServer \/ Arrive
  BY <1>4 DEF TcpServer, Arrive
<1>5. CASE UNCHANGED vars
  BY <1>5 DEF vars
<1> QED BY <1>1, <1>2, <1>3, <1>4, <1>5 DEF Next

(* The threads, statement by statement, use the queue as TcpQueue.tla      *)
(* specifies: every push under the size it has, every pop of the least.    *)
THEOREM Refinement == Spec => ImplementsQueue
<1>1. Init => Q!Init
  BY DEF Init
<1> QED BY <1>1, Invariance, QueueStep, PTL DEF Spec, ImplementsQueue, Q!Spec

(* So the invariants of the queue are invariants of the program ... *)
LEMMA QueueInvariance == Spec => []QP!IInv
<1>1. Init => QP!IInv
  BY QP!InitIInv DEF Init, Q!Init, QP!Init
<1>2. QP!IInv /\ [Q!Next]_(Q!vars) => QP!IInv'
  <2>1. Q!size = QP!size
    BY DEF Q!size, QP!size, Q!Cardinality, QP!Cardinality
  <2>2. Q!beginIndex = QP!beginIndex
    BY DEF Q!beginIndex, QP!beginIndex, Q!Min, QP!Min
  <2>3. ASSUME NEW m \in RelayMessages, Q!Push(m) PROVE QP!Push(m)
    BY <2>1, <2>3 DEF Q!Push, QP!Push, Q!insert, QP!insert
  <2>4. Q!Pop => QP!Pop
    BY <2>2 DEF Q!Pop, QP!Pop, Q!remove, QP!remove
  <2>5. [Q!Next]_(Q!vars) => [QP!Next]_(QP!vars)
    BY <2>3, <2>4 DEF Q!Next, QP!Next, Q!vars, QP!vars
  <2> QED BY <2>5, QP!Step
<1> QED BY <1>1, <1>2, Invariance, QueueStep, PTL DEF Spec

(* ... in particular every message handed to the TCP thread is queued,     *)
(* lost or popped, exactly once; ...                                       *)
THEOREM HandoverAccounted == Spec => []Q!Accounted
<1>1. QP!IInv => Q!Accounted
  BY DEF QP!IInv, QP!Accounted, Q!Accounted, QP!Queued, Q!Queued, QP!Popped,
         Q!Popped
<1> QED BY <1>1, QueueInvariance, PTL

(* ... and a single waiting message is never lost, nor two reordered.      *)
THEOREM HandoverWithoutBacklog ==
  Spec => [](Q!LossNeedsBacklog /\ Q!OrderNeedsBacklog)
<1>1. QP!IInv => Q!LossNeedsBacklog /\ Q!OrderNeedsBacklog
  BY DEF QP!IInv, QP!LossNeedsBacklog, Q!LossNeedsBacklog, QP!QueuedInOrder,
         Q!OrderNeedsBacklog
<1> QED BY <1>1, QueueInvariance, PTL

(* Whichever message handed over is watched, the program follows           *)
(* QueueTraffic.tla: nothing overtakes it at an index below 2.             *)
THEOREM HandoverTraffic == Spec => Q!FollowsTraffic
<1>1. Init => \A n \in 1 .. pushes + 1 : Q!Traffic(n)!Init
  BY DEF Init, Q!Init, Q!Watched, Q!Traffic!Init
<1>2. ASSUME QP!IInv, Q!Next, NEW n \in Nat
      PROVE  [Q!Traffic(n)!Next]_<<DOMAIN queue, Q!Watched(n)>>
  <2>1. Q!Watched(n) = QP!Watched(n) /\ Q!Watched(n)' = QP!Watched(n)'
    BY DEF Q!Watched, QP!Watched
  <2>2. CASE Q!Pop
    <3>1. Q!beginIndex = QP!beginIndex
      BY DEF Q!beginIndex, QP!beginIndex, Q!Min, QP!Min
    <3>2. QP!Pop
      BY <2>2, <3>1 DEF Q!Pop, QP!Pop, Q!remove, QP!remove
    <3>3. QP!Traffic(n)!Pop
      BY <3>2, QP!TrafficPops
    <3>4. Q!Traffic(n)!Pop
      BY <2>1, <3>3 DEF Q!Traffic!Pop, QP!Traffic!Pop, Q!Traffic!Min, QP!Traffic!Min
    <3> QED
      BY <3>4 DEF Q!Traffic!Next
  <2>3. ASSUME NEW m \in RelayMessages, Q!Push(m)
        PROVE  [Q!Traffic(n)!Next]_<<DOMAIN queue, Q!Watched(n)>>
    <3>1. Q!size = QP!size
      BY DEF Q!size, QP!size, Q!Cardinality, QP!Cardinality
    <3>2. QP!Push(m)
      BY <2>3, <3>1 DEF Q!Push, QP!Push, Q!insert, QP!insert
    <3>3. [QP!Traffic(n)!Next]_<<DOMAIN queue, QP!Watched(n)>>
      BY <1>2, <3>2, QP!TrafficPushes
    <3> QED
      BY <2>1, <3>3
      DEF Q!Traffic!Next, QP!Traffic!Next, Q!Traffic!Push, QP!Traffic!Push,
          Q!Traffic!Pop, QP!Traffic!Pop, Q!Traffic!Min, QP!Traffic!Min,
          Q!Traffic!Cardinality, QP!Traffic!Cardinality
  <2> QED
    BY <1>2, <2>2, <2>3 DEF Q!Next
<1>3. ASSUME QP!IInv, [Q!Next]_(Q!vars)
      PROVE  [\A n \in 1 .. pushes + 1 :
                [Q!Traffic(n)!Next]_<<DOMAIN queue, Q!Watched(n)>>]_(Q!vars)
  <2>1. \A n \in 1 .. pushes + 1 : n \in Nat
    BY DEF QP!IInv, QP!TypeOK
  <2> QED
    BY <1>2, <1>3, <2>1
<1> QED
  BY <1>1, <1>3, Invariance, QueueInvariance, QueueStep, PTL
  DEF Spec, Q!FollowsTraffic

-----------------------------------------------------------------------------
(* Type correctness, given the invariant and the type of the queue. *)
DataTypeOK ==
  /\ messageMutex \in UdpThreads \cup {None}
  /\ tcpMutex \in UdpThreads \cup {TcpThread, None}
  /\ queueSize \in [UdpThreads -> Nat]
  /\ index \in Nat
  /\ value \in RelayMessages \cup {None}
  /\ tcpPc = "send" => value \in RelayMessages
  /\ \A id \in DOMAIN m_container : m_container[id] \in Messages
  /\ announced \in BOOLEAN
  /\ received \in Seq(Messages)
  /\ Link!TypeOK

LEMMA QueueTypeOK ==
  ASSUME QP!IInv
  PROVE  /\ Q!TypeOK
         /\ Q!size \in Nat
         /\ DOMAIN queue # {} => /\ Q!beginIndex \in Nat
                                /\ queue[Q!beginIndex] \in RelayMessages
<1>1. QP!TypeOK
  BY DEF QP!IInv
<1>2. Q!IsFiniteSet(DOMAIN queue) = QP!IsFiniteSet(DOMAIN queue)
  BY DEF Q!IsFiniteSet, QP!IsFiniteSet
<1>3. Q!TypeOK
  BY <1>1, <1>2 DEF QP!TypeOK, Q!TypeOK
<1>4. Q!size \in Nat
  <2>1. QP!size \in Nat
    BY <1>1, QP!SizeType DEF QP!TypeOK
  <2>2. Q!size = QP!size
    BY DEF Q!size, QP!size, Q!Cardinality, QP!Cardinality
  <2> QED BY <2>1, <2>2
<1>5. ASSUME DOMAIN queue # {}
      PROVE  Q!beginIndex \in DOMAIN queue
  <2>1. QP!Min(DOMAIN queue) \in DOMAIN queue
    BY <1>1, <1>5, QP!MinProperties DEF QP!TypeOK
  <2>2. Q!beginIndex = QP!Min(DOMAIN queue)
    BY DEF Q!beginIndex, Q!Min, QP!Min
  <2> QED BY <2>1, <2>2
<1> QED BY <1>1, <1>3, <1>4, <1>5 DEF QP!TypeOK

LEMMA InitDataTypeOK == Init => DataTypeOK
<1> SUFFICES ASSUME Init PROVE DataTypeOK
  OBVIOUS
<1>1. Link!TypeOK
  <2>1. stream \in Seq(RelayMessages) /\ served \in Seq(RelayMessages)
        /\ Len(stream) <= TcpBuf
    BY EmptySeq, ClientAssumption DEF Init, Link!Init
  <2> QED BY <2>1 DEF Init, Link!Init, Link!TypeOK, Link!SrvLabels
<1>2. received \in Seq(Messages) /\ queueSize \in [UdpThreads -> Nat]
  BY EmptySeq DEF Init
<1> QED BY <1>1, <1>2 DEF Init, DataTypeOK

LEMMA StepDataTypeOK ==
  ASSUME Inv, QP!IInv, DataTypeOK, [Next]_vars
  PROVE  DataTypeOK'
<1> USE ClientAssumption DEF DataTypeOK
<1>1. CASE Main
  <2>1. Link!TypeOK'
    BY <1>1 DEF Main, Construct, Connect, SpawnUdp, SpawnTcp, Link!TypeOK,
                Link!SrvLabels, Link!startServer, Link!connect
  <2> QED BY <1>1, <2>1 DEF Main, Construct, Connect, SpawnUdp, SpawnTcp
<1>2. ASSUME NEW t \in UdpThreads, UdpThread(t) PROVE DataTypeOK'
  <2> USE DEF goto
  <2>1. CASE Return(t) \/ LockMessage(t) \/ LockTcp(t) \/ Insert(t) \/ Notify(t)
    BY <2>1 DEF Return, LockMessage, LockTcp, Insert, Notify, Link!TypeOK
  <2>2. CASE Select(t) \/ Sleep(t)
    <3>1. \/ UNCHANGED <<mutexVars, localVars>>
          \/ continue(t)
      BY <2>2 DEF Select, Sleep
    <3>2. UNCHANGED <<received, announced, m_container, tcpPc, linkVars>>
      BY <2>2 DEF Select, Sleep
    <3>3. announced' \in BOOLEAN /\ Link!TypeOK'
      BY <3>2 DEF Link!TypeOK
    <3> QED BY <3>1, <3>2, <3>3 DEF continue
  <2>3. CASE Command(t)
    <3>1. announced' \in BOOLEAN
      BY <2>3 DEF Command
    <3>2. \/ UNCHANGED <<mutexVars, localVars>>
          \/ continue(t)
      BY <2>3 DEF Command
    <3>3. UNCHANGED <<received, m_container, tcpPc, linkVars>>
      BY <2>3 DEF Command
    <3> QED BY <3>1, <3>2, <3>3 DEF continue, Link!TypeOK
  <2>4. CASE Recv(t)
    <3>1. inbox # <<>> => Head(inbox) \in Udp!Datagram
      BY HeadTailProperties DEF Inv, ControlTypeOK, Udp!TypeOK
    <3>2. inbox # <<>> => Head(inbox).data \in Messages
      BY <3>1 DEF Udp!Datagram
    <3>3. \/ received' = received
          \/ inbox # <<>> /\ received' = Append(received, Head(inbox).data)
      BY <2>4 DEF Recv, Udp!recv_bytes
    <3>4. received' \in Seq(Messages)
      BY <3>2, <3>3
    <3> QED BY <2>4, <3>4 DEF Recv, Link!TypeOK
  <2>5. CASE Save(t)
    BY <2>5 DEF Save, Saved!Insert, Inv, RelayOnly, Link!TypeOK
  <2>6. CASE Size(t)
    BY <2>6, QueueTypeOK DEF Size, Link!TypeOK
  <2> QED BY <1>2, <2>1, <2>2, <2>3, <2>4, <2>5, <2>6 DEF UdpThread, UdpStep
<1>3. CASE TcpLock \/ Check \/ SpuriousWakeup
  BY <1>3 DEF TcpLock, Check, SpuriousWakeup, Link!TypeOK
<1>4. CASE BeginIndex \/ BeginValue
  BY <1>4, QueueTypeOK DEF Inv, ConsumerSafe, BeginIndex, BeginValue,
                           Link!TypeOK
<1>5. CASE Remove
  BY <1>5, QueueTypeOK DEF Inv, ConsumerSafe, Remove, Link!TypeOK
<1>6. CASE Send
  <2>1. CASE m_connected /\ Link!sendBytes(value)
    <3>1. value \in RelayMessages
      BY <1>6 DEF Send
    <3>2. /\ stream' \in Seq(RelayMessages)
          /\ Len(stream') = Len(stream) + 1
          /\ Len(stream) \in Nat
      BY <2>1, <3>1 DEF Link!TypeOK, Link!sendBytes
    <3>3. Link!TypeOK'
      BY <2>1, <3>2 DEF Link!TypeOK, Link!sendBytes
    <3> QED BY <1>6, <3>3 DEF Send
  <2>2. CASE UNCHANGED linkVars
    BY <1>6, <2>2 DEF Send, Link!TypeOK
  <2> QED BY <1>6, <2>1, <2>2 DEF Send
<1>7. CASE TcpServer
  <2>1. CASE Link!serverRecv
    <3>1. /\ Head(stream) \in RelayMessages
          /\ Tail(stream) \in Seq(RelayMessages)
          /\ Len(Tail(stream)) = Len(stream) - 1
          /\ Len(stream) \in Nat
      BY <2>1, HeadTailProperties, LenProperties
      DEF Link!TypeOK, Link!serverRecv
    <3> QED BY <1>7, <2>1, <3>1 DEF TcpServer, Link!TypeOK, Link!serverRecv
  <2>2. CASE ~Link!serverRecv
    BY <1>7, <2>2
    DEF TcpServer, Link!TypeOK, Link!SrvLabels, Link!ListeningThread,
        Link!serverFails,
        Link!serverSocket, Link!serverBind, Link!serverListen, Link!serverAccept
  <2> QED BY <2>1, <2>2
<1>8. CASE Arrive
  BY <1>8 DEF Arrive, Link!TypeOK
<1>9. CASE UNCHANGED vars
  BY <1>9 DEF vars, Link!TypeOK
<1> QED BY <1>1, <1>2, <1>3, <1>4, <1>5, <1>6, <1>7, <1>8, <1>9
  DEF Next, TcpStep

(* Every variable of the receiver keeps its type. *)
THEOREM TypeCorrect == Spec => []TypeOK
<1>1. Inv /\ QP!IInv /\ DataTypeOK /\ [Next]_vars => DataTypeOK'
  BY StepDataTypeOK
<1>2. Inv /\ QP!IInv /\ DataTypeOK => TypeOK
  BY QueueTypeOK DEF Inv, ControlTypeOK, DataTypeOK, TypeOK
<1> QED
  BY <1>1, <1>2, InitDataTypeOK, Invariance, QueueInvariance, PTL DEF Spec

-----------------------------------------------------------------------------
(* The saved messages.  A thread about to save has the message received    *)
(* last, which is the only one that may not have been saved.               *)
Saving == \E t \in UdpThreads : pc[t] = "save"

SavesLast ==
  \A t \in UdpThreads :
    pc[t] = "save" => received # <<>> /\ msg[t] = received[Len(received)]

SInv == SavesFirstPerId /\ SavesLast

(* The messages settled are all but the last, or all. *)
LEMMA SettledRange ==
  ASSUME received \in Seq(Messages)
  PROVE  /\ Saving => Settled = 1 .. Len(received) - 1
         /\ ~Saving => Settled = 1 .. Len(received)
<1>1. Len(received) \in Nat /\ DOMAIN received = 1 .. Len(received)
  BY LenProperties
<1> QED
  BY <1>1 DEF Settled, Saving

LEMMA InitSInv == Init => SInv
<1> SUFFICES ASSUME Init PROVE SInv
  OBVIOUS
<1>1. DOMAIN received = {} /\ DOMAIN m_container = {}
  BY DEF Init
<1>2. Settled = {}
  BY <1>1 DEF Settled
<1> QED
  BY <1>1, <1>2 DEF Init, SInv, SavesFirstPerId, SavesLast

(* A step that receives and saves nothing leaves all this alone. *)
LEMMA QuietStep ==
  ASSUME SInv, UNCHANGED <<received, m_container>>,
         \A t \in UdpThreads : pc'[t] = "save" <=> pc[t] = "save",
         \A t \in UdpThreads : pc[t] = "save" => msg'[t] = msg[t]
  PROVE  SInv'
<1>1. Settled' = Settled
  BY DEF Settled
<1>2. SavesFirstPerId'
  BY <1>1 DEF SInv, SavesFirstPerId
<1>3. SavesLast'
  BY DEF SInv, SavesLast
<1> QED
  BY <1>2, <1>3 DEF SInv

(* At most one thread is about to save, and none while another receives.   *)
LEMMA OneSaves ==
  ASSUME Inv, NEW t \in UdpThreads, pc[t] \in {"recv", "save"},
         NEW u \in UdpThreads, pc[u] = "save"
  PROVE  u = t
BY DEF Inv, Sections, MessageSection

(* A message received is not settled until it is saved. *)
LEMMA ReceptionSaves ==
  ASSUME Inv, DataTypeOK, SInv, NEW t \in UdpThreads, pc[t] = "recv",
         NEW d \in Messages, received' = Append(received, d),
         msg' = [msg EXCEPT ![t] = d], pc' = [pc EXCEPT ![t] = "save"],
         UNCHANGED m_container
  PROVE  SInv'
<1> DEFINE L == Len(received)
<1>1. received \in Seq(Messages)
  BY DEF DataTypeOK
<1>2. /\ received' \in Seq(Messages) /\ received' # <<>>
      /\ Len(received') = L + 1 /\ received'[L + 1] = d
      /\ \A n \in 1 .. L : received'[n] = received[n]
      /\ L \in Nat
  BY <1>1, AppendProperties, LenProperties
<1>3. pc'[t] = "save" /\ msg'[t] = d /\ \A u \in UdpThreads \ {t} : pc'[u] = pc[u]
  BY DEF Inv, ControlTypeOK
<1>4. \A u \in UdpThreads : pc[u] # "save"
  BY OneSaves
<1>5. Settled = 1 .. L
  BY <1>1, <1>4, SettledRange DEF Saving
<1>6. Settled' = 1 .. L
  <2>1. Saving'
    BY <1>3 DEF Saving
  <2>2. DOMAIN received' = 1 .. L + 1
    BY <1>2, LenProperties
  <2>3. Settled' = {n \in 1 .. L + 1 : n # L + 1}
    BY <1>2, <2>1, <2>2 DEF Settled, Saving
  <2> QED
    BY <1>2, <2>3
<1>7. SavesFirstPerId'
  <2> DEFINE R == received'
  <2>1. \A n \in 1 .. L : R[n] = received[n]
    BY <1>2
  <2>2. {R[n].MessageId : n \in 1 .. L} = {received[n].MessageId : n \in 1 .. L}
    BY <2>1
  <2>3. \A n \in 1 .. L : \A o \in 1 .. n - 1 : o \in 1 .. L
    BY <1>2
  <2>4. ASSUME NEW n \in 1 .. L,
               \A o \in 1 .. n - 1 : R[o].MessageId # R[n].MessageId
        PROVE  m_container[R[n].MessageId] = R[n]
    <3>1. \A o \in 1 .. n - 1 : received[o].MessageId # received[n].MessageId
      BY <2>1, <2>3, <2>4
    <3> QED
      BY <1>5, <2>1, <3>1 DEF SInv, SavesFirstPerId
  <2> QED
    BY <1>5, <1>6, <2>2, <2>4 DEF SInv, SavesFirstPerId
<1>8. SavesLast'
  BY <1>2, <1>3, <1>4 DEF SavesLast
<1> QED
  BY <1>7, <1>8 DEF SInv

(* Saving settles the last message: it is kept if its id is new. *)
LEMMA SaveSettles ==
  ASSUME Inv, DataTypeOK, SInv, NEW t \in UdpThreads, Save(t)
  PROVE  SInv'
<1> DEFINE L == Len(received)
           m == received[L]
<1>1. received \in Seq(Messages) /\ L \in Nat
  BY LenProperties DEF DataTypeOK
<1>2. /\ pc[t] = "save" /\ received' = received
      /\ m_container' = [k \in DOMAIN m_container \cup {msg[t].MessageId} |->
                           IF k \in DOMAIN m_container THEN m_container[k]
                                                       ELSE msg[t]]
  BY DEF Save, Saved!Insert, historyVars
<1>3. received # <<>> /\ msg[t] = m
  BY <1>2 DEF SInv, SavesLast
<1>4. L \in Nat \ {0}
  BY <1>1, <1>3, EmptySeq
<1>5. Settled = 1 .. L - 1
  BY <1>1, <1>2, SettledRange DEF Saving
<1>6. \A u \in UdpThreads : pc'[u] # "save"
  <2>1. pc'[t] \in {"lockTcp", "sleep"} /\ \A u \in UdpThreads \ {t} : pc'[u] = pc[u]
    BY DEF Save, goto, Inv, ControlTypeOK
  <2> QED
    BY <1>2, <2>1, OneSaves
<1>7. Settled' = 1 .. L
  BY <1>1, <1>2, <1>6, LenProperties DEF Settled
<1>8. DOMAIN m_container = {received[n].MessageId : n \in 1 .. L - 1}
  BY <1>5 DEF SInv, SavesFirstPerId
<1>9. SavesFirstPerId'
  <2>1. 1 .. L = (1 .. L - 1) \cup {L}
    BY <1>4
  <2>2. DOMAIN m_container' = {received[n].MessageId : n \in 1 .. L}
    BY <1>2, <1>3, <1>8, <2>1
  <2>3. ASSUME NEW n \in 1 .. L,
               \A o \in 1 .. n - 1 : received[o].MessageId # received[n].MessageId
        PROVE  m_container'[received[n].MessageId] = received[n]
    <3>1. CASE n \in 1 .. L - 1
      <4>1. m_container[received[n].MessageId] = received[n]
        BY <1>5, <2>3, <3>1 DEF SInv, SavesFirstPerId
      <4>2. received[n].MessageId \in DOMAIN m_container
        BY <1>8, <3>1
      <4> QED
        BY <1>2, <4>1, <4>2
    <3>2. CASE n = L
      <4>1. m.MessageId \notin DOMAIN m_container
        BY <1>8, <2>3, <3>2
      <4> QED
        BY <1>2, <1>3, <3>2, <4>1
    <3> QED
      BY <2>1, <3>1, <3>2
  <2> QED
    BY <1>2, <1>7, <2>2, <2>3 DEF SavesFirstPerId
<1>10. SavesLast'
  BY <1>6 DEF SavesLast
<1> QED
  BY <1>9, <1>10 DEF SInv

LEMMA StepSInv ==
  ASSUME Inv, DataTypeOK, SInv, [Next]_vars
  PROVE  SInv'
<1>1. ASSUME NEW t \in UdpThreads, UdpThread(t) PROVE SInv'
  <2> USE DEF Inv, ControlTypeOK, goto
  <2>1. CASE Return(t) \/ LockMessage(t) \/ LockTcp(t) \/ Size(t) \/ Insert(t)
             \/ Notify(t)
    BY <2>1, QuietStep
    DEF Return, LockMessage, LockTcp, Size, Insert, Notify, localVars, historyVars
  <2>2. CASE Select(t) \/ Command(t) \/ Sleep(t)
    <3>1. UNCHANGED <<received, m_container>> /\ pc[t] # "save"
      BY <2>2 DEF Select, Command, Sleep, historyVars
    <3>2. \/ pc' = [pc EXCEPT ![t] = "lock"] /\ msg' = [msg EXCEPT ![t] = None]
          \/ /\ \E l \in {"command", "recv", "sleep"} : pc' = [pc EXCEPT ![t] = l]
             /\ msg' = msg
      BY <2>2 DEF Select, Command, Sleep, continue, localVars
    <3> QED
      BY <3>1, <3>2, QuietStep
  <2>3. CASE Recv(t)
    <3>1. CASE Udp!recv_bytes /\ pc' = [pc EXCEPT ![t] = "save"]
      <4>0. Head(inbox) \in Udp!Datagram
        BY <3>1, HeadTailProperties DEF Udp!recv_bytes, Udp!TypeOK
      <4>1. Head(inbox).data \in Messages
        BY <4>0 DEF Udp!Datagram
      <4> QED
        BY <2>3, <3>1, <4>1, ReceptionSaves DEF Recv
    <3>2. CASE pc' = [pc EXCEPT ![t] = "sleep"] /\ UNCHANGED <<msg, received>>
      BY <2>3, <3>2, QuietStep DEF Recv
    <3> QED
      BY <2>3, <3>1, <3>2 DEF Recv
  <2>4. CASE Save(t)
    BY <2>4, SaveSettles
  <2> QED
    BY <1>1, <2>1, <2>2, <2>3, <2>4 DEF UdpThread, UdpStep
<1>2. ASSUME NEW t \in UdpThreads, SpawnUdp(t) PROVE SInv'
  BY <1>2, QuietStep DEF Inv, ControlTypeOK, SpawnUdp, goto, localVars, historyVars
<1>3. CASE UNCHANGED <<received, m_container, pc, msg>>
  BY <1>3, QuietStep
<1>4. CASE Construct \/ Connect \/ SpawnTcp \/ TcpLock \/ TcpStep \/ SpuriousWakeup
           \/ TcpServer \/ Arrive \/ UNCHANGED vars
  BY <1>3, <1>4 DEF Construct, Connect, SpawnTcp, TcpLock, TcpStep, Check,
     BeginIndex, BeginValue, Remove, Send, SpuriousWakeup, TcpServer, Arrive,
     vars, controlVars, localVars, historyVars
<1> QED
  BY <1>1, <1>2, <1>4 DEF Next, Main

(* m_container holds exactly the ids received and settled, each with the   *)
(* first message received under it.                                        *)
THEOREM FirstPerIdSaved == Spec => []SavesFirstPerId
<1>1. Inv /\ QP!IInv /\ DataTypeOK /\ [Next]_vars => DataTypeOK'
  BY StepDataTypeOK
<1>2. Inv /\ DataTypeOK /\ SInv /\ [Next]_vars => SInv'
  BY StepSInv
<1>3. SInv => SavesFirstPerId
  BY DEF SInv
<1> QED
  BY <1>1, <1>2, <1>3, InitDataTypeOK, InitSInv, Invariance, QueueInvariance,
     PTL DEF Spec

-----------------------------------------------------------------------------
(* Induction over the positions of a sequence: a set of naturals that has  *)
(* 0, and with each n below L its successor, has all up to L.              *)
LEMMA UpTo ==
  ASSUME NEW L \in Nat, NEW T, 0 \in T, \A n \in 0 .. L - 1 : n \in T => n + 1 \in T
  PROVE  0 .. L \subseteq T
<1> DEFINE S == {n \in 0 .. L : n \notin T}
<1>1. S \subseteq Nat /\ QP!IsFiniteSet(S)
  <2>1. 0 \in Int /\ L \in Int /\ S \subseteq 0 .. L /\ S \subseteq Nat
    OBVIOUS
  <2>2. IsFiniteSet(0 .. L)
    BY <2>1, FS_Interval
  <2> HIDE DEF S
  <2>3. IsFiniteSet(S)
    BY <2>1, <2>2, FS_Subset
  <2> QED
    BY <2>1, <2>3 DEF QP!IsFiniteSet, IsFiniteSet
<1>2. ASSUME S # {} PROVE FALSE
  <2>1. PICK x \in S : \A y \in S : x <= y
    <3> HIDE DEF S
    <3> QED BY <1>1, <1>2, QP!LeastExists
  <2>2. x \in 0 .. L /\ x # 0 /\ x \notin T
    OBVIOUS
  <2>3. x - 1 \in 0 .. L - 1 /\ x - 1 \notin S
    BY <2>1, <2>2
  <2> QED
    BY <2>2, <2>3
<1> QED
  BY <1>2

(* What relay of toRelay makes of its last value at the n-th message.      *)
relayNext(s, n, q) ==
  IF n = 0 THEN <<>>
  ELSE IF sendViaTcpRequired(s[n]) THEN Append(q, s[n]) ELSE q

(* f is what the definition of relay says, up to the L-th message.         *)
IsRelay(s, L, f) ==
  /\ f = [n \in 0 .. L |-> f[n]]
  /\ f[0] = <<>>
  /\ \A n \in 1 .. L : f[n] = relayNext(s, n, f[n - 1])

LEMMA RelayExists ==
  ASSUME NEW s, NEW L \in Nat
  PROVE  \E f : IsRelay(s, L, f)
<1> DEFINE T == {n \in 0 .. L : \E f : IsRelay(s, n, f)}
<1>1. 0 \in T
  <2>1. IsRelay(s, 0, [n \in 0 .. 0 |-> <<>>])
    BY DEF IsRelay
  <2> QED BY <2>1
<1>2. ASSUME NEW n \in 0 .. L - 1, n \in T PROVE n + 1 \in T
  <2>1. PICK f : IsRelay(s, n, f)
    BY <1>2
  <2> DEFINE g == [k \in 0 .. n + 1 |->
                     IF k = n + 1 THEN relayNext(s, n + 1, f[n]) ELSE f[k]]
  <2>2. /\ g[n + 1] = relayNext(s, n + 1, f[n])
        /\ \A k \in 0 .. n : g[k] = f[k]
        /\ g = [k \in 0 .. n + 1 |-> g[k]]
    OBVIOUS
  <2>3. \A k \in 1 .. n : k - 1 \in 0 .. n
    OBVIOUS
  <2> HIDE DEF g
  <2>4. \A k \in 1 .. n + 1 : g[k] = relayNext(s, k, g[k - 1])
    <3>1. ASSUME NEW k \in 1 .. n PROVE g[k] = relayNext(s, k, g[k - 1])
      <4>1. k \in 0 .. n /\ k - 1 \in 0 .. n
        OBVIOUS
      <4>2. g[k] = f[k] /\ g[k - 1] = f[k - 1]
        BY <2>2, <4>1
      <4> QED BY <2>1, <4>2 DEF IsRelay
    <3>2. g[n + 1] = relayNext(s, n + 1, g[n + 1 - 1])
      <4>1. n + 1 - 1 = n /\ n \in 0 .. n
        OBVIOUS
      <4> QED BY <2>2, <4>1
    <3>3. \A k \in 1 .. n + 1 : k \in 1 .. n \/ k = n + 1
      OBVIOUS
    <3> QED BY <3>1, <3>2, <3>3
  <2>5. g[0] = <<>>
    BY <2>1, <2>2 DEF IsRelay
  <2>6. IsRelay(s, n + 1, g)
    BY <2>2, <2>4, <2>5 DEF IsRelay
  <2> QED BY <2>6
<1> HIDE DEF T
<1>3. 0 .. L \subseteq T
  BY <1>1, <1>2, UpTo
<1> QED
  BY <1>3 DEF T

LEMMA RelayDefined ==
  ASSUME NEW s, Len(s) \in Nat
  PROVE  \E f : IsRelay(s, Len(s), f) /\ toRelay(s) = f[Len(s)]
<1> DEFINE L == Len(s)
           f == CHOOSE relay : relay = [n \in 0 .. L |->
                  IF n = 0 THEN <<>>
                  ELSE IF sendViaTcpRequired(s[n]) THEN Append(relay[n - 1], s[n])
                  ELSE relay[n - 1]]
<1>1. PICK g : IsRelay(s, L, g)
  BY RelayExists
<1>2. g = [n \in 0 .. L |->
             IF n = 0 THEN <<>>
             ELSE IF sendViaTcpRequired(s[n]) THEN Append(g[n - 1], s[n])
             ELSE g[n - 1]]
  <2>1. \A n \in 0 .. L : n = 0 \/ n \in 1 .. L
    OBVIOUS
  <2>2. \A n \in 0 .. L :
          g[n] = IF n = 0 THEN <<>>
                 ELSE IF sendViaTcpRequired(s[n]) THEN Append(g[n - 1], s[n])
                 ELSE g[n - 1]
    BY <1>1, <2>1 DEF IsRelay, relayNext
  <2> QED BY <1>1, <2>2 DEF IsRelay
<1>3. f = [n \in 0 .. L |->
             IF n = 0 THEN <<>>
             ELSE IF sendViaTcpRequired(s[n]) THEN Append(f[n - 1], s[n])
             ELSE f[n - 1]]
  BY <1>2, Zenon
<1>4. toRelay(s) = f[L]
  BY Zenon DEF toRelay
<1> HIDE DEF f
<1>5. IsRelay(s, L, f)
  <2>1. f = [n \in 0 .. L |-> f[n]]
    BY <1>3
  <2>2. f[0] = <<>>
    BY <1>3
  <2>3. ASSUME NEW n \in 1 .. L PROVE f[n] = relayNext(s, n, f[n - 1])
    <3>1. n \in 0 .. L /\ n # 0
      OBVIOUS
    <3> QED BY <1>3, <3>1 DEF relayNext
  <2> QED BY <2>1, <2>2, <2>3 DEF IsRelay
<1> QED
  BY <1>4, <1>5

(* Two sequences that agree up to L are relayed alike up to L.             *)
LEMMA RelayPrefix ==
  ASSUME NEW s, NEW t, NEW L \in Nat, NEW M \in Nat, L <= M,
         \A n \in 1 .. L : s[n] = t[n],
         NEW f, IsRelay(s, L, f), NEW g, IsRelay(t, M, g)
  PROVE  f[L] = g[L]
<1> DEFINE T == {n \in 0 .. L : f[n] = g[n]}
<1>1. 0 \in T
  BY DEF IsRelay
<1>2. ASSUME NEW n \in 0 .. L - 1, n \in T PROVE n + 1 \in T
  <2>1. n + 1 \in 1 .. L /\ n + 1 \in 1 .. M /\ n + 1 \in 0 .. L /\ (n + 1) - 1 = n
    OBVIOUS
  <2>2. f[n + 1] = relayNext(s, n + 1, f[n]) /\ g[n + 1] = relayNext(t, n + 1, g[n])
    BY <2>1 DEF IsRelay
  <2>3. s[n + 1] = t[n + 1] /\ f[n] = g[n]
    BY <1>2, <2>1
  <2> QED BY <2>1, <2>2, <2>3 DEF relayNext
<1> HIDE DEF T
<1>3. 0 .. L \subseteq T
  BY <1>1, <1>2, UpTo
<1> QED
  BY <1>3 DEF T

(* What toRelay returns: nothing for nothing, and a message received is    *)
(* appended if it must be resent.                                          *)
LEMMA RelayEmpty == toRelay(<<>>) = <<>>
<1>1. Len(<<>>) = 0
  OBVIOUS
<1> QED
  BY <1>1, RelayDefined DEF IsRelay

LEMMA RelayAppend ==
  ASSUME NEW s \in Seq(Messages), NEW m \in Messages
  PROVE  toRelay(Append(s, m))
           = IF sendViaTcpRequired(m) THEN Append(toRelay(s), m) ELSE toRelay(s)
<1> DEFINE L == Len(s)
           t == Append(s, m)
<1>1. L \in Nat /\ Len(t) = L + 1 /\ t[L + 1] = m /\ \A n \in 1 .. L : s[n] = t[n]
  BY AppendProperties, LenProperties
<1>2. PICK f : IsRelay(s, L, f) /\ toRelay(s) = f[L]
  BY <1>1, RelayDefined
<1> HIDE DEF t, L
<1>3. PICK g : IsRelay(t, L + 1, g) /\ toRelay(t) = g[L + 1]
  BY <1>1, RelayDefined
<1>4. f[L] = g[L]
  BY <1>1, <1>2, <1>3, RelayPrefix
<1>5. g[L + 1] = relayNext(t, L + 1, g[L])
  <2>1. L + 1 \in 1 .. L + 1 /\ (L + 1) - 1 = L
    BY <1>1
  <2> QED BY <1>3, <2>1 DEF IsRelay
<1>6. toRelay(t) = IF sendViaTcpRequired(m) THEN Append(toRelay(s), m) ELSE toRelay(s)
  BY <1>1, <1>2, <1>3, <1>4, <1>5 DEF relayNext
<1> QED
  BY <1>6 DEF t

-----------------------------------------------------------------------------
(* The order of the pushes.  The number of messages to resend is that of   *)
(* the pushes, plus the one in hand.                                       *)
OInv ==
  /\ Relay \in Seq(RelayMessages)
  /\ Pushing = {} => pushes = Len(Relay)
  /\ Pushing # {} => pushes + 1 = Len(Relay)
  /\ \A t \in Pushing : msg[t] = Relay[Len(Relay)]
  /\ \A i \in DOMAIN queue : queue[i] = Relay[ticket[i]]

(* Only the thread that has m_mutex_message pushes. *)
LEMMA OnePushes ==
  ASSUME Inv, NEW t \in UdpThreads, pc[t] \in MessageSection, NEW u \in Pushing
  PROVE  u = t
BY DEF Inv, Sections, MessageSection, UdpTcpSection, Pushing

LEMMA TicketType ==
  ASSUME QP!IInv
  PROVE  /\ pushes \in Nat
         /\ DOMAIN ticket = DOMAIN queue
         /\ \A i \in DOMAIN queue : ticket[i] \in 1 .. pushes
         /\ popped \in Seq(1 .. pushes)
BY DEF QP!IInv, QP!TypeOK

LEMMA InitOInv == Init => OInv
<1> SUFFICES ASSUME Init PROVE OInv
  OBVIOUS
<1>1. Relay = <<>>
  BY RelayEmpty DEF Init, Relay
<1>2. Pushing = {} /\ pushes = 0 /\ DOMAIN queue = {}
  BY DEF Init, Q!Init, Pushing
<1> QED
  BY <1>1, <1>2, EmptySeq DEF OInv

(* A step that neither receives nor pushes. *)
LEMMA QuietOrder ==
  ASSUME OInv, UNCHANGED <<received, queue, pushes, ticket>>, Pushing' = Pushing,
         \A t \in Pushing : msg'[t] = msg[t]
  PROVE  OInv'
<1>1. Relay' = Relay
  BY DEF Relay
<1> QED
  BY <1>1 DEF OInv

(* A message received is in the hands of its thread if it must be resent.  *)
LEMMA ReceptionOrder ==
  ASSUME Inv, QP!IInv, DataTypeOK, OInv, NEW t \in UdpThreads, pc[t] = "recv",
         NEW d \in Messages, received' = Append(received, d),
         msg' = [msg EXCEPT ![t] = d], pc' = [pc EXCEPT ![t] = "save"],
         UNCHANGED <<queue, pushes, ticket>>
  PROVE  OInv' /\ \A n \in 1 .. pushes : Relay'[n] = Relay[n]
<1>1. Pushing = {}
  BY OnePushes DEF Pushing, MessageSection
<1>2. pushes = Len(Relay) /\ Relay \in Seq(RelayMessages)
  BY <1>1 DEF OInv
<1>3. Relay' = IF sendViaTcpRequired(d) THEN Append(Relay, d) ELSE Relay
  BY RelayAppend DEF Relay, DataTypeOK
<1>4. pc'[t] = "save" /\ msg'[t] = d
      /\ \A u \in UdpThreads \ {t} : pc'[u] = pc[u] /\ msg'[u] = msg[u]
  BY DEF Inv, ControlTypeOK
<1>5. Pushing' = IF sendViaTcpRequired(d) THEN {t} ELSE {}
  BY <1>1, <1>4 DEF Pushing
<1>6. CASE sendViaTcpRequired(d)
  <2>1. d \in RelayMessages
    BY <1>6 DEF RelayMessages
  <2>2. /\ Relay' \in Seq(RelayMessages) /\ Len(Relay') = pushes + 1
        /\ Relay'[pushes + 1] = d /\ \A n \in 1 .. pushes : Relay'[n] = Relay[n]
    BY <1>2, <1>3, <1>6, <2>1, AppendProperties
  <2>3. \A i \in DOMAIN queue : queue[i] = Relay'[ticket[i]]
    BY <2>2, TicketType DEF OInv
  <2> QED
    BY <1>4, <1>5, <1>6, <2>2, <2>3 DEF OInv
<1>7. CASE ~sendViaTcpRequired(d)
  BY <1>1, <1>3, <1>5, <1>7 DEF OInv
<1> QED
  BY <1>6, <1>7

(* The push of the message in hand has its number. *)
LEMMA InsertionOrder ==
  ASSUME Inv, QP!IInv, OInv, NEW t \in UdpThreads, Insert(t)
  PROVE  OInv'
<1>1. /\ pc[t] = "insert" /\ pc' = [pc EXCEPT ![t] = "notify"]
      /\ msg' = msg /\ received' = received
      /\ Q!insert(queueSize[t], msg[t])
  BY DEF Insert, goto, localVars, historyVars
<1>2. t \in Pushing
  BY <1>1 DEF Pushing, Inv, RelayOnly, RelayMessages
<1>3. Pushing = {t}
  BY <1>1, <1>2, OnePushes DEF MessageSection, UdpTcpSection
<1>4. pushes + 1 = Len(Relay) /\ msg[t] = Relay[pushes + 1]
  BY <1>3 DEF OInv
<1>5. Relay' = Relay
  BY <1>1 DEF Relay
<1>6. Pushing' = {}
  <2>1. pc'[t] = "notify" /\ \A u \in UdpThreads \ {t} : pc'[u] = pc[u]
    BY <1>1 DEF Inv, ControlTypeOK
  <2> QED
    BY <1>1, <1>3, <2>1 DEF Pushing
<1>7. pushes' = pushes + 1
  BY <1>1 DEF Q!insert
<1>8. \A i \in DOMAIN queue' : queue'[i] = Relay[ticket'[i]]
  <2> DEFINE s == queueSize[t]
             m == msg[t]
  <2>1. CASE UNCHANGED <<queue, ticket>>
    BY <2>1 DEF OInv
  <2>2. CASE /\ queue' = [j \in DOMAIN queue \cup {s} |-> IF j = s THEN m ELSE queue[j]]
             /\ ticket' = [j \in DOMAIN queue \cup {s} |->
                              IF j = s THEN pushes + 1 ELSE ticket[j]]
    BY <1>4, <2>2 DEF OInv
  <2> QED
    BY <1>1, <2>1, <2>2 DEF Q!insert
<1> QED
  BY <1>4, <1>5, <1>6, <1>7, <1>8 DEF OInv

LEMMA StepOInv ==
  ASSUME Inv, QP!IInv, DataTypeOK, OInv, [Next]_vars
  PROVE  OInv' /\ \A n \in 1 .. pushes : Relay'[n] = Relay[n]
<1> DEFINE Kept == \A n \in 1 .. pushes : Relay'[n] = Relay[n]
<1>1. ASSUME received' = received PROVE Kept
  BY <1>1 DEF Relay
<1> HIDE DEF Kept
<1>2. ASSUME NEW t \in UdpThreads, UdpThread(t) PROVE OInv' /\ Kept
  <2> USE DEF Inv, ControlTypeOK, goto
  <2>1. CASE Return(t) \/ LockMessage(t) \/ LockTcp(t) \/ Size(t) \/ Notify(t)
    <3>1. UNCHANGED <<received, queue, pushes, ticket, msg>>
      BY <2>1 DEF Return, LockMessage, LockTcp, Size, Notify
    <3>2. /\ \A u \in UdpThreads \ {t} : pc'[u] = pc[u]
          /\ pc'[t] \in {"save", "lockTcp", "size", "insert"}
               <=> pc[t] \in {"save", "lockTcp", "size", "insert"}
      BY <2>1 DEF Return, LockMessage, LockTcp, Size, Notify
    <3>3. Pushing' = Pushing
      BY <3>1, <3>2 DEF Pushing
    <3> QED
      BY <1>1, <3>1, <3>3, QuietOrder
  <2>2. CASE Select(t) \/ Command(t) \/ Sleep(t)
    <3>1. UNCHANGED <<received, queue, pushes, ticket>>
          /\ pc[t] \in {"select", "command", "sleep"}
      BY <2>2 DEF Select, Command, Sleep
    <3>2. \/ pc' = [pc EXCEPT ![t] = "lock"] /\ msg' = [msg EXCEPT ![t] = None]
          \/ /\ \E l \in {"command", "recv", "sleep"} : pc' = [pc EXCEPT ![t] = l]
             /\ msg' = msg
      BY <2>2 DEF Select, Command, Sleep, continue
    <3>3. /\ \A u \in UdpThreads \ {t} : pc'[u] = pc[u] /\ msg'[u] = msg[u]
          /\ pc'[t] \in {"lock", "command", "recv", "sleep"}
      BY <3>2
    <3>4. Pushing' = Pushing /\ t \notin Pushing
      BY <3>1, <3>3 DEF Pushing
    <3>5. \A u \in Pushing : msg'[u] = msg[u]
      BY <3>3, <3>4 DEF Pushing
    <3> QED
      BY <1>1, <3>1, <3>4, <3>5, QuietOrder
  <2>3. CASE Recv(t)
    <3>1. CASE Udp!recv_bytes /\ pc' = [pc EXCEPT ![t] = "save"]
      <4>1. Head(inbox) \in Udp!Datagram
        BY <3>1, HeadTailProperties DEF Udp!recv_bytes, Udp!TypeOK
      <4>2. Head(inbox).data \in Messages
        BY <4>1 DEF Udp!Datagram
      <4> QED
        BY <2>3, <3>1, <4>2, ReceptionOrder DEF Recv, Kept
    <3>2. CASE pc' = [pc EXCEPT ![t] = "sleep"] /\ UNCHANGED <<msg, received>>
      <4>1. pc[t] = "recv" /\ pc'[t] = "sleep"
            /\ \A u \in UdpThreads \ {t} : pc'[u] = pc[u]
        BY <2>3, <3>2 DEF Recv
      <4>2. Pushing' = Pushing /\ UNCHANGED <<queue, pushes, ticket>>
        BY <2>3, <3>2, <4>1 DEF Pushing, Recv
      <4> QED
        BY <1>1, <3>2, <4>2, QuietOrder
    <3> QED
      BY <2>3, <3>1, <3>2 DEF Recv
  <2>4. CASE Save(t)
    <3>1. /\ UNCHANGED <<received, queue, pushes, ticket, msg>> /\ pc[t] = "save"
          /\ pc'[t] = IF sendViaTcpRequired(msg[t]) THEN "lockTcp" ELSE "sleep"
          /\ \A u \in UdpThreads \ {t} : pc'[u] = pc[u]
      BY <2>4 DEF Save
    <3>2. Pushing' = Pushing
      BY <3>1 DEF Pushing
    <3> QED
      BY <1>1, <3>1, <3>2, QuietOrder
  <2>5. CASE Insert(t)
    BY <1>1, <2>5, InsertionOrder DEF Insert
  <2> QED
    BY <1>2, <2>1, <2>2, <2>3, <2>4, <2>5 DEF UdpThread, UdpStep
<1>3. ASSUME NEW t \in UdpThreads, SpawnUdp(t) PROVE OInv' /\ Kept
  <2>1. /\ UNCHANGED <<received, queue, pushes, ticket, msg>>
        /\ pc[t] = "unborn" /\ pc'[t] = "lock"
        /\ \A u \in UdpThreads \ {t} : pc'[u] = pc[u]
    BY <1>3 DEF SpawnUdp, goto, Inv, ControlTypeOK
  <2>2. Pushing' = Pushing
    BY <2>1 DEF Pushing
  <2> QED
    BY <1>1, <2>1, <2>2, QuietOrder
<1>4. CASE UNCHANGED <<received, queue, pushes, ticket, msg, pc>>
  <2>1. Pushing' = Pushing /\ \A t \in Pushing : msg'[t] = msg[t]
    BY <1>4 DEF Pushing
  <2>2. UNCHANGED <<received, queue, pushes, ticket>>
    BY <1>4
  <2>3. OInv'
    BY <2>1, <2>2, QuietOrder
  <2>4. Kept
    BY <1>1, <2>2
  <2> QED
    BY <2>3, <2>4 DEF Kept
<1>5. CASE Remove
  <2>1. /\ UNCHANGED <<received, pushes, msg, pc>>
        /\ queue' = [j \in DOMAIN queue \ {index} |-> queue[j]]
        /\ ticket' = [j \in DOMAIN queue \ {index} |-> ticket[j]]
    BY <1>5 DEF Remove, Q!remove
  <2>2. Pushing' = Pushing /\ Relay' = Relay
    BY <2>1 DEF Pushing, Relay
  <2> QED
    BY <1>1, <2>1, <2>2 DEF OInv
<1>6. CASE Construct \/ Connect \/ SpawnTcp \/ TcpLock \/ Check \/ BeginIndex
           \/ BeginValue \/ Send \/ SpuriousWakeup \/ TcpServer \/ Arrive
           \/ UNCHANGED vars
  BY <1>4, <1>6 DEF Construct, Connect, SpawnTcp, TcpLock, Check,
     BeginIndex, BeginValue, Send, SpuriousWakeup, TcpServer, Arrive, vars
<1> QED
  BY <1>2, <1>3, <1>5, <1>6 DEF Next, Main, TcpStep, Kept

(* Messages are pushed in the order they are received, none twice and none *)
(* left out, whichever threads receive them: the n-th push is the n-th     *)
(* message received that must be resent.                                   *)
THEOREM OrderOfPushes == Spec => []PushedInOrder
<1>1. ASSUME Inv, QP!IInv, OInv PROVE PushedInOrder
  <2>1. pushes + Cardinality(Pushing) = Len(Relay)
    <3>1. CASE Pushing = {}
      BY <1>1, <3>1, FS_EmptySet, TicketType DEF OInv
    <3>2. CASE Pushing # {}
      <4>1. PICK t \in Pushing : TRUE
        BY <3>2
      <4>2. Pushing = {t}
        BY <1>1, <4>1, OnePushes DEF Pushing, MessageSection, UdpTcpSection
      <4>3. Cardinality(Pushing) = 1
        BY <4>2, FS_Singleton
      <4> QED
        BY <1>1, <3>2, <4>3 DEF OInv
    <3> QED
      BY <3>1, <3>2
  <2> QED
    BY <1>1, <2>1 DEF PushedInOrder, OInv
<1>2. Inv /\ QP!IInv /\ DataTypeOK /\ [Next]_vars => DataTypeOK'
  BY StepDataTypeOK
<1>3. Inv /\ QP!IInv /\ DataTypeOK /\ OInv /\ [Next]_vars => OInv'
  BY StepOInv
<1>4. Inv /\ QP!IInv /\ OInv => PushedInOrder
  BY <1>1
<1> QED
  BY <1>2, <1>3, <1>4, InitDataTypeOK, InitOInv, Invariance, QueueInvariance,
     PTL DEF Spec

-----------------------------------------------------------------------------
(* What is sent.  Before the TCP thread runs nothing has been popped, and  *)
(* before main connects there is no connection.                            *)
Sent == [n \in DOMAIN popped |-> Relay[popped[n]]]

TInv ==
  /\ mainPc # "running" => popped = <<>>
  /\ mainPc \in {"construct", "connect"} => ~m_connected
  /\ SentAsPopped

LEMMA InitTInv == Init => TInv
BY ClientAssumption DEF Init, Link!Init, Q!Init, TInv, SentAsPopped

(* A reception leaves what has been sent as it is. *)
LEMMA SentKept ==
  ASSUME QP!IInv, \A n \in 1 .. pushes : Relay'[n] = Relay[n], popped' = popped
  PROVE  Sent' = Sent
<1>1. \A n \in DOMAIN popped : popped[n] \in 1 .. pushes
  BY TicketType
<1> QED
  BY <1>1 DEF Sent

(* A step that pops and sends nothing.                                     *)
LEMMA QuietSending ==
  ASSUME QP!IInv, TInv, \A n \in 1 .. pushes : Relay'[n] = Relay[n],
         UNCHANGED <<popped, served, stream, m_connected>>, InHand' = InHand
  PROVE  SentAsPopped'
<1>1. Sent' = Sent
  BY SentKept
<1>2. SentAsPopped = IF m_connected THEN served \o stream \o InHand = Sent
                     ELSE served = <<>> /\ stream = <<>>
  BY DEF SentAsPopped, Sent
<1>3. SentAsPopped' = IF m_connected' THEN (served \o stream \o InHand)' = Sent'
                      ELSE served' = <<>> /\ stream' = <<>>
  BY DEF SentAsPopped, Sent
<1> QED
  BY <1>1, <1>2, <1>3 DEF TInv

(* A message popped is in hand until it is sent. *)
LEMMA PopSends ==
  ASSUME Inv, QP!IInv, DataTypeOK, OInv, TInv, Remove
  PROVE  SentAsPopped'
<1>1. /\ tcpPc = "remove" /\ tcpPc' = "send"
      /\ UNCHANGED <<received, value, served, stream, m_connected>>
      /\ popped' = Append(popped, ticket[index])
  BY DEF Remove, Q!remove
<1>2. index \in DOMAIN queue /\ value = queue[index]
  <2>1. QP!Min(DOMAIN queue) \in DOMAIN queue
    BY <1>1, QP!MinProperties DEF Inv, ConsumerSafe, QP!IInv, QP!TypeOK
  <2>2. Q!beginIndex = QP!Min(DOMAIN queue)
    BY DEF Q!beginIndex, Q!Min, QP!Min
  <2> QED
    BY <1>1, <2>1, <2>2 DEF Inv, ConsumerSafe
<1>3. value = Relay[ticket[index]] /\ ticket[index] \in 1 .. pushes
  BY <1>2, TicketType DEF OInv
<1>4. Relay' = Relay
  BY <1>1 DEF Relay
<1> DEFINE N == Len(popped)
<1>5. /\ popped \in Seq(1 .. pushes) /\ N \in Nat
      /\ DOMAIN popped = 1 .. N /\ DOMAIN popped' = 1 .. N + 1
      /\ popped'[N + 1] = ticket[index] /\ \A n \in 1 .. N : popped'[n] = popped[n]
  BY <1>1, <1>3, TicketType, LenProperties, AppendProperties
<1> HIDE DEF N
<1>6. CASE m_connected
  <2>1. served \o stream = Sent
    BY <1>1, <1>6 DEF TInv, SentAsPopped, InHand, Sent, DataTypeOK, Link!TypeOK
  <2>2. served \o stream \in Seq(RelayMessages)
    BY DEF DataTypeOK, Link!TypeOK
  <2>3. Len(Sent) = N /\ \A n \in 1 .. N : Sent[n] = Relay[popped[n]]
    BY <1>5, <2>1, <2>2 DEF Sent
  <2>4. Sent' = Append(Sent, value)
    <3> DEFINE A == Append(Sent, value)
    <3>1. value \in RelayMessages /\ Sent \in Seq(RelayMessages)
      BY <1>2, <2>1, <2>2 DEF QP!IInv, QP!TypeOK
    <3>2. /\ A \in Seq(RelayMessages) /\ Len(A) = N + 1
          /\ A[N + 1] = value /\ \A n \in 1 .. N : A[n] = Sent[n]
      BY <3>1, <2>3, AppendProperties
    <3> HIDE DEF A
    <3>3. \A n \in 1 .. N + 1 : n = N + 1 \/ n \in 1 .. N
      BY <1>5
    <3>4. \A n \in 1 .. N + 1 : Relay[popped'[n]] = A[n]
      BY <1>3, <1>5, <2>3, <3>2, <3>3
    <3>5. A = [n \in 1 .. N + 1 |-> A[n]]
      BY <3>2, LenProperties
    <3>6. Sent' = A
      BY <1>4, <1>5, <3>4, <3>5 DEF Sent
    <3> QED
      BY <3>6 DEF A
  <2>5. InHand' = <<value>>
    BY <1>1 DEF InHand
  <2>6. served \o stream \o <<value>> = Append(served \o stream, value)
    BY <2>2
  <2> QED
    BY <1>1, <1>6, <2>1, <2>4, <2>5, <2>6 DEF SentAsPopped, Sent
<1>7. CASE ~m_connected
  BY <1>1, <1>7 DEF TInv, SentAsPopped
<1> QED
  BY <1>6, <1>7

(* The message in hand goes into the stream, if there is a connection.     *)
LEMMA SendSends ==
  ASSUME DataTypeOK, TInv, Send
  PROVE  SentAsPopped'
<1>1. /\ tcpPc = "send" /\ tcpPc' = "lock" /\ UNCHANGED <<received, popped>>
      /\ \/ m_connected /\ Link!sendBytes(value)
         \/ ~m_connected /\ UNCHANGED linkVars
  BY DEF Send
<1>2. InHand = <<value>> /\ InHand' = <<>>
  BY <1>1 DEF InHand
<1>3. Sent' = Sent
  BY <1>1 DEF Sent, Relay
<1>4. CASE m_connected
  <2>1. /\ UNCHANGED <<m_connected, served>> /\ stream' = Append(stream, value)
    BY <1>1, <1>4 DEF Link!sendBytes
  <2>2. /\ served \in Seq(RelayMessages) /\ stream \in Seq(RelayMessages)
        /\ value \in RelayMessages
    BY <1>1 DEF DataTypeOK, Link!TypeOK
  <2>3. served \o stream \o <<value>> = Sent
    BY <1>2, <1>4 DEF TInv, SentAsPopped, Sent
  <2>4. served \o Append(stream, value) \o <<>> = served \o stream \o <<value>>
    BY <2>2
  <2> QED
    BY <1>2, <1>3, <1>4, <2>1, <2>3, <2>4 DEF SentAsPopped, Sent
<1>5. CASE ~m_connected
  BY <1>1, <1>5 DEF TInv, SentAsPopped
<1> QED
  BY <1>4, <1>5

(* The listening thread reports what is at the head of the stream.         *)
LEMMA ServerReports ==
  ASSUME DataTypeOK, TInv, TcpServer
  PROVE  /\ SentAsPopped'
         /\ m_connected' = m_connected
<1>1. UNCHANGED <<received, popped, tcpPc, value, m_connected>>
  BY DEF TcpServer, Link!ListeningThread, Link!serverFails, Link!serverSocket,
         Link!serverBind, Link!serverListen, Link!serverAccept, Link!serverRecv
<1>2. Sent' = Sent /\ InHand' = InHand
  BY <1>1 DEF Sent, Relay, InHand
<1>3. CASE Link!serverRecv
  <2>1. /\ stream # <<>> /\ served' = Append(served, Head(stream))
        /\ stream' = Tail(stream)
    BY <1>3 DEF Link!serverRecv
  <2>2. served \in Seq(RelayMessages) /\ stream \in Seq(RelayMessages)
    BY DEF DataTypeOK, Link!TypeOK
  <2>3. served' \o stream' = served \o stream
    BY <2>1, <2>2
  <2>4. m_connected
    BY <2>1 DEF TInv, SentAsPopped
  <2>5. served \o stream \o InHand = Sent
    BY <2>4 DEF TInv, SentAsPopped, Sent
  <2> QED
    BY <1>1, <1>2, <2>3, <2>4, <2>5 DEF SentAsPopped, Sent
<1>4. CASE UNCHANGED <<stream, served>>
  <2>1. (served \o stream \o InHand)' = served \o stream \o InHand
    BY <1>2, <1>4
  <2>2. SentAsPopped = IF m_connected THEN served \o stream \o InHand = Sent
                       ELSE served = <<>> /\ stream = <<>>
    BY DEF SentAsPopped, Sent
  <2>3. SentAsPopped' = IF m_connected' THEN (served \o stream \o InHand)' = Sent'
                        ELSE served' = <<>> /\ stream' = <<>>
    BY DEF SentAsPopped, Sent
  <2> QED
    BY <1>1, <1>2, <1>4, <2>1, <2>2, <2>3 DEF TInv
<1> QED
  BY <1>1, <1>3, <1>4 DEF TcpServer, Link!ListeningThread, Link!serverFails,
     Link!serverSocket, Link!serverBind, Link!serverListen, Link!serverAccept

LEMMA ConnectSends ==
  ASSUME Inv, TInv, Connect
  PROVE  TInv'
<1>1. /\ mainPc = "connect" /\ mainPc' = "spawn" /\ tcpPc = "unborn"
      /\ UNCHANGED <<popped, tcpPc, stream, served>>
  BY DEF Connect, Link!connect, Inv, ControlTypeOK
<1>2. popped = <<>> /\ stream = <<>> /\ served = <<>>
  BY <1>1 DEF TInv, SentAsPopped
<1>3. InHand' = <<>> /\ [n \in DOMAIN popped |-> Relay[popped[n]]]' = <<>>
  BY <1>1, <1>2 DEF InHand
<1> QED
  BY <1>1, <1>2, <1>3 DEF TInv, SentAsPopped

LEMMA StepTInv ==
  ASSUME Inv, QP!IInv, DataTypeOK, OInv, TInv, [Next]_vars
  PROVE  TInv'
<1>1. \A n \in 1 .. pushes : Relay'[n] = Relay[n]
  BY StepOInv
<1>2. ASSUME UNCHANGED <<popped, served, stream, m_connected>>, InHand' = InHand,
             \/ mainPc' = mainPc
             \/ mainPc' = "connect" /\ mainPc = "construct"
             \/ mainPc' = "running"
      PROVE  TInv'
  <2>1. SentAsPopped'
    BY <1>1, <1>2, QuietSending
  <2> QED
    BY <1>2, <2>1 DEF TInv
<1>3. ASSUME NEW t \in UdpThreads, UdpThread(t) PROVE TInv'
  <2>1. UNCHANGED <<mainPc, popped, served, stream, m_connected, value>>
    BY <1>3 DEF UdpThread, UdpStep, Return, LockMessage, LockTcp, Select,
       Command, Recv, Save, Size, Insert, Notify, Sleep, continue, Q!insert
  <2>2. tcpPc' = tcpPc \/ (tcpPc = "waiting" /\ tcpPc' = "lock")
    BY <1>3 DEF UdpThread, UdpStep, Return, LockMessage, LockTcp, Select,
       Command, Recv, Save, Size, Insert, Notify, Sleep, continue
  <2>3. InHand' = InHand
    BY <2>1, <2>2 DEF InHand
  <2> QED
    BY <1>2, <2>1, <2>3
<1>4. CASE Construct \/ SpawnTcp \/ \E t \in UdpThreads : SpawnUdp(t)
  <2>1. UNCHANGED <<popped, served, stream, m_connected, value>>
    BY <1>4 DEF Construct, SpawnTcp, SpawnUdp, Link!startServer
  <2>2. InHand' = InHand
    BY <1>4, <2>1 DEF Construct, SpawnTcp, SpawnUdp, InHand, Inv, ControlTypeOK
  <2> QED
    BY <1>2, <1>4, <2>1, <2>2 DEF Construct, SpawnTcp, SpawnUdp
<1>5. CASE TcpLock \/ Check \/ SpuriousWakeup \/ BeginIndex \/ BeginValue
  <2>1. UNCHANGED <<mainPc, popped, served, stream, m_connected>>
    BY <1>5 DEF TcpLock, Check, SpuriousWakeup, BeginIndex, BeginValue
  <2>2. InHand' = InHand
    BY <1>5 DEF TcpLock, Check, SpuriousWakeup, BeginIndex, BeginValue, InHand
  <2> QED
    BY <1>2, <2>1, <2>2
<1>6. CASE Arrive \/ UNCHANGED vars
  <2>1. UNCHANGED <<mainPc, popped, served, stream, m_connected, value, tcpPc>>
    BY <1>6 DEF Arrive, vars
  <2>2. InHand' = InHand
    BY <2>1 DEF InHand
  <2> QED
    BY <1>2, <2>1, <2>2
<1>7. CASE Remove
  <2>1. mainPc = "running" /\ UNCHANGED <<mainPc, m_connected>>
    BY <1>7 DEF Remove, Inv, ControlTypeOK
  <2> QED
    BY <1>7, <2>1, PopSends DEF TInv
<1>8. CASE Send
  <2>1. UNCHANGED <<mainPc, popped, m_connected>>
    BY <1>8 DEF Send, Link!sendBytes
  <2> QED
    BY <1>8, <2>1, SendSends DEF TInv
<1>9. CASE TcpServer
  <2>1. UNCHANGED <<mainPc, popped>>
    BY <1>9 DEF TcpServer
  <2> QED
    BY <1>9, <2>1, ServerReports DEF TInv
<1> QED
  BY <1>3, <1>4, <1>5, <1>6, <1>7, <1>8, <1>9, ConnectSends DEF Next, Main, TcpStep

(* Over an established connection every message popped is sent and         *)
(* reported exactly once, in the order of the pops, also when the stream   *)
(* fills; without a connection nothing is ever sent.                       *)
THEOREM OrderOfSends == Spec => []SentAsPopped
<1>1. Inv /\ QP!IInv /\ DataTypeOK /\ [Next]_vars => DataTypeOK'
  BY StepDataTypeOK
<1>2. Inv /\ QP!IInv /\ DataTypeOK /\ OInv /\ [Next]_vars => OInv'
  BY StepOInv
<1>3. Inv /\ QP!IInv /\ DataTypeOK /\ OInv /\ TInv /\ [Next]_vars => TInv'
  BY StepTInv
<1>4. TInv => SentAsPopped
  BY DEF TInv
<1> QED
  BY <1>1, <1>2, <1>3, <1>4, InitDataTypeOK, InitOInv, InitTInv, Invariance,
     QueueInvariance, PTL DEF Spec

-----------------------------------------------------------------------------
(* The state of the one loop of Receiver.tla that the threads amount to,   *)
(* as Client.tla gives it.                                                 *)
contents(q) == [n \in DOMAIN q |-> q[n].data]

loopHand == IF Handling = {} THEN None ELSE msg[Handler]

loopTodo == IF Handling = {} THEN "receive"
            ELSE IF pc[Handler] = "save" THEN "save" ELSE "push"

loopHanded == SubSeq(Relay, 1, pushes)

loopAddress == IF announced THEN TRUE ELSE None

LEMMA ContentsType ==
  ASSUME NEW q \in Seq(Udp!Datagram)
  PROVE  contents(q) \in Seq(Messages) /\ Len(contents(q)) = Len(q)
<1>1. Len(q) \in Nat /\ DOMAIN q = 1 .. Len(q) /\ \A n \in 1 .. Len(q) : q[n] \in Udp!Datagram
  BY LenProperties, ElementOfSeq
<1>2. \A n \in 1 .. Len(q) : q[n].data \in Messages
  BY <1>1 DEF Udp!Datagram
<1>3. contents(q) \in [1 .. Len(q) -> Messages]
  BY <1>1, <1>2 DEF contents
<1> QED
  BY <1>1, <1>3

LEMMA ContentsArrive ==
  ASSUME NEW q \in Seq(Udp!Datagram), NEW d \in Udp!Datagram
  PROVE  contents(Append(q, d)) = Append(contents(q), d.data)
<1> DEFINE N == Len(q)
           a == contents(Append(q, d))
           b == Append(contents(q), d.data)
<1>1. /\ N \in Nat /\ Append(q, d) \in Seq(Udp!Datagram) /\ Len(Append(q, d)) = N + 1
      /\ \A n \in 1 .. N : Append(q, d)[n] = q[n]
      /\ Append(q, d)[N + 1] = d
  BY AppendProperties, LenProperties
<1>2. contents(q) \in Seq(Messages) /\ Len(contents(q)) = N /\ d.data \in Messages
  BY ContentsType DEF Udp!Datagram
<1>3. a \in Seq(Messages) /\ Len(a) = N + 1
  BY <1>1, ContentsType
<1>4. /\ b \in Seq(Messages) /\ Len(b) = N + 1
      /\ \A n \in 1 .. N : b[n] = contents(q)[n]
      /\ b[N + 1] = d.data
  BY <1>2, AppendProperties
<1>5. DOMAIN q = 1 .. N /\ DOMAIN Append(q, d) = 1 .. N + 1
  BY <1>1, LenProperties
<1>6. \A n \in 1 .. N + 1 : a[n] = Append(q, d)[n].data
  BY <1>5 DEF contents
<1>7. \A n \in 1 .. N : contents(q)[n] = q[n].data
  BY <1>5 DEF contents
<1>8. \A n \in 1 .. N + 1 : n \in 1 .. N \/ n = N + 1
  BY <1>1
<1> HIDE DEF a, b, N
<1>9. \A n \in 1 .. N + 1 : a[n] = b[n]
  BY <1>1, <1>4, <1>6, <1>7, <1>8
<1>10. a = b
  BY <1>3, <1>4, <1>9, SeqEqual
<1> QED
  BY <1>10 DEF a, b

LEMMA ContentsReceive ==
  ASSUME NEW q \in Seq(Udp!Datagram), q # <<>>
  PROVE  /\ contents(q) # <<>> /\ Head(contents(q)) = Head(q).data
         /\ contents(Tail(q)) = Tail(contents(q))
<1> DEFINE N == Len(q)
           a == contents(Tail(q))
           b == Tail(contents(q))
<1>1. N \in Nat \ {0} /\ Tail(q) \in Seq(Udp!Datagram) /\ Len(Tail(q)) = N - 1
      /\ DOMAIN q = 1 .. N
  BY LenProperties, EmptySeq, HeadTailProperties
<1>2. contents(q) \in Seq(Messages) /\ Len(contents(q)) = N /\ contents(q) # <<>>
  BY <1>1, ContentsType
<1>3. Head(contents(q)) = Head(q).data
  BY <1>1, <1>2 DEF contents
<1>4. a \in Seq(Messages) /\ Len(a) = N - 1
  BY <1>1, ContentsType
<1>5. b \in Seq(Messages) /\ Len(b) = N - 1
  BY <1>2, HeadTailProperties
<1>6. ASSUME NEW n \in 1 .. N - 1 PROVE a[n] = b[n]
  <2>1. n + 1 \in 1 .. N /\ n \in DOMAIN Tail(q)
    BY <1>1, LenProperties
  <2>2. a[n] = Tail(q)[n].data /\ Tail(q)[n] = q[n + 1]
    BY <1>1, <2>1 DEF contents
  <2>3. b[n] = contents(q)[n + 1] /\ contents(q)[n + 1] = q[n + 1].data
    BY <1>1, <1>2, <2>1 DEF contents
  <2> QED
    BY <2>2, <2>3
<1> HIDE DEF a, b, N
<1>7. a = b
  BY <1>4, <1>5, <1>6, SeqEqual
<1> QED
  BY <1>2, <1>3, <1>7 DEF a, b

(* The thread that handles a message is the only one, and is the Handler.  *)
LEMMA OneHandler ==
  ASSUME Inv, NEW t \in Handling
  PROVE  Handling = {t} /\ Handler = t
<1>1. Handling = {t}
  BY DEF Inv, Sections, MessageSection, UdpTcpSection, Handling
<1> QED
  BY <1>1 DEF Handler

(* Nobody handles a message while a thread is at another place under       *)
(* m_mutex_message.                                                        *)
LEMMA NoHandler ==
  ASSUME Inv, NEW t \in UdpThreads, pc[t] \in MessageSection,
         pc[t] \notin {"save", "lockTcp", "size", "insert"}
  PROVE  Handling = {}
BY DEF Inv, Sections, MessageSection, UdpTcpSection, Handling

(* What has been handed over changes by pushes only. *)
LEMMA HandedKept ==
  ASSUME QP!IInv, OInv, \A n \in 1 .. pushes : Relay'[n] = Relay[n],
         pushes' = pushes
  PROVE  loopHanded' = loopHanded
<1> DEFINE r == Relay
           q == Relay'
           a == SubSeq(r, 1, pushes)
           b == SubSeq(q, 1, pushes)
<1>1. pushes \in Nat /\ r \in Seq(RelayMessages) /\ pushes <= Len(r)
      /\ \A n \in 1 .. pushes : q[n] = r[n]
  BY TicketType, LenProperties DEF OInv
<1> HIDE DEF r, q
<1>2. \A n \in 1 .. pushes : r[n] \in RelayMessages /\ q[n] \in RelayMessages
  BY <1>1
<1>3. /\ a \in Seq(RelayMessages) /\ Len(a) = pushes
      /\ \A n \in 1 .. pushes : a[n] = r[n]
      /\ b \in Seq(RelayMessages) /\ Len(b) = pushes
      /\ \A n \in 1 .. pushes : b[n] = q[n]
  BY <1>1, <1>2, SubSeqProperties
<1> HIDE DEF a, b
<1>4. a = b
  BY <1>1, <1>3, SeqEqual
<1> QED
  BY <1>4 DEF a, b, r, q, loopHanded

LEMMA HandedPush ==
  ASSUME QP!IInv, OInv, NEW t \in Pushing, received' = received,
         pushes' = pushes + 1
  PROVE  loopHanded' = Append(loopHanded, msg[t])
<1> DEFINE r == Relay
           N == pushes
           a == SubSeq(r, 1, N)
           b == SubSeq(r, 1, N + 1)
           c == Append(a, msg[t])
<1>1. N \in Nat /\ r \in Seq(RelayMessages) /\ N + 1 = Len(r) /\ msg[t] = r[N + 1]
  BY TicketType DEF OInv
<1>2. \A n \in 1 .. N + 1 : r[n] \in RelayMessages
  BY <1>1
<1>3. /\ a \in Seq(RelayMessages) /\ Len(a) = N
      /\ \A n \in 1 .. N : a[n] = r[n]
  BY <1>1, <1>2, SubSeqProperties
<1>4. /\ b \in Seq(RelayMessages) /\ Len(b) = N + 1
      /\ \A n \in 1 .. N + 1 : b[n] = r[n]
  BY <1>1, <1>2, SubSeqProperties
<1>5. /\ c \in Seq(RelayMessages) /\ Len(c) = N + 1
      /\ \A n \in 1 .. N : c[n] = a[n]
      /\ c[N + 1] = r[N + 1]
  BY <1>1, <1>2, <1>3, AppendProperties
<1>6. Relay' = Relay
  BY DEF Relay
<1> HIDE DEF r, a, b, c
<1>7. \A n \in 1 .. N + 1 : b[n] = c[n]
  BY <1>1, <1>3, <1>4, <1>5
<1>8. b = c
  BY <1>4, <1>5, <1>7, SeqEqual
<1> QED
  BY <1>6, <1>8 DEF a, b, c, r, loopHanded

LEMMA LoopStutters ==
  ASSUME UNCHANGED <<announced, inbox, m_container, loopHand, loopTodo, loopHanded>>
  PROVE  UNCHANGED OneLoop!receiverVars
BY DEF OneLoop!receiverVars, loopHand, loopTodo, loopHanded

LEMMA HandlingKept ==
  ASSUME Handling' = Handling,
         \A t \in Handling : msg'[t] = msg[t] /\ (pc'[t] = "save" <=> pc[t] = "save")
  PROVE  UNCHANGED <<loopHand, loopTodo>>
<1>1. Handler' = Handler
  BY DEF Handler
<1>2. Handling # {} => Handler \in Handling
  BY DEF Handler
<1> QED
  BY <1>1, <1>2 DEF loopHand, loopTodo

(* The steps of the loop: a command, an arrival, a reception, ...          *)
LEMMA LoopCommand ==
  ASSUME Inv, DataTypeOK, NEW t \in UdpThreads, Command(t)
  PROVE  [OneLoop!Next]_(OneLoop!receiverVars)
<1>0. announced \in BOOLEAN /\ sendSet \in BOOLEAN
  BY DEF Inv, ControlTypeOK, Udp!TypeOK, DataTypeOK
<1>1. /\ pc[t] = "command"
      /\ pc'[t] \in {"lock", "recv", "sleep"}
      /\ \A u \in UdpThreads \ {t} : pc'[u] = pc[u]
      /\ UNCHANGED <<inbox, m_container, received, pushes>>
  BY DEF Command, continue, goto, Inv, ControlTypeOK
<1>2. Handling = {}
  BY <1>1, NoHandler DEF MessageSection
<1>3. Handling' = {}
  BY <1>1, <1>2 DEF Handling
<1>4. /\ loopTodo = "receive" /\ loopTodo' = "receive"
      /\ loopHand = None /\ loopHand' = None
  BY <1>2, <1>3 DEF loopTodo, loopHand
<1>5. loopHanded' = loopHanded
  BY <1>1 DEF loopHanded, Relay
<1>6. CASE announced' = announced
  BY <1>1, <1>4, <1>5, <1>6, LoopStutters
<1>7. CASE ~announced /\ announced' = TRUE
  <2>1. OneLoop!Command(TRUE)
    BY <1>1, <1>4, <1>5, <1>7
    DEF OneLoop!Command, loopTodo, loopHand, loopHanded
  <2> QED
    BY <2>1 DEF OneLoop!Next
<1>8. announced' = (announced \/ sendSet)
  BY DEF Command
<1> QED
  BY <1>0, <1>6, <1>7, <1>8

LEMMA LoopArrive ==
  ASSUME Inv, Arrive
  PROVE  OneLoop!Next
<1>1. PICK m \in Messages : Udp!arrive([from |-> Server, data |-> m])
  BY DEF Arrive
<1> DEFINE d == [from |-> Server, data |-> m]
<1>2. d \in Udp!Datagram /\ d.data = m
  BY DEF Udp!Datagram
<1>3. inbox \in Seq(Udp!Datagram)
  BY DEF Inv, ControlTypeOK, Udp!TypeOK
<1>4. inbox' = Append(inbox, d) /\ Len(inbox) < RecvBuf
  BY <1>1 DEF Udp!arrive
<1> HIDE DEF d
<1>5. contents(inbox)' = Append(contents(inbox), m) /\ Len(contents(inbox)) < RecvBuf
  BY <1>2, <1>3, <1>4, ContentsArrive, ContentsType DEF contents
<1>6. UNCHANGED <<announced, m_container, pc, msg, received, pushes>> /\ announced
  BY DEF Arrive
<1>7. Handling' = Handling
  BY <1>6 DEF Handling
<1>8. UNCHANGED <<loopHand, loopTodo, loopHanded>>
  BY <1>6, <1>7, HandlingKept DEF loopHanded, Relay
<1>9. OneLoop!Arrive(m)
  BY <1>5, <1>6, <1>8, ClientAssumption
  DEF OneLoop!Arrive, contents, loopHand, loopTodo, loopHanded
<1> QED
  BY <1>9 DEF OneLoop!Next

LEMMA LoopReceive ==
  ASSUME Inv, QP!IInv, DataTypeOK, OInv, NEW t \in UdpThreads,
         pc[t] = "recv", Udp!recv_bytes, pc' = [pc EXCEPT ![t] = "save"],
         msg' = [msg EXCEPT ![t] = Head(inbox).data],
         received' = Append(received, Head(inbox).data),
         UNCHANGED <<announced, m_container, queue, pushes, ticket>>
  PROVE  OneLoop!Next
<1>1. inbox \in Seq(Udp!Datagram) /\ inbox # <<>> /\ inbox' = Tail(inbox)
  BY DEF Inv, ControlTypeOK, Udp!TypeOK, Udp!recv_bytes
<1>2. /\ contents(inbox) # <<>> /\ Head(contents(inbox)) = Head(inbox).data
      /\ contents(inbox)' = Tail(contents(inbox))
  BY <1>1, ContentsReceive DEF contents
<1>3. Head(inbox) \in Udp!Datagram
  BY <1>1, HeadTailProperties
<1>4. Head(inbox).data \in Messages
  BY <1>3 DEF Udp!Datagram
<1>5. Handling = {}
  BY NoHandler DEF MessageSection
<1>6. Handling' = {t} /\ pc'[t] = "save" /\ msg'[t] = Head(inbox).data
  BY <1>5 DEF Handling, Inv, ControlTypeOK
<1>7. Handler' = t
  BY <1>6 DEF Handler
<1>8. /\ loopTodo = "receive" /\ loopTodo' = "save"
      /\ loopHand' = Head(inbox).data
  BY <1>5, <1>6, <1>7 DEF loopTodo, loopHand
<1>9. loopHanded' = loopHanded
  BY <1>4, ReceptionOrder, HandedKept
<1>10. OneLoop!Receive
  BY <1>2, <1>8, <1>9 DEF OneLoop!Receive, contents, loopHand, loopTodo, loopHanded
<1> QED
  BY <1>10 DEF OneLoop!Next

(* ... the saving of a message, ...                                        *)
LEMMA LoopSave ==
  ASSUME Inv, NEW t \in UdpThreads, Save(t)
  PROVE  OneLoop!Next
<1>1. /\ pc[t] = "save"
      /\ pc' = [pc EXCEPT ![t] = IF sendViaTcpRequired(msg[t]) THEN "lockTcp" ELSE "sleep"]
      /\ UNCHANGED <<msg, announced, inbox, received, pushes>>
      /\ m_container' = [j \in DOMAIN m_container \cup {msg[t].MessageId} |->
                           IF j \in DOMAIN m_container THEN m_container[j] ELSE msg[t]]
  BY DEF Save, goto, Saved!Insert
<1>2. t \in Handling
  BY <1>1 DEF Handling
<1>3. Handling = {t} /\ Handler = t /\ msg[t] \in Messages
  BY <1>1, <1>2, OneHandler DEF Inv, RelayOnly
<1>4. loopHand = msg[t] /\ loopTodo = "save"
  BY <1>1, <1>3 DEF loopHand, loopTodo
<1>5. loopHanded' = loopHanded
  BY <1>1 DEF loopHanded, Relay
<1>6. /\ pc'[t] = IF sendViaTcpRequired(msg[t]) THEN "lockTcp" ELSE "sleep"
      /\ \A u \in UdpThreads \ {t} : pc'[u] = pc[u]
  BY <1>1 DEF Inv, ControlTypeOK
<1>7. CASE sendViaTcpRequired(msg[t])
  <2>1. Handling' = {t}
    BY <1>3, <1>6, <1>7 DEF Handling
  <2>2. Handler' = t
    BY <2>1 DEF Handler
  <2>3. loopHand' = msg[t] /\ loopTodo' = "push"
    BY <1>1, <1>6, <1>7, <2>1, <2>2 DEF loopHand, loopTodo
  <2>4. msg[t] \in RelayMessages
    BY <1>3, <1>7 DEF RelayMessages
  <2>5. OneLoop!Save
    BY <1>1, <1>4, <1>5, <2>3, <2>4
    DEF OneLoop!Save, OneLoop!Saved!Insert, loopHand, loopTodo, loopHanded
  <2> QED
    BY <2>5 DEF OneLoop!Next
<1>8. CASE ~sendViaTcpRequired(msg[t])
  <2>1. Handling' = {}
    BY <1>3, <1>6, <1>8 DEF Handling
  <2>2. loopHand' = None /\ loopTodo' = "receive"
    BY <2>1 DEF loopHand, loopTodo
  <2>3. msg[t] \notin RelayMessages
    BY <1>8 DEF RelayMessages
  <2>4. OneLoop!Save
    BY <1>1, <1>4, <1>5, <2>2, <2>3
    DEF OneLoop!Save, OneLoop!Saved!Insert, loopHand, loopTodo, loopHanded
  <2> QED
    BY <2>4 DEF OneLoop!Next
<1> QED
  BY <1>7, <1>8

(* ... and the push of one to resend.                                      *)
LEMMA LoopPush ==
  ASSUME Inv, QP!IInv, OInv, NEW t \in UdpThreads, Insert(t)
  PROVE  OneLoop!Next
<1>1. /\ pc[t] = "insert" /\ pc' = [pc EXCEPT ![t] = "notify"]
      /\ UNCHANGED <<msg, announced, inbox, received, m_container>>
      /\ pushes' = pushes + 1
  BY DEF Insert, goto, Q!insert
<1>2. t \in Handling /\ t \in Pushing
  BY <1>1 DEF Handling, Pushing, Inv, RelayOnly, RelayMessages
<1>3. Handling = {t} /\ Handler = t
  BY <1>2, OneHandler
<1>4. Handling' = {}
  BY <1>1, <1>3 DEF Handling, Inv, ControlTypeOK
<1>5. /\ loopHand = msg[t] /\ loopTodo = "push"
      /\ loopHand' = None /\ loopTodo' = "receive"
  BY <1>1, <1>3, <1>4 DEF loopHand, loopTodo
<1>6. loopHanded' = Append(loopHanded, msg[t])
  BY <1>1, <1>2, HandedPush
<1>7. OneLoop!Push
  BY <1>1, <1>5, <1>6 DEF OneLoop!Push, loopHand, loopTodo, loopHanded
<1> QED
  BY <1>7 DEF OneLoop!Next

(* Every other step is invisible to the loop. *)
LEMMA LoopQuiet ==
  ASSUME UNCHANGED <<announced, inbox, m_container, received, pushes>>,
         Handling' = Handling,
         \A t \in Handling : msg'[t] = msg[t] /\ (pc'[t] = "save" <=> pc[t] = "save")
  PROVE  UNCHANGED OneLoop!receiverVars
<1>1. loopHanded' = loopHanded
  BY DEF loopHanded, Relay
<1> QED
  BY <1>1, HandlingKept, LoopStutters

LEMMA LoopStep ==
  ASSUME Inv, QP!IInv, DataTypeOK, OInv, [Next]_vars
  PROVE  [OneLoop!Next]_(OneLoop!receiverVars)
<1> DEFINE Handles(l) == l \in {"save", "lockTcp", "size", "insert"}
<1>1. ASSUME NEW t \in UdpThreads, UdpThread(t)
      PROVE  [OneLoop!Next]_(OneLoop!receiverVars)
  <2>1. CASE Return(t) \/ LockMessage(t) \/ LockTcp(t) \/ Size(t) \/ Notify(t)
    <3>1. /\ UNCHANGED <<announced, inbox, m_container, received, pushes, msg>>
          /\ \A u \in UdpThreads \ {t} : pc'[u] = pc[u]
          /\ Handles(pc'[t]) <=> Handles(pc[t])
          /\ pc'[t] # "save" /\ pc[t] # "save"
      BY <2>1 DEF Return, LockMessage, LockTcp, Size, Notify, goto, Inv, ControlTypeOK
    <3>2. Handling' = Handling
      BY <3>1 DEF Handling
    <3>3. \A u \in Handling : msg'[u] = msg[u] /\ (pc'[u] = "save" <=> pc[u] = "save")
      BY <3>1 DEF Handling
    <3> QED
      BY <3>1, <3>2, <3>3, LoopQuiet
  <2>2. CASE Select(t) \/ Sleep(t) \/ (Recv(t) /\ pc' = [pc EXCEPT ![t] = "sleep"])
    <3>1. /\ UNCHANGED <<announced, inbox, m_container, received, pushes>>
          /\ pc[t] \in {"select", "recv", "sleep"}
          /\ \E l \in {"lock", "command", "sleep"} : pc' = [pc EXCEPT ![t] = l]
      BY <2>2 DEF Select, Sleep, Recv, continue, goto, Udp!selectError,
         Udp!selectTimeout, Udp!selectReady, Inv, ControlTypeOK
    <3>2. Handling = {}
      BY <3>1, NoHandler DEF MessageSection
    <3>3. Handling' = Handling
      BY <3>1, <3>2 DEF Handling, Inv, ControlTypeOK
    <3> QED
      BY <3>1, <3>2, <3>3, LoopQuiet
  <2>3. CASE Recv(t) /\ pc' = [pc EXCEPT ![t] = "save"]
    <3>1. /\ pc[t] = "recv" /\ Udp!recv_bytes
          /\ msg' = [msg EXCEPT ![t] = Head(inbox).data]
          /\ received' = Append(received, Head(inbox).data)
          /\ UNCHANGED <<announced, m_container, queue, pushes, ticket>>
      BY <2>3 DEF Recv, goto, Inv, ControlTypeOK
    <3> QED
      BY <2>3, <3>1, LoopReceive
  <2>4. Recv(t) => pc' = [pc EXCEPT ![t] = "sleep"] \/ pc' = [pc EXCEPT ![t] = "save"]
    BY DEF Recv, goto
  <2> QED
    BY <1>1, <2>1, <2>2, <2>3, <2>4, LoopCommand, LoopSave, LoopPush
    DEF UdpThread, UdpStep
<1>2. ASSUME NEW t \in UdpThreads, SpawnUdp(t)
      PROVE  UNCHANGED OneLoop!receiverVars
  <2>1. /\ UNCHANGED <<announced, inbox, m_container, received, pushes, msg>>
        /\ \A u \in UdpThreads \ {t} : pc'[u] = pc[u]
        /\ pc[t] = "unborn" /\ pc'[t] = "lock"
    BY <1>2 DEF SpawnUdp, goto, Inv, ControlTypeOK
  <2>2. Handling' = Handling
    BY <2>1 DEF Handling
  <2>3. \A u \in Handling : msg'[u] = msg[u] /\ (pc'[u] = "save" <=> pc[u] = "save")
    BY <2>1 DEF Handling
  <2> QED
    BY <2>1, <2>2, <2>3, LoopQuiet
<1>3. CASE Construct \/ Connect \/ SpawnTcp \/ TcpLock \/ TcpStep \/ SpuriousWakeup
           \/ TcpServer \/ UNCHANGED vars
  <2>1. UNCHANGED <<announced, inbox, m_container, received, pushes, msg, pc>>
    BY <1>3 DEF Construct, Connect, SpawnTcp, TcpLock, TcpStep, Check,
       BeginIndex, BeginValue, Remove, Send, SpuriousWakeup, TcpServer, vars,
       Udp!construct, Q!remove
  <2>2. Handling' = Handling
    BY <2>1 DEF Handling
  <2> QED
    BY <2>1, <2>2, LoopQuiet
<1> QED
  BY <1>1, <1>2, <1>3, LoopArrive DEF Next, Main

(* All threads together act as one sequential loop (Receiver.tla): a       *)
(* message is received, saved and, if it must be resent, handed over       *)
(* before the next one is received, whichever threads do it.               *)
THEOREM ReceiverImplemented == Spec => ImplementsReceiver
<1>1. Init => OneLoop!Init
  <2> SUFFICES ASSUME Init PROVE OneLoop!Init
    OBVIOUS
  <2>1. inbox = <<>> /\ ~announced /\ m_container = [k \in {} |-> 0]
    BY DEF Init, Udp!Init
  <2>2. Handling = {}
    BY DEF Init, Handling
  <2>3. SubSeq(Relay, 1, pushes) = <<>>
    BY SubSeqEmpty DEF Init, Q!Init
  <2>4. [n \in DOMAIN inbox |-> inbox[n].data] = <<>>
    BY <2>1
  <2> QED
    BY <2>1, <2>2, <2>3, <2>4 DEF OneLoop!Init, OneLoop!Saved!Init
<1>2. Inv /\ QP!IInv /\ DataTypeOK /\ [Next]_vars => DataTypeOK'
  BY StepDataTypeOK
<1>3. Inv /\ QP!IInv /\ DataTypeOK /\ OInv /\ [Next]_vars => OInv'
  BY StepOInv
<1>4. Inv /\ QP!IInv /\ DataTypeOK /\ OInv /\ [Next]_vars
        => [OneLoop!Next]_(OneLoop!receiverVars)
  BY LoopStep
<1> QED
  BY <1>1, <1>2, <1>3, <1>4, InitDataTypeOK, InitOInv, Invariance,
     QueueInvariance, PTL DEF Spec, ImplementsReceiver, OneLoop!Spec
=============================================================================
