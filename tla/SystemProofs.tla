---------------------------- MODULE SystemProofs ----------------------------
(***************************************************************************)
(* What holds of both processes together, for every number of restarts,    *)
(* every size of the buffers and every choice of failing system calls.     *)
(***************************************************************************)
EXTENDS System, TLAPS

-----------------------------------------------------------------------------
(* Types *)

LEMMA TypeInit == Init => TypeOK
<1> SUFFICES ASSUME Init PROVE TypeOK
  OBVIOUS
<1>1. S!TypeOK
  <2>1. sendMsgCount \in 0 .. CountLimit - 1 /\ Len(commands) <= CmdBuf
    BY SystemAssumption DEF Init, S!Init, S!Udp!Init
  <2>2. commands \in Seq(S!Udp!Datagram)
    BY DEF Init, S!Init, S!Udp!Init
  <2>3. pc \in S!Labels /\ bound \in BOOLEAN /\ open \in BOOLEAN
        /\ recvSet \in BOOLEAN /\ sendSet \in BOOLEAN /\ peer = None
    BY Zenon DEF Init, S!Init, S!Udp!Init, S!Labels
  <2> QED
    BY <2>1, <2>2, <2>3, Zenon DEF S!TypeOK, S!Udp!TypeOK
<1>2. R!TypeOK
  BY SystemAssumption DEF Init, R!Init, R!TypeOK, R!Saved!Init
<1>3. era \in Nat /\ life \in Nat /\ heard \in 0 .. life /\ staleSends \in Nat
      /\ last \in [era : Nat, number : Nat]
  BY DEF Init
<1>4. up \in BOOLEAN /\ (~up => address = None /\ todo = "receive")
  BY Zenon DEF Init, R!Init
<1> QED
  BY <1>1, <1>2, <1>3, <1>4, Zenon DEF TypeOK

(* The steps of the sender keep the types of its variables. *)
LEMMA SenderTypes ==
  ASSUME S!TypeOK,
         \/ S!Start \/ S!Stop \/ S!Select \/ S!Recv \/ S!Send
         \/ S!SkipSend \/ S!Sleep
  PROVE  S!TypeOK'
<1>1. CASE S!Start
  BY <1>1, SystemAssumption DEF S!TypeOK, S!Udp!TypeOK, S!Start, S!Udp!construct, S!Labels
<1>2. CASE S!Stop
  <2>1. sendMsgCount' \in 0 .. CountLimit - 1 /\ Len(commands') <= CmdBuf
    BY <1>2, SystemAssumption DEF S!Stop
  <2>2. commands' \in Seq(S!Udp!Datagram)
    BY <1>2 DEF S!Stop
  <2>3. pc' \in S!Labels /\ bound' \in BOOLEAN /\ open' \in BOOLEAN
        /\ recvSet' \in BOOLEAN /\ sendSet' \in BOOLEAN /\ peer' = None
    BY <1>2, Zenon DEF S!Stop, S!Labels
  <2> QED
    BY <2>1, <2>2, <2>3, Zenon DEF S!TypeOK, S!Udp!TypeOK, S!Udp!Datagram
<1>3. CASE S!Select
  BY <1>3 DEF S!TypeOK, S!Udp!TypeOK, S!Select, S!Udp!selectError,
              S!Udp!selectReady, S!Udp!selectTimeout, S!Labels
<1>4. CASE S!Recv
  <2>1. CASE S!Udp!recv_bytes
    <3>1. /\ commands' \in Seq(S!Udp!Datagram) /\ Len(commands') <= CmdBuf
          /\ peer' \in Ports
      <4>1. /\ commands \in Seq(S!Udp!Datagram) /\ Len(commands) <= CmdBuf
            /\ commands # <<>> /\ commands' = Tail(commands)
            /\ peer' = Head(commands).from
        BY <2>1 DEF S!TypeOK, S!Udp!TypeOK, S!Udp!recv_bytes
      <4>2. Head(commands) \in S!Udp!Datagram
        BY <4>1
      <4>3. peer' \in Ports
        BY <4>1, <4>2 DEF S!Udp!Datagram
      <4> QED
        BY <4>1, <4>3, SystemAssumption
    <3>2. UNCHANGED <<sendMsgCount, bound, open, recvSet, sendSet>> /\ pc' = "send"
      BY <1>4, <2>1 DEF S!Recv, S!Udp!recv_bytes
    <3> QED
      BY <3>1, <3>2 DEF S!TypeOK, S!Udp!TypeOK, S!Labels, S!Udp!Datagram
  <2>2. CASE UNCHANGED S!socketVars
    BY <1>4, <2>2 DEF S!Recv, S!TypeOK, S!Udp!TypeOK, S!Labels, S!socketVars
  <2> QED
    BY <1>4, <2>1, <2>2 DEF S!Recv
<1>5. CASE S!Send
  <2>1. sendMsgCount' \in 0 .. CountLimit - 1
    BY <1>5, SystemAssumption DEF S!Send, S!TypeOK
  <2> QED
    BY <1>5, <2>1 DEF S!TypeOK, S!Udp!TypeOK, S!Send, S!Labels, S!socketVars
<1>6. CASE S!SkipSend \/ S!Sleep
  BY <1>6 DEF S!TypeOK, S!Udp!TypeOK, S!SkipSend, S!Sleep, S!Labels, S!socketVars
<1> QED
  BY <1>1, <1>2, <1>3, <1>4, <1>5, <1>6

(* A command that arrives is one of the kernel's datagrams. *)
LEMMA CommandTypes ==
  ASSUME S!TypeOK, NEW p \in Ports, life \in Nat,
         S!Udp!arrive([from |-> p, data |-> life]), UNCHANGED <<pc, sendMsgCount, bound>>
  PROVE  S!TypeOK'
<1>1. commands \in Seq(S!Udp!Datagram) /\ Len(commands) <= CmdBuf
  BY DEF S!TypeOK, S!Udp!TypeOK
<1>2. [from |-> p, data |-> life] \in S!Udp!Datagram
  BY DEF S!Udp!Datagram
<1>3. commands' = Append(commands, [from |-> p, data |-> life]) /\ Len(commands) < CmdBuf
  BY DEF S!Udp!arrive
<1>4. commands' \in Seq(S!Udp!Datagram) /\ Len(commands') <= CmdBuf
  BY <1>1, <1>2, <1>3, SystemAssumption
<1>5. UNCHANGED <<open, peer, recvSet, sendSet>>
  BY DEF S!Udp!arrive
<1> QED
  BY <1>4, <1>5 DEF S!TypeOK, S!Udp!TypeOK, S!Udp!Datagram

LEMMA StampTypes ==
  ASSUME S!TypeOK, era \in Nat
  PROVE  Stamped(era, sendMsgCount) \in Stamps
<1>1. sendMsgCount \in Nat
  BY SystemAssumption DEF S!TypeOK
<1>2. sendMsgCount % Ids \in Nat
  BY <1>1, SystemAssumption
<1> QED
  BY <1>1, <1>2 DEF Stamped, Stamps

(* The steps of the receiver keep the types of its variables. *)
LEMMA ReceiverTypes ==
  ASSUME R!TypeOK,
         \/ \E p \in Ports : R!Command(p)
         \/ \E m \in Stamps : R!Arrive(m)
         \/ R!Receive \/ R!Save \/ R!Push
  PROVE  R!TypeOK'
<1> USE SystemAssumption
<1>1. ASSUME NEW p \in Ports, R!Command(p) PROVE R!TypeOK'
  BY <1>1 DEF R!Command, R!TypeOK
<1>2. ASSUME NEW m \in Stamps, R!Arrive(m) PROVE R!TypeOK'
  BY <1>2 DEF R!Arrive, R!TypeOK
<1>3. CASE R!Receive
  <2>1. inbox \in Seq(Stamps) /\ inbox # <<>> /\ Len(inbox) <= RecvBuf
    BY <1>3 DEF R!Receive, R!TypeOK
  <2>2. Head(inbox) \in Stamps /\ Tail(inbox) \in Seq(Stamps) /\ Len(Tail(inbox)) <= RecvBuf
    BY <2>1
  <2> QED
    BY <1>3, <2>2 DEF R!Receive, R!TypeOK
<1>4. CASE R!Save
  <2>1. hand \in Stamps
    BY <1>4 DEF R!Save, R!TypeOK
  <2>2. \A id \in DOMAIN m_container' : m_container'[id] \in Stamps
    BY <1>4, <2>1 DEF R!Save, R!TypeOK, R!Saved!Insert
  <2> QED
    BY <1>4, <2>1, <2>2 DEF R!Save, R!TypeOK
<1>5. CASE R!Push
  <2>1. handed' \in Seq({m \in Stamps : m.MessageId = ResendID})
    BY <1>5 DEF R!Push, R!TypeOK
  <2> QED
    BY <1>5, <2>1 DEF R!Push, R!TypeOK
<1> QED
  BY <1>1, <1>2, <1>3, <1>4, <1>5

-----------------------------------------------------------------------------
(* What the types rest on: no command comes from a start that has not been *)
(* yet, and a socket without an address holds nothing.                     *)
Known == \A n \in DOMAIN commands : commands[n].data \in 0 .. life

Offline == address = None => inbox = <<>>

(* A sender that is down holds nothing. *)
Down == pc = "down" => ~bound /\ commands = <<>>

TInv == TypeOK /\ Known /\ Offline /\ Down

LEMMA TInvInit == Init => TInv
<1>1. Init => Known /\ Offline
  BY DEF Init, S!Init, S!Udp!Init, R!Init, Known, Offline
<1>2. Init => Down
  BY Zenon DEF Init, S!Init, S!Udp!Init, Down
<1> QED
  BY <1>1, <1>2, TypeInit DEF TInv

(* What each step does to the variables of the other process. *)
LEMMA TInvStep == TInv /\ [Next]_vars => TInv'
<1> SUFFICES ASSUME TInv, [Next]_vars PROVE TInv'
  OBVIOUS
<1> USE SystemAssumption
<1>0. /\ S!TypeOK /\ R!TypeOK /\ Known /\ Offline /\ Down
      /\ up \in BOOLEAN /\ (~up => address = None /\ todo = "receive")
      /\ era \in Nat /\ life \in Nat /\ heard \in 0 .. life /\ staleSends \in Nat
      /\ last \in [era : Nat, number : Nat]
      /\ commands \in Seq([from : Ports, data : Nat])
  BY DEF TInv, TypeOK, S!TypeOK, S!Udp!TypeOK, S!Udp!Datagram
<1>1. CASE UNCHANGED vars
  BY <1>1 DEF vars, senderVars, receiverVars, TInv, TypeOK, S!TypeOK, S!Udp!TypeOK,
              R!TypeOK, Known, Offline, Down
<1>2. ASSUME UNCHANGED <<receiverVars, up, last>>
      PROVE  /\ R!TypeOK' /\ Offline'
             /\ up' \in BOOLEAN /\ (~up' => address' = None /\ todo' = "receive")
             /\ last' \in [era : Nat, number : Nat]
  BY <1>0, <1>2 DEF receiverVars, R!TypeOK, Offline
<1>3. ASSUME UNCHANGED <<senderVars, era, life, heard, staleSends>>
      PROVE  /\ S!TypeOK' /\ Known' /\ Down'
             /\ era' \in Nat /\ life' \in Nat /\ heard' \in 0 .. life'
             /\ staleSends' \in Nat
  BY <1>0, <1>3 DEF senderVars, S!TypeOK, S!Udp!TypeOK, Known, Down
<1>4. CASE SenderStart
  <2>1. S!TypeOK'
    BY <1>0, <1>4, SenderTypes DEF SenderStart
  <2>2. pc' # "down" /\ UNCHANGED commands
    BY <1>4 DEF SenderStart, S!Start, S!Udp!construct
  <2> QED
    BY <1>0, <1>2, <1>4, <2>1, <2>2 DEF SenderStart, TInv, TypeOK, Known, Down
<1>5. CASE SenderStop
  <2>1. S!TypeOK'
    BY <1>0, <1>5, SenderTypes DEF SenderStop
  <2>2. commands' = <<>> /\ ~bound'
    BY <1>5 DEF SenderStop, S!Stop
  <2> QED
    BY <1>0, <1>2, <1>5, <2>1, <2>2 DEF SenderStop, TInv, TypeOK, Known, Down
<1>6. CASE SenderSelect
  <2>1. S!TypeOK'
    BY <1>0, <1>6, SenderTypes DEF SenderSelect
  <2>2. pc' # "down" /\ UNCHANGED commands
    BY <1>6 DEF SenderSelect, S!Select, S!Udp!selectError, S!Udp!selectReady, S!Udp!selectTimeout
  <2> QED
    BY <1>0, <1>2, <1>6, <2>1, <2>2 DEF SenderSelect, TInv, TypeOK, Known, Down
<1>7. CASE SenderRecv
  <2>1. S!TypeOK'
    BY <1>0, <1>7, SenderTypes DEF SenderRecv
  <2>2. pc' # "down"
    BY <1>7 DEF SenderRecv, S!Recv
  <2>3. CASE UNCHANGED commands
    BY <1>0, <1>2, <1>7, <2>1, <2>2, <2>3 DEF SenderRecv, TInv, TypeOK, Known, Down
  <2>4. CASE S!Udp!recv_bytes
    <3>1. commands # <<>> /\ commands' = Tail(commands)
      BY <2>4 DEF S!Udp!recv_bytes
    <3>2. heard' = Head(commands).data
      BY <1>0, <1>7, <3>1 DEF SenderRecv
    <3>3. heard' \in 0 .. life
      BY <1>0, <3>1, <3>2 DEF Known
    <3>4. UNCHANGED life
      BY <1>7 DEF SenderRecv
    <3>5. Known'
      BY <1>0, <3>1, <3>4 DEF Known
    <3> QED
      BY <1>0, <1>2, <1>7, <2>1, <2>2, <3>3, <3>4, <3>5 DEF SenderRecv, TInv, TypeOK, Down
  <2> QED
    BY <1>7, <2>3, <2>4 DEF SenderRecv, S!Recv, S!socketVars
<1>8. CASE SenderSend
  <2>1. S!TypeOK'
    BY <1>0, <1>8, SenderTypes DEF SenderSend
  <2>2. pc' # "down" /\ UNCHANGED commands
    BY <1>8 DEF SenderSend, S!Send, S!socketVars
  <2>3. /\ UNCHANGED <<up, era, life, heard, last>> /\ staleSends' \in Nat
    BY <1>0, <1>8 DEF SenderSend
  <2>4. /\ R!TypeOK' /\ Offline'
        /\ (~up => address' = None /\ todo' = "receive")
    <3>1. CASE UNCHANGED receiverVars
      BY <1>0, <1>2, <2>3, <3>1
    <3>2. CASE R!Arrive(Stamped(era, sendMsgCount))
      <4>1. R!TypeOK'
        BY <1>0, <3>2, StampTypes, ReceiverTypes
      <4> QED
        BY <1>0, <3>2, <4>1 DEF R!Arrive, Offline
    <3> QED
      BY <1>8, <3>1, <3>2 DEF SenderSend
  <2> QED
    BY <1>0, <2>1, <2>2, <2>3, <2>4 DEF TInv, TypeOK, Known, Down
<1>9. CASE (S!SkipSend \/ S!Sleep)
           /\ UNCHANGED <<up, receiverVars, era, life, heard, last, staleSends>>
  <2>1. S!TypeOK'
    BY <1>0, <1>9, SenderTypes
  <2>2. pc' # "down" /\ UNCHANGED commands
    BY <1>9 DEF S!SkipSend, S!Sleep, S!socketVars
  <2> QED
    BY <1>0, <1>2, <1>9, <2>1, <2>2 DEF TInv, TypeOK, Known, Down
<1>10. CASE ReceiverStart
  <2>1. life' = life + 1 /\ UNCHANGED <<senderVars, receiverVars, era, heard, last>>
        /\ staleSends' = 0 /\ up' = TRUE
    BY <1>10 DEF ReceiverStart
  <2>2. S!TypeOK' /\ Known' /\ Down'
    BY <1>0, <2>1 DEF senderVars, S!TypeOK, S!Udp!TypeOK, Known, Down
  <2>3. R!TypeOK' /\ Offline'
    BY <1>0, <2>1 DEF receiverVars, R!TypeOK, Offline
  <2> QED
    BY <1>0, <2>1, <2>2, <2>3 DEF TInv, TypeOK
<1>11. CASE ReceiverStop
  <2>1. R!TypeOK' /\ Offline'
    BY <1>11 DEF ReceiverStop, R!TypeOK, Offline
  <2> QED
    BY <1>0, <1>3, <1>11, <2>1 DEF ReceiverStop, TInv, TypeOK
<1>12. CASE ReceiverCommand
  <2>1. PICK p \in Ports :
          /\ R!Command(p)
          /\ \/ bound /\ S!Udp!arrive([from |-> p, data |-> life])
             \/ UNCHANGED <<open, peer, commands, recvSet, sendSet>>
    BY <1>12 DEF ReceiverCommand
  <2>2. up /\ UNCHANGED <<pc, sendMsgCount, bound, up, era, life, heard, last, staleSends>>
    BY <1>12 DEF ReceiverCommand
  <2>3. R!TypeOK' /\ Offline'
    <3>1. R!TypeOK'
      BY <1>0, <2>1, ReceiverTypes
    <3> QED
      BY <1>0, <2>1, <3>1 DEF R!Command, Offline
  <2>4. S!TypeOK' /\ Known' /\ Down'
    <3>1. CASE bound /\ S!Udp!arrive([from |-> p, data |-> life])
      <4>1. S!TypeOK'
        BY <1>0, <2>2, <3>1, CommandTypes
      <4>2. commands' = Append(commands, [from |-> p, data |-> life])
        BY <3>1 DEF S!Udp!arrive
      <4>3. Known'
        BY <1>0, <2>2, <4>2 DEF Known
      <4> QED
        BY <1>0, <2>2, <3>1, <4>1, <4>3 DEF Down
    <3>2. CASE UNCHANGED <<open, peer, commands, recvSet, sendSet>>
      BY <1>0, <2>2, <3>2 DEF S!TypeOK, S!Udp!TypeOK, Known, Down
    <3> QED
      BY <2>1, <3>1, <3>2
  <2> QED
    BY <1>0, <2>2, <2>3, <2>4 DEF TInv, TypeOK
<1>13. CASE ReceiverReceive
  <2>1. R!TypeOK'
    BY <1>0, <1>13, ReceiverTypes DEF ReceiverReceive
  <2>2. inbox # <<>> /\ inbox \in Seq(Stamps) /\ UNCHANGED address
    BY <1>0, <1>13 DEF ReceiverReceive, R!Receive, R!TypeOK
  <2>3. up /\ Offline'
    BY <1>0, <2>2 DEF Offline
  <2>4. last' \in [era : Nat, number : Nat]
    <3>1. Head(inbox) \in Stamps
      BY <2>2
    <3> QED
      BY <1>13, <3>1 DEF ReceiverReceive, Stamps
  <2> QED
    BY <1>0, <1>3, <1>13, <2>1, <2>3, <2>4 DEF ReceiverReceive, TInv, TypeOK
<1>14. CASE ReceiverFinish
  <2>1. R!TypeOK'
    BY <1>0, <1>14, ReceiverTypes DEF ReceiverFinish
  <2>2. up /\ UNCHANGED <<inbox, address>>
    BY <1>0, <1>14 DEF ReceiverFinish, R!Save, R!Push
  <2> QED
    BY <1>0, <1>3, <1>14, <2>1, <2>2 DEF ReceiverFinish, TInv, TypeOK, Offline
<1> QED
  BY <1>1, <1>4, <1>5, <1>6, <1>7, <1>8, <1>9, <1>10, <1>11, <1>12, <1>13, <1>14
     DEF Next, SenderStep

(* Every variable of both processes keeps its type. *)
THEOREM TypeCorrect == Spec => []TypeOK
<1>1. TInv => TypeOK
  BY DEF TInv
<1> QED
  BY <1>1, TInvInit, TInvStep, PTL DEF Spec
-----------------------------------------------------------------------------
(* The order of the messages *)

(* What the order depends on. *)
orderVars == <<NextStamp, last, inbox>>

LEMMA OrderUnchanged ==
  ASSUME InOrder, UNCHANGED orderVars
  PROVE  InOrder'
BY DEF InOrder, orderVars

(* The stamps of the waiting messages are stamps. *)
LEMMA WaitingStamps ==
  ASSUME TInv
  PROVE  \A n \in DOMAIN inbox : Stamp(inbox[n]) \in [era : Nat, number : Nat]
<1> SUFFICES ASSUME NEW n \in DOMAIN inbox
             PROVE  Stamp(inbox[n]) \in [era : Nat, number : Nat]
  OBVIOUS
<1>1. inbox[n] \in Stamps
  BY DEF TInv, TypeOK, R!TypeOK
<1>2. inbox[n].era \in Nat /\ inbox[n].MessageData \in Nat
  BY <1>1 DEF Stamps
<1> QED
  BY <1>2 DEF Stamp

(* A later next stamp is still later than everything under way. *)
LEMMA OrderLater ==
  ASSUME TInv, InOrder, UNCHANGED <<last, inbox>>,
         NextStamp'.era \in Nat, NextStamp'.number \in Nat,
         Earlier(NextStamp, NextStamp')
  PROVE  InOrder'
<1>1. era \in Nat /\ sendMsgCount \in Nat /\ last \in [era : Nat, number : Nat]
  BY SystemAssumption DEF TInv, TypeOK, S!TypeOK
<1>3. \A n \in DOMAIN inbox : Stamp(inbox[n]) \in [era : Nat, number : Nat]
  BY WaitingStamps
<1>4. NextStamp.era \in Nat /\ NextStamp.number \in Nat
  BY <1>1 DEF NextStamp
<1>5. \A s \in [era : Nat, number : Nat] : Earlier(s, NextStamp) => Earlier(s, NextStamp')
  BY <1>4 DEF Earlier
<1>6. \A n \in DOMAIN inbox : Earlier(Stamp(inbox[n]), NextStamp')
  BY <1>3, <1>5 DEF InOrder
<1>7. Earlier(last, NextStamp')
  BY <1>1, <1>5 DEF InOrder
<1>8. InOrder' <=> /\ Earlier(last, NextStamp')
                   /\ \A n \in DOMAIN inbox : /\ Earlier(last, Stamp(inbox[n]))
                                             /\ Earlier(Stamp(inbox[n]), NextStamp')
                   /\ \A n, o \in DOMAIN inbox :
                        n < o => Earlier(Stamp(inbox[n]), Stamp(inbox[o]))
  BY DEF InOrder
<1> QED
  BY <1>6, <1>7, <1>8 DEF InOrder

LEMMA OrderStep == TInv /\ InOrder /\ [Next /\ NoWrap]_vars => InOrder'
<1> SUFFICES ASSUME TInv, InOrder, [Next /\ NoWrap]_vars PROVE InOrder'
  OBVIOUS
<1> USE SystemAssumption
<1>0. /\ era \in Nat /\ sendMsgCount \in Nat /\ sendMsgCount < CountLimit
      /\ last \in [era : Nat, number : Nat] /\ inbox \in Seq(Stamps)
  BY DEF TInv, TypeOK, S!TypeOK, R!TypeOK
<1>1. CASE UNCHANGED vars
  BY <1>1, OrderUnchanged DEF vars, senderVars, receiverVars, orderVars, NextStamp
<1>2. CASE SenderStart
  <2>1. /\ pc = "down" /\ pc' # "down" /\ era' = era + 1
        /\ UNCHANGED <<sendMsgCount, last, inbox>>
    BY <1>2 DEF SenderStart, S!Start, receiverVars
  <2> QED
    BY <2>1, OrderUnchanged DEF orderVars, NextStamp
<1>3. CASE SenderStop
  <2>1. /\ pc # "down" /\ pc' = "down" /\ sendMsgCount' = 0
        /\ UNCHANGED <<era, last, inbox>>
    BY <1>3 DEF SenderStop, S!Stop, receiverVars
  <2>2. NextStamp' = [era |-> era + 1, number |-> 0]
    BY <2>1 DEF NextStamp
  <2>3. Earlier(NextStamp, NextStamp')
    BY <1>0, <2>1, <2>2 DEF Earlier, NextStamp
  <2> QED
    BY <1>0, <2>1, <2>2, <2>3, OrderLater
<1>4. CASE \/ SenderSelect \/ SenderRecv
           \/ (S!SkipSend \/ S!Sleep) /\ UNCHANGED <<receiverVars, era, last>>
  <2>1. pc # "down" /\ pc' # "down" /\ UNCHANGED sendMsgCount
    BY <1>4 DEF SenderSelect, SenderRecv, S!Select, S!Recv, S!SkipSend, S!Sleep
  <2>2. UNCHANGED <<era, last, inbox>>
    BY <1>4 DEF SenderSelect, SenderRecv, receiverVars
  <2> QED
    BY <2>1, <2>2, OrderUnchanged DEF orderVars, NextStamp
<1>5. CASE SenderSend /\ NoWrap
  <2>1. /\ pc = "send" /\ pc' = "sleep" /\ UNCHANGED <<era, last>>
        /\ sendMsgCount' = (sendMsgCount + 1) % CountLimit
        /\ sendMsgCount + 1 < CountLimit
    BY <1>5 DEF SenderSend, S!Send, NoWrap
  <2>2. sendMsgCount' = sendMsgCount + 1
    BY <1>0, <2>1
  <2>3. NextStamp = [era |-> era, number |-> sendMsgCount]
        /\ NextStamp' = [era |-> era, number |-> sendMsgCount + 1]
    BY <2>1, <2>2 DEF NextStamp
  <2>4. Earlier(NextStamp, NextStamp')
    BY <1>0, <2>3 DEF Earlier
  <2>5. CASE UNCHANGED receiverVars
    BY <1>0, <2>1, <2>3, <2>4, <2>5, OrderLater DEF receiverVars
  <2>6. CASE R!Arrive(Stamped(era, sendMsgCount))
    <3> DEFINE m == Stamped(era, sendMsgCount)
    <3>1. inbox' = Append(inbox, m) /\ m \in Stamps
      BY <1>0, <2>6, StampTypes DEF R!Arrive, TInv, TypeOK
    <3>2. Stamp(m) = NextStamp
      BY <2>3 DEF Stamp, Stamped
    <3> HIDE DEF m
    <3>3. DOMAIN inbox' = 1 .. Len(inbox) + 1 /\ inbox'[Len(inbox) + 1] = m
          /\ \A n \in 1 .. Len(inbox) : inbox'[n] = inbox[n]
          /\ DOMAIN inbox = 1 .. Len(inbox) /\ Len(inbox) \in Nat
      BY <1>0, <3>1
    <3>4. /\ \A n \in 1 .. Len(inbox) : /\ Earlier(last, Stamp(inbox[n]))
                                      /\ Earlier(Stamp(inbox[n]), NextStamp)
                                      /\ Stamp(inbox[n]) \in [era : Nat, number : Nat]
          /\ \A n, o \in 1 .. Len(inbox) :
               n < o => Earlier(Stamp(inbox[n]), Stamp(inbox[o]))
      BY <3>3, WaitingStamps DEF InOrder
    <3>5. \A s \in [era : Nat, number : Nat] :
            Earlier(s, NextStamp) => Earlier(s, NextStamp')
      BY <1>0, <2>3 DEF Earlier
    <3>6. Earlier(last, NextStamp) /\ Earlier(last, NextStamp')
      BY <1>0, <3>5 DEF InOrder
    <3>7. \A n \in 1 .. Len(inbox) + 1 : /\ Earlier(last, Stamp(inbox'[n]))
                                       /\ Earlier(Stamp(inbox'[n]), NextStamp')
      <4> SUFFICES ASSUME NEW n \in 1 .. Len(inbox) + 1
                   PROVE  /\ Earlier(last, Stamp(inbox'[n]))
                          /\ Earlier(Stamp(inbox'[n]), NextStamp')
        OBVIOUS
      <4>1. CASE n = Len(inbox) + 1
        BY <2>4, <3>2, <3>3, <3>6, <4>1
      <4>2. CASE n \in 1 .. Len(inbox)
        BY <3>3, <3>4, <3>5, <4>2
      <4> QED
        BY <1>0, <3>3, <4>1, <4>2
    <3>8. \A n, o \in 1 .. Len(inbox) + 1 :
            n < o => Earlier(Stamp(inbox'[n]), Stamp(inbox'[o]))
      <4> SUFFICES ASSUME NEW n \in 1 .. Len(inbox) + 1, NEW o \in 1 .. Len(inbox) + 1, n < o
                   PROVE  Earlier(Stamp(inbox'[n]), Stamp(inbox'[o]))
        OBVIOUS
      <4>1. n \in 1 .. Len(inbox)
        BY <3>3
      <4>2. CASE o = Len(inbox) + 1
        BY <3>2, <3>3, <3>4, <4>1, <4>2
      <4>3. CASE o \in 1 .. Len(inbox)
        BY <3>3, <3>4, <4>1, <4>3
      <4> QED
        BY <3>3, <4>2, <4>3
    <3>9. InOrder' <=> /\ Earlier(last, NextStamp')
                       /\ \A n \in DOMAIN inbox' : /\ Earlier(last, Stamp(inbox'[n]))
                                                  /\ Earlier(Stamp(inbox'[n]), NextStamp')
                       /\ \A n, o \in DOMAIN inbox' :
                            n < o => Earlier(Stamp(inbox'[n]), Stamp(inbox'[o]))
      BY <2>1 DEF InOrder, Stamp, Earlier
    <3> QED
      BY <3>3, <3>6, <3>7, <3>8, <3>9
  <2> QED
    BY <1>5, <2>5, <2>6 DEF SenderSend
<1>6. CASE ReceiverStart \/ ReceiverCommand \/ ReceiverFinish
  <2>1. UNCHANGED <<pc, sendMsgCount, era, last, inbox>>
    BY <1>6 DEF ReceiverStart, ReceiverCommand, ReceiverFinish, R!Command, R!Save,
                R!Push, senderVars, receiverVars
  <2> QED
    BY <2>1, OrderUnchanged DEF orderVars, NextStamp
<1>7. CASE ReceiverStop
  <2>1. inbox' = <<>> /\ UNCHANGED <<pc, sendMsgCount, era, last>>
    BY <1>7 DEF ReceiverStop, senderVars
  <2>2. UNCHANGED NextStamp
    BY <2>1 DEF NextStamp
  <2> QED
    BY <2>1, <2>2 DEF InOrder
<1>8. CASE ReceiverReceive
  <2>1. /\ inbox # <<>> /\ inbox' = Tail(inbox) /\ last' = Stamp(Head(inbox))
        /\ UNCHANGED <<pc, sendMsgCount, era>>
    BY <1>8 DEF ReceiverReceive, R!Receive, senderVars, Stamp
  <2>2. UNCHANGED NextStamp
    BY <2>1 DEF NextStamp
  <2>3. /\ Head(inbox) = inbox[1] /\ Len(inbox) \in Nat /\ 1 \in 1 .. Len(inbox)
        /\ DOMAIN inbox = 1 .. Len(inbox) /\ DOMAIN inbox' = 1 .. Len(inbox) - 1
        /\ \A n \in DOMAIN inbox' : inbox'[n] = inbox[n + 1]
    BY <1>0, <2>1
  <2> QED
    BY <2>1, <2>2, <2>3 DEF InOrder
<1> QED
  BY <1>1, <1>2, <1>3, <1>4, <1>5, <1>6, <1>7, <1>8 DEF Next, SenderStep

(* As long as the sender's numbers do not wrap, no message is received     *)
(* twice or after a later one, whichever process is restarted when.        *)
THEOREM MessagesInOrder == NoWrapSpec => []InOrder
<1>1. Init => InOrder
  BY SystemAssumption DEF Init, S!Init, S!Udp!Init, R!Init, InOrder, Earlier, NextStamp
<1>2. [Next /\ NoWrap]_vars => [Next]_vars
  OBVIOUS
<1> QED
  BY <1>1, <1>2, TInvInit, TInvStep, OrderStep, PTL DEF NoWrapSpec
-----------------------------------------------------------------------------
(* The messages sent to an address that is out of date *)

(* Commands are read in the order of the receiver's starts. *)
Sorted ==
  /\ \A n \in DOMAIN commands : heard <= commands[n].data
  /\ \A n, o \in DOMAIN commands : n < o => commands[n].data <= commands[o].data

LEMMA SortedStep == TInv /\ Sorted /\ [Next]_vars => Sorted'
<1> SUFFICES ASSUME TInv, Sorted, [Next]_vars PROVE Sorted'
  OBVIOUS
<1>0. /\ commands \in Seq([from : Ports, data : Nat])
      /\ life \in Nat /\ heard \in 0 .. life
      /\ DOMAIN commands = 1 .. Len(commands) /\ Len(commands) \in Nat
      /\ \A n \in DOMAIN commands : commands[n].data \in 0 .. life
  BY DEF TInv, TypeOK, S!TypeOK, S!Udp!TypeOK, S!Udp!Datagram, Known
<1>1. CASE UNCHANGED <<commands, heard>>
  BY <1>1 DEF Sorted
<1>2. CASE SenderStart
  <2>1. UNCHANGED commands /\ heard' = 0
    BY <1>2 DEF SenderStart, S!Start, S!Udp!construct
  <2> QED
    BY <1>0, <2>1 DEF Sorted
<1>3. CASE SenderStop
  <2>1. commands' = <<>>
    BY <1>3 DEF SenderStop, S!Stop
  <2> QED
    BY <2>1 DEF Sorted
<1>4. CASE SenderRecv /\ S!Udp!recv_bytes
  <2>1. commands # <<>> /\ commands' = Tail(commands)
    BY <1>4 DEF S!Udp!recv_bytes
  <2>2. /\ Len(commands) >= 1 /\ Head(commands) = commands[1]
        /\ Len(commands') = Len(commands) - 1
        /\ DOMAIN commands' = 1 .. Len(commands) - 1
        /\ \A n \in DOMAIN commands' : commands'[n] = commands[n + 1]
    BY <1>0, <2>1
  <2>3. heard' = commands[1].data
    <3>1. commands' # commands
      BY <1>0, <2>2
    <3> QED
      BY <1>4, <2>2, <3>1 DEF SenderRecv
  <2>4. \A n \in DOMAIN commands' : heard' <= commands'[n].data
    <3> SUFFICES ASSUME NEW n \in DOMAIN commands' PROVE commands[1].data <= commands[n + 1].data
      BY <2>2, <2>3
    <3>1. 1 \in DOMAIN commands /\ n + 1 \in DOMAIN commands /\ 1 < n + 1
      BY <1>0, <2>2
    <3> QED
      BY <3>1 DEF Sorted
  <2>5. \A n, o \in DOMAIN commands' : n < o => commands'[n].data <= commands'[o].data
    <3> SUFFICES ASSUME NEW n \in DOMAIN commands', NEW o \in DOMAIN commands', n < o
                 PROVE  commands[n + 1].data <= commands[o + 1].data
      BY <2>2
    <3>1. n + 1 \in DOMAIN commands /\ o + 1 \in DOMAIN commands /\ n + 1 < o + 1
      BY <1>0, <2>2
    <3> QED
      BY <3>1 DEF Sorted
  <2> QED
    BY <2>4, <2>5 DEF Sorted
<1>5. CASE ReceiverCommand
  <2>1. UNCHANGED heard
    BY <1>5 DEF ReceiverCommand
  <2>2. CASE \E p \in Ports : commands' = Append(commands, [from |-> p, data |-> life])
    <3>1. PICK p \in Ports : commands' = Append(commands, [from |-> p, data |-> life])
      BY <2>2
    <3>2. /\ DOMAIN commands' = 1 .. Len(commands) + 1
          /\ commands'[Len(commands) + 1].data = life
          /\ \A n \in DOMAIN commands : commands'[n] = commands[n]
      BY <1>0, <3>1
    <3>3. \A n \in DOMAIN commands' : n \in DOMAIN commands \/ n = Len(commands) + 1
      BY <1>0, <3>2
    <3>4. \A n \in DOMAIN commands' : heard <= commands'[n].data
      BY <1>0, <3>2, <3>3 DEF Sorted
    <3>5. \A n, o \in DOMAIN commands' : n < o => commands'[n].data <= commands'[o].data
      <4> SUFFICES ASSUME NEW n \in DOMAIN commands', NEW o \in DOMAIN commands', n < o
                   PROVE  commands'[n].data <= commands'[o].data
        OBVIOUS
      <4>1. n \in DOMAIN commands /\ commands'[n].data = commands[n].data
        BY <1>0, <3>2, <3>3
      <4>2. CASE o = Len(commands) + 1
        BY <1>0, <3>2, <4>1, <4>2
      <4>3. CASE o \in DOMAIN commands
        BY <3>2, <4>1, <4>3 DEF Sorted
      <4> QED
        BY <3>3, <4>2, <4>3
    <3> QED
      BY <2>1, <3>4, <3>5 DEF Sorted
  <2> QED
    BY <1>1, <1>5, <2>1, <2>2 DEF ReceiverCommand, S!Udp!arrive
<1>6. CASE SenderRecv /\ UNCHANGED S!socketVars
  BY <1>1, <1>6 DEF SenderRecv, S!socketVars
<1>7. CASE \/ UNCHANGED vars \/ SenderSelect \/ SenderSend
           \/ (S!SkipSend \/ S!Sleep) /\ UNCHANGED heard
           \/ ReceiverStart \/ ReceiverStop \/ ReceiverReceive \/ ReceiverFinish
  <2>1. UNCHANGED <<commands, heard>>
    BY <1>7 DEF vars, senderVars, SenderSelect, S!Select, S!Udp!selectError,
        S!Udp!selectReady, S!Udp!selectTimeout, SenderSend, S!Send, S!SkipSend,
        S!Sleep, S!socketVars, ReceiverStart, ReceiverStop, ReceiverReceive,
        ReceiverFinish
  <2> QED
    BY <1>1, <2>1
<1> QED
  BY <1>2, <1>3, <1>4, <1>5, <1>6, <1>7 DEF Next, SenderStep, SenderRecv, S!Recv

(* The p-th waiting command is one of the latest receiver's. *)
Own(p) == p \in DOMAIN commands /\ commands[p].data = life

(* How many messages may be sent before the p-th command is read: each     *)
(* round reads one command before it sends, unless this round is past      *)
(* reading or select has found nothing to read.                            *)
Ahead(p) == IF pc = "send" \/ (pc = "recv" /\ ~recvSet) THEN p ELSE p - 1

(* While the latest receiver is unheard, no command of its waits and       *)
(* nothing has been counted yet, or one waits and what may still be sent   *)
(* before it is read keeps the count within the buffer's size.             *)
Bounded ==
  /\ staleSends <= CmdBuf
  /\ pc # "down" /\ heard # life =>
       \/ staleSends = 0 /\ \A n \in DOMAIN commands : ~Own(n)
       \/ \E p \in DOMAIN commands : Own(p) /\ staleSends + Ahead(p) <= CmdBuf

LEMMA BoundedInit == Init => Bounded
BY SystemAssumption DEF Init, S!Init, Bounded

(* A step that leaves these alone leaves the bound as it is. *)
LEMMA BoundedUnchanged ==
  ASSUME Bounded, UNCHANGED <<pc, recvSet, commands, life, heard, staleSends>>
  PROVE  Bounded'
BY DEF Bounded, Own, Ahead

LEMMA BoundedStep ==
  ASSUME "recv" \notin Failures, TInv, Sorted, Bounded, [Next]_vars
  PROVE  Bounded'
<1> USE SystemAssumption
<1>0. /\ commands \in Seq([from : Ports, data : Nat]) /\ Len(commands) <= CmdBuf
      /\ life \in Nat /\ heard \in 0 .. life /\ staleSends \in Nat
      /\ DOMAIN commands = 1 .. Len(commands) /\ Len(commands) \in Nat
  BY DEF TInv, TypeOK, S!TypeOK, S!Udp!TypeOK, S!Udp!Datagram
<1>1. CASE UNCHANGED vars
  BY <1>1, BoundedUnchanged DEF vars, senderVars
<1>2. CASE SenderStart
  <2>1. pc = "down" /\ staleSends' = 0 /\ heard' = 0 /\ UNCHANGED <<commands, life>>
    BY <1>2 DEF SenderStart, S!Start, S!Udp!construct
  <2>2. commands = <<>>
    BY <2>1 DEF TInv, Down
  <2> QED
    BY <2>1, <2>2 DEF Bounded, Own
<1>3. CASE SenderStop
  BY <1>3 DEF SenderStop, S!Stop, Bounded
<1>4. CASE SenderSelect
  <2>1. /\ pc = "select" /\ pc' \in {"select", "recv"}
        /\ UNCHANGED <<commands, life, heard, staleSends>>
        /\ pc' = "recv" => recvSet' \/ commands = <<>>
    <3>1. recvSet \in BOOLEAN
      BY DEF TInv, TypeOK, S!TypeOK, S!Udp!TypeOK
    <3> QED
      BY <1>4 DEF SenderSelect, S!Select, S!Udp!selectError, S!Udp!selectReady,
                  S!Udp!selectTimeout
  <2>2. \A p \in DOMAIN commands : Ahead(p)' = Ahead(p)
    BY <1>0, <2>1 DEF Ahead
  <2> QED
    BY <2>1, <2>2 DEF Bounded, Own
<1>5. CASE SenderRecv
  <2>1. /\ pc = "recv" /\ pc' = "send" /\ UNCHANGED <<life, staleSends>>
    BY <1>5 DEF SenderRecv, S!Recv
  <2>2. CASE UNCHANGED S!socketVars /\ (~recvSet \/ commands = <<>>)
    <3>1. UNCHANGED <<commands, heard>>
      BY <1>5, <2>2 DEF SenderRecv, S!socketVars
    <3>2. \A p \in DOMAIN commands : Ahead(p)' = Ahead(p)
      BY <1>0, <2>1, <2>2 DEF Ahead
    <3> QED
      BY <2>1, <3>1, <3>2 DEF Bounded, Own
  <2>3. CASE recvSet /\ S!Udp!recv_bytes
    <3>1. commands # <<>> /\ commands' = Tail(commands)
      BY <2>3 DEF S!Udp!recv_bytes
    <3>2. /\ Len(commands) >= 1 /\ Head(commands) = commands[1]
          /\ Len(commands') = Len(commands) - 1
          /\ DOMAIN commands' = 1 .. Len(commands) - 1
          /\ \A n \in DOMAIN commands' : commands'[n] = commands[n + 1]
      BY <1>0, <3>1
    <3>3. heard' = commands[1].data
      <4>1. commands' # commands
        BY <1>0, <3>2
      <4> QED
        BY <1>5, <3>2, <4>1 DEF SenderRecv
    <3>4. CASE Own(1)
      BY <2>1, <3>3, <3>4 DEF Bounded, Own
    <3>5. CASE ~Own(1)
      <4>1. heard # life
        BY <1>0, <3>2, <3>5 DEF Sorted, Own, TInv, Known
      <4>2. CASE staleSends = 0 /\ \A n \in DOMAIN commands : ~Own(n)
        BY <1>0, <2>1, <3>2, <4>2 DEF Bounded, Own
      <4>3. ASSUME NEW p \in DOMAIN commands, Own(p), staleSends + Ahead(p) <= CmdBuf
            PROVE  Bounded'
        <5>1. p > 1 /\ p - 1 \in DOMAIN commands'
          BY <1>0, <3>2, <3>5, <4>3
        <5>2. Own(p - 1)'
          BY <1>0, <2>1, <3>2, <4>3, <5>1 DEF Own
        <5>3. Ahead(p - 1)' = Ahead(p)
          BY <1>0, <2>1, <2>3, <5>1 DEF Ahead
        <5> QED
          BY <2>1, <4>3, <5>1, <5>2, <5>3 DEF Bounded
      <4> QED
        BY <2>1, <4>1, <4>2, <4>3 DEF Bounded
    <3> QED
      BY <3>4, <3>5
  <2> QED
    BY <1>5, <2>2, <2>3 DEF SenderRecv, S!Recv
<1>6. CASE SenderSend
  <2>1. /\ pc = "send" /\ pc' = "sleep" /\ UNCHANGED <<commands, life, heard>>
        /\ staleSends' = staleSends + (IF Unheard THEN 1 ELSE 0)
    BY <1>6 DEF SenderSend, S!Send, S!socketVars
  <2>2. \A p \in DOMAIN commands : Ahead(p)' = Ahead(p) - 1
    BY <1>0, <2>1 DEF Ahead
  <2>3. CASE ~Unheard
    <3>1. staleSends' = staleSends
      BY <1>0, <2>1, <2>3
    <3> QED
      BY <1>0, <2>1, <2>3, <3>1 DEF Bounded, Own, Unheard
  <2>4. CASE Unheard
    <3>1. PICK p \in DOMAIN commands : Own(p) /\ staleSends + Ahead(p) <= CmdBuf
      BY <2>1, <2>4 DEF Bounded, Unheard, Own
    <3>2. Ahead(p) = p /\ p >= 1 /\ Ahead(p)' = p - 1
      BY <1>0, <2>1, <2>2 DEF Ahead
    <3>3. staleSends' = staleSends + 1 /\ staleSends' <= CmdBuf
          /\ staleSends' + Ahead(p)' <= CmdBuf
      BY <1>0, <2>1, <2>4, <3>1, <3>2
    <3>4. Own(p)'
      BY <2>1, <3>1 DEF Own
    <3> QED
      BY <2>1, <3>3, <3>4 DEF Bounded
  <2> QED
    BY <2>3, <2>4
<1>7. CASE (S!SkipSend \/ S!Sleep) /\ UNCHANGED <<life, heard, staleSends>>
  <2>1. /\ pc \in {"send", "sleep"} /\ pc' \in {"sleep", "select"}
        /\ UNCHANGED <<commands, life, heard, staleSends>>
    BY <1>7 DEF S!SkipSend, S!Sleep, S!socketVars
  <2>2. \A p \in DOMAIN commands : Ahead(p) \in Nat /\ Ahead(p)' \in Nat /\ Ahead(p)' <= Ahead(p)
    BY <1>0, <2>1 DEF Ahead
  <2>3. \A p \in DOMAIN commands :
          staleSends + Ahead(p) <= CmdBuf => staleSends + Ahead(p)' <= CmdBuf
    BY <1>0, <2>2
  <2> QED
    BY <2>1, <2>3 DEF Bounded, Own
<1>8. CASE ReceiverStart
  <2>1. life' = life + 1 /\ staleSends' = 0 /\ UNCHANGED <<pc, commands, heard>>
    BY <1>8 DEF ReceiverStart, senderVars
  <2>2. \A n \in DOMAIN commands : commands[n].data # life + 1
    BY <1>0 DEF TInv, Known
  <2> QED
    BY <2>1, <2>2 DEF Bounded, Own
<1>9. CASE ReceiverStop \/ ReceiverReceive \/ ReceiverFinish
  BY <1>9, BoundedUnchanged DEF ReceiverStop, ReceiverReceive, ReceiverFinish, senderVars
<1>10. CASE ReceiverCommand
  <2>1. UNCHANGED <<pc, life, heard, staleSends>>
    BY <1>10 DEF ReceiverCommand
  <2>2. CASE UNCHANGED <<recvSet, commands>>
    BY <2>1, <2>2, BoundedUnchanged
  <2>3. CASE \E p \in Ports : S!Udp!arrive([from |-> p, data |-> life])
    <3>1. PICK from \in Ports :
            /\ commands' = Append(commands, [from |-> from, data |-> life])
            /\ Len(commands) < CmdBuf /\ UNCHANGED recvSet
      BY <2>3 DEF S!Udp!arrive
    <3>2. /\ DOMAIN commands' = 1 .. Len(commands) + 1
          /\ commands'[Len(commands) + 1].data = life
          /\ \A n \in DOMAIN commands : commands'[n] = commands[n]
      BY <1>0, <3>1
    <3>3. \A n \in 1 .. Len(commands) + 1 : Ahead(n)' = Ahead(n) /\ Ahead(n) <= n
      BY <2>1, <3>1 DEF Ahead
    <3>4. CASE staleSends = 0
      <4>1. PICK p \in DOMAIN commands' : p = Len(commands) + 1
        BY <1>0, <3>2
      <4>2. Own(p)'
        BY <2>1, <3>2, <4>1 DEF Own
      <4>3. Ahead(p)' <= CmdBuf /\ Ahead(p)' \in Nat
        BY <1>0, <2>1, <3>1, <4>1 DEF Ahead
      <4>4. staleSends' + Ahead(p)' <= CmdBuf /\ staleSends' <= CmdBuf
        BY <2>1, <3>4, <4>3
      <4> QED
        BY <4>2, <4>4 DEF Bounded
    <3>5. ASSUME NEW p \in DOMAIN commands, Own(p), staleSends + Ahead(p) <= CmdBuf
          PROVE  Bounded'
      <4>1. p \in DOMAIN commands' /\ Own(p)' /\ staleSends' + Ahead(p)' <= CmdBuf
        BY <1>0, <2>1, <3>2, <3>3, <3>5 DEF Own
      <4> QED
        BY <2>1, <4>1 DEF Bounded
    <3> QED
      BY <2>1, <3>4, <3>5 DEF Bounded
  <2> QED
    BY <1>10, <2>2, <2>3 DEF ReceiverCommand
<1> QED
  BY <1>1, <1>2, <1>3, <1>4, <1>5, <1>6, <1>7, <1>8, <1>9, <1>10 DEF Next, SenderStep

(* If reading does not fail, a receiver that has been started again misses *)
(* at most as many messages as the sender's buffer holds commands.         *)
THEOREM StaleSendsBounded == Spec => []StaleBounded
<1>1. CASE "recv" \notin Failures
  <2>1. Init => Sorted
    BY DEF Init, S!Init, S!Udp!Init, Sorted
  <2>2. TInv /\ Sorted /\ Bounded /\ [Next]_vars => Bounded'
    BY <1>1, BoundedStep
  <2>3. Bounded => StaleBounded
    BY DEF Bounded, StaleBounded
  <2> QED
    BY <2>1, <2>2, <2>3, TInvInit, TInvStep, SortedStep, BoundedInit, PTL DEF Spec
<1>2. CASE "recv" \in Failures
  <2>1. StaleBounded
    BY <1>2 DEF StaleBounded
  <2> QED
    BY <2>1, PTL
<1> QED
  BY <1>1, <1>2
=============================================================================
