------------------------------- MODULE System -------------------------------
(***************************************************************************)
(* Both processes.  The sender (Sender.tla) and the receiver (Receiver.tla,*)
(* which the threads of Client.tla implement) exchange commands and        *)
(* messages over the loopback, client.cpp:14: a datagram is in the         *)
(* destination's buffer when sendto returns, or dropped because the buffer *)
(* is full or nobody has the address.  Either process may end at any time, *)
(* killed, or the receiver because the wait at main.cpp:24 has no predicate*)
(* and returns on a spurious wakeup, and be started again.                 *)
(***************************************************************************)
EXTENDS Naturals, Sequences

CONSTANTS
  Ports,         \* the addresses the kernel may give the receiver's socket
  None,
  Ids,           \* message ids repeat after so many: 20, MakeMessageDiv20
  ResendID,      \* TCPResendID, 10
  CountLimit,    \* message numbers: 2^64
  CmdBuf,        \* commands the sender's socket holds
  RecvBuf,       \* messages the receiver's socket holds
  Failures       \* the system calls that may fail

(* A message with a stamp: the sender's start and the message number. *)
Stamps == [MessageId : Nat, MessageData : Nat, era : Nat]

ASSUME SystemAssumption ==
  /\ None \notin Ports /\ None \notin Stamps
  /\ Ids \in Nat \ {0} /\ ResendID \in Nat
  /\ CountLimit \in Nat \ {0}
  /\ CmdBuf \in Nat \ {0} /\ RecvBuf \in Nat \ {0}

VARIABLES
  \* the sender
  pc, sendMsgCount, bound, open, peer, commands, recvSet, sendSet,
  \* the receiver
  up, address, inbox, hand, todo, m_container, handed,
  \* History: the starts of each process so far; the receiver's start whose
  \* command the sender read last; the stamp of the last message received;
  \* the messages sent while a command of the latest receiver was waiting.
  era, life, heard, last, staleSends

(* MakeMessageDiv20(n) of the sender's start e. *)
Stamped(e, n) == [MessageId |-> n % Ids, MessageData |-> n, era |-> e]

S == INSTANCE Sender WITH Clients <- Ports, Commands <- Nat
R == INSTANCE Receiver WITH
       Messages <- Stamps,
       Relayed  <- {m \in Stamps : m.MessageId = ResendID}

senderVars   == <<pc, sendMsgCount, bound, open, peer, commands, recvSet,
                  sendSet>>
receiverVars == <<address, inbox, hand, todo, m_container, handed>>

vars == <<senderVars, up, receiverVars, era, life, heard, last, staleSends>>

Init ==
  /\ S!Init /\ R!Init /\ up = FALSE
  /\ era = 0 /\ life = 0 /\ heard = 0 /\ last = [era |-> 0, number |-> 0]
  /\ staleSends = 0

-----------------------------------------------------------------------------
(* The sender *)

SenderStart ==
  /\ S!Start
  /\ era' = era + 1 /\ heard' = 0 /\ staleSends' = 0
  /\ UNCHANGED <<up, receiverVars, life, last>>

SenderStop ==
  /\ S!Stop
  /\ UNCHANGED <<up, receiverVars, era, life, heard, last, staleSends>>

SenderRecv ==
  /\ S!Recv
  /\ heard' = IF commands' = commands THEN heard ELSE Head(commands).data
  /\ UNCHANGED <<up, receiverVars, era, life, last, staleSends>>

(* A command of the latest receiver waits, and none of its has been read.  *)
Unheard == heard # life /\ \E n \in DOMAIN commands : commands[n].data = life

(* Mutant of SenderSend: the number is that of the last message again.     *)
SenderSendAgain ==
  /\ S!Send
  /\ \/ peer = address /\ R!Arrive(Stamped(era, IF sendMsgCount = 0 THEN 0
                                                ELSE sendMsgCount - 1))
     \/ peer # address /\ UNCHANGED receiverVars
  /\ staleSends' = staleSends + (IF Unheard THEN 1 ELSE 0)
  /\ UNCHANGED <<up, era, life, heard, last>>

(* The message arrives, unless sendto fails, the address is out of date or *)
(* the receiver's buffer is full.                                          *)
SenderSend ==
  /\ S!Send
  /\ \/ peer = address /\ R!Arrive(Stamped(era, sendMsgCount))
     \/ /\ "send" \in Failures \/ peer # address \/ Len(inbox) = RecvBuf
        /\ UNCHANGED receiverVars
  /\ staleSends' = staleSends + (IF Unheard THEN 1 ELSE 0)
  /\ UNCHANGED <<up, era, life, heard, last>>

SenderStep ==
  \/ SenderRecv \/ SenderSend
  \/ /\ S!SkipSend \/ S!Sleep
     /\ UNCHANGED <<up, receiverVars, era, life, heard, last, staleSends>>

SenderSelect ==
  /\ S!Select
  /\ UNCHANGED <<up, receiverVars, era, life, heard, last, staleSends>>

-----------------------------------------------------------------------------
(* The receiver *)

ReceiverStart ==
  /\ ~up /\ up' = TRUE
  /\ life' = life + 1 /\ staleSends' = 0
  /\ UNCHANGED <<senderVars, receiverVars, era, heard, last>>

(* The process ends with everything it holds: the socket and its messages, *)
(* the saved ones and the ones to be resent.                               *)
ReceiverStop ==
  /\ up /\ up' = FALSE
  /\ address' = None /\ inbox' = <<>> /\ hand' = None /\ todo' = "receive"
  /\ m_container' = [k \in {} |-> 0] /\ handed' = <<>>
  /\ UNCHANGED <<senderVars, era, life, heard, last, staleSends>>

(* A command goes out; it is dropped if no socket is bound to the sender's *)
(* port or its buffer is full.                                             *)
ReceiverCommand ==
  /\ up
  /\ \E p \in Ports :
       /\ R!Command(p)
       /\ \/ bound /\ S!Udp!arrive([from |-> p, data |-> life])
          \/ /\ ~bound \/ Len(commands) = CmdBuf
             /\ UNCHANGED <<open, peer, commands, recvSet, sendSet>>
  /\ UNCHANGED <<pc, sendMsgCount, bound, up, era, life, heard, last,
                 staleSends>>

ReceiverReceive ==
  /\ R!Receive
  /\ last' = [era |-> Head(inbox).era, number |-> Head(inbox).MessageData]
  /\ UNCHANGED <<senderVars, up, era, life, heard, staleSends>>

ReceiverFinish ==
  /\ R!Save \/ R!Push
  /\ UNCHANGED <<senderVars, up, era, life, heard, last, staleSends>>

-----------------------------------------------------------------------------
Next ==
  \/ SenderStart \/ SenderStop \/ SenderSelect \/ SenderStep
  \/ ReceiverStart \/ ReceiverStop \/ ReceiverCommand \/ ReceiverReceive
  \/ ReceiverFinish

Spec == Init /\ [][Next]_vars

(* As long as the message numbers do not wrap. *)
NoWrap == S!Send => sendMsgCount + 1 < CountLimit

NoWrapSpec == Init /\ [][Next /\ NoWrap]_vars

(* A running process takes its next step.  Its socket is writable again    *)
(* and again, since a datagram leaves it at once; so select, which may     *)
(* fail any number of times, does not fail for ever.  The receiver sends a *)
(* command before each message it receives.                                *)
Fairness ==
  /\ WF_vars(SenderStep)
  /\ SF_vars(SenderSelect /\ pc' = "recv" /\ sendSet'
               /\ recvSet' = (commands # <<>>))
  /\ SF_vars(ReceiverCommand)
  /\ WF_vars(ReceiverReceive)
  /\ WF_vars(ReceiverFinish)

FairSpec == Spec /\ Fairness
-----------------------------------------------------------------------------
TypeOK ==
  /\ S!TypeOK /\ R!TypeOK
  /\ up \in BOOLEAN /\ (~up => address = None /\ todo = "receive")
  /\ era \in Nat /\ life \in Nat /\ heard \in 0 .. life
  /\ last \in [era : Nat, number : Nat]
  /\ staleSends \in Nat

Earlier(s, t) == s.era < t.era \/ (s.era = t.era /\ s.number < t.number)

NextStamp == [era    |-> IF pc = "down" THEN era + 1 ELSE era,
              number |-> sendMsgCount]

Stamp(m) == [era |-> m.era, number |-> m.MessageData]

(* Messages may be lost, and each number is used up all the same: as long  *)
(* as the numbers do not wrap, no message is received twice or after a     *)
(* later one, across restarts of both processes.  The last one received is *)
(* earlier than those waiting, which are in order and earlier than the     *)
(* next one to be sent.                                                    *)
InOrder ==
  /\ Earlier(last, NextStamp)
  /\ \A n \in DOMAIN inbox : /\ Earlier(last, Stamp(inbox[n]))
                            /\ Earlier(Stamp(inbox[n]), NextStamp)
  /\ \A n, o \in DOMAIN inbox :
       n < o => Earlier(Stamp(inbox[n]), Stamp(inbox[o]))

(* The sender reads a command before each message.  So a receiver that has *)
(* been started again, once a command of its is in the sender's buffer,    *)
(* misses at most as many messages as that buffer holds commands, although *)
(* the commands of its predecessors come first.                            *)
StaleBounded == "recv" \notin Failures => staleSends <= CmdBuf

Both == up /\ bound

(* A receiver that keeps running is found by a sender that does: one of    *)
(* its commands is read in the end, however many older ones there are and  *)
(* however many of its own were dropped at the full buffer.                *)
ReceiverFound == (Both /\ heard # life) ~> (~Both \/ heard = life)

(* Two processes that both keep running exchange messages for ever.        *)
KeepsReceiving == <>[]Both => []<><<ReceiverReceive>>_vars
=============================================================================
