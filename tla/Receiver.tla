------------------------------ MODULE Receiver ------------------------------
(***************************************************************************)
(* What the threads of Client.tla achieve together, seen from the network  *)
(* and from the TCP thread: one sequential loop that sends commands,       *)
(* receives a message, saves it and hands it over if it is to be resent,   *)
(* before it turns to the next one.  Client.tla is shown to implement it;  *)
(* System.tla composes it with the sender.                                 *)
(***************************************************************************)
EXTENDS Naturals, Sequences

CONSTANTS
  Messages,    \* what the datagrams carry
  Relayed,     \* the messages for which sendViaTcpRequired holds
  Ports,       \* the addresses the kernel may give the socket
  None,        \* no address, no message
  RecvBuf      \* datagrams the kernel keeps for the socket

VARIABLES
  address,     \* the socket's address: chosen when the first command is sent
  inbox,       \* messages waiting in the socket
  hand,        \* the message being dealt with
  todo,        \* what is to be done next
  m_container, \* the saved messages, by id
  handed       \* the messages handed over to the TCP thread, in order

receiverVars == <<address, inbox, hand, todo, m_container, handed>>

Saved == INSTANCE MessageMap WITH Keys <- {m.MessageId : m \in Messages},
                                  store <- m_container

TypeOK ==
  /\ address \in Ports \cup {None}
  /\ inbox \in Seq(Messages) /\ Len(inbox) <= RecvBuf
  /\ hand \in Messages \cup {None}
  /\ todo \in {"receive", "save", "push"}
  /\ todo # "receive" <=> hand # None
  /\ todo = "push" => hand \in Relayed
  /\ \A id \in DOMAIN m_container : m_container[id] \in Messages
  /\ handed \in Seq(Relayed)

Init ==
  /\ address = None /\ inbox = <<>>
  /\ hand = None /\ todo = "receive"
  /\ Saved!Init
  /\ handed = <<>>

(* sendCommand.  An unbound socket is bound by its first sendto. *)
Command(p) ==
  /\ todo = "receive"
  /\ address \in {None, p} /\ address' = p
  /\ UNCHANGED <<inbox, hand, todo, m_container, handed>>

(* The kernel accepts a datagram for the socket. *)
Arrive(m) ==
  /\ address # None
  /\ Len(inbox) < RecvBuf
  /\ inbox' = Append(inbox, m)
  /\ UNCHANGED <<address, hand, todo, m_container, handed>>

Receive ==
  /\ todo = "receive" /\ inbox # <<>>
  /\ hand' = Head(inbox) /\ inbox' = Tail(inbox)
  /\ todo' = "save"
  /\ UNCHANGED <<address, m_container, handed>>

(* Mutant of Save: every message is to be resent. *)
SaveAndPushAll ==
  /\ todo = "save" /\ todo' = "push"
  /\ Saved!Insert(hand.MessageId, hand)
  /\ UNCHANGED <<address, inbox, hand, handed>>

(* saveMessage, then the test for the messages to resend. *)
Save ==
  /\ todo = "save"
  /\ Saved!Insert(hand.MessageId, hand)
  /\ \/ hand \in Relayed /\ todo' = "push" /\ UNCHANGED hand
     \/ hand \notin Relayed /\ todo' = "receive" /\ hand' = None
  /\ UNCHANGED <<address, inbox, handed>>

Push ==
  /\ todo = "push"
  /\ handed' = Append(handed, hand)
  /\ hand' = None /\ todo' = "receive"
  /\ UNCHANGED <<address, inbox, m_container>>

Next ==
  \/ \E p \in Ports : Command(p)
  \/ \E m \in Messages : Arrive(m)
  \/ Receive \/ Save \/ Push

Spec == Init /\ [][Next]_receiverVars
=============================================================================
