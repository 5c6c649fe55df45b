----------------------------- MODULE UdpSocket -----------------------------
(***************************************************************************)
(* common/udp_socket.cpp: one end of the UDP conversation, used by the     *)
(* receiver as a Client socket and by the sender as a Server socket.  The  *)
(* socket is non-blocking; select() is what the threads wait in.           *)
(***************************************************************************)
EXTENDS Naturals, Sequences

CONSTANTS Addresses,   \* the addresses datagrams come from
          NoAddress,   \* an all-zero sockaddr_in
          Payloads,    \* what a datagram carries
          RecvBuf      \* datagrams the kernel keeps for the socket

VARIABLES
  open,      \* m_socket > 0
  peer,      \* servaddr of a Client socket, cliaddr of a Server socket
  inbox,     \* the kernel's receive buffer
  recvSet,   \* m_socket is in m_recvSocketSet
  sendSet    \* m_socket is in m_sendSocketSet

socketVars == <<open, peer, inbox, recvSet, sendSet>>

Datagram == [from : Addresses, data : Payloads]

TypeOK ==
  /\ open \in BOOLEAN
  /\ peer \in Addresses \cup {NoAddress}
  /\ inbox \in Seq(Datagram) /\ Len(inbox) <= RecvBuf
  /\ recvSet \in BOOLEAN /\ sendSet \in BOOLEAN

(* The socket before its constructor has run. *)
Init ==
  /\ open = FALSE /\ peer = NoAddress /\ inbox = <<>>
  /\ recvSet = FALSE /\ sendSet = FALSE

(* init_socket and, with address the peer to talk to (NoAddress for a      *)
(* Server socket), bind.  socket() may fail and leave m_socket at -1.      *)
construct(success, address) ==
  /\ open' = success
  /\ peer' = address
  /\ UNCHANGED <<inbox, recvSet, sendSet>>

(* select() after preSelect has put the socket into both sets: an error    *)
(* leaves the sets alone, a timeout empties them.                          *)
selectError ==
  /\ recvSet' = TRUE /\ sendSet' = TRUE
  /\ UNCHANGED <<open, peer, inbox>>

selectTimeout ==
  /\ inbox = <<>>
  /\ recvSet' = FALSE /\ sendSet' = FALSE
  /\ UNCHANGED <<open, peer, inbox>>

selectReady ==
  /\ recvSet' = (inbox # <<>>)
  /\ sendSet' \in BOOLEAN
  /\ recvSet' \/ sendSet'
  /\ UNCHANGED <<open, peer, inbox>>

(* hasServer() of a Client socket, hasClient() of a Server socket. *)
hasPeer == peer # NoAddress

(* A successful recv_bytes takes the oldest datagram and makes its sender  *)
(* the peer; a failed one changes nothing.                                 *)
recv_bytes ==
  /\ inbox # <<>>
  /\ inbox' = Tail(inbox)
  /\ peer' = Head(inbox).from
  /\ UNCHANGED <<open, recvSet, sendSet>>

(* The kernel accepts a datagram for the socket, or drops it when full. *)
arrive(d) ==
  /\ open
  /\ Len(inbox) < RecvBuf
  /\ inbox' = Append(inbox, d)
  /\ UNCHANGED <<open, peer, recvSet, sendSet>>
=============================================================================
