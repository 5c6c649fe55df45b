------------------------------ MODULE TcpLink ------------------------------
(***************************************************************************)
(* The TCP connection the receiver process opens to itself: the listening  *)
(* thread of common/tcp_server.cpp (start_) and the client end of          *)
(* common/tcp_socket.cpp.  Both live in one process and start              *)
(* concurrently.  The connection is a sequence of whole messages: the      *)
(* bytes amount to that as long as no send is cut in two by full buffers.  *)
(***************************************************************************)
EXTENDS Naturals, Sequences

CONSTANTS Messages,
          TcpBuf,      \* messages the two socket buffers hold together
          Failures     \* the system calls that may fail in this instance

VARIABLES
  srv,           \* where the thread m_tcpServer is in start_
  listening,     \* the kernel accepts connections on SendTcpPort
  m_connected,   \* TCPSocket::m_connected
  stream,        \* messages sent and not yet received
  served         \* messages start_ has received and reported, in order

linkVars == <<srv, listening, m_connected, stream, served>>

SrvLabels == {"unborn", "socket", "bind", "listen", "accept", "recv", "returned"}

TypeOK ==
  /\ srv \in SrvLabels
  /\ listening \in BOOLEAN /\ m_connected \in BOOLEAN
  /\ stream \in Seq(Messages) /\ Len(stream) <= TcpBuf
  /\ served \in Seq(Messages)

Init ==
  /\ srv = "unborn" /\ listening = FALSE /\ m_connected = FALSE
  /\ stream = <<>> /\ served = <<>>

startServer ==
  /\ srv = "unborn"
  /\ srv' = "socket"
  /\ UNCHANGED <<listening, m_connected, stream, served>>

(* start_ up to the accept loop.  Any failing call ends the thread, and    *)
(* nothing closes the sockets opened so far.                               *)
serverFails ==
  /\ srv \in Failures \cap {"socket", "bind", "listen", "accept"}
  /\ srv' = "returned"
  /\ UNCHANGED <<listening, m_connected, stream, served>>

serverSocket ==
  /\ srv = "socket" /\ srv' = "bind"
  /\ UNCHANGED <<listening, m_connected, stream, served>>

serverBind ==
  /\ srv = "bind" /\ srv' = "listen"
  /\ UNCHANGED <<listening, m_connected, stream, served>>

serverListen ==
  /\ srv = "listen" /\ srv' = "accept"
  /\ listening' = TRUE
  /\ UNCHANGED <<m_connected, stream, served>>

(* accept() returns once the kernel has completed the client's connect. *)
serverAccept ==
  /\ srv = "accept" /\ m_connected
  /\ srv' = "recv"
  /\ UNCHANGED <<listening, m_connected, stream, served>>

(* Mutant of serverRecv: one message only. *)
serverRecvOnce ==
  /\ srv = "recv" /\ stream # <<>>
  /\ served' = Append(served, Head(stream))
  /\ stream' = Tail(stream)
  /\ srv' = "returned"
  /\ UNCHANGED <<listening, m_connected>>

(* One round of the receive loop.  recv() blocks while the stream is empty *)
(* and the peer, a socket of the same process, never closes it.            *)
serverRecv ==
  /\ srv = "recv" /\ stream # <<>>
  /\ served' = Append(served, Head(stream))
  /\ stream' = Tail(stream)
  /\ UNCHANGED <<srv, listening, m_connected>>

ListeningThread ==
  \/ serverFails \/ serverSocket \/ serverBind \/ serverListen
  \/ serverAccept \/ serverRecv

(* One attempt: refused unless the server is listening by now. *)
connect ==
  /\ \/ listening /\ m_connected' = TRUE
     \/ (~listening \/ "connect" \in Failures) /\ m_connected' = FALSE
  /\ UNCHANGED <<srv, listening, stream, served>>

(* send() on a blocking socket waits for room. *)
sendBytes(m) ==
  /\ Len(stream) < TcpBuf
  /\ stream' = Append(stream, m)
  /\ UNCHANGED <<srv, listening, m_connected, served>>
=============================================================================
