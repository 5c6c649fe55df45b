------------------------------- MODULE Sender -------------------------------
(***************************************************************************)
(* The sender process, udp_sender/server.{h,cpp}, over a Server socket of  *)
(* UdpSocket.tla.  Its actions are conjuncts of System.tla's, which says   *)
(* where a datagram goes.  bound is m_bindStatus, which the constructor    *)
(* sets and nobody reads; without a binding nothing arrives.               *)
(***************************************************************************)
EXTENDS Naturals, Sequences

CONSTANTS
  Clients,      \* the addresses commands come from
  None,         \* no address
  Commands,     \* what a command carries
  CmdBuf,       \* commands the kernel keeps for the socket
  CountLimit,   \* message numbers: 2^64 for the size_t sendMsgCount
  Failures      \* the system calls that may fail

VARIABLES
  pc,           \* where the process is in Server::start
  sendMsgCount,
  bound,
  open, peer, commands, recvSet, sendSet   \* the socket (UdpSocket.tla)

socketVars == <<open, peer, commands, recvSet, sendSet>>
senderVars == <<pc, sendMsgCount, bound, socketVars>>

Udp == INSTANCE UdpSocket WITH Addresses <- Clients, NoAddress <- None,
                               Payloads <- Commands, RecvBuf <- CmdBuf,
                               inbox <- commands

Labels == {"down", "select", "recv", "send", "sleep"}

TypeOK ==
  /\ pc \in Labels
  /\ sendMsgCount \in 0 .. CountLimit - 1
  /\ bound \in BOOLEAN
  /\ Udp!TypeOK

Init == pc = "down" /\ sendMsgCount = 0 /\ bound = FALSE /\ Udp!Init

(* main: the constructor creates and binds the socket; start does not ask  *)
(* whether that went well.                                                 *)
Start ==
  /\ pc = "down" /\ pc' = "select"
  /\ \E created, named \in BOOLEAN :
       /\ created \/ "socket" \in Failures
       /\ named \/ "bind" \in Failures
       /\ Udp!construct(created, None)
       /\ bound' = (created /\ named)
  /\ UNCHANGED sendMsgCount

(* The process ends, and its socket with it. *)
Stop ==
  /\ pc # "down" /\ pc' = "down"
  /\ sendMsgCount' = 0 /\ bound' = FALSE
  /\ open' = FALSE /\ peer' = None /\ commands' = <<>>
  /\ recvSet' = FALSE /\ sendSet' = FALSE

(* An error starts the loop over at once; a timeout does not.  On the      *)
(* descriptor -1 FD_SET and FD_ISSET reach outside the set: either answer. *)
Select ==
  /\ pc = "select"
  /\ \/ "select" \in Failures /\ Udp!selectError /\ UNCHANGED pc
     \/ open /\ Udp!selectReady /\ pc' = "recv"
     \/ Udp!selectTimeout /\ pc' = "recv"
     \/ ~open /\ Udp!selectError /\ pc' = "recv"
  /\ UNCHANGED <<sendMsgCount, bound>>

(* Mutant of Recv: commands are read until there is a client.              *)
RecvFirstOnly ==
  /\ pc = "recv" /\ pc' = "send"
  /\ \/ recvSet /\ ~Udp!hasPeer /\ Udp!recv_bytes
     \/ /\ ~recvSet \/ Udp!hasPeer \/ commands = <<>>
        /\ UNCHANGED socketVars
  /\ UNCHANGED <<sendMsgCount, bound>>

(* readyRecv: at most one command is read per round. *)
Recv ==
  /\ pc = "recv" /\ pc' = "send"
  /\ \/ recvSet /\ Udp!recv_bytes
     \/ /\ ~recvSet \/ commands = <<>> \/ "recv" \in Failures
        /\ UNCHANGED socketVars
  /\ UNCHANGED <<sendMsgCount, bound>>

(* hasClient and readySend: a message number is used up, whether or not    *)
(* send_message succeeds.                                                  *)
Send ==
  /\ pc = "send" /\ pc' = "sleep"
  /\ Udp!hasPeer /\ sendSet
  /\ sendMsgCount' = (sendMsgCount + 1) % CountLimit
  /\ UNCHANGED <<bound, socketVars>>

SkipSend ==
  /\ pc = "send" /\ pc' = "sleep"
  /\ ~(Udp!hasPeer /\ sendSet)
  /\ UNCHANGED <<sendMsgCount, bound, socketVars>>

(* sleepMS(1000) *)
Sleep ==
  /\ pc = "sleep" /\ pc' = "select"
  /\ UNCHANGED <<sendMsgCount, bound, socketVars>>
=============================================================================
