--------------------------- MODULE MessageFormat ---------------------------
(***************************************************************************)
(* common/message_format.h.  A message is the pair of the fields the       *)
(* program's behaviour depends on; MessageSize and MessageType are 0 in    *)
(* every message it makes.                                                 *)
(***************************************************************************)
EXTENDS Naturals

Message == [MessageId : Nat, MessageData : Nat]

TCPResendID == 10

(* The message with sequence number seed of the sender: ids repeat.        *)
MakeMessageDiv20(seed) == [MessageId |-> seed % 20, MessageData |-> seed]
=============================================================================
