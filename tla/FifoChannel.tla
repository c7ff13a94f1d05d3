---------------------------- MODULE FifoChannel ----------------------------
(***************************************************************************)
(* What a connection-oriented L2CAP channel promises in one direction: the *)
(* service data units (SDUs) the sender hands over come out whole, once    *)
(* and in order, until the channel closes.                                 *)
(***************************************************************************)
EXTENDS Naturals, Sequences

CONSTANT Sdu        \* the SDUs that may be sent

VARIABLES
  sent,             \* the SDUs handed to the channel
  received          \* the SDUs the channel has handed out

vars == <<sent, received>>

Init == sent = <<>> /\ received = <<>>

Send ==
  /\ \E sdu \in Sdu : sent' = Append(sent, sdu)
  /\ UNCHANGED received

Receive ==
  /\ Len(received) < Len(sent)
  /\ received' = Append(received, sent[Len(received) + 1])
  /\ UNCHANGED sent

Next == Send \/ Receive

Spec == Init /\ [][Next]_vars
=============================================================================
