----------------------------- MODULE MCRoundRobin -----------------------------
(* RoundRobinScheduler on two links, with two classic buffers and one LE.     *)
(* The behaviours are of two kinds: steady ones, in which no link goes down,  *)
(* and the others, in which the links of Fragile may.                         *)
EXTENDS RoundRobinScheduler

VARIABLE steady

MCMaxCredits == [t \in Types |-> IF t = "CLASSIC" THEN 2 ELSE 1]

MCInit == Init /\ steady \in BOOLEAN
MCNext == Next /\ (steady => live \subseteq live') /\ UNCHANGED steady

\* What the handler does with the tasks and the queue ends it finds ready, and
\* what the controller does with its packets.
HandlerStep ==
  \/ posted_round_robin
  \/ handle_enqueue_next_fragment
  \/ \E h \in Handles :
       \/ buffer_packet(h)
       \/ Unregister(h)
       \/ \E n \in 1..completed[h] : incoming_acl_credits(h, n)
ControllerStep == CtlReceive \/ \E h \in Handles : CtlComplete(h)

\* Less than Fairness: the handler and the controller do something, in any
\* order they like.
MCSpec ==
  /\ MCInit /\ [][MCNext]_<<vars, steady>>
  /\ WF_vars(HandlerStep) /\ WF_vars(ControllerStep)

\* Under Fairness no task, queue end or link is left aside.
MCFairSpec == MCInit /\ [][MCNext]_<<vars, steady>> /\ Fairness

\* CreditAccounting, which Unregister breaks for fragments it reclaims before
\* they were sent.
SteadyCredits == steady => CreditAccounting

\* EveryPacketSent, which Unregister breaks by not restarting the round robin.
SteadyPacketsSent == steady => EveryPacketSent
=============================================================================
