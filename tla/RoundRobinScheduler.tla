------------------------ MODULE RoundRobinScheduler ------------------------
(***************************************************************************)
(* The scheduler of outgoing ACL data                                      *)
(* (system/gd/hci/acl_manager/round_robin_scheduler.cc): it takes packets  *)
(* from the queues of the connections, cuts them into fragments and hands  *)
(* these to the HCI layer, as the buffers of the controller allow.         *)
(*                                                                         *)
(* All its functions run on the handler of the ACL manager, one at a time: *)
(* Register, Unregister, SetLinkPriority, incoming_acl_credits and a       *)
(* posted start_round_robin as tasks, buffer_packet and                    *)
(* handle_enqueue_next_fragment when the reactor finds a registered queue  *)
(* end ready.  The order in which ready queue ends are served is the       *)
(* reactor's, so any registered queue with a packet may be next.           *)
(***************************************************************************)
EXTENDS Integers, Sequences, FiniteSets, Functions, FiniteSetsExt

CONSTANTS
  Handles,          \* connection handles (positive integers)
  MaxCredits,       \* buffers of the controller for each connection type
  FragmentCounts,   \* how many fragments a packet may need
  HciQueueDepth,    \* capacity of the ACL queue of the HCI layer
  MaxPackets,       \* bound: packets the upper layers enqueue
  Fragile,          \* the links that may go down
  MaxPosted         \* bound: start_round_robin tasks posted at once

Types == {"CLASSIC", "LE"}
End == 0            \* acl_queue_handlers_.end()
Unset == -1         \* an iterator that was never assigned

ASSUME HandlesAssumption == IsFiniteSet(Handles) /\ Handles \subseteq Nat \ {0}
ASSUME CreditsAssumption == MaxCredits \in [Types -> Nat \ {0}]
ASSUME SizesAssumption ==
  /\ FragmentCounts \subseteq Nat \ {0}
  /\ HciQueueDepth \in Nat \ {0}
  /\ MaxPackets \in Nat
  /\ MaxPosted \in Nat \ {0}
  /\ Fragile \subseteq Handles

VARIABLES
  handlers,             \* acl_queue_handlers_, by handle
  dequeues,             \* handles with dequeue_is_registered_
  queue,                \* the packets in each connection's queue
  fragments_to_send,    \* fragments_to_send_: one queue for each priority
  credits,              \* acl_packet_credits_ and le_acl_packet_credits_
  enqueue_registered,   \* enqueue_registered_ ("yes" or "no")
  starting_point,       \* starting_point_
  posted,               \* start_round_robin tasks in the handler's queue
  hci_queue,            \* the ACL queue of the HCI layer
  live,                 \* links that are up at the controller
  ctl_buffers,          \* packets each link holds in the controller
  completed,            \* Number Of Completed Packets on the way, by handle
  last_sent,            \* the last fragment handed over on each link
  packets               \* number of packets enqueued so far

env_vars == <<queue, hci_queue, live, ctl_buffers, completed, packets>>
vars == <<handlers, dequeues, queue, fragments_to_send, credits, enqueue_registered,
          starting_point, posted, hci_queue, live, ctl_buffers, completed,
          last_sent, packets>>

-----------------------------------------------------------------------------
Registered == DOMAIN handlers

\* MultiPriorityQueue: the front is the oldest of the highest priority.
Pending(q) == q[0] # <<>> \/ q[1] # <<>>
Level(q) == IF q[1] # <<>> THEN 1 ELSE 0
Front(q) == Head(q[Level(q)])
Pop(q) == [q EXCEPT ![Level(q)] = Tail(@)]
Push(q, fragments, priority) == [q EXCEPT ![priority] = @ \o fragments]

\* Mutant: a packet is charged to its link as one, whatever its fragments.
SizeOne(q) == 1

Size(q) == Len(q[0]) + Len(q[1])

Entry == [type : Types, sent : Nat, priority : 0..1]
Packet == [id : 1..MaxPackets, count : FragmentCounts]
Fragment == [handle : Handles, type : Types, packet : 1..MaxPackets,
             index : Nat, of : FragmentCounts]

Fragments(h, type, p) ==
  [i \in 1..p.count |->
     [handle |-> h, type |-> type, packet |-> p.id, index |-> i,
      of |-> p.count]]

First(hs) == IF DOMAIN hs = {} THEN End ELSE Min(DOMAIN hs)
Following(hs, h) ==
  LET above == {g \in DOMAIN hs : g > h}
  IN IF above = {} THEN End ELSE Min(above)

NothingSent == [packet |-> 0, index |-> 0, of |-> 0]

Init ==
  /\ handlers = [h \in {} |-> {}]
  /\ dequeues = {}
  /\ queue = [h \in Handles |-> <<>>]
  /\ fragments_to_send = [priority \in 0..1 |-> <<>>]
  /\ credits = MaxCredits
  /\ enqueue_registered = "no"
  /\ starting_point = Unset
  /\ posted = 0
  /\ hci_queue = <<>>
  /\ live = {}
  /\ ctl_buffers = [h \in Handles |-> 0]
  /\ completed = [h \in Handles |-> 0]
  /\ last_sent = [h \in Handles |-> NothingSent]
  /\ packets = 0

-----------------------------------------------------------------------------
(* start_round_robin, on the connections hs with the credits cr            *)

StartsAt(hs) ==
  IF Cardinality(DOMAIN hs) = 1 \/ starting_point = End
  THEN First(hs) ELSE starting_point

\* Mutant: the round robin registers every queue, with credits or without.
DequeueAnyCredit(hs, cr) == DOMAIN hs

WithCredits(hs, cr) == {h \in DOMAIN hs : cr[hs[h].type] # 0}

start_round_robin(hs, cr) ==
  \/ /\ \A t \in Types : cr[t] = 0
     /\ UNCHANGED <<dequeues, enqueue_registered, starting_point>>
  \/ /\ \E t \in Types : cr[t] # 0
     /\ Pending(fragments_to_send)
     /\ enqueue_registered' =
          IF cr[Front(fragments_to_send).type] # 0 THEN "yes"
          ELSE enqueue_registered
     /\ UNCHANGED <<dequeues, starting_point>>
  \/ /\ \E t \in Types : cr[t] # 0
     /\ ~Pending(fragments_to_send)
     /\ dequeues' = dequeues \cup WithCredits(hs, cr)
     /\ starting_point' = IF DOMAIN hs = {} THEN starting_point
                          ELSE Following(hs, StartsAt(hs))
     /\ UNCHANGED enqueue_registered

posted_round_robin ==
  /\ posted > 0
  /\ posted' = posted - 1
  /\ start_round_robin(handlers, credits)
  /\ UNCHANGED <<handlers, fragments_to_send, credits, last_sent, env_vars>>

-----------------------------------------------------------------------------
(* Connections come and go                                                 *)

\* A handle is given out again only once nothing of its last use is left.
Unused(h) ==
  /\ h \notin live \cup Registered
  /\ completed[h] = 0
  /\ \A i \in DOMAIN hci_queue : hci_queue[i].handle # h
  /\ \A p \in 0..1 : \A i \in DOMAIN fragments_to_send[p] :
       fragments_to_send[p][i].handle # h

Register(type, h) ==
  LET entry == [type |-> type, sent |-> 0, priority |-> 0]
      hs == [g \in Registered \cup {h} |-> IF g = h THEN entry ELSE handlers[g]]
  IN /\ Unused(h)
     /\ live' = live \cup {h}
     /\ last_sent' = [last_sent EXCEPT ![h] = NothingSent]
     /\ handlers' = hs
     /\ IF Pending(fragments_to_send)
        THEN UNCHANGED <<dequeues, enqueue_registered, starting_point>>
        ELSE start_round_robin(hs, credits)
     /\ UNCHANGED <<queue, fragments_to_send, credits, posted, hci_queue,
                    ctl_buffers, completed, packets>>

\* Mutant: the iterator is left where it was.
UnregisterKeepingIterator(h) ==
  /\ h \in Registered \ live
  /\ credits' = [credits EXCEPT ![handlers[h].type] = @ + handlers[h].sent]
  /\ handlers' = Restrict(handlers, Registered \ {h})
  /\ dequeues' = dequeues \ {h}
  /\ queue' = [queue EXCEPT ![h] = <<>>]
  /\ UNCHANGED <<starting_point, fragments_to_send, enqueue_registered, posted,
                 hci_queue, live, ctl_buffers, completed, last_sent, packets>>

Unregister(h) ==
  LET hs == Restrict(handlers, Registered \ {h})
  IN /\ h \in Registered \ live
     /\ credits' = [credits EXCEPT ![handlers[h].type] = @ + handlers[h].sent]
     /\ handlers' = hs
     /\ dequeues' = dequeues \ {h}
     /\ starting_point' = First(hs)
     /\ queue' = [queue EXCEPT ![h] = <<>>]
     /\ UNCHANGED <<fragments_to_send, enqueue_registered, posted, hci_queue,
                    live, ctl_buffers, completed, last_sent, packets>>

SetLinkPriority(h, priority) ==
  /\ h \in Registered
  /\ handlers' = [handlers EXCEPT ![h].priority = priority]
  /\ UNCHANGED <<dequeues, fragments_to_send, credits, enqueue_registered,
                 starting_point, posted, last_sent, env_vars>>

-----------------------------------------------------------------------------
(* Packets out, credits in                                                 *)

\* Mutant: the other queues stay registered while a packet is sent.
StayRegistered == UNCHANGED dequeues

unregister_all_connections == dequeues' = {}

buffer_packet(h) ==
  /\ h \in dequeues
  /\ queue[h] # <<>>
  /\ queue' = [queue EXCEPT ![h] = Tail(@)]
  /\ fragments_to_send' =
       Push(fragments_to_send, Fragments(h, handlers[h].type, Head(queue[h])),
            handlers[h].priority)
  /\ unregister_all_connections
  /\ handlers' = [handlers EXCEPT ![h].sent = @ + Size(fragments_to_send')]
  /\ enqueue_registered' = "yes"
  /\ UNCHANGED <<credits, starting_point, posted, hci_queue, live,
                 ctl_buffers, completed, last_sent, packets>>

\* Mutant: nothing goes on once the last fragment of a packet is sent.
PostNothing(rest) == posted' = posted

post_round_robin(rest) ==
  posted' = IF Pending(rest) THEN posted ELSE posted + 1

handle_enqueue_next_fragment ==
  LET fragment == Front(fragments_to_send)
      rest == Pop(fragments_to_send)
      cr == [credits EXCEPT ![fragment.type] = @ - 1]
  IN /\ enqueue_registered = "yes"
     /\ Len(hci_queue) < HciQueueDepth
     /\ posted < MaxPosted
     /\ credits' = cr
     /\ fragments_to_send' = rest
     /\ hci_queue' = Append(hci_queue, fragment)
     /\ last_sent' = [last_sent EXCEPT ![fragment.handle] =
          [packet |-> fragment.packet, index |-> fragment.index,
           of |-> fragment.of]]
     /\ enqueue_registered' =
          IF Pending(rest) /\ cr[Front(rest).type] # 0 THEN "yes" ELSE "no"
     /\ post_round_robin(rest)
     /\ UNCHANGED <<handlers, dequeues, queue, starting_point, live,
                    ctl_buffers, completed, packets>>

\* Mutant: the bound on the credits is off by one.
ClampedBelow(value, max) == IF value >= max THEN max - 1 ELSE value

Clamped(value, max) == IF value > max THEN max ELSE value

\* Mutant: the credits of a link that Unregister has reclaimed count again.
CountReclaimed(h, n) ==
  LET type == IF h \in Registered THEN handlers[h].type ELSE "CLASSIC"
      hs == [g \in Registered |->
               IF g = h THEN [handlers[g] EXCEPT !.sent = @ - n] ELSE handlers[g]]
      cr == [credits EXCEPT ![type] = Clamped(@ + n, MaxCredits[type])]
  IN /\ completed' = [completed EXCEPT ![h] = @ - n]
     /\ credits' = cr
     /\ handlers' = hs
     /\ IF credits[type] = 0
        THEN start_round_robin(hs, cr)
        ELSE UNCHANGED <<dequeues, enqueue_registered, starting_point>>
     /\ UNCHANGED <<queue, fragments_to_send, posted, hci_queue, live,
                    ctl_buffers, last_sent, packets>>

\* What completes for a link that is not registered any more is ignored: its
\* credits were reclaimed by Unregister.
incoming_acl_credits(h, n) ==
  LET type == handlers[h].type
      sent == handlers[h].sent
      hs == [handlers EXCEPT ![h].sent = IF sent >= n THEN sent - n ELSE 0]
      cr == [credits EXCEPT ![type] = Clamped(@ + n, MaxCredits[type])]
  IN /\ n \in 1..completed[h]
     /\ completed' = [completed EXCEPT ![h] = @ - n]
     /\ IF h \notin Registered
        THEN UNCHANGED <<handlers, dequeues, credits, enqueue_registered,
                         starting_point>>
        ELSE /\ credits' = cr
             /\ handlers' = hs
             /\ IF credits[type] = 0
                THEN start_round_robin(hs, cr)
                ELSE UNCHANGED <<dequeues, enqueue_registered, starting_point>>
     /\ UNCHANGED <<queue, fragments_to_send, posted, hci_queue, live,
                    ctl_buffers, last_sent, packets>>

-----------------------------------------------------------------------------
(* The surroundings: the upper layers and the controller.                  *)

sched_vars == <<handlers, dequeues, fragments_to_send, credits, enqueue_registered,
                starting_point, posted, last_sent>>

\* The user of a connection puts a packet into its queue.
SendPacket(h, count) ==
  /\ h \in Registered
  /\ packets < MaxPackets
  /\ packets' = packets + 1
  /\ queue' = [queue EXCEPT ![h] =
       Append(@, [id |-> packets + 1, count |-> count])]
  /\ UNCHANGED <<sched_vars, hci_queue, live, ctl_buffers, completed>>

\* The HCI layer passes a packet on; the controller drops it if the link of
\* its handle is down.
CtlReceive ==
  /\ hci_queue # <<>>
  /\ hci_queue' = Tail(hci_queue)
  /\ LET h == Head(hci_queue).handle
     IN ctl_buffers' = [ctl_buffers EXCEPT ![h] = @ + IF h \in live THEN 1 ELSE 0]
  /\ UNCHANGED <<sched_vars, queue, live, completed, packets>>

\* Number Of Completed Packets, through the Controller module.
CtlComplete(h) ==
  /\ ctl_buffers[h] > 0
  /\ \E n \in 1..ctl_buffers[h] :
       /\ ctl_buffers' = [ctl_buffers EXCEPT ![h] = @ - n]
       /\ completed' = [completed EXCEPT ![h] = @ + n]
  /\ UNCHANGED <<sched_vars, queue, hci_queue, live, packets>>

\* The link goes down; the controller frees its buffers without a report.
CtlDisconnect(h) ==
  /\ h \in Fragile
  /\ h \in live
  /\ live' = live \ {h}
  /\ ctl_buffers' = [ctl_buffers EXCEPT ![h] = 0]
  /\ UNCHANGED <<sched_vars, queue, hci_queue, completed, packets>>

-----------------------------------------------------------------------------
Next ==
  \/ posted_round_robin
  \/ handle_enqueue_next_fragment
  \/ CtlReceive
  \/ \E h \in Handles :
       \/ \E type \in Types : Register(type, h)
       \/ Unregister(h)
       \/ \E priority \in 0..1 : SetLinkPriority(h, priority)
       \/ buffer_packet(h)
       \/ \E n \in 1..completed[h] : incoming_acl_credits(h, n)
       \/ \E count \in FragmentCounts : SendPacket(h, count)
       \/ CtlComplete(h)
       \/ CtlDisconnect(h)

Spec == Init /\ [][Next]_vars

\* The handler serves its tasks and ready queue ends, a link that is down is
\* unregistered, the controller sends what it is given and reports it.
\* Nobody is obliged to enqueue packets,
\* to connect or to disconnect.
Fairness ==
  /\ WF_vars(posted_round_robin)
  /\ WF_vars(handle_enqueue_next_fragment)
  /\ WF_vars(CtlReceive)
  /\ \A h \in Handles :
       /\ WF_vars(buffer_packet(h))
       /\ WF_vars(Unregister(h))
       /\ WF_vars(CtlComplete(h))
       /\ WF_vars(\E n \in 1..completed[h] : incoming_acl_credits(h, n))

-----------------------------------------------------------------------------
(* Properties                                                              *)

\* The type of the state.  The credits are unsigned in the code: that they
\* stay in Nat says that they never wrap.
TypeOK ==
  /\ Registered \subseteq Handles
  /\ handlers \in [Registered -> Entry]
  /\ dequeues \subseteq Registered
  /\ queue \in [Handles -> Seq(Packet)]
  /\ fragments_to_send \in [0..1 -> Seq(Fragment)]
  /\ credits \in [Types -> Nat]
  /\ enqueue_registered \in {"yes", "no"}
  /\ starting_point \in Handles \cup {End, Unset}
  /\ posted \in 0..MaxPosted
  /\ hci_queue \in Seq(Fragment)
  /\ live \subseteq Handles
  /\ ctl_buffers \in [Handles -> Nat]
  /\ completed \in [Handles -> Nat]
  /\ packets \in 0..MaxPackets

\* When handle_enqueue_next_fragment may be called there is a fragment, and a
\* credit of its type: front() is never called on an empty queue and neither
\* ASSERT on the credits can fail.
EnqueueHasCredit ==
  enqueue_registered = "yes" =>
    /\ Pending(fragments_to_send)
    /\ credits[Front(fragments_to_send).type] > 0

\* A queue is registered for dequeue only while no fragment is waiting and a
\* buffer of its type is free, so that buffer_packet always starts on an
\* empty fragments_to_send_: two packets are never sent interleaved.
OnePacketAtATime ==
  \A h \in dequeues :
    ~Pending(fragments_to_send) /\ credits[handlers[h].type] > 0

\* starting_point_ never dangles: once there are connections it is end() or
\* one of them, whichever were erased from the map since it was assigned.
IteratorValid ==
  Registered # {} => starting_point \in Registered \cup {End}

\* Each link gets the fragments of its packets whole and in order: a fragment
\* continues the packet of the one before, or starts a later packet after the
\* last fragment of an earlier one.
FragmentsInOrder ==
  [][Len(hci_queue') > Len(hci_queue) =>
       LET f == Front(fragments_to_send)
           last == last_sent[f.handle]
       IN IF f.index = 1
          THEN f.packet > last.packet /\ last.index = last.of
          ELSE f.packet = last.packet /\ f.index = last.index + 1]_vars

\* The inductive form of the three above: starting_point_ is unassigned only
\* before the first connection, when no credit has been spent.
SchedulerInv ==
  /\ EnqueueHasCredit
  /\ OnePacketAtATime
  /\ \/ starting_point \in Registered \cup {End}
     \/ /\ starting_point = Unset
        /\ Registered = {}
        /\ ~Pending(fragments_to_send)
        /\ credits = MaxCredits

HciQueued(h) == Cardinality({i \in DOMAIN hci_queue : hci_queue[i].handle = h})
PendingOf(h) ==
  LET q == fragments_to_send[0] \o fragments_to_send[1]
  IN Cardinality({i \in DOMAIN q : q[i].handle = h})
LiveOf(t) == {h \in Registered \cap live : handlers[h].type = t}

\* The controller is never sent more packets than it has buffers: those it
\* holds and those on the way to it fit.  Unregister reclaims the credits of a
\* link whose completions may still come, and incoming_acl_credits ignores
\* these (its bound on the credits would not keep them from counting twice).
ControllerNeverOverrun ==
  \A t \in Types :
    MapThenSumSet(LAMBDA h : HciQueued(h) + ctl_buffers[h], LiveOf(t))
      <= MaxCredits[t]

\* A link is charged for every packet that is still out: the warning "receive
\* more credits than we sent" is never due.
CompletedWereSent ==
  \A h \in Registered \cap live :
    handlers[h].sent = PendingOf(h) + HciQueued(h) + ctl_buffers[h] + completed[h]

\* While no link goes down, the credits and what is out make up the buffers
\* of the controller: none is lost and none is invented.
CreditAccounting ==
  \A t \in Types :
    credits[t] + MapThenSumSet(
      LAMBDA h : handlers[h].sent - PendingOf(h), LiveOf(t)) = MaxCredits[t]

\* Every packet of a live link leaves its queue: the round robin starves no
\* link when the others do not send without end.
EveryPacketSent ==
  \A h \in Handles : queue[h] # <<>> ~> queue[h] = <<>>
=============================================================================
