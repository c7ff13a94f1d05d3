-------------------------- MODULE RoundRobinProofs --------------------------
(***************************************************************************)
(* Proofs about RoundRobinScheduler, for any handles, any number of        *)
(* buffers and any sizes of packets and queues.                            *)
(***************************************************************************)
EXTENDS RoundRobinScheduler, SequenceTheorems, WellFoundedInduction, TLAPS

-----------------------------------------------------------------------------
(* The operators                                                           *)

\* A set of naturals has its minimum as an element: begin() and std::next()
\* of the map of connections yield connections.
LEMMA MinIsElement ==
  ASSUME NEW S, S \subseteq Nat, S # {}
  PROVE  Min(S) \in S
<1> DEFINE less == {p \in Nat \X Nat : p[1] < p[2]}
<1>0. IsWellFoundedOn(less, Nat)
  BY NatLessThanWellFounded DEF OpToRel
<1>1. PICK x \in S : \A y \in S : ~(<<y, x>> \in less)
  <2> HIDE DEF less
  <2> QED
    BY <1>0, WFMin
<1>2. \A y \in S : x =< y
  <2> SUFFICES ASSUME NEW y \in S PROVE x =< y
    OBVIOUS
  <2>1. <<y, x>> \notin less
    BY <1>1
  <2>2. y \in Nat /\ x \in Nat
    OBVIOUS
  <2> QED
    BY <2>1, <2>2
<1> QED
  BY <1>2 DEF Min

\* begin() is a connection, or end() if there is none.
LEMMA FirstValid ==
  ASSUME NEW hs, DOMAIN hs \subseteq Handles
  PROVE  First(hs) \in DOMAIN hs \cup {End}
BY MinIsElement, HandlesAssumption DEF First

\* std::next() is a connection or end().
LEMMA FollowingValid ==
  ASSUME NEW hs, DOMAIN hs \subseteq Handles, NEW x
  PROVE  Following(hs, x) \in DOMAIN hs \cup {End}
<1> DEFINE above == {g \in DOMAIN hs : g > x}
<1>1. CASE above = {}
  BY <1>1 DEF Following
<1>2. CASE above # {}
  <2>1. above \subseteq Nat
    BY HandlesAssumption
  <2>2. Min(above) \in above
    BY <1>2, <2>1, MinIsElement
  <2> QED
    BY <1>2, <2>2 DEF Following
<1> QED
  BY <1>1, <1>2

\* The front of a MultiPriorityQueue that is not empty is one of its items,
\* and popping it leaves a queue of the same items.
LEMMA FrontAndPop ==
  ASSUME NEW q \in [0..1 -> Seq(Fragment)], Pending(q)
  PROVE  Front(q) \in Fragment /\ Pop(q) \in [0..1 -> Seq(Fragment)]
<1>1. Level(q) \in 0..1 /\ q[Level(q)] # <<>> /\ q[Level(q)] \in Seq(Fragment)
  BY DEF Pending, Level
<1>2. Head(q[Level(q)]) \in Fragment /\ Tail(q[Level(q)]) \in Seq(Fragment)
  BY <1>1, HeadTailProperties
<1> QED
  BY <1>1, <1>2 DEF Front, Pop

\* Pushing fragments keeps the queue a queue of fragments, and not empty.
LEMMA PushPending ==
  ASSUME NEW q \in [0..1 -> Seq(Fragment)], NEW s \in Seq(Fragment), s # <<>>,
         NEW priority \in 0..1
  PROVE  /\ Push(q, s, priority) \in [0..1 -> Seq(Fragment)]
         /\ Pending(Push(q, s, priority))
<1>1. q[priority] \o s \in Seq(Fragment) /\ q[priority] \o s # <<>>
  <2>1. q[priority] \in Seq(Fragment)
    OBVIOUS
  <2>2. Len(s) \in Nat /\ Len(s) # 0
    BY EmptySeq, LenProperties
  <2>3. /\ q[priority] \o s \in Seq(Fragment)
        /\ Len(q[priority] \o s) = Len(q[priority]) + Len(s)
    BY <2>1, ConcatProperties
  <2>4. Len(q[priority]) \in Nat
    BY <2>1, LenProperties
  <2> QED
    BY <2>2, <2>3, <2>4, EmptySeq
<1>2. Push(q, s, priority) = [q EXCEPT ![priority] = q[priority] \o s]
  BY DEF Push
<1> DEFINE joined == q[priority] \o s
<1> HIDE DEF joined
<1> QED
  BY <1>1, <1>2 DEF Pending, joined

\* When all waiting fragments belong to one priority and the queue was empty,
\* the front after a push is the first fragment pushed.
LEMMA PushOnEmpty ==
  ASSUME NEW q \in [0..1 -> Seq(Fragment)], ~Pending(q),
         NEW s \in Seq(Fragment), s # <<>>, NEW priority \in 0..1
  PROVE  Front(Push(q, s, priority)) = Head(s)
<1>1. q[0] = <<>> /\ q[1] = <<>>
  BY DEF Pending
<1>2. q[priority] \o s = s
  BY <1>1, ConcatEmptySeq
<1>3. Push(q, s, priority) = [q EXCEPT ![priority] = s]
  BY <1>2 DEF Push
<1> QED
  BY <1>1, <1>3 DEF Front, Level

\* What buffer_packet makes of a packet is a non-empty sequence of fragments
\* of the connection's type.
LEMMA FragmentsOfPacket ==
  ASSUME NEW h \in Handles, NEW type \in Types, NEW p \in Packet
  PROVE  /\ Fragments(h, type, p) \in Seq(Fragment)
         /\ Fragments(h, type, p) # <<>>
         /\ Head(Fragments(h, type, p)).type = type
<1> DEFINE f(i) == [handle |-> h, type |-> type, packet |-> p.id,
                    index |-> i, of |-> p.count]
<1>0. p.count \in FragmentCounts /\ p.id \in 1..MaxPackets
  BY DEF Packet
<1>1. p.count \in Nat /\ p.count > 0
  <2>1. \A c \in FragmentCounts : c \in Nat /\ c > 0
    BY SizesAssumption
  <2> QED
    BY <1>0, <2>1
<1>2. \A i \in 1..p.count : f(i) \in Fragment
  BY <1>0, <1>1 DEF Fragment
<1>3. Fragments(h, type, p) = [i \in 1..p.count |-> f(i)]
  BY DEF Fragments
<1>4. f(1).type = type
  OBVIOUS
<1> HIDE DEF f
<1>5. Fragments(h, type, p) \in Seq(Fragment) /\ Len(Fragments(h, type, p)) = p.count
  BY <1>1, <1>2, <1>3
<1>6. Fragments(h, type, p) # <<>>
  BY <1>1, <1>5, EmptySeq
<1>7. Head(Fragments(h, type, p)) = f(1)
  BY <1>1, <1>3, <1>5, <1>6, HeadTailProperties
<1> QED
  BY <1>4, <1>5, <1>6, <1>7

-----------------------------------------------------------------------------
(* Types                                                                   *)

\* start_round_robin changes what it may change within its types.
LEMMA StartType ==
  ASSUME TypeOK, NEW hs, NEW cr, DOMAIN hs \subseteq Handles,
         dequeues \subseteq DOMAIN hs, start_round_robin(hs, cr)
  PROVE  /\ dequeues' \subseteq DOMAIN hs
         /\ enqueue_registered' \in {"yes", "no"}
         /\ starting_point' \in Handles \cup {End, Unset}
<1>1. Following(hs, StartsAt(hs)) \in Handles \cup {End, Unset}
  BY FollowingValid
<1> QED
  BY <1>1 DEF start_round_robin, WithCredits, TypeOK

\* Every step of the scheduler and of its surroundings keeps the types; the
\* credits are only spent where there are some.
LEMMA StepType ==
  ASSUME TypeOK, EnqueueHasCredit, [Next]_vars
  PROVE  TypeOK'
<1> USE DEF TypeOK, Registered
<1>1. CASE posted_round_robin
  <2>1. start_round_robin(handlers, credits)
    BY <1>1 DEF posted_round_robin
  <2>2. /\ dequeues' \subseteq DOMAIN handlers
        /\ enqueue_registered' \in {"yes", "no"}
        /\ starting_point' \in Handles \cup {End, Unset}
    BY <2>1, StartType
  <2>3. posted' \in 0..MaxPosted
    BY <1>1, SizesAssumption DEF posted_round_robin
  <2> QED
    BY <1>1, <2>2, <2>3 DEF posted_round_robin, env_vars
<1>2. CASE handle_enqueue_next_fragment
  <2> DEFINE fragment == Front(fragments_to_send)
             rest == Pop(fragments_to_send)
  <2>1. Pending(fragments_to_send) /\ credits[fragment.type] > 0
    BY <1>2 DEF handle_enqueue_next_fragment, EnqueueHasCredit
  <2>2. fragment \in Fragment /\ rest \in [0..1 -> Seq(Fragment)]
    BY <2>1, FrontAndPop
  <2>3. fragment.type \in Types
    BY <2>2 DEF Fragment
  <2>4. [credits EXCEPT ![fragment.type] = @ - 1] \in [Types -> Nat]
    BY <2>1, <2>3
  <2>5. Append(hci_queue, fragment) \in Seq(Fragment)
    BY <2>2, AppendProperties
  <2> HIDE DEF fragment, rest
  <2>6. posted' \in 0..MaxPosted
    BY <1>2, SizesAssumption DEF handle_enqueue_next_fragment, post_round_robin
  <2>7. enqueue_registered' \in {"yes", "no"}
    BY <1>2 DEF handle_enqueue_next_fragment
  <2>8. /\ credits' = [credits EXCEPT ![fragment.type] = @ - 1]
        /\ fragments_to_send' = rest
        /\ hci_queue' = Append(hci_queue, fragment)
        /\ UNCHANGED <<handlers, dequeues, queue, starting_point, live,
                       ctl_buffers, completed, packets>>
    BY <1>2 DEF handle_enqueue_next_fragment, fragment, rest
  <2> QED
    BY <2>2, <2>4, <2>5, <2>6, <2>7, <2>8
<1>3. CASE CtlReceive
  <2>1. Head(hci_queue) \in Fragment /\ Tail(hci_queue) \in Seq(Fragment)
    BY <1>3, HeadTailProperties DEF CtlReceive
  <2>2. Head(hci_queue).handle \in Handles
    BY <2>1 DEF Fragment
  <2> QED
    BY <1>3, <2>1, <2>2 DEF CtlReceive, sched_vars
<1>4. ASSUME NEW h \in Handles, NEW type \in Types, Register(type, h)
      PROVE  TypeOK'
  <2> DEFINE entry == [type |-> type, sent |-> 0, priority |-> 0]
             hs == [g \in Registered \cup {h} |->
                      IF g = h THEN entry ELSE handlers[g]]
  <2>1. entry \in Entry
    BY DEF Entry
  <2>2. DOMAIN hs = Registered \cup {h} /\ hs \in [Registered \cup {h} -> Entry]
    BY <2>1
  <2> HIDE DEF entry, hs
  <2>3. /\ handlers' = hs
        /\ live' = live \cup {h}
        /\ IF Pending(fragments_to_send)
           THEN UNCHANGED <<dequeues, enqueue_registered, starting_point>>
           ELSE start_round_robin(hs, credits)
        /\ UNCHANGED <<queue, fragments_to_send, credits, posted, hci_queue,
                       ctl_buffers, completed, packets>>
    BY <1>4 DEF Register, hs, entry
  <2>4. /\ dequeues' \subseteq DOMAIN hs
        /\ enqueue_registered' \in {"yes", "no"}
        /\ starting_point' \in Handles \cup {End, Unset}
    BY <2>2, <2>3, StartType
  <2> QED
    BY <2>2, <2>3, <2>4
<1>5. ASSUME NEW h \in Handles, Unregister(h)
      PROVE  TypeOK'
  <2> DEFINE hs == Restrict(handlers, Registered \ {h})
  <2>1. /\ DOMAIN hs = Registered \ {h}
        /\ hs \in [Registered \ {h} -> Entry]
    BY DEF Restrict
  <2>2. handlers[h].type \in Types /\ handlers[h].sent \in Nat
    BY <1>5 DEF Unregister, Entry
  <2>3. First(hs) \in Handles \cup {End}
    BY <2>1, FirstValid
  <2> HIDE DEF hs
  <2>4. credits' \in [Types -> Nat]
    <3> DEFINE t == handlers[h].type
               n == handlers[h].sent
    <3>1. t \in Types /\ n \in Nat
      BY <2>2
    <3>2. credits' = [credits EXCEPT ![t] = @ + n]
      BY <1>5 DEF Unregister
    <3> HIDE DEF t, n
    <3> QED
      BY <3>1, <3>2
  <2>5. [queue EXCEPT ![h] = <<>>] \in [Handles -> Seq(Packet)]
    OBVIOUS
  <2> QED
    BY <1>5, <2>1, <2>3, <2>4, <2>5 DEF Unregister, hs
<1>6. ASSUME NEW h \in Handles, NEW priority \in 0..1, SetLinkPriority(h, priority)
      PROVE  TypeOK'
  <2>1. [handlers EXCEPT ![h].priority = priority] \in [Registered -> Entry]
    BY <1>6 DEF SetLinkPriority, Entry
  <2> QED
    BY <1>6, <2>1 DEF SetLinkPriority, env_vars
<1>7. ASSUME NEW h \in Handles, buffer_packet(h)
      PROVE  TypeOK'
  <2> DEFINE s == Fragments(h, handlers[h].type, Head(queue[h]))
  <2>1. h \in Registered /\ queue[h] # <<>> /\ queue[h] \in Seq(Packet)
    BY <1>7 DEF buffer_packet
  <2>2. Head(queue[h]) \in Packet /\ Tail(queue[h]) \in Seq(Packet)
    BY <2>1, HeadTailProperties
  <2>3. handlers[h].type \in Types /\ handlers[h].priority \in 0..1
    BY <2>1 DEF Entry
  <2>4. s \in Seq(Fragment) /\ s # <<>>
    BY <2>2, <2>3, FragmentsOfPacket
  <2> HIDE DEF s
  <2>5. fragments_to_send' = Push(fragments_to_send, s, handlers[h].priority)
    BY <1>7 DEF buffer_packet, s
  <2>6. fragments_to_send' \in [0..1 -> Seq(Fragment)]
    BY <2>3, <2>4, <2>5, PushPending
  <2>7. Size(fragments_to_send') \in Nat
    BY <2>6, LenProperties DEF Size
  <2>8. handlers[h].sent \in Nat
    BY <2>1 DEF Entry
  <2> DEFINE n == handlers[h].sent + Size(fragments_to_send')
  <2>9. n \in Nat
    BY <2>7, <2>8
  <2>10. handlers' = [handlers EXCEPT ![h] = [handlers[h] EXCEPT !.sent = n]]
    BY <1>7 DEF buffer_packet
  <2> HIDE DEF n
  <2>11. [handlers[h] EXCEPT !.sent = n] \in Entry
    BY <2>1, <2>9 DEF Entry
  <2>12. queue' \in [Handles -> Seq(Packet)]
    BY <1>7, <2>2 DEF buffer_packet
  <2>13. handlers' \in [Registered -> Entry]
    BY <2>1, <2>10, <2>11
  <2> QED
    BY <1>7, <2>6, <2>12, <2>13 DEF buffer_packet, unregister_all_connections
<1>8. ASSUME NEW h \in Handles, NEW n \in 1..completed[h], incoming_acl_credits(h, n)
      PROVE  TypeOK'
  <2>1. completed' \in [Handles -> Nat]
    <3>1. completed' = [completed EXCEPT ![h] = @ - n]
      BY <1>8 DEF incoming_acl_credits
    <3>2. completed[h] \in Nat /\ completed[h] - n \in Nat
      OBVIOUS
    <3> QED
      BY <3>1, <3>2
  <2>2. CASE h \notin Registered
    BY <1>8, <2>1, <2>2 DEF incoming_acl_credits
  <2>3. CASE h \in Registered
    <3> DEFINE type == handlers[h].type
               left == IF handlers[h].sent >= n THEN handlers[h].sent - n ELSE 0
               entry == [handlers[h] EXCEPT !.sent = left]
               hs == [handlers EXCEPT ![h] = entry]
               total == Clamped(credits[type] + n, MaxCredits[type])
               cr == [credits EXCEPT ![type] = total]
    <3>1. /\ handlers' = hs
          /\ credits' = cr
          /\ IF credits[type] = 0
             THEN start_round_robin(hs, cr)
             ELSE UNCHANGED <<dequeues, enqueue_registered, starting_point>>
          /\ UNCHANGED <<queue, fragments_to_send, posted, hci_queue, live,
                         ctl_buffers, packets>>
      BY <1>8, <2>3 DEF incoming_acl_credits
    <3>2. type \in Types /\ handlers[h].sent \in Nat /\ n \in Nat
      BY <2>3 DEF Entry
    <3>3. left \in Nat
      BY <3>2
    <3> HIDE DEF left, type
    <3>4. entry \in Entry
      BY <2>3, <3>3 DEF Entry
    <3>5. total \in Nat
      BY <3>2, CreditsAssumption DEF Clamped
    <3> HIDE DEF entry, total
    <3>6. hs \in [Registered -> Entry] /\ DOMAIN hs = Registered
      BY <2>3, <3>4
    <3>7. cr \in [Types -> Nat]
      BY <3>2, <3>5
    <3> HIDE DEF hs, cr
    <3>8. /\ dequeues' \subseteq DOMAIN hs
          /\ enqueue_registered' \in {"yes", "no"}
          /\ starting_point' \in Handles \cup {End, Unset}
      BY <3>1, <3>6, StartType
    <3> QED
      BY <2>1, <3>1, <3>6, <3>7, <3>8
  <2> QED
    BY <2>2, <2>3
<1>9. ASSUME NEW h \in Handles, NEW count \in FragmentCounts, SendPacket(h, count)
      PROVE  TypeOK'
  <2> DEFINE p == [id |-> packets + 1, count |-> count]
  <2>1. packets + 1 \in 1..MaxPackets
    BY <1>9, SizesAssumption DEF SendPacket
  <2>2. p \in Packet
    BY <2>1 DEF Packet
  <2> HIDE DEF p
  <2>3. Append(queue[h], p) \in Seq(Packet)
    BY <2>2, AppendProperties
  <2>4. queue' = [queue EXCEPT ![h] = Append(queue[h], p)] /\ packets' = packets + 1
    BY <1>9 DEF SendPacket, p
  <2>5. queue' \in [Handles -> Seq(Packet)]
    BY <2>3, <2>4
  <2>6. packets' \in 0..MaxPackets
    BY <2>1, <2>4, SizesAssumption
  <2> QED
    BY <1>9, <2>5, <2>6 DEF SendPacket, sched_vars
<1>10. ASSUME NEW h \in Handles, CtlComplete(h)
       PROVE  TypeOK'
  <2>1. PICK n \in 1..ctl_buffers[h] :
          /\ ctl_buffers' = [ctl_buffers EXCEPT ![h] = @ - n]
          /\ completed' = [completed EXCEPT ![h] = @ + n]
    BY <1>10 DEF CtlComplete
  <2>2. ctl_buffers[h] - n \in Nat /\ completed[h] + n \in Nat
    OBVIOUS
  <2> QED
    BY <1>10, <2>1, <2>2 DEF CtlComplete, sched_vars
<1>11. ASSUME NEW h \in Handles, CtlDisconnect(h)
       PROVE  TypeOK'
  BY <1>11 DEF CtlDisconnect, sched_vars
<1>12. CASE UNCHANGED vars
  BY <1>12 DEF vars
<1> QED
  BY <1>1, <1>2, <1>3, <1>4, <1>5, <1>6, <1>7, <1>8, <1>9, <1>10, <1>11, <1>12
     DEF Next

-----------------------------------------------------------------------------
(* The scheduler's invariant                                               *)

\* start_round_robin on connections hs and credits cr for which the invariant
\* holds makes it hold afterwards.
LEMMA StartInv ==
  ASSUME TypeOK, NEW hs, NEW cr \in [Types -> Nat],
         DOMAIN hs \subseteq Handles, hs \in [DOMAIN hs -> Entry],
         dequeues \subseteq DOMAIN hs,
         \A h \in dequeues : ~Pending(fragments_to_send) /\ cr[hs[h].type] > 0,
         enqueue_registered = "yes" =>
           Pending(fragments_to_send) /\ cr[Front(fragments_to_send).type] > 0,
         starting_point \in DOMAIN hs \cup {End}
           \/ /\ DOMAIN hs # {}
              /\ ~Pending(fragments_to_send)
              /\ \E t \in Types : cr[t] # 0,
         start_round_robin(hs, cr),
         handlers' = hs, credits' = cr, UNCHANGED fragments_to_send
  PROVE  EnqueueHasCredit' /\ OnePacketAtATime' /\ starting_point' \in Registered' \cup {End}
<1>1. EnqueueHasCredit'
  <2>1. CASE UNCHANGED enqueue_registered
    BY <2>1 DEF EnqueueHasCredit
  <2>2. CASE /\ Pending(fragments_to_send)
             /\ cr[Front(fragments_to_send).type] # 0
    <3>1. Front(fragments_to_send).type \in Types
      BY <2>2, FrontAndPop DEF TypeOK, Fragment
    <3>2. cr[Front(fragments_to_send).type] > 0
      BY <2>2, <3>1
    <3> QED
      BY <2>2, <3>2 DEF EnqueueHasCredit
  <2> QED
    BY <2>1, <2>2 DEF start_round_robin
<1>2. OnePacketAtATime'
  <2>1. CASE UNCHANGED dequeues
    BY <2>1 DEF OnePacketAtATime
  <2>2. CASE /\ ~Pending(fragments_to_send)
             /\ dequeues' = dequeues \cup WithCredits(hs, cr)
    <3>1. \A h \in WithCredits(hs, cr) : cr[hs[h].type] > 0
      BY DEF WithCredits, Entry
    <3> QED
      BY <2>2, <3>1 DEF OnePacketAtATime
  <2> QED
    BY <2>1, <2>2 DEF start_round_robin
<1>3. starting_point' \in Registered' \cup {End}
  <2>1. Following(hs, StartsAt(hs)) \in DOMAIN hs \cup {End}
    BY FollowingValid
  <2> QED
    BY <2>1 DEF start_round_robin, Registered
<1> QED
  BY <1>1, <1>2, <1>3

\* Every step keeps the invariant.
LEMMA StepInv ==
  ASSUME TypeOK, SchedulerInv, [Next]_vars
  PROVE  SchedulerInv'
<1> USE DEF SchedulerInv, Registered
<1>0. /\ \A h \in Registered : h \in Handles /\ handlers[h] \in Entry
      /\ dequeues \subseteq Registered
      /\ handlers \in [Registered -> Entry]
      /\ credits \in [Types -> Nat]
  BY DEF TypeOK
<1>1. CASE posted_round_robin
  <2>1. /\ start_round_robin(handlers, credits)
        /\ UNCHANGED <<handlers, fragments_to_send, credits>>
    BY <1>1 DEF posted_round_robin
  <2>2. CASE starting_point \in Registered \cup {End}
    BY <1>0, <2>1, <2>2, StartInv DEF EnqueueHasCredit, OnePacketAtATime
  <2>3. CASE Registered = {} /\ starting_point = Unset
             /\ ~Pending(fragments_to_send) /\ credits = MaxCredits
    <3>1. UNCHANGED <<enqueue_registered, starting_point, dequeues>>
      BY <2>1, <2>3 DEF start_round_robin, WithCredits
    <3> QED
      BY <2>1, <2>3, <3>1 DEF EnqueueHasCredit, OnePacketAtATime
  <2> QED
    BY <2>2, <2>3
<1>2. CASE handle_enqueue_next_fragment
  <2> DEFINE type == Front(fragments_to_send).type
             rest == Pop(fragments_to_send)
             cr == [credits EXCEPT ![type] = @ - 1]
  <2>1. Pending(fragments_to_send) /\ enqueue_registered = "yes"
    BY <1>2 DEF handle_enqueue_next_fragment, EnqueueHasCredit
  <2>2. /\ credits' = cr
        /\ fragments_to_send' = rest
        /\ enqueue_registered' =
             IF Pending(rest) /\ cr[Front(rest).type] # 0 THEN "yes" ELSE "no"
        /\ UNCHANGED <<handlers, dequeues, starting_point>>
    BY <1>2 DEF handle_enqueue_next_fragment
  <2>3. credits' \in [Types -> Nat] /\ rest \in [0..1 -> Seq(Fragment)]
    BY <1>2, <2>2, StepType DEF Next, TypeOK
  <2> HIDE DEF type, rest, cr
  <2>4. EnqueueHasCredit'
    <3> SUFFICES ASSUME Pending(rest), cr[Front(rest).type] # 0
                 PROVE  cr[Front(rest).type] > 0
      BY <2>2 DEF EnqueueHasCredit
    <3>1. Front(rest).type \in Types
      BY <2>3, FrontAndPop DEF Fragment
    <3> QED
      BY <2>2, <2>3, <3>1
  <2>5. dequeues = {}
    BY <2>1 DEF OnePacketAtATime
  <2>6. starting_point \in Registered \cup {End}
    BY <2>1
  <2> QED
    BY <2>2, <2>4, <2>5, <2>6 DEF OnePacketAtATime
<1>3. ASSUME NEW h \in Handles, NEW type \in Types, Register(type, h)
      PROVE  SchedulerInv'
  <2> DEFINE entry == [type |-> type, sent |-> 0, priority |-> 0]
             hs == [g \in Registered \cup {h} |->
                      IF g = h THEN entry ELSE handlers[g]]
  <2>1. entry \in Entry
    BY DEF Entry
  <2>2. /\ DOMAIN hs = Registered \cup {h}
        /\ hs \in [DOMAIN hs -> Entry]
        /\ \A g \in Registered : g # h => hs[g] = handlers[g]
    BY <1>0, <2>1
  <2>3. h \notin Registered
    BY <1>3 DEF Register, Unused
  <2> HIDE DEF entry, hs
  <2>4. /\ handlers' = hs
        /\ UNCHANGED <<fragments_to_send, credits>>
        /\ IF Pending(fragments_to_send)
           THEN UNCHANGED <<dequeues, enqueue_registered, starting_point>>
           ELSE start_round_robin(hs, credits)
    BY <1>3 DEF Register, hs, entry
  <2>5. \A g \in dequeues : ~Pending(fragments_to_send) /\ credits[hs[g].type] > 0
    BY <1>0, <2>2, <2>3 DEF OnePacketAtATime
  <2>6. CASE Pending(fragments_to_send)
    <3>1. EnqueueHasCredit'
      BY <2>4, <2>6 DEF EnqueueHasCredit
    <3>2. dequeues' = {}
      BY <2>4, <2>5, <2>6
    <3>3. starting_point' \in Registered' \cup {End}
      BY <2>2, <2>4, <2>6
    <3> QED
      BY <3>1, <3>2, <3>3 DEF OnePacketAtATime
  <2>7. CASE ~Pending(fragments_to_send)
    <3>1. starting_point \in DOMAIN hs \cup {End} \/ \E t \in Types : credits[t] # 0
      BY <2>2, CreditsAssumption DEF Types
    <3>2. DOMAIN hs \subseteq Handles /\ DOMAIN hs # {} /\ dequeues \subseteq DOMAIN hs
      BY <1>0, <2>2
    <3>3. enqueue_registered # "yes"
      BY <2>7 DEF EnqueueHasCredit
    <3> QED
      BY <1>0, <2>2, <2>4, <2>5, <2>7, <3>1, <3>2, <3>3, StartInv
  <2> QED
    BY <2>6, <2>7
<1>4. ASSUME NEW h \in Handles, Unregister(h)
      PROVE  SchedulerInv'
  <2> DEFINE hs == Restrict(handlers, Registered \ {h})
             type == handlers[h].type
             n == handlers[h].sent
  <2>1. /\ DOMAIN hs = Registered \ {h}
        /\ \A g \in Registered \ {h} : hs[g] = handlers[g]
    BY DEF Restrict
  <2>2. type \in Types /\ n \in Nat
    BY <1>0, <1>4 DEF Unregister, Entry
  <2>3. First(hs) \in DOMAIN hs \cup {End}
    BY <1>0, <2>1, FirstValid
  <2>4. /\ handlers' = hs
        /\ credits' = [credits EXCEPT ![type] = @ + n]
        /\ dequeues' = dequeues \ {h}
        /\ starting_point' = First(hs)
        /\ UNCHANGED <<fragments_to_send, enqueue_registered>>
    BY <1>4 DEF Unregister
  <2> HIDE DEF hs, type, n
  <2>5. \A t \in Types : credits[t] > 0 => credits'[t] > 0
    BY <1>0, <2>2, <2>4
  <2>6. EnqueueHasCredit'
    <3> SUFFICES ASSUME enqueue_registered = "yes"
                 PROVE  /\ Pending(fragments_to_send)
                        /\ credits'[Front(fragments_to_send).type] > 0
      BY <2>4 DEF EnqueueHasCredit
    <3>1. Pending(fragments_to_send) /\ credits[Front(fragments_to_send).type] > 0
      BY DEF EnqueueHasCredit
    <3>2. Front(fragments_to_send).type \in Types
      BY <3>1, FrontAndPop DEF TypeOK, Fragment
    <3> QED
      BY <2>5, <3>1, <3>2
  <2>7. OnePacketAtATime'
    <3>1. \A g \in dequeues \ {h} :
            /\ ~Pending(fragments_to_send)
            /\ handlers[g].type \in Types
            /\ credits[handlers[g].type] > 0
            /\ hs[g] = handlers[g]
      BY <1>0, <2>1 DEF OnePacketAtATime, Entry
    <3> QED
      BY <2>4, <2>5, <3>1 DEF OnePacketAtATime
  <2> QED
    BY <2>3, <2>4, <2>6, <2>7
<1>5. ASSUME NEW h \in Handles, NEW priority \in 0..1, SetLinkPriority(h, priority)
      PROVE  SchedulerInv'
  <2>1. /\ h \in Registered
        /\ handlers' = [handlers EXCEPT ![h].priority = priority]
        /\ UNCHANGED <<dequeues, fragments_to_send, credits, enqueue_registered,
                       starting_point>>
    BY <1>5 DEF SetLinkPriority
  <2>2. DOMAIN handlers' = Registered /\ \A g \in Registered : handlers'[g].type = handlers[g].type
    BY <1>0, <2>1 DEF Entry
  <2> QED
    BY <1>0, <2>1, <2>2 DEF EnqueueHasCredit, OnePacketAtATime
<1>6. ASSUME NEW h \in Handles, buffer_packet(h)
      PROVE  SchedulerInv'
  <2> DEFINE type == handlers[h].type
             s == Fragments(h, type, Head(queue[h]))
  <2>1. /\ h \in dequeues
        /\ queue[h] # <<>>
        /\ fragments_to_send' = Push(fragments_to_send, s, handlers[h].priority)
        /\ dequeues' = {}
        /\ enqueue_registered' = "yes"
        /\ handlers' = [handlers EXCEPT ![h].sent = @ + Size(fragments_to_send')]
        /\ UNCHANGED <<credits, starting_point>>
    BY <1>6 DEF buffer_packet, unregister_all_connections
  <2>2. type \in Types /\ handlers[h].priority \in 0..1
    BY <1>0, <2>1 DEF Entry
  <2>3. Head(queue[h]) \in Packet
    BY <2>1, HeadTailProperties DEF TypeOK
  <2>4. s \in Seq(Fragment) /\ s # <<>> /\ Head(s).type = type
    BY <2>2, <2>3, FragmentsOfPacket
  <2>5. ~Pending(fragments_to_send) /\ credits[type] > 0
    BY <2>1 DEF OnePacketAtATime
  <2> HIDE DEF s, type
  <2>6. fragments_to_send \in [0..1 -> Seq(Fragment)]
    BY DEF TypeOK
  <2>7. Pending(fragments_to_send') /\ Front(fragments_to_send') = Head(s)
    BY <2>1, <2>2, <2>4, <2>5, <2>6, PushPending, PushOnEmpty
  <2>8. EnqueueHasCredit'
    BY <2>1, <2>4, <2>5, <2>7 DEF EnqueueHasCredit
  <2>9. DOMAIN handlers' = Registered /\ Registered # {}
    BY <1>0, <2>1
  <2> QED
    BY <2>1, <2>8, <2>9 DEF OnePacketAtATime
<1>7. ASSUME NEW h \in Handles, NEW n \in 1..completed[h], incoming_acl_credits(h, n)
      PROVE  SchedulerInv'
  <2>1. CASE h \notin Registered
    BY <1>7, <2>1 DEF incoming_acl_credits, EnqueueHasCredit, OnePacketAtATime
  <2>2. CASE h \in Registered
    <3> DEFINE type == handlers[h].type
               left == IF handlers[h].sent >= n THEN handlers[h].sent - n ELSE 0
               entry == [handlers[h] EXCEPT !.sent = left]
               hs == [handlers EXCEPT ![h] = entry]
               total == Clamped(credits[type] + n, MaxCredits[type])
               cr == [credits EXCEPT ![type] = total]
    <3>1. /\ handlers' = hs
          /\ credits' = cr
          /\ UNCHANGED fragments_to_send
          /\ IF credits[type] = 0
             THEN start_round_robin(hs, cr)
             ELSE UNCHANGED <<dequeues, enqueue_registered, starting_point>>
      BY <1>7, <2>2 DEF incoming_acl_credits
    <3>2. type \in Types /\ handlers[h].sent \in Nat /\ n \in Nat /\ n > 0
      BY <1>0, <2>2 DEF Entry, TypeOK
    <3>3. total \in Nat /\ total > 0
      BY <1>0, <3>2, CreditsAssumption DEF Clamped
    <3>4. hs \in [DOMAIN hs -> Entry] /\ DOMAIN hs = Registered
      BY <1>0, <1>7, <2>2, <3>1, StepType DEF Next, TypeOK
    <3>5. \A g \in Registered : hs[g].type = handlers[g].type
      BY <1>0, <2>2 DEF Entry
    <3> HIDE DEF hs, total, left, entry
    <3>6. /\ cr \in [Types -> Nat]
          /\ \A t \in Types : credits[t] > 0 => cr[t] > 0
      BY <1>0, <3>2, <3>3
    <3> HIDE DEF cr, type
    <3>7. \A g \in dequeues : ~Pending(fragments_to_send) /\ cr[hs[g].type] > 0
      <4>1. \A g \in dequeues : handlers[g].type \in Types
        BY <1>0 DEF Entry
      <4> QED
        BY <1>0, <3>5, <3>6, <4>1 DEF OnePacketAtATime
    <3>8. enqueue_registered = "yes" =>
            Pending(fragments_to_send) /\ cr[Front(fragments_to_send).type] > 0
      <4>1. Pending(fragments_to_send) => Front(fragments_to_send).type \in Types
        BY FrontAndPop DEF TypeOK, Fragment
      <4> QED
        BY <3>6, <4>1 DEF EnqueueHasCredit
    <3>9. starting_point \in Registered \cup {End}
      BY <2>2
    <3>10. CASE UNCHANGED <<dequeues, enqueue_registered, starting_point>>
      BY <3>1, <3>4, <3>7, <3>8, <3>9, <3>10 DEF EnqueueHasCredit, OnePacketAtATime
    <3>11. CASE start_round_robin(hs, cr)
      <4>1. DOMAIN hs \subseteq Handles /\ dequeues \subseteq DOMAIN hs
        BY <1>0, <3>4
      <4> QED
        BY <3>1, <3>4, <3>6, <3>7, <3>8, <3>9, <3>11, <4>1, StartInv
    <3> QED
      BY <3>1, <3>10, <3>11
  <2> QED
    BY <2>1, <2>2
<1>8. CASE UNCHANGED <<handlers, dequeues, fragments_to_send, credits,
                       enqueue_registered, starting_point>>
  BY <1>8 DEF EnqueueHasCredit, OnePacketAtATime
<1> QED
  BY <1>1, <1>2, <1>3, <1>4, <1>5, <1>6, <1>7, <1>8
     DEF Next, vars, sched_vars, CtlReceive, SendPacket, CtlComplete, CtlDisconnect

-----------------------------------------------------------------------------
(* Theorems                                                                *)

\* The types hold always: in particular the credits never wrap below zero.
THEOREM TypeCorrect == Spec => [](TypeOK /\ SchedulerInv)
<1>1. Init => TypeOK /\ SchedulerInv
  <2> SUFFICES ASSUME Init PROVE TypeOK /\ SchedulerInv
    OBVIOUS
  <2>1. TypeOK
    BY CreditsAssumption, SizesAssumption, HandlesAssumption
       DEF Init, TypeOK, Registered, Entry, Packet, Fragment
  <2>2. SchedulerInv
    BY DEF Init, SchedulerInv, Registered, EnqueueHasCredit, OnePacketAtATime, Pending
  <2> QED
    BY <2>1, <2>2
<1>2. TypeOK /\ SchedulerInv /\ [Next]_vars => (TypeOK /\ SchedulerInv)'
  BY StepType, StepInv DEF SchedulerInv
<1> QED
  BY <1>1, <1>2, PTL DEF Spec

\* handle_enqueue_next_fragment never meets an empty queue or a type without
\* credits, whatever links come and go: neither ASSERT can fail.
THEOREM EnqueueHasCreditHolds == Spec => []EnqueueHasCredit
<1>1. SchedulerInv => EnqueueHasCredit
  BY DEF SchedulerInv
<1> QED
  BY <1>1, TypeCorrect, PTL

\* The fragments of two packets never wait together.
THEOREM OnePacketAtATimeHolds == Spec => []OnePacketAtATime
<1>1. SchedulerInv => OnePacketAtATime
  BY DEF SchedulerInv
<1> QED
  BY <1>1, TypeCorrect, PTL

\* The round robin's iterator never dangles.
THEOREM IteratorValidHolds == Spec => []IteratorValid
<1>1. SchedulerInv => IteratorValid
  BY DEF SchedulerInv, IteratorValid
<1> QED
  BY <1>1, TypeCorrect, PTL
=============================================================================
