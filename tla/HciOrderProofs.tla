--------------------------- MODULE HciOrderProofs ---------------------------
(***************************************************************************)
(* Proofs that HciLayer invokes callbacks once and in order, even across a *)
(* timeout, and that no command is left waiting for a wake-up that nobody  *)
(* will give.                                                              *)
(***************************************************************************)
EXTENDS HciLayerProofs

\* The ids in the queue increase, and those not answered yet come after all
\* that were.
OrderInv ==
  /\ \A i \in DOMAIN command_queue : command_queue[i].id <= enqueued
  /\ \A i \in DOMAIN answered : answered[i].id <= enqueued
  /\ \A i, j \in DOMAIN command_queue :
       i < j => command_queue[i].id < command_queue[j].id
  /\ \A i \in DOMAIN answered, j \in DOMAIN command_queue :
       answered[i].id # 0 /\ command_queue[j].id # 0
         => answered[i].id < command_queue[j].id
  /\ CallbacksOnceInOrder

\* The ids are numbers.
LEMMA Ids ==
  ASSUME TypeOK
  PROVE  /\ enqueued \in Nat
         /\ \A i \in DOMAIN command_queue : command_queue[i].id \in Nat
         /\ \A i \in DOMAIN answered : answered[i].id \in Nat
         /\ command_queue \in Seq(Command) /\ answered \in Seq(Answer)
<1>1. /\ enqueued \in Nat
      /\ command_queue \in Seq(Command) /\ answered \in Seq(Answer)
  BY BoundsAssumption DEF TypeOK
<1>2. \A c \in Command : c.id \in Nat
  BY BoundsAssumption DEF Command
<1>3. \A a \in Answer : a.id \in Nat
  BY BoundsAssumption DEF Answer
<1>. QED
  BY <1>1, <1>2, <1>3, ElementOfSeq

\* A new command has the largest id.
LEMMA EnqueueKeepsOrder ==
  ASSUME TypeOK, OrderInv, NEW op \in OpCodes, enqueue_command(op)
  PROVE  OrderInv'
<1>. DEFINE entry == [op |-> op, id |-> enqueued + 1,
                      expects |-> IF op \in StatusOps THEN "status" ELSE "complete"]
<1>1. /\ command_queue' = Append(command_queue, entry)
      /\ enqueued' = enqueued + 1
      /\ answered' = answered
  BY DEF enqueue_command, send_next_command
<1>2. entry.id = enqueued + 1
  OBVIOUS
<1>. HIDE DEF entry
<1>3. /\ DOMAIN command_queue = 1..Len(command_queue) /\ Len(command_queue) \in Nat
      /\ DOMAIN command_queue' = 1..(Len(command_queue) + 1)
      /\ \A i \in 1..Len(command_queue) : command_queue'[i] = command_queue[i]
      /\ command_queue'[Len(command_queue) + 1] = entry
  BY <1>1, Ids
<1>4. \A i \in DOMAIN command_queue' :
        \/ i \in DOMAIN command_queue /\ command_queue'[i] = command_queue[i]
        \/ i = Len(command_queue) + 1 /\ command_queue'[i].id = enqueued + 1
  BY <1>2, <1>3
<1>5. \A i \in DOMAIN command_queue' : command_queue'[i].id <= enqueued'
  BY <1>1, <1>4, Ids DEF OrderInv
<1>6. \A i, j \in DOMAIN command_queue' :
        i < j => command_queue'[i].id < command_queue'[j].id
  BY <1>3, <1>4, Ids DEF OrderInv
<1>7. \A i \in DOMAIN answered, j \in DOMAIN command_queue' :
        answered[i].id # 0 /\ command_queue'[j].id # 0
          => answered[i].id < command_queue'[j].id
  BY <1>4, Ids DEF OrderInv
<1>8. \A i \in DOMAIN answered : answered[i].id <= enqueued'
  BY <1>1, Ids DEF OrderInv
<1>. QED
  BY <1>1, <1>5, <1>6, <1>7, <1>8 DEF OrderInv, CallbacksOnceInOrder

\* The head is answered, and all that remain come after it.
LEMMA AnswerKeepsOrder ==
  ASSUME TypeOK, OrderInv, command_queue # <<>>, UNCHANGED enqueued,
         command_queue' = Tail(command_queue),
         NEW a, a.id = Head(command_queue).id, answered' = Append(answered, a)
  PROVE  OrderInv'
<1>1. /\ Len(command_queue) \in Nat \ {0}
      /\ DOMAIN command_queue = 1..Len(command_queue)
      /\ DOMAIN command_queue' = 1..(Len(command_queue) - 1)
      /\ \A i \in 1..(Len(command_queue) - 1) : command_queue'[i] = command_queue[i + 1]
      /\ Head(command_queue) = command_queue[1]
  BY Ids, HeadTailProperties, LenProperties
<1>2. /\ DOMAIN answered = 1..Len(answered) /\ Len(answered) \in Nat
      /\ DOMAIN answered' = 1..(Len(answered) + 1)
      /\ \A i \in 1..Len(answered) : answered'[i] = answered[i]
      /\ answered'[Len(answered) + 1] = a
  BY Ids
<1>3. \A i \in DOMAIN command_queue' :
        /\ i + 1 \in DOMAIN command_queue
        /\ command_queue'[i] = command_queue[i + 1]
        /\ a.id < command_queue'[i].id
  <2>1. \A i \in DOMAIN command_queue' :
          i + 1 \in DOMAIN command_queue /\ command_queue'[i] = command_queue[i + 1]
    BY <1>1
  <2>2. \A i \in DOMAIN command_queue : 1 < i => a.id < command_queue[i].id
    BY <1>1 DEF OrderInv
  <2>3. \A i \in DOMAIN command_queue' : 1 < i + 1
    BY <1>1
  <2>. QED
    BY <2>1, <2>2, <2>3
<1>4. \A i \in DOMAIN answered' :
        \/ i \in DOMAIN answered /\ answered'[i] = answered[i]
        \/ i = Len(answered) + 1 /\ answered'[i] = a
  BY <1>2
<1>5. a.id \in Nat /\ a.id <= enqueued
  BY <1>1, Ids DEF OrderInv
<1>6. /\ \A i \in DOMAIN command_queue' : command_queue'[i].id <= enqueued'
      /\ \A i \in DOMAIN answered' : answered'[i].id <= enqueued'
  BY <1>3, <1>4, <1>5 DEF OrderInv
<1>7. \A i, j \in DOMAIN command_queue' :
        i < j => command_queue'[i].id < command_queue'[j].id
  <2>1. \A i, j \in DOMAIN command_queue' : i < j => i + 1 < j + 1
    BY <1>1
  <2>. QED
    BY <1>3, <2>1 DEF OrderInv
<1>8. \A i \in DOMAIN answered', j \in DOMAIN command_queue' :
        answered'[i].id # 0 /\ command_queue'[j].id # 0
          => answered'[i].id < command_queue'[j].id
  BY <1>3, <1>4 DEF OrderInv
<1>9. CallbacksOnceInOrder'
  <2>1. \A i \in DOMAIN answered : answered[i].id # 0 /\ a.id # 0 => answered[i].id < a.id
    BY <1>1 DEF OrderInv
  <2>2. \A i, j \in DOMAIN answered' : i < j => i \in DOMAIN answered
    BY <1>2
  <2>. QED
    BY <1>4, <2>1, <2>2 DEF OrderInv, CallbacksOnceInOrder
<1>. QED
  BY <1>6, <1>7, <1>8, <1>9 DEF OrderInv

\* A timeout flushes the queue; what it leaves has id 0.
LEMMA FlushKeepsOrder ==
  ASSUME TypeOK, OrderInv, on_hci_timeout
  PROVE  OrderInv'
<1>. DEFINE debug == [op |-> DebugInfo, id |-> 0, expects |-> "complete"]
<1>1. command_queue' = <<debug>> /\ UNCHANGED <<enqueued, answered>>
  BY DEF on_hci_timeout
<1>2. debug.id = 0
  OBVIOUS
<1>. HIDE DEF debug
<1>3. DOMAIN command_queue' = {1} /\ command_queue'[1].id = 0
  BY <1>1, <1>2
<1>. QED
  BY <1>1, <1>3, Ids DEF OrderInv, CallbacksOnceInOrder

\* The order of the queue and of the callbacks, whatever the controller does
\* and however often it times out.
THEOREM OrderHolds == Spec => []OrderInv
<1>1. Init => OrderInv
  BY DEF Init, OrderInv, CallbacksOnceInOrder
<1>2. TypeOK /\ OrderInv /\ [Next]_vars => OrderInv'
  <2>. SUFFICES ASSUME TypeOK, OrderInv, [Next]_vars PROVE OrderInv'
    OBVIOUS
  <2>1. ASSUME NEW op \in OpCodes, enqueue_command(op) PROVE OrderInv'
    BY <2>1, EnqueueKeepsOrder
  <2>2. CASE on_hci_timeout
    BY <2>2, FlushKeepsOrder
  <2>3. ASSUME UNCHANGED <<command_queue, answered, enqueued>> PROVE OrderInv'
    BY <2>3 DEF OrderInv, CallbacksOnceInOrder
  <2>4. CASE on_hci_event
    <3>. DEFINE ev == Head(hal_events)
    <3>1. UNCHANGED enqueued
      BY <2>4 DEF on_hci_event
    <3>2. CASE UNCHANGED <<command_queue, answered>>
      BY <2>3, <3>1, <3>2
    <3>3. CASE ResponseExpected(ev) /\ complete_command(ev)
      <4>. DEFINE a == [id |-> Head(command_queue).id, answer_to |-> ev.id,
                        op |-> ev.op, as |-> AnswerAs(ev)]
      <4>1. /\ command_queue # <<>>
            /\ answered' = Append(answered, a)
            /\ command_queue' = Tail(command_queue)
        BY <3>3 DEF ResponseExpected, complete_command, send_next_command
      <4>2. a.id = Head(command_queue).id
        OBVIOUS
      <4>. HIDE DEF a
      <4>. QED
        BY <3>1, <4>1, <4>2, AnswerKeepsOrder
    <3>. QED
      BY <2>4, <3>2, <3>3 DEF on_hci_event, handle_root_inflammation,
           handle_command_response, handle_flow_control, send_next_command, AssertFails
  <2>5. CASE abort_after_time_out \/ CtlRespond \/ CtlGrant \/ CtlNop \/ CtlCrash
             \/ UNCHANGED vars
    BY <2>3, <2>5 DEF abort_after_time_out, CtlRespond, CtlGrant, CtlNop, CtlCrash,
         vars, impl_vars
  <2>. QED
    BY <2>1, <2>2, <2>4, <2>5 DEF Next
<1>. QED
  BY <1>1, <1>2, TypeCorrect, PTL DEF Spec

\* Callbacks are invoked once and in the order of the commands.
THEOREM CallbacksInOrder == Spec => []CallbacksOnceInOrder
<1>1. OrderInv => CallbacksOnceInOrder
  BY DEF OrderInv
<1>. QED
  BY <1>1, OrderHolds, PTL

-----------------------------------------------------------------------------
(* Wake-ups.                                                               *)

\* An event after which a command is sent, or the layer has failed.
Wakes(ev) == ev.type = "inflammation" \/ ev.credits > 0

\* An event that grants nothing is followed by one that does, unless the
\* controller still owes one.
GrantsFollow ==
  \A i \in DOMAIN hal_events :
    \/ Wakes(hal_events[i])
    \/ ctl_grant = "owed"
    \/ \E j \in DOMAIN hal_events : i < j /\ Wakes(hal_events[j])

WakeInv ==
  /\ GrantsFollow
  /\ mode = "normal" /\ waiting_command = None =>
       /\ command_queue # <<>> => command_credits = 0
       /\ command_credits = 0 =>
            ctl_grant = "owed" \/ \E i \in DOMAIN hal_events : Wakes(hal_events[i])

\* After send_next_command either a command is outstanding or there was none
\* to send or no credit for it.
LEMMA SendWakes ==
  ASSUME NEW q \in Seq(Command), NEW n, NEW w, NEW a,
         \A i \in DOMAIN q : q[i].op \in OpCodes,
         send_next_command(q, n, w, a), waiting_command' = None
  PROVE  /\ w = None /\ command_queue' = q /\ command_credits' = n
         /\ q # <<>> => n = 0
<1>1. q # <<>> => Head(q).op \in OpCodes
  BY LenProperties
<1>. QED
  BY <1>1, OpCodesAssumption DEF send_next_command, MaySend

\* The controller's events keep the promise.
LEMMA ControllerWakes ==
  ASSUME TypeOK, WakeInv, UNCHANGED <<impl_vars, mode>>, NEW e \in Event,
         hal_events' = Append(hal_events, e),
         Wakes(e) \/ ctl_grant' = "owed"
  PROVE  WakeInv'
<1>1. /\ DOMAIN hal_events = 1..Len(hal_events) /\ Len(hal_events) \in Nat
      /\ DOMAIN hal_events' = 1..(Len(hal_events) + 1)
      /\ \A i \in 1..Len(hal_events) : hal_events'[i] = hal_events[i]
      /\ hal_events'[Len(hal_events) + 1] = e
  BY LenProperties DEF TypeOK
<1>2. CASE ctl_grant' = "owed"
  BY <1>2 DEF WakeInv, GrantsFollow, impl_vars
<1>3. CASE Wakes(e)
  <2>. DEFINE k == Len(hal_events) + 1
  <2>1. k \in DOMAIN hal_events' /\ Wakes(hal_events'[k])
    BY <1>1, <1>3
  <2>2. \A i \in DOMAIN hal_events' : i = k \/ i < k
    BY <1>1
  <2>3. GrantsFollow'
    BY <2>1, <2>2 DEF GrantsFollow
  <2>. HIDE DEF k
  <2>. QED
    BY <2>1, <2>3 DEF WakeInv, impl_vars
<1>. QED
  BY <1>2, <1>3

\* An event handled: if it left no command outstanding and no credit, the one
\* that will is still to come.
LEMMA EventWakes ==
  ASSUME TypeOK, OutstandingInv, WakeInv, on_hci_event
  PROVE  WakeInv'
<1>. DEFINE ev == Head(hal_events)
<1>1. /\ Len(hal_events) \in Nat \ {0}
      /\ DOMAIN hal_events = 1..Len(hal_events)
      /\ hal_events' = Tail(hal_events)
      /\ DOMAIN hal_events' = 1..(Len(hal_events) - 1)
      /\ \A i \in 1..(Len(hal_events) - 1) : hal_events'[i] = hal_events[i + 1]
      /\ ev = hal_events[1] /\ ev \in Event
      /\ UNCHANGED ctl_grant
  BY HeadTailProperties, LenProperties DEF TypeOK, on_hci_event
<1>2. \A j \in DOMAIN hal_events : 1 < j =>
        j - 1 \in DOMAIN hal_events' /\ hal_events'[j - 1] = hal_events[j]
  BY <1>1
<1>3. GrantsFollow'
  <2>. SUFFICES ASSUME NEW i \in DOMAIN hal_events', ~Wakes(hal_events'[i]),
                       ctl_grant # "owed"
                PROVE  \E j \in DOMAIN hal_events' : i < j /\ Wakes(hal_events'[j])
    BY <1>1 DEF GrantsFollow
  <2>1. i + 1 \in DOMAIN hal_events /\ ~Wakes(hal_events[i + 1]) /\ i \in Nat
    BY <1>1
  <2>2. PICK j \in DOMAIN hal_events : i + 1 < j /\ Wakes(hal_events[j])
    BY <2>1 DEF WakeInv, GrantsFollow
  <2>3. 1 < j /\ i < j - 1
    BY <1>1, <2>1, <2>2
  <2>. QED
    BY <1>2, <2>2, <2>3
<1>4. ev.credits = 0 /\ ev.type # "inflammation" =>
        ctl_grant = "owed" \/ \E i \in DOMAIN hal_events' : Wakes(hal_events'[i])
  <2>. SUFFICES ASSUME ev.credits = 0, ev.type # "inflammation", ctl_grant # "owed"
                PROVE  \E i \in DOMAIN hal_events' : Wakes(hal_events'[i])
    OBVIOUS
  <2>1. ~Wakes(hal_events[1]) /\ 1 \in DOMAIN hal_events
    BY <1>1 DEF Wakes
  <2>2. PICK j \in DOMAIN hal_events : 1 < j /\ Wakes(hal_events[j])
    BY <2>1 DEF WakeInv, GrantsFollow
  <2>. QED
    BY <1>2, <2>2
<1>. SUFFICES ASSUME mode' = "normal", waiting_command' = None
              PROVE  /\ command_queue' # <<>> => command_credits' = 0
                     /\ command_credits' = 0 =>
                          \/ ctl_grant' = "owed"
                          \/ \E i \in DOMAIN hal_events' : Wakes(hal_events'[i])
  BY <1>3 DEF WakeInv
<1>5. /\ mode = "normal" /\ ev.type # "inflammation" /\ handle_command_response(ev)
  BY FailingIsFinal DEF on_hci_event, handle_root_inflammation, TypeOK, Next
<1>6. /\ command_queue \in Seq(Command)
      /\ \A i \in DOMAIN command_queue : command_queue[i].op \in OpCodes
      /\ timeout_alarm # "null" /\ process = "running"
  BY <1>5 DEF OutstandingInv, TypeOK
<1>7. CASE handle_flow_control(ev)
  BY <1>1, <1>4, <1>5, <1>6, <1>7, SendWakes DEF handle_flow_control
<1>8. CASE ResponseExpected(ev) /\ complete_command(ev)
  <2>. DEFINE rest == Tail(command_queue)
  <2>1. rest \in Seq(Command) /\ \A i \in DOMAIN rest : rest[i].op \in OpCodes
    BY <1>6, <1>8, HeadTailProperties, LenProperties DEF ResponseExpected
  <2>2. send_next_command(rest, ev.credits, None, "idle")
    BY <1>6, <1>8 DEF complete_command
  <2>. HIDE DEF rest
  <2>3. /\ command_queue' = rest /\ command_credits' = ev.credits
        /\ rest # <<>> => ev.credits = 0
    BY <2>1, <2>2, SendWakes
  <2>. QED
    BY <1>1, <1>4, <1>5, <2>3
<1>9. ~CameAfterTimeout(ev)
  <2>1. waiting_command # DebugInfo
    BY <1>5, <1>6, OpCodesAssumption, LenProperties DEF OutstandingInv
  <2>. QED
    BY <2>1 DEF CameAfterTimeout
<1>10. CASE AssertFails
  <2>1. OutstandingInv'
    BY <1>5, ResponseOutstanding DEF on_hci_event
  <2>. QED
    BY <1>10, <2>1 DEF OutstandingInv, AssertFails
<1>. QED
  BY <1>5, <1>7, <1>8, <1>9, <1>10 DEF handle_command_response

\* No wake-up is lost: a command that waits unsent will be sent by an event
\* that is under way or that the controller owes.
THEOREM NoLostWakeupHolds == Spec => []NoLostWakeup
<1>1. Init => WakeInv
  BY DEF Init, WakeInv, GrantsFollow
<1>2. TypeOK /\ OutstandingInv /\ WakeInv /\ [Next]_vars => WakeInv'
  <2>. SUFFICES ASSUME TypeOK, OutstandingInv, WakeInv, [Next]_vars PROVE WakeInv'
    OBVIOUS
  <2>1. ASSUME NEW op \in OpCodes, enqueue_command(op) PROVE WakeInv'
    <3>. DEFINE entry == [op |-> op, id |-> enqueued + 1,
                          expects |-> IF op \in StatusOps THEN "status" ELSE "complete"]
                queue == Append(command_queue, entry)
    <3>1. /\ send_next_command(queue, command_credits, waiting_command, timeout_alarm)
          /\ UNCHANGED <<hal_events, ctl_grant, mode>>
      BY <2>1 DEF enqueue_command
    <3>. SUFFICES ASSUME mode = "normal", waiting_command' = None
                  PROVE  /\ command_queue' # <<>> => command_credits' = 0
                         /\ command_credits' = 0 =>
                              \/ ctl_grant = "owed"
                              \/ \E i \in DOMAIN hal_events : Wakes(hal_events[i])
      BY <3>1 DEF WakeInv, GrantsFollow
    <3>2. queue \in Seq(Command) /\ \A i \in DOMAIN queue : queue[i].op \in OpCodes
      <4>1. /\ command_queue \in Seq(Command)
            /\ \A i \in DOMAIN command_queue : command_queue[i].op \in OpCodes
        BY DEF OutstandingInv, TypeOK
      <4>2. entry \in Command /\ entry.op \in OpCodes
        BY <2>1, BoundsAssumption DEF enqueue_command, Command, TypeOK
      <4>. HIDE DEF entry
      <4>. QED
        BY <4>1, <4>2
    <3>. HIDE DEF queue
    <3>3. /\ waiting_command = None /\ command_queue' = queue
          /\ command_credits' = command_credits /\ (queue # <<>> => command_credits = 0)
      BY <3>1, <3>2, SendWakes
    <3>. QED
      BY <3>3 DEF WakeInv
  <2>2. CASE on_hci_event
    BY <2>2, EventWakes
  <2>3. CASE on_hci_timeout
    BY <2>3 DEF on_hci_timeout, WakeInv, GrantsFollow
  <2>4. CASE abort_after_time_out \/ UNCHANGED vars
    BY <2>4 DEF abort_after_time_out, vars, impl_vars, ctl_vars, WakeInv, GrantsFollow
  <2>5. CASE CtlRespond
    <3>1. PICK i \in DOMAIN ctl_commands, error \in {"none", "unknown_command"},
               n \in 0..FreeSlots(Len(ctl_commands) - 1) :
            /\ hal_events' = Append(hal_events,
                 [type |-> IF error = "none" THEN ctl_commands[i].expects
                           ELSE "status",
                  op |-> ctl_commands[i].op, id |-> ctl_commands[i].id,
                  error |-> error, credits |-> n])
            /\ ctl_grant' = IF n = 0 THEN "owed" ELSE "given"
      BY <2>5 DEF CtlRespond
    <3>. DEFINE e == [type |-> IF error = "none" THEN ctl_commands[i].expects
                               ELSE "status",
                      op |-> ctl_commands[i].op, id |-> ctl_commands[i].id,
                      error |-> error, credits |-> n]
    <3>2. ctl_commands[i] \in Command /\ Len(ctl_commands) \in Nat \ {0}
      BY ElementOfSeq, LenProperties DEF TypeOK
    <3>3. n \in 0..CtlSlots /\ n \in Nat
      BY <3>2, BoundsAssumption DEF FreeSlots
    <3>4. e \in Event /\ e.credits = n
      BY <3>2, <3>3 DEF Command, Event
    <3>5. Wakes(e) \/ ctl_grant' = "owed"
      BY <3>1, <3>3, <3>4 DEF Wakes
    <3>6. hal_events' = Append(hal_events, e) /\ UNCHANGED <<impl_vars, mode>>
      BY <2>5, <3>1 DEF CtlRespond
    <3>. HIDE DEF e
    <3>. QED
      BY <3>4, <3>5, <3>6, ControllerWakes
  <2>6. CASE CtlGrant \/ CtlNop
    <3>1. PICK n \in 0..FreeSlots(Len(ctl_commands)) :
            /\ hal_events' = Append(hal_events, NoOpCodeEvent("complete", n))
            /\ n = 0 => ctl_grant' = "owed"
      <4>1. FreeSlots(Len(ctl_commands)) \in Nat
        BY BoundsAssumption, LenProperties DEF FreeSlots, TypeOK
      <4>. QED
        BY <2>6, <4>1 DEF CtlGrant, CtlNop
    <3>2. n \in 0..CtlSlots
      BY BoundsAssumption, LenProperties DEF FreeSlots, TypeOK
    <3>3. NoOpCodeEvent("complete", n) \in Event
      BY <3>2, BoundsAssumption DEF NoOpCodeEvent, Event
    <3>4. Wakes(NoOpCodeEvent("complete", n)) \/ ctl_grant' = "owed"
      BY <3>1, <3>2 DEF Wakes, NoOpCodeEvent
    <3>. QED
      BY <2>6, <3>1, <3>3, <3>4, ControllerWakes DEF CtlGrant, CtlNop
  <2>7. CASE CtlCrash
    <3>1. /\ NoOpCodeEvent("inflammation", 0) \in Event
          /\ Wakes(NoOpCodeEvent("inflammation", 0))
      BY BoundsAssumption DEF NoOpCodeEvent, Event, Wakes
    <3>. QED
      BY <2>7, <3>1, ControllerWakes DEF CtlCrash
  <2>. QED
    BY <2>1, <2>2, <2>3, <2>4, <2>5, <2>6, <2>7 DEF Next
<1>3. WakeInv => NoLostWakeup
  BY DEF WakeInv, NoLostWakeup, Wakes
<1>. QED
  BY <1>1, <1>2, <1>3, TypeCorrect, Outstanding, PTL DEF Spec

-----------------------------------------------------------------------------
(* The layer implements CommandService.                                    *)

\* Until a timeout or a crash, the queue holds the commands that follow those
\* answered, one after the other.
ServiceInv ==
  mode = "normal" =>
    /\ Len(command_queue) <= enqueued
    /\ \A i \in DOMAIN command_queue :
         command_queue[i].id = (enqueued - Len(command_queue)) + i
    /\ Len(answered) = enqueued - Len(command_queue)
    /\ \A i \in DOMAIN answered : answered[i].id = i

\* An invocation is one more answer.
LEMMA AppendDone ==
  ASSUME TypeOK, NEW a, a.id \in Nat, answered' = Append(answered, a)
  PROVE  Done' = Append(Done, a.id) /\ Len(Done) = Len(answered)
<1>1. /\ DOMAIN answered = 1..Len(answered) /\ Len(answered) \in Nat
      /\ DOMAIN answered' = 1..(Len(answered) + 1)
      /\ \A i \in 1..Len(answered) : answered'[i] = answered[i]
      /\ answered'[Len(answered) + 1] = a
  BY Ids
<1>2. Done \in Seq(Nat) /\ Len(Done) = Len(answered)
  BY <1>1, Ids DEF Done
<1>3. /\ Done' = [i \in 1..(Len(answered) + 1) |-> answered'[i].id]
      /\ \A i \in 1..Len(answered) : Done[i] = answered'[i].id
  BY <1>1 DEF Done
<1>4. Append(Done, a.id) = [i \in 1..(Len(answered) + 1) |->
                              IF i <= Len(answered) THEN Done[i] ELSE a.id]
  BY <1>1, <1>2
<1>. QED
  BY <1>1, <1>2, <1>3, <1>4

\* The answer to the head of the queue is a step of the service.
LEMMA AnswerImplements ==
  ASSUME TypeOK, OrderInv, ServiceInv, mode \in {"normal", "failing"},
         command_queue # <<>>, command_queue' = Tail(command_queue),
         NEW a, a.id = Head(command_queue).id, answered' = Append(answered, a),
         UNCHANGED <<enqueued, mode>>
  PROVE  ServiceInv' /\ [Commands!Next]_(Commands!vars)
<1>1. /\ Len(command_queue) \in Nat \ {0}
      /\ DOMAIN command_queue = 1..Len(command_queue)
      /\ Len(command_queue') = Len(command_queue) - 1
      /\ DOMAIN command_queue' = 1..(Len(command_queue) - 1)
      /\ \A i \in 1..(Len(command_queue) - 1) : command_queue'[i] = command_queue[i + 1]
      /\ Head(command_queue) = command_queue[1]
  BY Ids, HeadTailProperties, LenProperties
<1>2. enqueued \in Nat /\ a.id \in Nat /\ a.id <= enqueued
  BY <1>1, Ids DEF OrderInv
<1>3. /\ Done' = Append(Done, a.id)
      /\ Len(Done) = Len(answered) /\ Len(answered) \in Nat
      /\ DOMAIN answered = 1..Len(answered)
      /\ Len(answered') = Len(answered) + 1 /\ DOMAIN answered' = 1..(Len(answered) + 1)
      /\ \A i \in 1..Len(answered) : answered'[i] = answered[i]
      /\ answered'[Len(answered) + 1] = a
  BY <1>2, Ids, AppendDone
<1>4. CASE mode = "normal"
  <2>. DEFINE n == enqueued - Len(command_queue)
  <2>1. n \in Nat /\ Len(answered) = n /\ a.id = n + 1 /\ n < enqueued
    BY <1>1, <1>2, <1>4 DEF ServiceInv
  <2>2. n + 1 = enqueued' - Len(command_queue')
    BY <1>1, <1>2, <2>1
  <2>3. \A i \in DOMAIN command_queue' : command_queue'[i].id = (n + 1) + i
    <3>1. \A i \in DOMAIN command_queue : command_queue[i].id = n + i
      BY <1>4 DEF ServiceInv
    <3>. HIDE DEF n
    <3>2. \A i \in 1..(Len(command_queue) - 1) :
            i + 1 \in DOMAIN command_queue /\ n + (i + 1) = (n + 1) + i
      BY <1>1, <2>1
    <3>. QED
      BY <1>1, <3>1, <3>2
  <2>4. \A i \in DOMAIN answered' : answered'[i].id = i
    BY <1>3, <1>4, <2>1 DEF ServiceInv
  <2>5. ServiceInv'
    <3>1. Len(command_queue') <= enqueued'
      BY <1>1, <1>2, <2>1
    <3>2. Len(answered') = enqueued' - Len(command_queue')
      BY <1>3, <2>1, <2>2
    <3>. HIDE DEF n
    <3>. QED
      BY <2>2, <2>3, <2>4, <3>1, <3>2 DEF ServiceInv
  <2>6. Commands!Answer
    BY <1>3, <1>4, <2>1 DEF Commands!Answer
  <2>. QED
    BY <2>5, <2>6 DEF Commands!Next
<1>5. CASE mode = "failing" /\ a.id = 0
  BY <1>3, <1>5 DEF ServiceInv, Commands!OwnAnswer, Commands!Next
<1>6. CASE mode = "failing" /\ a.id # 0
  <2>1. \A i \in DOMAIN Done : Done[i] < a.id
    <3>1. \A i \in DOMAIN answered : answered[i].id # 0 => answered[i].id < a.id
      BY <1>1, <1>6 DEF OrderInv
    <3>2. \A i \in DOMAIN answered : answered[i].id < a.id
      BY <1>2, <1>6, <3>1
    <3>. QED
      BY <3>2 DEF Done
  <2>2. a.id \in 1..enqueued
    BY <1>2, <1>6
  <2>3. Commands!LateAnswer
    BY <1>3, <1>6, <2>1, <2>2 DEF Commands!LateAnswer
  <2>. QED
    BY <1>6, <2>3 DEF ServiceInv, Commands!Next
<1>. QED
  BY <1>4, <1>5, <1>6

\* Every step of the layer is a step of the service, or none.
LEMMA StepImplements ==
  ASSUME TypeOK, OrderInv, ServiceInv, [Next]_vars
  PROVE  ServiceInv' /\ [Commands!Next]_(Commands!vars)
<1>0. mode \in {"normal", "failing"}
  BY DEF TypeOK
<1>1. ASSUME NEW op \in OpCodes, enqueue_command(op)
      PROVE  ServiceInv' /\ [Commands!Next]_(Commands!vars)
  <2>. DEFINE entry == [op |-> op, id |-> enqueued + 1,
                        expects |-> IF op \in StatusOps THEN "status" ELSE "complete"]
  <2>1. /\ command_queue' = Append(command_queue, entry)
        /\ enqueued' = enqueued + 1
        /\ UNCHANGED <<answered, mode>>
    BY <1>1 DEF enqueue_command, send_next_command
  <2>2. entry.id = enqueued + 1
    OBVIOUS
  <2>. HIDE DEF entry
  <2>3. /\ Len(command_queue) \in Nat /\ Len(command_queue') = Len(command_queue) + 1
        /\ DOMAIN command_queue = 1..Len(command_queue)
        /\ DOMAIN command_queue' = 1..(Len(command_queue) + 1)
        /\ \A i \in 1..Len(command_queue) : command_queue'[i] = command_queue[i]
        /\ command_queue'[Len(command_queue) + 1] = entry
    BY <2>1, Ids
  <2>4. UNCHANGED Done
    BY <2>1 DEF Done
  <2>5. ASSUME mode = "normal" PROVE ServiceInv'
    <3>1. enqueued' - Len(command_queue') = enqueued - Len(command_queue)
      BY <2>1, <2>3, Ids
    <3>2. \A i \in DOMAIN command_queue' :
            command_queue'[i].id = (enqueued - Len(command_queue)) + i
      <4>1. \A i \in 1..Len(command_queue) :
              command_queue'[i].id = (enqueued - Len(command_queue)) + i
        BY <2>3, <2>5 DEF ServiceInv
      <4>2. enqueued + 1 = (enqueued - Len(command_queue)) + (Len(command_queue) + 1)
        BY <2>3, Ids
      <4>. QED
        BY <2>2, <2>3, <4>1, <4>2
    <3>3. Len(command_queue') <= enqueued'
      BY <2>1, <2>3, <2>5, Ids DEF ServiceInv
    <3>. QED
      BY <2>1, <2>5, <3>1, <3>2, <3>3 DEF ServiceInv
  <2>6. Commands!Ask
    BY <2>1, <2>4 DEF Commands!Ask
  <2>. QED
    BY <2>1, <2>5, <2>6 DEF ServiceInv, Commands!Next
<1>2. ASSUME UNCHANGED <<command_queue, answered, enqueued, mode>>
      PROVE  ServiceInv' /\ [Commands!Next]_(Commands!vars)
  BY <1>2 DEF ServiceInv, Done, Commands!vars
<1>3. ASSUME mode' = "failing", UNCHANGED <<answered, enqueued>>
      PROVE  ServiceInv' /\ [Commands!Next]_(Commands!vars)
  BY <1>3 DEF ServiceInv, Done, Commands!Next, Commands!Fail
<1>4. CASE on_hci_timeout
  BY <1>3, <1>4 DEF on_hci_timeout
<1>5. CASE on_hci_event
  <2>. DEFINE ev == Head(hal_events)
  <2>1. UNCHANGED enqueued
    BY <1>5 DEF on_hci_event
  <2>2. CASE handle_root_inflammation
    BY <1>3, <2>1, <2>2 DEF handle_root_inflammation
  <2>3. CASE UNCHANGED <<command_queue, answered, mode>>
    BY <1>2, <2>1, <2>3
  <2>4. CASE ResponseExpected(ev) /\ complete_command(ev) /\ UNCHANGED mode
    <3>. DEFINE a == [id |-> Head(command_queue).id, answer_to |-> ev.id,
                      op |-> ev.op, as |-> AnswerAs(ev)]
    <3>1. /\ command_queue # <<>>
          /\ answered' = Append(answered, a)
          /\ command_queue' = Tail(command_queue)
      BY <2>4 DEF ResponseExpected, complete_command, send_next_command
    <3>2. a.id = Head(command_queue).id
      OBVIOUS
    <3>. HIDE DEF a
    <3>. QED
      BY <1>0, <2>1, <2>4, <3>1, <3>2, AnswerImplements
  <2>. QED
    BY <1>5, <2>2, <2>3, <2>4 DEF on_hci_event, handle_command_response,
         handle_flow_control, send_next_command, AssertFails
<1>6. CASE abort_after_time_out \/ CtlRespond \/ CtlGrant \/ CtlNop \/ CtlCrash
           \/ UNCHANGED vars
  BY <1>2, <1>6 DEF abort_after_time_out, CtlRespond, CtlGrant, CtlNop, CtlCrash,
       vars, impl_vars
<1>. QED
  BY <1>1, <1>4, <1>5, <1>6 DEF Next

\* The command path of the HCI layer implements the service, for every number
\* of commands and slots and whatever the controller does.
THEOREM ServiceImplemented == Spec => ImplementsService
<1>1. Init => ServiceInv /\ Commands!Init
  <2>. SUFFICES ASSUME Init PROVE ServiceInv /\ Commands!Init
    OBVIOUS
  <2>1. Done = <<>>
    BY DEF Init, Done
  <2>. QED
    <3>1. ServiceInv
      <4>1. /\ Len(command_queue) = 0 /\ DOMAIN command_queue = {}
            /\ Len(answered) = 0 /\ DOMAIN answered = {} /\ enqueued = 0
        BY DEF Init
      <4>. QED
        BY <4>1 DEF ServiceInv
    <3>2. Commands!Init
      BY <2>1 DEF Init, Commands!Init
    <3>. QED
      BY <3>1, <3>2
<1>2. TypeOK /\ OrderInv /\ ServiceInv /\ [Next]_vars
        => ServiceInv' /\ [Commands!Next]_(Commands!vars)
  BY StepImplements
<1>. QED
  BY <1>1, <1>2, TypeCorrect, OrderHolds, PTL DEF Spec, ImplementsService, Commands!Spec
=============================================================================
