--------------------------- MODULE HciLayerProofs ---------------------------
(***************************************************************************)
(* Proofs that HciLayer keeps its types and that, until a timeout or a     *)
(* controller crash, responses meet the commands they answer.              *)
(***************************************************************************)
EXTENDS HciLayer, SequenceTheorems, TLAPS

\* Taking one element out of a sequence leaves a sequence over the same set,
\* one shorter.
LEMMA RemoveAtType ==
  ASSUME NEW S, NEW s \in Seq(S), NEW i \in DOMAIN s
  PROVE  RemoveAt(s, i) \in Seq(S) /\ Len(RemoveAt(s, i)) = Len(s) - 1
<1>1. i \in 1..Len(s) /\ Len(s) \in Nat /\ \A j \in 1..Len(s) : s[j] \in S
  BY ElementOfSeq, LenProperties
<1>. DEFINE before == SubSeq(s, 1, i - 1)
            after == SubSeq(s, i + 1, Len(s))
<1>2. before \in Seq(S) /\ Len(before) = i - 1
  BY <1>1, SubSeqProperties
<1>3. after \in Seq(S) /\ Len(after) = Len(s) - i
  BY <1>1, SubSeqProperties
<1>4. RemoveAt(s, i) = before \o after
  BY DEF RemoveAt
<1>. HIDE DEF before, after
<1>5. before \o after \in Seq(S) /\ Len(before \o after) = Len(before) + Len(after)
  BY <1>2, <1>3, ConcatProperties
<1>. QED
  BY <1>1, <1>2, <1>3, <1>4, <1>5

\* What send_next_command leaves behind is well typed if what it is called
\* with is.
LEMMA SendType ==
  ASSUME NEW q \in Seq(Command), NEW n \in 0..CtlSlots,
         NEW w \in OpCodes \cup {DebugInfo, None},
         NEW a \in {"idle", "armed", "null"},
         ctl_commands \in Seq(Command),
         send_next_command(q, n, w, a)
  PROVE  /\ command_queue' \in Seq(Command)
         /\ waiting_command' \in OpCodes \cup {DebugInfo, None}
         /\ command_credits' \in 0..CtlSlots
         /\ timeout_alarm' \in {"idle", "armed", "null"}
         /\ ctl_commands' \in Seq(Command)
<1>1. q # <<>> => Head(q) \in Command
  BY HeadTailProperties
<1>2. q # <<>> => Head(q).op \in OpCodes \cup {DebugInfo, None}
  BY <1>1 DEF Command
<1>. QED
  BY <1>1, <1>2, BoundsAssumption DEF send_next_command, MaySend

\* handle_command_response keeps the types.
LEMMA ResponseType ==
  ASSUME TypeOK, NEW ev \in Event, handle_command_response(ev)
  PROVE  /\ command_queue' \in Seq(Command)
         /\ waiting_command' \in OpCodes \cup {DebugInfo, None}
         /\ command_credits' \in 0..CtlSlots
         /\ timeout_alarm' \in {"idle", "armed", "null"}
         /\ abort_alarm' \in {"null", "armed"}
         /\ process' \in {"running", "assert", "abort_alarm"}
         /\ ctl_commands' \in Seq(Command)
         /\ answered' \in Seq(Answer)
         /\ mode' \in {"normal", "failing"}
<1>. USE DEF TypeOK
<1>1. ev.credits \in 0..CtlSlots /\ ev.op \in OpCodes \cup {DebugInfo, None}
      /\ ev.id \in 0..MaxCommands /\ ev.type \in {"status", "complete", "inflammation"}
  BY DEF Event
<1>2. CASE ev.op = None /\ handle_flow_control(ev)
           /\ UNCHANGED <<abort_alarm, process, answered, mode>>
  BY <1>1, <1>2, SendType DEF handle_flow_control
<1>3. CASE /\ command_credits' = ev.credits
           /\ UNCHANGED <<command_queue, waiting_command, timeout_alarm,
                          abort_alarm, process, ctl_commands, answered, mode>>
  BY <1>1, <1>3
<1>4. CASE /\ ev.op # None
           /\ ResponseExpected(ev)
           /\ complete_command(ev)
           /\ UNCHANGED <<abort_alarm, process, mode>>
  <2>1. /\ command_queue # <<>>
        /\ Head(command_queue) \in Command
        /\ Tail(command_queue) \in Seq(Command)
    BY <1>4, HeadTailProperties DEF ResponseExpected
  <2>2. Head(command_queue).expects \in {"status", "complete"}
        /\ Head(command_queue).id \in 0..MaxCommands
    BY <2>1 DEF Command
  <2>3. AnswerAs(ev) \in {"status", "complete", "empty_complete"}
    BY <1>4, <2>2 DEF ResponseExpected, AnswerAs
  <2>4. [id |-> Head(command_queue).id, answer_to |-> ev.id,
         op |-> ev.op, as |-> AnswerAs(ev)] \in Answer
    BY <1>1, <1>4, <2>2, <2>3 DEF Answer
  <2>5. answered' \in Seq(Answer)
    BY <1>4, <2>4 DEF complete_command
  <2>6. CASE timeout_alarm # "null"
    BY <1>1, <1>4, <2>1, <2>5, <2>6, SendType DEF complete_command
  <2>7. CASE timeout_alarm = "null"
    BY <1>1, <1>4, <2>1, <2>5, <2>7 DEF complete_command
  <2>. QED
    BY <2>6, <2>7
<1>5. CASE AssertFails
  BY <1>5 DEF AssertFails
<1>. QED
  BY <1>2, <1>3, <1>4, <1>5 DEF handle_command_response

\* Every variable of the command path keeps its type: in particular the
\* credits never exceed what the controller may grant.
THEOREM TypeCorrect == Spec => []TypeOK
<1>. USE OpCodesAssumption, BoundsAssumption
<1>1. Init => TypeOK
  BY DEF Init, TypeOK
<1>2. TypeOK /\ [Next]_vars => TypeOK'
  <2>. SUFFICES ASSUME TypeOK, [Next]_vars PROVE TypeOK'
    OBVIOUS
  <2>. USE DEF TypeOK
  <2>1. ASSUME NEW op \in OpCodes, enqueue_command(op) PROVE TypeOK'
    <3>. DEFINE entry == [op |-> op, id |-> enqueued + 1,
                          expects |-> IF op \in StatusOps THEN "status" ELSE "complete"]
    <3>1. entry \in Command /\ enqueued' \in 0..MaxCommands
      BY <2>1 DEF enqueue_command, Command
    <3>. DEFINE queue == Append(command_queue, entry)
    <3>2. queue \in Seq(Command)
      BY <3>1
    <3>3. send_next_command(queue, command_credits, waiting_command,
                            timeout_alarm)
      BY <2>1 DEF enqueue_command
    <3>. HIDE DEF queue
    <3>4. /\ command_queue' \in Seq(Command)
          /\ waiting_command' \in OpCodes \cup {DebugInfo, None}
          /\ command_credits' \in 0..CtlSlots
          /\ timeout_alarm' \in {"idle", "armed", "null"}
          /\ ctl_commands' \in Seq(Command)
      BY <3>2, <3>3, SendType
    <3>. QED
      BY <2>1, <3>1, <3>4 DEF enqueue_command
  <2>2. CASE on_hci_event
    <3>1. Head(hal_events) \in Event /\ hal_events' \in Seq(Event)
      BY <2>2, HeadTailProperties DEF on_hci_event
    <3>2. CASE handle_root_inflammation
      BY <2>2, <3>1, <3>2 DEF on_hci_event, handle_root_inflammation, schedule_abort
    <3>3. CASE handle_command_response(Head(hal_events))
      BY <2>2, <3>1, <3>3, ResponseType DEF on_hci_event
    <3>. QED
      BY <2>2, <3>2, <3>3 DEF on_hci_event
  <2>3. CASE on_hci_timeout
    BY <2>3 DEF on_hci_timeout, schedule_abort, Command
  <2>4. CASE abort_after_time_out
    BY <2>4 DEF abort_after_time_out, ctl_vars
  <2>5. CASE CtlRespond
    <3>1. PICK i \in DOMAIN ctl_commands, error \in {"none", "unknown_command"},
               n \in 0..FreeSlots(Len(ctl_commands) - 1) :
            /\ hal_events' = Append(hal_events,
                 [type |-> IF error = "none" THEN ctl_commands[i].expects
                           ELSE "status",
                  op |-> ctl_commands[i].op, id |-> ctl_commands[i].id,
                  error |-> error, credits |-> n])
            /\ ctl_commands' = RemoveAt(ctl_commands, i)
            /\ ctl_grant' = IF n = 0 THEN "owed" ELSE "given"
      BY <2>5 DEF CtlRespond
    <3>2. ctl_commands[i] \in Command /\ Len(ctl_commands) \in Nat \ {0}
      BY ElementOfSeq, LenProperties
    <3>3. n \in 0..CtlSlots
      BY <3>2 DEF FreeSlots
    <3>4. hal_events' \in Seq(Event)
      BY <3>1, <3>2, <3>3 DEF Command, Event
    <3>. QED
      BY <2>5, <3>1, <3>4, RemoveAtType DEF CtlRespond, impl_vars
  <2>6. CASE CtlGrant
    BY <2>6 DEF CtlGrant, impl_vars, NoOpCodeEvent, Event, FreeSlots
  <2>7. CASE CtlNop
    BY <2>7 DEF CtlNop, impl_vars, NoOpCodeEvent, Event, FreeSlots
  <2>8. CASE CtlCrash
    BY <2>8 DEF CtlCrash, impl_vars, NoOpCodeEvent, Event
  <2>9. CASE UNCHANGED vars
    BY <2>9 DEF vars, impl_vars, ctl_vars
  <2>. QED
    BY <2>1, <2>2, <2>3, <2>4, <2>5, <2>6, <2>7, <2>8, <2>9 DEF Next
<1>. QED
  BY <1>1, <1>2, PTL DEF Spec
-----------------------------------------------------------------------------
\* Calling send_next_command when no command is outstanding: afterwards the
\* head of the queue is with the controller, or still nothing is.
LEMMA SendOutstanding ==
  ASSUME NEW q \in Seq(Command), NEW n \in 0..CtlSlots,
         NEW a \in {"idle", "armed"},
         \A i \in DOMAIN q : q[i].op \in OpCodes,
         ctl_commands = <<>>,
         send_next_command(q, n, None, a)
  PROVE  /\ command_queue' = q
         /\ timeout_alarm' # "null"
         /\ waiting_command' = None => ctl_commands' = <<>>
         /\ waiting_command' # None =>
              /\ q # <<>>
              /\ waiting_command' = Head(q).op
              /\ ctl_commands' = <<Head(q)>>
<1>1. q # <<>> => Head(q).op \in OpCodes
  BY LenProperties
<1>. QED
  BY <1>1, OpCodesAssumption DEF send_next_command, MaySend

\* A response that is not discarded is handled in the one outstanding
\* command's favour: the assertions hold, its callback is the one invoked,
\* and the next command goes out only then.
LEMMA ResponseOutstanding ==
  ASSUME TypeOK, OutstandingInv, mode = "normal", hal_events # <<>>,
         hal_events' = Tail(hal_events),
         handle_command_response(Head(hal_events))
  PROVE  OutstandingInv'
<1>. DEFINE ev == Head(hal_events)
            cmd == Head(command_queue)
<1>. USE OpCodesAssumption
<1>1. /\ ev \in Event
      /\ Tail(hal_events) \in Seq(Event)
      /\ Len(hal_events) \in Nat \ {0}
      /\ DOMAIN hal_events = 1..Len(hal_events)
      /\ ev = hal_events[1]
      /\ DOMAIN Tail(hal_events) = 1..(Len(hal_events) - 1)
      /\ \A i \in 1..(Len(hal_events) - 1) : Tail(hal_events)[i] = hal_events[i + 1]
  BY HeadTailProperties, LenProperties DEF TypeOK
<1>2. waiting_command # None =>
        /\ waiting_command \in OpCodes
        /\ command_queue # <<>>
        /\ waiting_command = cmd.op
  BY LenProperties DEF OutstandingInv, TypeOK
<1>3. ev.credits \in 0..CtlSlots
  BY <1>1 DEF Event
<1>4. timeout_alarm \in {"idle", "armed"}
  BY DEF OutstandingInv, TypeOK
<1>5. CASE /\ ev.op = None
           /\ handle_flow_control(ev)
           /\ UNCHANGED <<abort_alarm, process, answered, mode>>
  <2>1. CASE waiting_command = None
    <3>1. ctl_commands = <<>> /\ NoResponses(hal_events)'
      BY <1>1, <2>1 DEF OutstandingInv, NoResponses
    <3>2. send_next_command(command_queue, ev.credits, None, timeout_alarm)
      BY <1>5, <2>1 DEF handle_flow_control
    <3>3. /\ command_queue' = command_queue
          /\ timeout_alarm' # "null"
          /\ waiting_command' = None => ctl_commands' = <<>>
          /\ waiting_command' # None =>
              /\ command_queue # <<>>
              /\ waiting_command' = cmd.op
              /\ ctl_commands' = <<cmd>>
      BY <1>3, <1>4, <3>1, <3>2, SendOutstanding DEF OutstandingInv, TypeOK
    <3>. QED
      BY <1>5, <3>1, <3>3 DEF OutstandingInv, AtController, AnswersMatch
  <2>2. CASE waiting_command # None
    <3>1. UNCHANGED <<command_queue, waiting_command, timeout_alarm, ctl_commands>>
      BY <1>5, <2>2 DEF handle_flow_control, send_next_command, MaySend
    <3>2. AtController(cmd) => AtController(cmd)'
      BY <1>1, <3>1 DEF AtController, NoResponses
    <3>3. Answered(cmd) => Answered(cmd)'
      <4>. SUFFICES ASSUME Answered(cmd) PROVE Answered(cmd)'
        OBVIOUS
      <4>1. PICK k \in DOMAIN hal_events :
              /\ Answers(hal_events[k], cmd)
              /\ \A i \in DOMAIN hal_events \ {k} : ~IsResponse(hal_events[i])
        BY DEF Answered
      <4>2. k # 1
        BY <1>1, <1>2, <1>5, <2>2, <4>1 DEF Answers
      <4>3. /\ k - 1 \in DOMAIN hal_events'
            /\ Answers(hal_events'[k - 1], cmd')
        BY <1>1, <3>1, <4>1, <4>2 DEF Answers
      <4>4. \A i \in DOMAIN hal_events' \ {k - 1} : ~IsResponse(hal_events'[i])
        BY <1>1, <4>1, <4>2
      <4>. QED
        BY <3>1, <4>3, <4>4 DEF Answered
    <3>. QED
      BY <1>5, <2>2, <3>1, <3>2, <3>3 DEF OutstandingInv, AnswersMatch
  <2>. QED
    BY <2>1, <2>2
<1>6. ~CameAfterTimeout(ev)
  BY <1>2 DEF CameAfterTimeout
<1>7. CASE ev.op # None
  <2>1. waiting_command # None /\ Answered(cmd)
    BY <1>1, <1>7 DEF OutstandingInv, AtController, NoResponses, IsResponse
  <2>2. /\ Answers(ev, cmd)
        /\ NoResponses(Tail(hal_events))
        /\ ctl_commands = <<>>
    BY <1>1, <1>7, <2>1 DEF Answered, NoResponses, IsResponse
  <2>3. ResponseExpected(ev)
    <3>1. ev.error \in {"none", "unknown_command"} /\ Ogf[ev.op] # 0
      BY <1>1, <1>7 DEF Event
    <3>2. cmd \in Command
      BY <1>2, <2>1, HeadTailProperties DEF TypeOK
    <3>3. cmd.expects \in {"status", "complete"}
      BY <3>2 DEF Command
    <3>. QED
      BY <1>2, <2>1, <2>2, <3>1, <3>3
         DEF ResponseExpected, AnswerAs, Answers, IsVendorSpecific
  <2>4. complete_command(ev) /\ UNCHANGED <<abort_alarm, process, mode>>
    BY <1>6, <1>7, <2>3 DEF handle_command_response
  <2>5. send_next_command(Tail(command_queue), ev.credits, None, "idle")
    BY <1>4, <2>4 DEF complete_command
  <2>6. /\ Tail(command_queue) \in Seq(Command)
        /\ \A i \in DOMAIN Tail(command_queue) :
             Tail(command_queue)[i].op \in OpCodes
    BY <1>2, <2>1, HeadTailProperties, LenProperties DEF OutstandingInv, TypeOK
  <2>7. AnswersMatch'
    <3>1. answered' = Append(answered, [id |-> cmd.id, answer_to |-> ev.id,
                                        op |-> ev.op, as |-> AnswerAs(ev)])
      BY <2>4 DEF complete_command
    <3>2. cmd.id = ev.id
      BY <2>2 DEF Answers
    <3>3. \A i \in DOMAIN answered : answered[i].id = answered[i].answer_to
      BY DEF OutstandingInv, AnswersMatch
    <3>4. answered \in Seq(Answer)
      BY DEF TypeOK
    <3>. HIDE DEF ev, cmd
    <3>. QED
      BY <3>1, <3>2, <3>3, <3>4 DEF AnswersMatch
  <2>. DEFINE rest == Tail(command_queue)
  <2>8. /\ command_queue' = rest
        /\ timeout_alarm' # "null"
        /\ waiting_command' = None => ctl_commands' = <<>>
        /\ waiting_command' # None =>
             /\ rest # <<>>
             /\ waiting_command' = Head(rest).op
             /\ ctl_commands' = <<Head(rest)>>
    BY <1>3, <2>2, <2>5, <2>6, SendOutstanding
  <2>. QED
    BY <2>2, <2>4, <2>6, <2>7, <2>8 DEF OutstandingInv, AtController
<1>. QED
  BY <1>5, <1>7 DEF handle_command_response

\* Nothing brings the layer back to normal operation.
LEMMA FailingIsFinal ==
  ASSUME [Next]_vars, mode = "failing" PROVE mode' = "failing"
BY DEF Next, vars, enqueue_command, on_hci_event, handle_root_inflammation,
   handle_command_response, AssertFails, on_hci_timeout, abort_after_time_out,
   CtlRespond, CtlGrant, CtlNop, CtlCrash

\* An event without an opcode changes nothing about what is outstanding.
LEMMA EventOutstanding ==
  ASSUME TypeOK, OutstandingInv, mode = "normal",
         NEW e \in Event, e.op = None,
         hal_events' = Append(hal_events, e),
         UNCHANGED <<impl_vars, ctl_commands, answered, mode>>
  PROVE  OutstandingInv'
<1>1. /\ DOMAIN hal_events' = 1..(Len(hal_events) + 1)
      /\ DOMAIN hal_events = 1..Len(hal_events)
      /\ Len(hal_events) \in Nat
      /\ \A i \in 1..Len(hal_events) : hal_events'[i] = hal_events[i]
      /\ hal_events'[Len(hal_events) + 1] = e
  BY LenProperties DEF TypeOK
<1>2. NoResponses(hal_events) => NoResponses(hal_events)'
  BY <1>1 DEF NoResponses, IsResponse
<1>3. UNCHANGED <<command_queue, waiting_command, timeout_alarm, abort_alarm,
                  process, ctl_commands, answered, mode>>
  BY DEF impl_vars
<1>4. ASSUME NEW cmd, Answered(cmd) PROVE Answered(cmd)'
  <2>1. PICK k \in DOMAIN hal_events :
          /\ Answers(hal_events[k], cmd)
          /\ \A i \in DOMAIN hal_events \ {k} : ~IsResponse(hal_events[i])
    BY <1>4 DEF Answered
  <2>2. /\ k \in DOMAIN hal_events'
        /\ Answers(hal_events'[k], cmd)
    BY <1>1, <2>1
  <2>3. \A i \in DOMAIN hal_events' \ {k} : ~IsResponse(hal_events'[i])
    BY <1>1, <2>1 DEF IsResponse
  <2>. QED
    BY <1>3, <1>4, <2>2, <2>3 DEF Answered
<1>. QED
  BY <1>2, <1>3, <1>4 DEF OutstandingInv, AtController, AnswersMatch

\* Until a timeout or a crash the head of command_queue_ is the one command
\* that is outstanding, at the controller or on its way back.
THEOREM Outstanding == Spec => []OutstandingInv
<1>. USE OpCodesAssumption
<1>1. Init => OutstandingInv
  BY DEF Init, OutstandingInv, NoResponses, AnswersMatch
<1>2. TypeOK /\ OutstandingInv /\ [Next]_vars => OutstandingInv'
  <2>. SUFFICES ASSUME TypeOK, OutstandingInv, [Next]_vars, mode = "normal"
                PROVE  OutstandingInv'
    BY FailingIsFinal DEF OutstandingInv, TypeOK
  <2>1. ASSUME NEW op \in OpCodes, enqueue_command(op) PROVE OutstandingInv'
    <3>. DEFINE entry == [op |-> op, id |-> enqueued + 1,
                          expects |-> IF op \in StatusOps THEN "status" ELSE "complete"]
                queue == Append(command_queue, entry)
    <3>1. entry \in Command
      BY <2>1, BoundsAssumption DEF enqueue_command, Command, TypeOK
    <3>2. /\ queue \in Seq(Command)
          /\ queue # <<>>
          /\ command_queue # <<>> => Head(queue) = Head(command_queue)
          /\ \A i \in DOMAIN queue : queue[i].op \in OpCodes
      <4>1. /\ command_queue \in Seq(Command)
            /\ \A i \in DOMAIN command_queue : command_queue[i].op \in OpCodes
            /\ entry.op \in OpCodes
        BY DEF OutstandingInv, TypeOK
      <4>. HIDE DEF entry
      <4>. QED
        BY <3>1, <4>1
    <3>3. send_next_command(queue, command_credits, waiting_command, timeout_alarm)
      BY <2>1 DEF enqueue_command
    <3>4. UNCHANGED <<abort_alarm, process, hal_events, answered, mode>>
      BY <2>1 DEF enqueue_command
    <3>. HIDE DEF queue
    <3>5. CASE waiting_command = None
      <4>1. ctl_commands = <<>> /\ NoResponses(hal_events)
        BY <3>5 DEF OutstandingInv
      <4>2. /\ command_queue' = queue
            /\ timeout_alarm' # "null"
            /\ waiting_command' = None => ctl_commands' = <<>>
            /\ waiting_command' # None =>
                 /\ queue # <<>>
                 /\ waiting_command' = Head(queue).op
                 /\ ctl_commands' = <<Head(queue)>>
        BY <3>2, <3>3, <3>5, <4>1, SendOutstanding DEF OutstandingInv, TypeOK
      <4>. QED
        BY <3>2, <3>4, <4>1, <4>2
           DEF OutstandingInv, AtController, NoResponses, AnswersMatch
    <3>6. CASE waiting_command # None
      <4>1. /\ command_queue' = queue
            /\ UNCHANGED <<waiting_command, timeout_alarm, ctl_commands>>
        BY <3>3, <3>6 DEF send_next_command, MaySend
      <4>. QED
        BY <3>2, <3>4, <3>6, <4>1
           DEF OutstandingInv, AtController, Answered, NoResponses, AnswersMatch
    <3>. QED
      BY <3>5, <3>6
  <2>2. CASE on_hci_event
    <3>1. CASE handle_root_inflammation
      BY <3>1 DEF handle_root_inflammation, OutstandingInv
    <3>2. CASE handle_command_response(Head(hal_events))
      BY <2>2, <3>2, ResponseOutstanding DEF on_hci_event
    <3>. QED
      BY <2>2, <3>1, <3>2 DEF on_hci_event
  <2>3. CASE on_hci_timeout
    BY <2>3 DEF on_hci_timeout, OutstandingInv
  <2>4. CASE abort_after_time_out
    BY <2>4 DEF abort_after_time_out, OutstandingInv
  <2>5. CASE CtlRespond
    <3>. DEFINE cmd == Head(command_queue)
    <3>1. PICK i \in DOMAIN ctl_commands, error \in {"none", "unknown_command"},
               n \in 0..FreeSlots(Len(ctl_commands) - 1) :
            /\ hal_events' = Append(hal_events,
                 [type |-> IF error = "none" THEN ctl_commands[i].expects
                           ELSE "status",
                  op |-> ctl_commands[i].op, id |-> ctl_commands[i].id,
                  error |-> error, credits |-> n])
            /\ ctl_commands' = RemoveAt(ctl_commands, i)
      BY <2>5 DEF CtlRespond
    <3>2. /\ waiting_command # None
          /\ AtController(cmd)
      BY DEF OutstandingInv, Answered
    <3>3. /\ ctl_commands = <<cmd>>
          /\ i = 1
          /\ NoResponses(hal_events)
      BY <3>2 DEF AtController
    <3>4. ctl_commands' = <<>>
      <4>1. ctl_commands \in Seq(Command) /\ Len(ctl_commands) = 1
        BY <3>3 DEF TypeOK
      <4>2. ctl_commands' \in Seq(Command) /\ Len(ctl_commands') = 0
        BY <3>1, <4>1, RemoveAtType
      <4>. QED
        BY <4>2, EmptySeq
    <3>5. Answered(cmd)'
      <4>. DEFINE k == Len(hal_events) + 1
      <4>1. /\ DOMAIN hal_events' = 1..k
            /\ \A j \in 1..Len(hal_events) : hal_events'[j] = hal_events[j]
            /\ hal_events'[k] =
                 [type |-> IF error = "none" THEN cmd.expects ELSE "status",
                  op |-> cmd.op, id |-> cmd.id, error |-> error, credits |-> n]
        BY <3>1, <3>3 DEF TypeOK
      <4>2. Answers(hal_events'[k], cmd)
        BY <4>1 DEF Answers
      <4>3. \A j \in DOMAIN hal_events' \ {k} : ~IsResponse(hal_events'[j])
        <5>1. DOMAIN hal_events = 1..Len(hal_events) /\ Len(hal_events) \in Nat
          BY LenProperties DEF TypeOK
        <5>2. \A j \in 1..Len(hal_events) : ~IsResponse(hal_events'[j])
          BY <3>3, <4>1, <5>1 DEF NoResponses
        <5>. QED
          BY <4>1, <5>1, <5>2
      <4>4. k \in DOMAIN hal_events'
        BY <4>1, LenProperties DEF TypeOK
      <4>5. UNCHANGED cmd
        BY <2>5 DEF CtlRespond, impl_vars
      <4>. QED
        BY <3>4, <4>2, <4>3, <4>4, <4>5 DEF Answered
    <3>. QED
      BY <2>5, <3>2, <3>5
         DEF CtlRespond, impl_vars, OutstandingInv, AnswersMatch
  <2>6. CASE CtlGrant
    <3>1. PICK n \in 1..FreeSlots(Len(ctl_commands)) :
            hal_events' = Append(hal_events, NoOpCodeEvent("complete", n))
      BY <2>6 DEF CtlGrant
    <3>2. NoOpCodeEvent("complete", n) \in Event
      BY BoundsAssumption DEF NoOpCodeEvent, Event, FreeSlots, TypeOK
    <3>. QED
      BY <2>6, <3>1, <3>2, EventOutstanding DEF CtlGrant, NoOpCodeEvent
  <2>7. CASE CtlNop
    <3>1. PICK n \in 0..FreeSlots(Len(ctl_commands)) :
            hal_events' = Append(hal_events, NoOpCodeEvent("complete", n))
      BY <2>7 DEF CtlNop
    <3>2. NoOpCodeEvent("complete", n) \in Event
      BY BoundsAssumption DEF NoOpCodeEvent, Event, FreeSlots, TypeOK
    <3>. QED
      BY <2>7, <3>1, <3>2, EventOutstanding DEF CtlNop, NoOpCodeEvent
  <2>8. CASE CtlCrash
    <3>1. NoOpCodeEvent("inflammation", 0) \in Event
      BY BoundsAssumption DEF NoOpCodeEvent, Event
    <3>. QED
      BY <2>8, <3>1, EventOutstanding DEF CtlCrash, NoOpCodeEvent
  <2>9. CASE UNCHANGED vars
    BY <2>9 DEF vars, impl_vars, ctl_vars, OutstandingInv, AtController,
                Answered, NoResponses, AnswersMatch
  <2>. QED
    BY <2>1, <2>2, <2>3, <2>4, <2>5, <2>6, <2>7, <2>8, <2>9 DEF Next
<1>. QED
  BY <1>1, <1>2, TypeCorrect, PTL DEF Spec

\* "Only allow one outstanding command": until a timeout or a crash the
\* controller never holds two, for any number of slots it may offer.
THEOREM OneOutstandingHolds == Spec => []OneOutstanding
<1>1. OutstandingInv => OneOutstanding
  <2>. SUFFICES ASSUME OutstandingInv, mode = "normal"
                PROVE  Len(ctl_commands) <= 1
    BY DEF OneOutstanding
  <2>. DEFINE cmd == Head(command_queue)
  <2>1. ctl_commands = <<>> \/ ctl_commands = <<cmd>>
    BY DEF OutstandingInv, AtController, Answered
  <2>. HIDE DEF cmd
  <2>2. CASE ctl_commands = <<>>
    BY <2>2
  <2>3. CASE ctl_commands = <<cmd>>
    <3>1. Len(<<cmd>>) = 1
      OBVIOUS
    <3>. QED
      BY <2>3, <3>1
  <2>. QED
    BY <2>1, <2>2, <2>3
<1>. QED
  BY <1>1, Outstanding, PTL

\* Until a timeout or a crash no assertion on a response fails: the response
\* always finds its command waiting.
THEOREM ResponsesExpectedHolds == Spec => []ResponsesExpected
<1>1. OutstandingInv => ResponsesExpected
  BY DEF OutstandingInv, ResponsesExpected
<1>. QED
  BY <1>1, Outstanding, PTL

\* Until a timeout or a crash every callback gets the answer to its own
\* command.
THEOREM AnswersMatchHolds == Spec => []AnswersMatch
<1>1. OutstandingInv => AnswersMatch
  BY DEF OutstandingInv, AnswersMatch
<1>. QED
  BY <1>1, Outstanding, PTL
=============================================================================
