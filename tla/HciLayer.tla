------------------------------ MODULE HciLayer ------------------------------
(***************************************************************************)
(* The command path of the HCI layer (system/gd/hci/hci_layer.cc): the     *)
(* queue of commands waiting for the controller, the single outstanding    *)
(* command, the command credits, the command timeout and the abort that    *)
(* follows it, composed with the controller at the other end of the HAL.   *)
(*                                                                         *)
(* Every function of HciLayer::impl runs on the module's handler, so each  *)
(* one is a single step.  EnqueueCommand and the HAL callback only post to *)
(* that handler: events keep their order in hal_events, and a client's     *)
(* command enters the model when the handler runs enqueue_command for it.  *)
(* Clients' callbacks run elsewhere; `answered' records their invocations. *)
(***************************************************************************)
EXTENDS Naturals, Sequences, SequencesExt

CONSTANTS
  OpCodes,       \* the commands clients send
  StatusOps,     \* those the controller answers with Command Status
  Ogf,           \* the opcode group of each command
  DebugInfo,     \* OpCode::CONTROLLER_DEBUG_INFO
  None,          \* OpCode::NONE
  CtlSlots,      \* commands the controller can hold
  MaxCommands,   \* bound: commands the clients enqueue
  MaxNops        \* bound: unsolicited flow control events

ASSUME OpCodesAssumption ==
  /\ StatusOps \subseteq OpCodes
  /\ Ogf \in [OpCodes \cup {DebugInfo, None} -> 0..63]
  /\ \A op \in OpCodes \cup {DebugInfo, None} : Ogf[op] = 0 <=> op = None
  /\ DebugInfo \notin OpCodes
  /\ None \notin OpCodes
  /\ DebugInfo # None

ASSUME BoundsAssumption ==
  /\ CtlSlots \in Nat \ {0}
  /\ MaxCommands \in Nat
  /\ MaxNops \in Nat

VARIABLES
  command_queue,     \* command_queue_: the head is the outstanding command
  waiting_command,   \* waiting_command_
  command_credits,   \* command_credits_
  timeout_alarm,     \* hci_timeout_alarm_: "idle", "armed" or "null"
  abort_alarm,       \* hci_abort_alarm_: "null" or "armed"
  process,           \* "running", or how it ended: "assert", "abort_alarm"
  hal_events,        \* events posted to the handler by the HAL thread
  ctl_commands,      \* commands the controller holds, oldest first
  ctl_grant,         \* "owed" if the last event of the controller granted none
  nops,              \* unsolicited flow control events so far
  enqueued,          \* number of commands clients have enqueued
  answered,          \* callbacks invoked: which command, whose answer, how
  mode               \* "normal", or "failing" after a timeout or a crash

impl_vars == <<command_queue, waiting_command, command_credits,
               timeout_alarm, abort_alarm, process>>
ctl_vars == <<ctl_commands, ctl_grant, nops>>
vars == <<impl_vars, ctl_vars, hal_events, enqueued, answered, mode>>

-----------------------------------------------------------------------------
Command == [op : OpCodes \cup {DebugInfo}, id : 0..MaxCommands,
            expects : {"status", "complete"}]

\* An event of the HAL.  A Command Status or Command Complete has an opcode,
\* None for flow control, and the credits it grants; `id' is the command the
\* controller answers and `error' may be UNKNOWN_HCI_COMMAND.  An
\* inflammation is the vendor specific event that announces a crash.
Event == [type : {"status", "complete", "inflammation"},
          op : OpCodes \cup {DebugInfo, None}, id : 0..MaxCommands,
          error : {"none", "unknown_command"}, credits : 0..CtlSlots]

NoOpCodeEvent(type, n) ==
  [type |-> type, op |-> None, id |-> 0, error |-> "none", credits |-> n]

Answer == [id : 0..MaxCommands, answer_to : 0..MaxCommands,
           op : OpCodes \cup {DebugInfo},
           as : {"status", "complete", "empty_complete"}]

IsResponse(ev) == ev.op # None

Init ==
  /\ command_queue = <<>>
  /\ waiting_command = None
  /\ command_credits = 1
  /\ timeout_alarm = "idle"
  /\ abort_alarm = "null"
  /\ process = "running"
  /\ hal_events = <<>>
  /\ ctl_commands = <<>>
  /\ ctl_grant = "given"
  /\ nops = 0
  /\ enqueued = 0
  /\ answered = <<>>
  /\ mode = "normal"

-----------------------------------------------------------------------------
(* send_next_command, as a relation between the queue, credits, waiting    *)
(* command and alarm it is called with and the values it leaves behind.    *)

\* Mutant: an outstanding command does not hold back the next.
MaySendAnyCredit(queue, credits, waiting) == credits # 0 /\ queue # <<>>

MaySend(queue, credits, waiting) ==
  credits # 0 /\ waiting = None /\ queue # <<>>

send_next_command(queue, credits, waiting, alarm) ==
  /\ command_queue' = queue
  /\ IF MaySend(queue, credits, waiting)
     THEN /\ ctl_commands' = Append(ctl_commands, Head(queue))
          /\ waiting_command' = Head(queue).op
          /\ command_credits' = 0
          /\ timeout_alarm' = IF alarm = "null" THEN "null" ELSE "armed"
     ELSE /\ waiting_command' = waiting
          /\ command_credits' = credits
          /\ timeout_alarm' = alarm
          /\ UNCHANGED ctl_commands

\* Mutant: a new command goes to the front.
EnqueueInFront(op) ==
  LET entry == [op |-> op, id |-> enqueued + 1,
                expects |-> IF op \in StatusOps THEN "status" ELSE "complete"]
  IN /\ process = "running"
     /\ enqueued < MaxCommands
     /\ enqueued' = enqueued + 1
     /\ send_next_command(<<entry>> \o command_queue, command_credits,
                          waiting_command, timeout_alarm)
     /\ UNCHANGED <<abort_alarm, process, hal_events, ctl_grant, nops,
                    answered, mode>>

\* EnqueueCommand / enqueue_command: the callback's type says which of the
\* two response events the client expects.
enqueue_command(op) ==
  LET entry == [op |-> op, id |-> enqueued + 1,
                expects |-> IF op \in StatusOps THEN "status" ELSE "complete"]
  IN /\ process = "running"
     /\ enqueued < MaxCommands
     /\ enqueued' = enqueued + 1
     /\ send_next_command(Append(command_queue, entry), command_credits,
                          waiting_command, timeout_alarm)
     /\ UNCHANGED <<abort_alarm, process, hal_events, ctl_grant, nops,
                    answered, mode>>

-----------------------------------------------------------------------------
(* on_hci_event and handle_command_response                                *)

AssertFails ==
  /\ process' = "assert"
  /\ UNCHANGED <<command_queue, waiting_command, command_credits,
                 timeout_alarm, abort_alarm, ctl_commands, answered, mode>>

\* is_vendor_specific: op_code & (0x3f << 10), taken as a truth value
IsVendorSpecific(op) == Ogf[op] # 0

AnswerAs(ev) ==
  IF IsVendorSpecific(ev.op) /\ ev.type = "status"
     /\ ev.error = "unknown_command" /\ Head(command_queue).expects = "complete"
  THEN "empty_complete" ELSE ev.type

\* The assertions on a response that is not flow control: a command is
\* waiting, it is this one, and it expects this kind of event.
ResponseExpected(ev) ==
  /\ command_queue # <<>>
  /\ waiting_command = ev.op
  /\ \/ AnswerAs(ev) = "empty_complete"
     \/ Head(command_queue).expects = ev.type

\* Mutant: new credits do not send the next command.
FlowControlNotSending(ev) ==
  /\ command_credits' = ev.credits
  /\ UNCHANGED <<command_queue, waiting_command, timeout_alarm, ctl_commands>>

\* A response with OpCode::NONE only grants credits.
handle_flow_control(ev) ==
  send_next_command(command_queue, ev.credits, waiting_command, timeout_alarm)

\* Mutant: the head stays in the queue, and is sent again.
CompleteKeepingHead(ev) ==
  /\ answered' = Append(answered,
       [id |-> Head(command_queue).id, answer_to |-> ev.id,
        op |-> ev.op, as |-> AnswerAs(ev)])
  /\ send_next_command(command_queue, ev.credits, None, "idle")

\* Invoke the callback of the head, pop it, and carry on unless the timer is
\* gone (an abort is coming).
complete_command(ev) ==
  /\ answered' = Append(answered,
       [id |-> Head(command_queue).id, answer_to |-> ev.id,
        op |-> ev.op, as |-> AnswerAs(ev)])
  /\ IF timeout_alarm # "null"
     THEN send_next_command(Tail(command_queue), ev.credits, None, "idle")
     ELSE /\ command_queue' = Tail(command_queue)
          /\ waiting_command' = None
          /\ command_credits' = ev.credits
          /\ UNCHANGED <<timeout_alarm, ctl_commands>>

\* "Discarding event that came after timeout"
CameAfterTimeout(ev) ==
  command_queue # <<>> /\ waiting_command = DebugInfo /\ ev.op # DebugInfo

handle_command_response(ev) ==
  \/ /\ ev.op = None
     /\ handle_flow_control(ev)
     /\ UNCHANGED <<abort_alarm, process, answered, mode>>
  \/ /\ ev.op # None
     /\ CameAfterTimeout(ev)
     /\ command_credits' = ev.credits
     /\ UNCHANGED <<command_queue, waiting_command, timeout_alarm,
                    abort_alarm, process, ctl_commands, answered, mode>>
  \/ /\ ev.op # None
     /\ ~CameAfterTimeout(ev)
     /\ ResponseExpected(ev)
     /\ complete_command(ev)
     /\ UNCHANGED <<abort_alarm, process, mode>>
  \/ /\ ev.op # None
     /\ ~CameAfterTimeout(ev)
     /\ ~ResponseExpected(ev)
     /\ AssertFails

\* Mutant: the abort is not scheduled.
ScheduleNoAbort == UNCHANGED abort_alarm

\* The alarm that kills the process, unless it is already scheduled.
schedule_abort == abort_alarm' = "armed"

handle_root_inflammation ==
  /\ timeout_alarm' = "null"
  /\ schedule_abort
  /\ mode' = "failing"
  /\ UNCHANGED <<command_queue, waiting_command, command_credits, process,
                 ctl_commands, answered>>

on_hci_event ==
  /\ process = "running"
  /\ hal_events # <<>>
  /\ hal_events' = Tail(hal_events)
  /\ \/ /\ Head(hal_events).type = "inflammation"
        /\ handle_root_inflammation
     \/ /\ Head(hal_events).type # "inflammation"
        /\ handle_command_response(Head(hal_events))
  /\ UNCHANGED <<ctl_grant, nops, enqueued>>

-----------------------------------------------------------------------------
(* Timers                                                                  *)

\* on_hci_timeout: flush, ask for debug information without a timer, and
\* schedule the abort.
on_hci_timeout ==
  LET debug_info == [op |-> DebugInfo, id |-> 0, expects |-> "complete"]
  IN /\ process = "running"
     /\ timeout_alarm = "armed"
     /\ command_queue' = <<debug_info>>
     /\ ctl_commands' = Append(ctl_commands, debug_info)
     /\ waiting_command' = DebugInfo
     /\ command_credits' = 0
     /\ timeout_alarm' = "null"
     /\ schedule_abort
     /\ mode' = "failing"
     /\ UNCHANGED <<process, hal_events, ctl_grant, nops, enqueued, answered>>

\* abort_after_time_out, abort_after_root_inflammation
abort_after_time_out ==
  /\ process = "running"
  /\ abort_alarm = "armed"
  /\ process' = "abort_alarm"
  /\ UNCHANGED <<command_queue, waiting_command, command_credits,
                 timeout_alarm, abort_alarm, ctl_vars, hal_events, enqueued,
                 answered, mode>>

-----------------------------------------------------------------------------
(* The controller (external).  It answers each command it holds once, in   *)
(* any order and at any time, with the event its opcode calls for or with  *)
(* a status of UNKNOWN_HCI_COMMAND.  Every event grants at most the slots  *)
(* that are free; after granting none it grants some once a slot is free.  *)

FreeSlots(held) == IF held < CtlSlots THEN CtlSlots - held ELSE 0

CtlRespond ==
  /\ process = "running"
  /\ \E i \in DOMAIN ctl_commands, error \in {"none", "unknown_command"},
        n \in 0..FreeSlots(Len(ctl_commands) - 1) :
       /\ LET cmd == ctl_commands[i]
          IN hal_events' = Append(hal_events,
               [type |-> IF error = "none" THEN cmd.expects ELSE "status",
                op |-> cmd.op, id |-> cmd.id, error |-> error,
                credits |-> n])
       /\ ctl_commands' = RemoveAt(ctl_commands, i)
       /\ ctl_grant' = IF n = 0 THEN "owed" ELSE "given"
  /\ UNCHANGED <<impl_vars, nops, enqueued, answered, mode>>

CtlGrant ==
  /\ process = "running"
  /\ ctl_grant = "owed"
  /\ \E n \in 1..FreeSlots(Len(ctl_commands)) :
       hal_events' = Append(hal_events, NoOpCodeEvent("complete", n))
  /\ ctl_grant' = "given"
  /\ UNCHANGED <<impl_vars, ctl_commands, nops, enqueued, answered, mode>>

CtlNop ==
  /\ process = "running"
  /\ nops < MaxNops
  /\ nops' = nops + 1
  /\ \E n \in 0..FreeSlots(Len(ctl_commands)) :
       /\ hal_events' = Append(hal_events, NoOpCodeEvent("complete", n))
       /\ ctl_grant' = IF n = 0 THEN "owed" ELSE "given"
  /\ UNCHANGED <<impl_vars, ctl_commands, enqueued, answered, mode>>

CtlCrash ==
  /\ process = "running"
  /\ nops < MaxNops
  /\ nops' = nops + 1
  /\ hal_events' = Append(hal_events, NoOpCodeEvent("inflammation", 0))
  /\ UNCHANGED <<impl_vars, ctl_commands, ctl_grant, enqueued, answered,
                 mode>>

-----------------------------------------------------------------------------
Next ==
  \/ \E op \in OpCodes : enqueue_command(op)
  \/ on_hci_event
  \/ on_hci_timeout
  \/ abort_after_time_out
  \/ CtlRespond
  \/ CtlGrant
  \/ CtlNop
  \/ CtlCrash

Spec == Init /\ [][Next]_vars

\* The handler's thread keeps running its events, an alarm that stays armed
\* fires, and the controller keeps its promise to grant another command.
\* Nothing is assumed of its answers: they may never come.
Fairness ==
  /\ WF_vars(on_hci_event)
  /\ WF_vars(on_hci_timeout)
  /\ WF_vars(abort_after_time_out)
  /\ WF_vars(CtlGrant)

FairSpec == Spec /\ Fairness

-----------------------------------------------------------------------------
(* Properties                                                              *)

\* The type of every variable.
TypeOK ==
  /\ command_queue \in Seq(Command)
  /\ waiting_command \in OpCodes \cup {DebugInfo, None}
  /\ command_credits \in 0..CtlSlots
  /\ timeout_alarm \in {"idle", "armed", "null"}
  /\ abort_alarm \in {"null", "armed"}
  /\ process \in {"running", "assert", "abort_alarm"}
  /\ hal_events \in Seq(Event)
  /\ ctl_commands \in Seq(Command)
  /\ ctl_grant \in {"owed", "given"}
  /\ nops \in 0..MaxNops
  /\ enqueued \in 0..MaxCommands
  /\ answered \in Seq(Answer)
  /\ mode \in {"normal", "failing"}

\* Until a timeout or a controller crash, the controller holds at most one
\* command, whatever flow control events cross it on the way: the credits
\* of send_next_command and handle_command_response never let a second one
\* out, even when the controller has room for more.
OneOutstanding == mode = "normal" => Len(ctl_commands) <= 1

\* Until a timeout or a controller crash, no assertion of on_hci_event and
\* handle_command_response fails: every response finds the command it is
\* for at the head of the queue, and of the kind it expects.
ResponsesExpected == mode = "normal" => process # "assert"

\* Until a timeout or a controller crash, the callback a response reaches is
\* the one of the very command the controller answered, also when several
\* commands with the same opcode are queued.
AnswersMatch ==
  mode = "normal" => \A i \in DOMAIN answered : answered[i].id = answered[i].answer_to

\* Clients' callbacks are invoked at most once each and in the order of the
\* calls to EnqueueCommand, across timeouts and crashes too (the layer's own
\* debug information request has the id 0).
CallbacksOnceInOrder ==
  \A i, j \in DOMAIN answered :
    i < j /\ answered[i].id # 0 /\ answered[j].id # 0
      => answered[i].id < answered[j].id

\* The commands whose callbacks were invoked, one entry for each invocation.
Done == [i \in DOMAIN answered |-> answered[i].id]
Commands == INSTANCE CommandService WITH
              asked <- enqueued, done <- Done, state <- mode

\* The layer implements the abstract service: until a timeout or a crash no
\* command is left out or overtaken by another in handle_command_response,
\* and afterwards none is answered twice although on_hci_timeout flushes the
\* queue and answers to flushed commands still arrive.
ImplementsService == Commands!Spec

\* A command waits unsent only for want of a credit, and then the controller
\* still owes one or has one on its way to on_hci_event: no wake-up of
\* send_next_command is lost.
NoLostWakeup ==
  mode = "normal" /\ command_queue # <<>> /\ waiting_command = None =>
    /\ command_credits = 0
    /\ \/ ctl_grant = "owed"
       \/ \E i \in DOMAIN hal_events :
            hal_events[i].type = "inflammation" \/ hal_events[i].credits > 0

\* Every command a client enqueues is answered, or the process aborts (and
\* the stack is restarted): with timeouts in on_hci_timeout, a controller
\* that never answers cannot leave a client waiting for ever.
EveryCommandSettles ==
  \A n \in 1..MaxCommands :
    (enqueued >= n) ~> \/ \E i \in DOMAIN answered : answered[i].id = n
                      \/ process # "running"

-----------------------------------------------------------------------------
(* The inductive invariant behind the three properties on responses.       *)

NoResponses(events) == \A i \in DOMAIN events : ~IsResponse(events[i])

\* ev is what the controller sends in answer to cmd.
Answers(ev, cmd) ==
  /\ ev.op = cmd.op
  /\ ev.id = cmd.id
  /\ ev.type = IF ev.error = "none" THEN cmd.expects ELSE "status"

\* The outstanding command is at the controller, or its one answer is among
\* the posted events.
AtController(cmd) == ctl_commands = <<cmd>> /\ NoResponses(hal_events)
Answered(cmd) ==
  /\ ctl_commands = <<>>
  /\ \E k \in DOMAIN hal_events :
       /\ Answers(hal_events[k], cmd)
       /\ \A i \in DOMAIN hal_events \ {k} : ~IsResponse(hal_events[i])

\* Until a timeout or a crash, exactly the head of command_queue_ is
\* outstanding when waiting_command_ is set, and nothing is otherwise.
OutstandingInv ==
  mode = "normal" =>
    /\ process = "running"
    /\ abort_alarm = "null"
    /\ timeout_alarm # "null"
    /\ \A i \in DOMAIN command_queue : command_queue[i].op \in OpCodes
    /\ waiting_command = None => ctl_commands = <<>> /\ NoResponses(hal_events)
    /\ waiting_command # None =>
         /\ command_queue # <<>>
         /\ waiting_command = Head(command_queue).op
         /\ \/ AtController(Head(command_queue))
            \/ Answered(Head(command_queue))
    /\ AnswersMatch
=============================================================================
