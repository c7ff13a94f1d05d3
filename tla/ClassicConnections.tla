------------------------- MODULE ClassicConnections -------------------------
(***************************************************************************)
(* The classic connections of the ACL manager                              *)
(* (system/gd/hci/acl_manager/classic_impl.h), the remote name requests    *)
(* (system/gd/hci/remote_name_request.cc) and the AclScheduler they share. *)
(*                                                                         *)
(* Each of the three modules has a handler, a queue of tasks that run one  *)
(* at a time; a task of one module may run between any two tasks of        *)
(* another.  A call from one module to another, a callback and an HCI      *)
(* event are tasks, posted to the handler of the module that runs them.    *)
(* Commands and events pass through the HCI layer in order; a step of the  *)
(* controller stands at the time its event reaches the handler.            *)
(***************************************************************************)
EXTENDS AclScheduler, Integers

CONSTANTS
  Targets,          \* addresses the clients connect to or ask for names
  Callers,          \* addresses that connect to us
  MaxCancels,       \* bound: cancellations by the clients
  MaxIncoming,      \* bound: connections requested by remote devices
  MaxDisconnects,   \* bound: links that go down
  BuggyController   \* whether the end of a cancelled remote name request may
                    \* be reported as Connection Complete (b/184239841)

ASSUME BoundsAssumption ==
  /\ Targets \subseteq Addresses /\ Callers \subseteq Addresses
  /\ MaxCancels \in Nat
  /\ MaxIncoming \in Nat
  /\ MaxDisconnects \in Nat
  /\ BuggyController \in BOOLEAN

VARIABLES
  tasks,            \* the queue of each handler
  commands,         \* commands on their way to the controller
  rnr_pending,      \* RemoteNameRequestModule: pending_
  rnr_callback,     \* the request whose on_remote_name_complete_ is stored
  connections,      \* classic_impl: addresses in acl_connections_
  process,          \* "running", or the ASSERT that ended the process
  answers,          \* how often each remote name request was answered
  ctl_paging,       \* what the controller is paging for: no or one operation
  ctl_incoming,     \* connection requests the host has not answered
  ctl_accepted,     \* accepted requests that are being set up
  ctl_links,        \* addresses with a link at the controller
  cancels, incomings, disconnects   \* how many there were

host_vars == <<rnr_pending, rnr_callback, connections, process, answers>>
ctl_vars == <<ctl_paging, ctl_incoming, ctl_accepted, ctl_links>>
count_vars == <<cancels, incomings, disconnects>>
vars == <<sched_vars, tasks, commands, host_vars, ctl_vars, count_vars>>

Handlers == {"scheduler", "acl", "rnr"}
Statuses == {"success", "failure", "unknown_connection"}

\* A task, a command or an event; those without a status or a request have
\* "success" and 0.
Message(op, address) == [op |-> op, address |-> address, status |-> "success", id |-> 0]
WithStatus(op, address, status) == [Message(op, address) EXCEPT !.status = status]

Init ==
  /\ SchedInit
  /\ tasks = [h \in Handlers |-> <<>>]
  /\ commands = <<>>
  /\ rnr_pending = FALSE
  /\ rnr_callback = 0
  /\ connections = {}
  /\ process = "running"
  /\ answers = [id \in 1..MaxRequests |-> 0]
  /\ ctl_paging = {}
  /\ ctl_incoming = {}
  /\ ctl_accepted = {}
  /\ ctl_links = {}
  /\ cancels = 0 /\ incomings = 0 /\ disconnects = 0

-----------------------------------------------------------------------------
(* Handlers                                                                *)

Post(queues, h, task) == [queues EXCEPT ![h] = Append(@, task)]

\* Handler h runs its next task, which is op.
Runs(h, op) ==
  /\ process = "running"
  /\ tasks[h] # <<>>
  /\ Head(tasks[h]).op = op

Task(h) == Head(tasks[h])
Popped(h) == [tasks EXCEPT ![h] = Tail(@)]

\* The step of another module leaves the scheduler alone.
SchedulerIdle ==
  /\ invoked' = <<>>
  /\ UNCHANGED <<outgoing_entry, pending_operations, incoming_addresses, phase,
                 enqueued, started, cancelled>>
Quiet == SchedulerIdle /\ UNCHANGED <<ctl_vars, count_vars>>
Answer(id) == [answers EXCEPT ![id] = @ + 1]
AssertFails(h, where) ==
  /\ process' = where
  /\ tasks' = Popped(h)
  /\ UNCHANGED <<commands, rnr_pending, rnr_callback, connections, answers>>

-----------------------------------------------------------------------------
(* The scheduler's handler: a function of AclScheduler, and the callbacks  *)
(* it invokes, each posted to the handler it was bound to                  *)

BoundTo ==
  [acl |-> [start |-> "actually_create_connection",
            cancel |-> "actually_cancel_connect",
            cancelled |-> "OnConnectFail",
            outgoing |-> "create_and_announce_connection",
            incoming |-> "create_and_announce_connection",
            unknown |-> "handle_unknown_connection"],
   rnr |-> [start |-> "actually_start_remote_name_request",
            cancel |-> "actually_cancel_remote_name_request",
            cancelled |-> "cancel_request_completed"]]

\* OnConnectFail runs on the handler of the client, which is not modelled.
PostCallback(queues, callback, status) ==
  LET e == callback.entry
      task == [op |-> BoundTo[e.kind][callback.name], address |-> e.address,
               status |-> status, id |-> e.id]
  IN IF task.op = "OnConnectFail" THEN queues ELSE Post(queues, e.kind, task)

SchedulerFunction(task) ==
  \/ task.op = "EnqueueOutgoingAclConnection" /\ Enqueue("acl", task.address)
  \/ task.op = "EnqueueRemoteNameRequest" /\ Enqueue("rnr", task.address)
  \/ /\ task.op = "RegisterPendingIncomingConnection"
     /\ RegisterPendingIncomingConnection(task.address)
  \/ /\ task.op = "ReportAclConnectionCompletion"
     /\ ReportAclConnectionCompletion(task.address)
  \/ /\ task.op = "ReportOutgoingAclConnectionFailure"
     /\ ReportOutgoingAclConnectionFailure
  \/ /\ task.op = "ReportRemoteNameRequestCompletion"
     /\ ReportRemoteNameRequestCompletion
  \/ task.op = "CancelAclConnection" /\ Cancel("acl", task.address)
  \/ task.op = "CancelRemoteNameRequest" /\ Cancel("rnr", task.address)

SchedulerStep ==
  /\ process = "running"
  /\ tasks["scheduler"] # <<>>
  /\ SchedulerFunction(Task("scheduler"))
  /\ tasks' = FoldLeft(
       LAMBDA queues, c : PostCallback(queues, c, Task("scheduler").status),
       Popped("scheduler"), invoked')
  /\ UNCHANGED <<commands, host_vars, ctl_vars, count_vars>>

\* The clients call create_connection, cancel_connect, StartRemoteNameRequest
\* and CancelRemoteNameRequest through the handlers of the two modules.  They
\* read no state, so that they may run whenever the client pleases.
Requests ==
  enqueued + Len(SelectSeq(tasks["scheduler"], LAMBDA t : t.op \in
    {"EnqueueOutgoingAclConnection", "EnqueueRemoteNameRequest"}))

ClientRequests == process = "running" /\ Requests < MaxRequests

ClientCancels ==
  /\ process = "running"
  /\ cancels < MaxCancels
  /\ cancels' = cancels + 1

CallScheduler(queues, op, address) == Post(queues, "scheduler", Message(op, address))

-----------------------------------------------------------------------------
(* classic_impl, on the handler of the ACL manager                         *)

create_connection(address) ==
  /\ ClientRequests
  /\ tasks' = CallScheduler(tasks, "EnqueueOutgoingAclConnection", address)
  /\ UNCHANGED <<commands, host_vars>> /\ Quiet

actually_create_connection ==
  /\ Runs("acl", "actually_create_connection")
  /\ LET address == Task("acl").address
     IN IF address \in connections
        THEN /\ tasks' = CallScheduler(Popped("acl"),
                           "ReportOutgoingAclConnectionFailure", address)
             /\ UNCHANGED commands
        ELSE /\ commands' = Append(commands, Message("create", address))
             /\ tasks' = Popped("acl")
  /\ UNCHANGED host_vars /\ Quiet

on_create_connection_status ==
  /\ Runs("acl", "create_status")
  /\ tasks' = IF Task("acl").status = "success" THEN Popped("acl")
              ELSE CallScheduler(Popped("acl"),
                     "ReportOutgoingAclConnectionFailure", Task("acl").address)
  /\ UNCHANGED <<commands, host_vars>> /\ Quiet

\* Mutant: the request is answered before the scheduler knows of it.
AcceptUnregistered ==
  /\ Runs("acl", "connection_request")
  /\ commands' = Append(commands, Message("accept", Task("acl").address))
  /\ tasks' = Popped("acl")
  /\ UNCHANGED host_vars /\ Quiet

on_incoming_connection ==
  /\ Runs("acl", "connection_request")
  /\ LET address == Task("acl").address
         answer == IF address \in connections THEN "reject" ELSE "accept"
     IN /\ tasks' = CallScheduler(Popped("acl"),
                      "RegisterPendingIncomingConnection", address)
        /\ commands' = Append(commands, Message(answer, address))
  /\ UNCHANGED host_vars /\ Quiet

\* A failure to accept cancels the outgoing connection to the address, if any.
on_accept_connection_status ==
  /\ Runs("acl", "accept_status")
  /\ tasks' = IF Task("acl").status = "success" THEN Popped("acl")
              ELSE CallScheduler(Popped("acl"), "CancelAclConnection",
                                 Task("acl").address)
  /\ UNCHANGED <<commands, host_vars>> /\ Quiet

on_connection_complete ==
  /\ Runs("acl", "connection_complete")
  /\ tasks' = Post(Popped("acl"), "scheduler",
       WithStatus("ReportAclConnectionCompletion", Task("acl").address,
                  Task("acl").status))
  /\ UNCHANGED <<commands, host_vars>> /\ Quiet

create_and_announce_connection ==
  /\ Runs("acl", "create_and_announce_connection")
  /\ connections' = IF Task("acl").status = "success"
                    THEN connections \cup {Task("acl").address} ELSE connections
  /\ tasks' = Popped("acl")
  /\ UNCHANGED <<commands, rnr_pending, rnr_callback, process, answers>> /\ Quiet

\* The lambda handle_unknown_connection of on_connection_complete.
handle_unknown_connection ==
  /\ Runs("acl", "handle_unknown_connection")
  /\ IF Task("acl").status # "unknown_connection"
     THEN AssertFails("acl", "No prior connection request")
     ELSE /\ tasks' = Post(Popped("acl"), "rnr",
               Message("ReportRemoteNameRequestCancellation", Task("acl").address))
          /\ UNCHANGED <<commands, host_vars>>
  /\ Quiet

cancel_connect(address) ==
  /\ ClientCancels
  /\ tasks' = CallScheduler(tasks, "CancelAclConnection", address)
  /\ UNCHANGED <<commands, host_vars, ctl_vars, incomings, disconnects>>
  /\ SchedulerIdle

actually_cancel_connect ==
  /\ Runs("acl", "actually_cancel_connect")
  /\ commands' = Append(commands, Message("create_cancel", Task("acl").address))
  /\ tasks' = Popped("acl")
  /\ UNCHANGED host_vars /\ Quiet

on_classic_disconnect ==
  /\ Runs("acl", "disconnect")
  /\ connections' = connections \ {Task("acl").address}
  /\ tasks' = Popped("acl")
  /\ UNCHANGED <<commands, rnr_pending, rnr_callback, process, answers>> /\ Quiet

-----------------------------------------------------------------------------
(* RemoteNameRequestModule, on its handler                                 *)

StartRemoteNameRequest(address) ==
  /\ ClientRequests
  /\ tasks' = CallScheduler(tasks, "EnqueueRemoteNameRequest", address)
  /\ UNCHANGED <<commands, host_vars>> /\ Quiet

CancelRemoteNameRequest(address) ==
  /\ ClientCancels
  /\ tasks' = CallScheduler(tasks, "CancelRemoteNameRequest", address)
  /\ UNCHANGED <<commands, host_vars, ctl_vars, incomings, disconnects>>
  /\ SchedulerIdle

actually_start_remote_name_request ==
  /\ Runs("rnr", "actually_start_remote_name_request")
  /\ IF rnr_pending
     THEN AssertFails("rnr", "start while pending")
     ELSE /\ rnr_pending' = TRUE
          /\ rnr_callback' = Task("rnr").id
          /\ commands' = Append(commands, Message("rnr", Task("rnr").address))
          /\ tasks' = Popped("rnr")
          /\ UNCHANGED <<connections, process, answers>>
  /\ Quiet

\* The cancelled callback: the request was still queued.
cancel_request_completed ==
  /\ Runs("rnr", "cancel_request_completed")
  /\ answers' = Answer(Task("rnr").id)
  /\ tasks' = Popped("rnr")
  /\ UNCHANGED <<commands, rnr_pending, rnr_callback, connections, process>>
  /\ Quiet

\* A failure is told to the client by on_completion.
on_start_remote_name_request_status ==
  /\ Runs("rnr", "rnr_status")
  /\ IF ~rnr_pending
     THEN AssertFails("rnr", "status while not pending")
     ELSE IF Task("rnr").status = "success"
     THEN /\ tasks' = Popped("rnr")
          /\ UNCHANGED <<commands, host_vars>>
     ELSE /\ rnr_pending' = FALSE
          /\ answers' = Answer(rnr_callback)
          /\ tasks' = CallScheduler(Popped("rnr"),
               "ReportRemoteNameRequestCompletion", Task("rnr").address)
          /\ UNCHANGED <<commands, rnr_callback, connections, process>>
  /\ Quiet

actually_cancel_remote_name_request ==
  /\ Runs("rnr", "actually_cancel_remote_name_request")
  /\ IF ~rnr_pending
     THEN AssertFails("rnr", "cancel while not pending")
     ELSE /\ commands' = Append(commands, Message("rnr_cancel", Task("rnr").address))
          /\ tasks' = Popped("rnr")
          /\ UNCHANGED host_vars
  /\ Quiet

\* Mutant: a completion leaves pending_ set.
CompleteStillPending ==
  /\ rnr_pending
  /\ answers' = Answer(rnr_callback)
  /\ tasks' = CallScheduler(Popped("rnr"), "ReportRemoteNameRequestCompletion",
                            Task("rnr").address)
  /\ UNCHANGED <<commands, rnr_pending, rnr_callback, connections, process>>

\* What on_remote_name_request_complete and
\* ReportRemoteNameRequestCancellation do alike.
Complete ==
  IF rnr_pending
  THEN /\ rnr_pending' = FALSE
       /\ answers' = Answer(rnr_callback)
       /\ tasks' = CallScheduler(Popped("rnr"), "ReportRemoteNameRequestCompletion",
                                 Task("rnr").address)
       /\ UNCHANGED <<commands, rnr_callback, connections, process>>
  ELSE tasks' = Popped("rnr") /\ UNCHANGED <<commands, host_vars>>

on_remote_name_request_complete ==
  Runs("rnr", "rnr_complete") /\ Complete /\ Quiet

ReportRemoteNameRequestCancellation ==
  Runs("rnr", "ReportRemoteNameRequestCancellation") /\ Complete /\ Quiet

-----------------------------------------------------------------------------
(* The controller                                                          *)

CtlQuiet == process = "running" /\ SchedulerIdle /\ UNCHANGED host_vars

\* The HCI layer hands each event to the handler that registered for it.
RnrEvents == {"rnr_status", "rnr_complete"}
Emit(event) ==
  tasks' = Post(tasks, IF event.op \in RnrEvents THEN "rnr" ELSE "acl", event)

\* Create Connection and Remote Name Request: the controller pages, or
\* answers with an error.
CtlPage ==
  /\ commands # <<>> /\ Head(commands).op \in {"create", "rnr"}
  /\ LET c == Head(commands)
         status == IF c.op = "create" THEN "create_status" ELSE "rnr_status"
     IN \/ /\ ctl_paging = {}
           /\ c.op = "create" => c.address \notin ctl_links
           /\ ctl_paging' = {c}
           /\ Emit(Message(status, c.address))
        \/ /\ Emit(WithStatus(status, c.address, "failure"))
           /\ UNCHANGED ctl_paging
  /\ commands' = Tail(commands)
  /\ UNCHANGED <<ctl_incoming, ctl_accepted, ctl_links, count_vars>> /\ CtlQuiet

\* Create Connection Cancel and Remote Name Request Cancel end the operation
\* they name.  The host does nothing on their Command Complete events.
CtlCancel ==
  /\ commands # <<>> /\ Head(commands).op \in {"create_cancel", "rnr_cancel"}
  /\ LET c == Head(commands)
         op == IF c.op = "create_cancel" THEN "create" ELSE "rnr"
     IN \/ /\ ctl_paging = {Message(op, c.address)}
           /\ ctl_paging' = {}
           /\ \/ Emit(IF op = "create"
                      THEN WithStatus("connection_complete", c.address, "unknown_connection")
                      ELSE WithStatus("rnr_complete", c.address, "failure"))
              \/ /\ BuggyController /\ op = "rnr"
                 /\ Emit(WithStatus("connection_complete", c.address, "unknown_connection"))
        \/ /\ ctl_paging # {Message(op, c.address)}
           /\ UNCHANGED <<ctl_paging, tasks>>
  /\ commands' = Tail(commands)
  /\ UNCHANGED <<ctl_incoming, ctl_accepted, ctl_links, count_vars>> /\ CtlQuiet

\* Accept or Reject Connection Request.
CtlAnswer ==
  /\ commands # <<>> /\ Head(commands).op \in {"accept", "reject"}
  /\ LET c == Head(commands)
     IN /\ ctl_incoming' = ctl_incoming \ {c.address}
        /\ IF c.op = "accept"
           THEN /\ Emit(WithStatus("accept_status", c.address,
                     IF c.address \in ctl_incoming THEN "success" ELSE "failure"))
                /\ ctl_accepted' = ctl_accepted \cup (ctl_incoming \cap {c.address})
           ELSE /\ IF c.address \in ctl_incoming
                   THEN Emit(WithStatus("connection_complete", c.address, "failure"))
                   ELSE UNCHANGED tasks
                /\ UNCHANGED ctl_accepted
  /\ commands' = Tail(commands)
  /\ UNCHANGED <<ctl_paging, ctl_links, count_vars>> /\ CtlQuiet

\* Paging ends: the device answered, or it did not.
CtlPaged ==
  /\ \E c \in ctl_paging :
       \/ /\ Emit(WithStatus(IF c.op = "create" THEN "connection_complete"
                             ELSE "rnr_complete", c.address, "failure"))
          /\ UNCHANGED ctl_links
       \/ /\ c.op = "create" => c.address \notin ctl_links
          /\ Emit(Message(IF c.op = "create" THEN "connection_complete"
                          ELSE "rnr_complete", c.address))
          /\ ctl_links' = IF c.op = "create" THEN ctl_links \cup {c.address}
                          ELSE ctl_links
  /\ ctl_paging' = {}
  /\ UNCHANGED <<commands, ctl_incoming, ctl_accepted, count_vars>> /\ CtlQuiet

\* A remote device asks for a connection.
CtlRequest(address) ==
  /\ incomings < MaxIncoming
  /\ address \notin ctl_links \cup ctl_incoming \cup ctl_accepted
  /\ ctl_incoming' = ctl_incoming \cup {address}
  /\ incomings' = incomings + 1
  /\ Emit(Message("connection_request", address))
  /\ UNCHANGED <<commands, ctl_paging, ctl_accepted, ctl_links, cancels, disconnects>>
  /\ CtlQuiet

\* A request times out before it is answered, or fails after it was accepted.
CtlRequestFails(address) ==
  /\ address \in ctl_incoming \cup ctl_accepted
  /\ ctl_incoming' = ctl_incoming \ {address}
  /\ ctl_accepted' = ctl_accepted \ {address}
  /\ Emit(WithStatus("connection_complete", address, "failure"))
  /\ UNCHANGED <<commands, ctl_paging, ctl_links, count_vars>> /\ CtlQuiet

CtlConnected(address) ==
  /\ address \in ctl_accepted \ ctl_links
  /\ ctl_accepted' = ctl_accepted \ {address}
  /\ ctl_links' = ctl_links \cup {address}
  /\ Emit(Message("connection_complete", address))
  /\ UNCHANGED <<commands, ctl_paging, ctl_incoming, count_vars>> /\ CtlQuiet

CtlDisconnect(address) ==
  /\ disconnects < MaxDisconnects
  /\ address \in ctl_links
  /\ ctl_links' = ctl_links \ {address}
  /\ disconnects' = disconnects + 1
  /\ Emit(Message("disconnect", address))
  /\ UNCHANGED <<commands, ctl_paging, ctl_incoming, ctl_accepted, cancels, incomings>>
  /\ CtlQuiet

-----------------------------------------------------------------------------
AclStep ==
  \/ actually_create_connection
  \/ on_create_connection_status \/ on_incoming_connection
  \/ on_accept_connection_status \/ on_connection_complete
  \/ create_and_announce_connection \/ handle_unknown_connection
  \/ actually_cancel_connect \/ on_classic_disconnect

RnrStep ==
  \/ actually_start_remote_name_request \/ cancel_request_completed
  \/ on_start_remote_name_request_status \/ actually_cancel_remote_name_request
  \/ on_remote_name_request_complete \/ ReportRemoteNameRequestCancellation

Next ==
  \/ SchedulerStep \/ AclStep \/ RnrStep
  \/ CtlPage \/ CtlCancel \/ CtlAnswer \/ CtlPaged
  \/ \E address \in Targets :
       \/ create_connection(address) \/ cancel_connect(address)
       \/ StartRemoteNameRequest(address) \/ CancelRemoteNameRequest(address)
  \/ \E address \in Callers :
       \/ CtlRequest(address) \/ CtlRequestFails(address) \/ CtlConnected(address)
  \/ \E address \in Addresses : CtlDisconnect(address)

Spec == Init /\ [][Next]_vars

\* The handlers run their tasks, and the controller answers commands and ends
\* paging and the set-up of connections it accepted or was not answered for.
Fairness ==
  /\ WF_vars(SchedulerStep) /\ WF_vars(AclStep) /\ WF_vars(RnrStep)
  /\ WF_vars(CtlPage \/ CtlCancel \/ CtlAnswer) /\ WF_vars(CtlPaged)
  /\ \A address \in Callers : WF_vars(CtlRequestFails(address))

FairSpec == Spec /\ Fairness

-----------------------------------------------------------------------------
(* Properties                                                              *)

\* Operations do not conflict: the controller is asked to page only when it is
\* not paging, so that it never refuses an operation for another one of ours.
NoConflict ==
  commands # <<>> /\ Head(commands).op \in {"create", "rnr"} => ctl_paging = {}

\* The assertions on pending_ at the start of a request and at its status hold,
\* and every Connection Complete belongs to a connection the scheduler knows.
\* (The third assertion on pending_, at a cancellation, fails when the request
\* ends between the step of the scheduler and that of the module.)
AssertionsHold ==
  process \in {"running", "cancel while not pending"}

\* A remote name request is answered at most once.
AnsweredOnce == \A id \in 1..MaxRequests : answers[id] <= 1

Idle ==
  /\ \A h \in Handlers : tasks[h] = <<>>
  /\ commands = <<>>
  /\ ctl_paging = {} /\ ctl_incoming = {} /\ ctl_accepted = {}

\* Once all is quiet nothing is left behind: no operation blocks the queue, no
\* request is unanswered, and the connections are those of the controller.
NothingLeftBehind ==
  process = "running" /\ Idle =>
    /\ outgoing_entry = {} /\ pending_operations = <<>> /\ incoming_addresses = {}
    /\ ~rnr_pending
    /\ connections = ctl_links

\* Every operation enqueued is started or cancelled in the end.
EveryOperationEnds ==
  \A id \in 1..MaxRequests :
    id \in PendingIds ~> id \in started \cup cancelled \/ process # "running"
=============================================================================
