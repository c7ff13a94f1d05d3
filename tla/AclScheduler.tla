---------------------------- MODULE AclScheduler ----------------------------
(***************************************************************************)
(* The scheduler of operations that page a remote device                   *)
(* (system/gd/hci/acl_manager/acl_scheduler.cc): outgoing ACL connections  *)
(* and remote name requests, one at a time, and none while an incoming     *)
(* connection is being set up.                                             *)
(*                                                                         *)
(* Each public function but Stop posts to the module's handler, so that    *)
(* the functions of impl run one after another: each is one action.  Stop  *)
(* is called by the management thread once the handler has stopped, and    *)
(* calls impl directly: no other function of impl runs then.  The          *)
(* scheduler does nothing but invoke callbacks; the ones a step invokes    *)
(* are the value of the variable invoked after it.                         *)
(***************************************************************************)
EXTENDS Naturals, Sequences, FiniteSets, SequencesExt

CONSTANTS
  Addresses,    \* addresses of remote devices
  MaxRequests   \* bound: operations enqueued

ASSUME MaxRequestsAssumption == MaxRequests \in Nat

VARIABLES
  outgoing_entry,           \* outgoing_entry_: no or one entry
  pending_operations,       \* pending_outgoing_operations_
  incoming_addresses,       \* incoming_connecting_address_set_
  phase,                    \* "stopped" once stopped_ is set, else "running"
  enqueued,                 \* number of operations enqueued so far
  started,                  \* operations whose start callback was invoked
  cancelled,                \* operations whose cancelled callback was invoked
  invoked                   \* the callbacks the last step invoked, in order

sched_vars == <<outgoing_entry, pending_operations, incoming_addresses, phase,
                enqueued, started, cancelled, invoked>>

Kinds == {"acl", "rnr"}

\* AclCreateConnectionQueueEntry and RemoteNameRequestQueueEntry.
Entry == [kind : Kinds, address : Addresses, id : Nat]

Callback(name, entry) == [name |-> name, entry |-> entry]
Unqueued(address) == [kind |-> "acl", address |-> address, id |-> 0]

SchedInit ==
  /\ outgoing_entry = {}
  /\ pending_operations = <<>>
  /\ incoming_addresses = {}
  /\ phase = "running"
  /\ enqueued = 0
  /\ started = {}
  /\ cancelled = {}
  /\ invoked = <<>>

-----------------------------------------------------------------------------
(* try_dequeue_next_operation, after callbacks were invoked and with the   *)
(* given outgoing entry, queue and incoming addresses                      *)

\* Mutant: the outgoing operation does not hold back the queue.
DequeueAnyway(outgoing, pending, incoming) ==
  phase = "running" /\ incoming = {} /\ pending # <<>>

MayDequeue(outgoing, pending, incoming) ==
  /\ phase = "running"
  /\ incoming = {}
  /\ outgoing = {}
  /\ pending # <<>>

try_dequeue_next_operation(outgoing, pending, incoming, callbacks) ==
  /\ incoming_addresses' = incoming
  /\ IF MayDequeue(outgoing, pending, incoming)
     THEN /\ outgoing_entry' = {Head(pending)}
          /\ pending_operations' = Tail(pending)
          /\ started' = started \cup {Head(pending).id}
          /\ invoked' = Append(callbacks, Callback("start", Head(pending)))
     ELSE /\ outgoing_entry' = outgoing
          /\ pending_operations' = pending
          /\ started' = started
          /\ invoked' = callbacks
  /\ UNCHANGED <<phase, cancelled>>

\* A function that returns without an effect on the queue.
NoEffect(callbacks) ==
  /\ invoked' = callbacks
  /\ UNCHANGED <<outgoing_entry, pending_operations, incoming_addresses, phase,
                 enqueued, started, cancelled>>

-----------------------------------------------------------------------------
(* The functions of impl                                                   *)

\* Mutant: a new operation goes to the front.
EnqueueFirst(kind, address) ==
  /\ enqueued' = enqueued + 1
  /\ try_dequeue_next_operation(outgoing_entry,
       <<[kind |-> kind, address |-> address, id |-> enqueued + 1]>>
         \o pending_operations, incoming_addresses, <<>>)

\* EnqueueOutgoingAclConnection and EnqueueRemoteNameRequest.
Enqueue(kind, address) ==
  LET entry == [kind |-> kind, address |-> address, id |-> enqueued + 1]
  IN /\ enqueued' = enqueued + 1
     /\ try_dequeue_next_operation(outgoing_entry,
          Append(pending_operations, entry), incoming_addresses, <<>>)

RegisterPendingIncomingConnection(address) ==
  /\ incoming_addresses' = incoming_addresses \cup {address}
  /\ invoked' = <<>>
  /\ UNCHANGED <<outgoing_entry, pending_operations, phase, enqueued, started,
                 cancelled>>

\* Mutant: the queue does not go on after an incoming connection.
CompletionNotDequeuing(address) ==
  /\ incoming_addresses' = incoming_addresses \ {address}
  /\ outgoing_entry' = {e \in outgoing_entry : e.kind = "rnr" \/ e.address # address}
  /\ invoked' = <<Callback("incoming", Unqueued(address))>>
  /\ UNCHANGED <<pending_operations, phase, enqueued, started, cancelled>>

ReportAclConnectionCompletion(address) ==
  LET matching == {e \in outgoing_entry : e.kind = "acl" /\ e.address = address}
      name == IF matching # {} THEN "outgoing"
              ELSE IF address \in incoming_addresses THEN "incoming"
              ELSE "unknown"
      incoming == IF name = "incoming" THEN incoming_addresses \ {address}
                  ELSE incoming_addresses
  IN /\ try_dequeue_next_operation(outgoing_entry \ matching, pending_operations,
          incoming, <<Callback(name, Unqueued(address))>>)
     /\ UNCHANGED enqueued

ReportOutgoingAclConnectionFailure ==
  IF \E e \in outgoing_entry : e.kind = "acl"
  THEN /\ try_dequeue_next_operation({}, pending_operations, incoming_addresses, <<>>)
       /\ UNCHANGED enqueued
  ELSE NoEffect(<<>>)

ReportRemoteNameRequestCompletion ==
  IF outgoing_entry # {}
  THEN /\ try_dequeue_next_operation({}, pending_operations, incoming_addresses, <<>>)
       /\ UNCHANGED enqueued
  ELSE NoEffect(<<>>)

\* Mutant: the cancelled operation stays in the queue.
CancelWithoutErasing(kind, address) ==
  \E i \in DOMAIN pending_operations :
    /\ pending_operations[i].kind = kind /\ pending_operations[i].address = address
    /\ cancelled' = cancelled \cup {pending_operations[i].id}
    /\ invoked' = <<Callback("cancelled", pending_operations[i])>>
    /\ UNCHANGED <<outgoing_entry, pending_operations, incoming_addresses, phase,
                   enqueued, started>>

\* CancelAclConnection and CancelRemoteNameRequest, by
\* cancel_outgoing_or_queued_connection.
Cancel(kind, address) ==
  LET Matches(e) == e.kind = kind /\ e.address = address
      queued == {i \in DOMAIN pending_operations : Matches(pending_operations[i])}
  IN \/ \E e \in outgoing_entry :
          Matches(e) /\ NoEffect(<<Callback("cancel", e)>>)
     \/ /\ \A e \in outgoing_entry : ~Matches(e)
        /\ queued = {}
        /\ NoEffect(<<>>)
     \/ /\ \A e \in outgoing_entry : ~Matches(e)
        /\ \E i \in queued :
             /\ \A j \in queued : i <= j
             /\ pending_operations' = RemoveAt(pending_operations, i)
             /\ cancelled' = cancelled \cup {pending_operations[i].id}
             /\ invoked' = <<Callback("cancelled", pending_operations[i])>>
        /\ UNCHANGED <<outgoing_entry, incoming_addresses, phase, enqueued, started>>

Stop ==
  /\ phase' = "stopped"
  /\ invoked' = <<>>
  /\ UNCHANGED <<outgoing_entry, pending_operations, incoming_addresses,
                 enqueued, started, cancelled>>

-----------------------------------------------------------------------------
\* The scheduler alone: its users may call anything at any time.
SchedNext ==
  \/ ReportOutgoingAclConnectionFailure
  \/ ReportRemoteNameRequestCompletion
  \/ Stop
  \/ \E address \in Addresses :
       \/ RegisterPendingIncomingConnection(address)
       \/ ReportAclConnectionCompletion(address)
       \/ \E kind \in Kinds :
            \/ enqueued < MaxRequests /\ Enqueue(kind, address)
            \/ Cancel(kind, address)

SchedSpec == SchedInit /\ [][SchedNext]_sched_vars

-----------------------------------------------------------------------------
(* Properties                                                              *)

\* The type of the state.
SchedTypeOK ==
  /\ outgoing_entry \subseteq Entry
  /\ pending_operations \in Seq(Entry)
  /\ incoming_addresses \subseteq Addresses
  /\ phase \in {"running", "stopped"}
  /\ enqueued \in Nat
  /\ started \subseteq 1..enqueued
  /\ cancelled \subseteq 1..enqueued

\* The queue is never idle for nothing: while it is not empty an operation is
\* outgoing or an incoming connection is being set up, although
\* RegisterPendingIncomingConnection and the cancel functions do not call
\* try_dequeue_next_operation.
NoIdleQueue ==
  phase = "running" /\ pending_operations # <<>> =>
    outgoing_entry # {} \/ incoming_addresses # {}

PendingIds == {pending_operations[i].id : i \in DOMAIN pending_operations}

\* "The scheduler guarantees that exactly one of these callbacks will be"
\* invoked (remote_name_request.cc): of an operation enqueued, either it is
\* still queued, or its start callback was invoked, or its cancelled callback,
\* and never two of these.
ExactlyOneCallback ==
  /\ PendingIds \cup started \cup cancelled = 1..enqueued
  /\ PendingIds \cap started = {}
  /\ PendingIds \cap cancelled = {}
  /\ started \cap cancelled = {}

\* Operations start in the order in which they were enqueued.
StartedInOrder ==
  /\ \A i, j \in DOMAIN pending_operations :
       i < j => pending_operations[i].id < pending_operations[j].id
  /\ \A s \in started, p \in PendingIds : s < p
=============================================================================
