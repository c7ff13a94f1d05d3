# TLA+ models of the Bluetooth stack

This directory holds TLA+ models of parts of the Bluetooth stack, TLC
configurations that check them on small instances, and TLAPS proofs that hold for
every instance. The models are written from the code; `PROJECT.json` maps each
definition to the lines it stands for. Paths below are relative to `src/system/gd`
unless they start with `src/`.

## The system

The repository holds the whole stack of a host:

| Part | Where | State of its model |
| --- | --- | --- |
| Framework API and Android service (Java) | `src/framework`, `src/android`, `src/service` | none |
| Profiles: BTA, BTIF, audio HAL interfaces | `src/system/bta`, `btif`, `audio_hal_interface` | none |
| Legacy stack: BTM, L2CAP, GATT, SMP, SDP, RFCOMM, AVDTP, HID | `src/system/stack` | none |
| Legacy threading: OSI, message loops | `src/system/osi`, `src/system/common` | none |
| Shims between the legacy stack and GD | `src/system/main/shim` | none |
| GD threads: Reactor, Thread, Handler, Alarm | `os` | `Reactor`, `StackThread` |
| GD queues | `os/queue.h`, `os/linux_generic/queue.tpp` | `EnqueueBuffer` only, in `ErtmController` |
| GD module registry | `module.cc` | stopping, in `StackThread` |
| HAL and snoop logger | `hal` | part of the controller in the models |
| HCI layer | `hci/hci_layer.cc` | command path: `HciLayer`, `CommandService` |
| ACL data scheduler | `hci/acl_manager/round_robin_scheduler.cc` | `RoundRobinScheduler` |
| ACL operation scheduler | `hci/acl_manager/acl_scheduler.cc` | `AclScheduler` |
| Classic connections | `hci/acl_manager/classic_impl.h` | set-up and end: `ClassicConnections` |
| Remote name requests | `hci/remote_name_request.cc` | `ClassicConnections` |
| LE connections | `hci/acl_manager/le_impl.h` | `LeClients` |
| LE scanning | `hci/le_scanning_manager.cc` | start, stop, pause: `LeClients` |
| LE addresses and lists | `hci/le_address_manager.cc` | `LeAddressManager` |
| Advertising, periodic sync, MSFT | `hci` | none |
| L2CAP enhanced retransmission mode | `l2cap/internal/enhanced_retransmission_mode_channel_data_controller.cc` | `ErtmController`, `FifoChannel` |
| Rest of L2CAP | `l2cap` | none |
| Neighbor, security, storage | `neighbor`, `security`, `storage` | none |
| Generated packet parsers, codecs, test facades | | out of scope: no protocol state |

A GD module runs on a *handler*: a queue of tasks served by a thread, one at a
time and in the order in which they were posted. Modules call each other by
posting tasks. Nothing orders the tasks of two handlers on different threads, and
a callback may run long after the state it was posted for: that is where most
hazards of this code lie. A function that runs on a handler is one action of a
model, and a call that is posted is a message to another component. That handlers
keep this promise is what `StackThread` is about; there a step is what runs under
one lock.

## Modules

### Reactor and StackThread: threads, handlers, alarms

`Reactor` models `os/linux_generic/reactor.cc` at its lock sections: the loop of
`Run` (clear the invalidation list, `epoll_wait`, look up and run each reactable,
finish), `Unregister` in two halves (list, then epoll set and deletion) and
`WaitForUnregisteredReactable`, which holds `mutex_` while it waits.

`StackThread` puts handlers (`os/handler.cc`) and alarms
(`os/linux_generic/alarm.cc`) on it, and two more threads: a client that posts, and
the management thread in `ModuleRegistry::StopAll` (`module.cc`), which for each module
clears the handler, waits until it stopped and calls `Stop()`, and in the end stops
the thread. `Stop()` differs from module to module; what it does to the reactor is in
the model: it may cancel the alarms of the module, as `StorageModule::Stop` does, and
destroys them, as `HciLayer::Stop` does, on the management thread and with the
reactor running. `outlived` records the alarms that were armed, reported by
`epoll_wait` or executing when `Stop()` was called. `Post` is two steps, as
the event is notified after the lock is released; `Clear` is four. A closure does
nothing, posts, or schedules, cancels or destroys an alarm of its module. `on_fire`
blocks in its `read` if the timer was disarmed after `epoll_wait` had reported it.
Using a deleted reactable, or in the closure of an alarm the module that is being
destroyed, leads to `at = "undefined"`, from where anything may happen; an assertion that
fails is recorded in `process`.

### HciLayer: commands to the controller

`hci/hci_layer.cc`, the command path of `HciLayer::impl`, composed with a
controller that answers when it likes.

| Model | Code |
| --- | --- |
| `command_queue`, `waiting_command`, `command_credits` | the fields of the same names |
| `timeout_alarm`, `abort_alarm` | `hci_timeout_alarm_` (`null` after it fired), `hci_abort_alarm_` |
| `hal_events` | events posted by the HAL callback |
| `enqueue_command`, `send_next_command` | the functions |
| `on_hci_event` | Command Status, Command Complete and root inflammation; `handle_command_response` |
| `on_hci_timeout`, `abort_after_time_out` | the two alarms |
| `Ctl...` | the controller: it answers, grants credits, sends unsolicited flow control events, or crashes |

A controller answers a command with the kind of event it should or with
UNKNOWN_HCI_COMMAND; its credits never exceed its slots. `mode` is `failing` after a
timeout or crash: the code then only wants the debug information and to abort.

`CommandService` is what the layer promises: commands are answered one by one, in
order, none left out and none twice; after a failure some may be left out, and still
none is answered twice or after a later one. Its answers are a sequence, so that a
second callback for a command is a step it does not allow. `ImplementsService` maps
the state of `HciLayer` to it.

### RoundRobinScheduler: data to the controller

`hci/acl_manager/round_robin_scheduler.cc` with `common/multi_priority_queue.h`, the
queues of the connections, the HCI queue of bounded depth, and the controller with
its buffers. Each function is an action: `Register`, `Unregister`, `SetLinkPriority`,
`buffer_packet`, `handle_enqueue_next_fragment`, `incoming_acl_credits` and the posted
`start_round_robin`. A packet is known by the number of fragments it needs.
`CtlReceive`, `CtlComplete` and `CtlDisconnect` are the controller.

Only links in `Fragile` may go down. `MCRoundRobin` adds the variable `steady`, chosen
once: in a steady behaviour no link goes down, and more is true (see below).

### AclScheduler: one paging operation at a time

`hci/acl_manager/acl_scheduler.cc`. Every public function but `Stop` posts one function
of `impl`, and each of those is one action here: enqueue, report, cancel, register an
incoming connection. `Stop` calls `impl` directly (`:278`), when the handler has already
been stopped. The value of `invoked` after a step is the sequence of
callbacks the step invoked, for the modules that compose this one to post.

### ClassicConnections: three handlers and a controller

Composes `AclScheduler` with `hci/acl_manager/classic_impl.h` and
`hci/remote_name_request.cc`. `tasks` has one queue for the scheduler, the ACL
manager and the remote name module; every action takes one task and posts others,
as the function it models does. `commands` goes to a controller that pages for one
operation at a time, may refuse any, and can be asked for a connection by a remote
device. `BuggyController` allows the wrong Connection Complete that
`remote_name_request.cc` and `classic_impl.h` work around (b/184239841).

### LeClients and LeAddressManager: pause, change, resume

The random address and the lists of the controller may change only while it
neither initiates nor scans. `hci/le_address_manager.cc` caches the commands that
change them, asks its clients to pause, sends the commands when all have
acknowledged, and resumes them. `LeClients` has the initiator (`le_impl.h`: the
connectability state machine, the connect list, direct and background connections,
connection completions) and the scanner (`le_scanning_manager.cc`).
`LeAddressManager` has the manager, the controller and the layers above.

All of it runs on one thread, so a method is an operator from the state `host` to
the state it leaves, a nested call is a nested operator, and a step runs one task.
`host.tasks` is the handler's queue and `host.commands` the HCI commands on their
way. The local address is a number that grows with each rotation.

`regime` says how the layers above behave and is chosen once. With *patient* callers
nothing is asked, no alarm fires and no peer connects or disconnects until what came
before has settled, and the resolving list is used only after the initiator has
registered. Privacy is taken as supported (`supports_ble_privacy_`), and the IRK is
updated only under a rotating policy, as the shim does. Otherwise requests overlap in
any way; the controller may then refuse commands, which the code does not recover
from, and fewer properties are claimed.

### ErtmController and FifoChannel: retransmission

Two devices run `enhanced_retransmission_mode_channel_data_controller.cc` and are
joined by a link that keeps the order of frames and loses some. A controller's
functions are operators on its record of fields, named as in the code; an event
(`OnSdu`, `OnPdu`, the callback of `EnqueueBuffer`, two timers) is one step. Sequence
numbers wrap at `kMaxTxWin` and comparisons are those of the code, with `uint8_t`
truncation.
An SDU is known by its number and its segments by their position in it. A timer
normally expires only when nothing is under way that could answer; `MaxEarly` of
them may be early.

`FifoChannel` is what a channel promises in one direction.

### Proofs and instances

`...Proofs` modules hold the theorems. `MC...` modules give constants their values.
Definitions marked *Mutant*, or with a name that ends in `_M`, are bugs one could
write; each property is checked to fail when one of them takes the place of the
code's definition.

## Runs

Times are for two to four workers.

| Run | Shows | States |
| --- | --- | --- |
| `hci_commands` | One command outstanding; no assertion on a response fails; each answer reaches its own command; callbacks once and in order; no lost wake-up; every command is answered or the process aborts; the whole implements `CommandService` | 211 thousand |
| `round_robin` | Links come and go: a fragment is only sent with a credit, the fragments of a link leave whole packets in order, the iterator never dangles, the controller is never overrun, a live link is charged exactly for what is out. While no link goes down credits are conserved and every packet is sent | 589 thousand |
| `round_robin_stall` | *Violation*: `Unregister` returns credits and wakes nobody | |
| `classic_connections` | No two paging operations at a time; no assertion fails (but the one below); no request answered twice; the scheduler starts operations in order, tells each once and never idles for nothing | 865 thousand |
| `classic_quiet` | Remote devices other than our target connect, the controller may be buggy: every operation ends, and once all is quiet nothing is left behind | 240 thousand |
| `classic_blocked` | *Violation*: a device connects to us while we connect to it, and the queue is blocked for ever | |
| `ertm` | Each direction implements `FifoChannel`; the window's books agree with the other device, also across the wrap; no SDU is stranded, with two exceptions; the channel is closed only for cause, with two exceptions; the assertion of `NotifyOnEmpty` holds | 718 thousand |
| `ertm_overtake` | *Violation*: with traffic both ways and one lost frame a new SDU overtakes an older one | |
| `ertm_wrap` | *Violation*: without any loss the 128th frame carries the payload of the 64th | |
| `le_address` | No assertion fails, and the initiator and the scanner agree with the controller once all has settled, whatever overlaps. With patient callers nothing is refused, nobody stays paused, the accept lists agree, and recorded addresses are the ones used | 1.6 million |
| `le_resolving` | *Violation*: commands for the resolving list stay in the cache | |
| `stack_thread` | A stopped handler runs nothing; every notification has its task; no assertion on an empty event fails; a deleted reactable is used only after a late notification, or if it is an alarm that was not at rest when its module was stopped; stopping ends; every task runs | 347 thousand |

### What the violations show

* **round_robin_stall.** All classic credits are out on link 1 and link 2 has packets.
  Link 1 goes down. `Unregister` adds its credits back (`round_robin_scheduler.cc:57`)
  but does not call `start_round_robin`. No completion will come for a dead link, so
  link 2 waits until something else starts the round robin.
* **classic_blocked.** `ReportAclConnectionCompletion` looks at the outgoing entry first
  (`acl_scheduler.cc:58`). An incoming connection from the same address ends the
  outgoing operation, and its address stays in the set of incoming ones.
* **ertm_overtake.** `data_request` sends a segment whenever the window has room (`:102`),
  also while others wait in `pending_frames_`. An I-frame that acknowledges a frame
  makes room; if it also fills the enqueue buffer, `send_ack` sends RNR and not the
  pending segments (`:726`), and the next SDU is sent before them.
* **ertm_wrap.** An acknowledgement that takes `expected_ack_seq_` past 63 makes the loop of
  `process_req_seq` (`:621`) run not at all, and the entries of the frames it acknowledges
  stay in `unacked_list_`. A lap later `send_data` emplaces a new segment under the same
  number; `emplace` keeps the old entry, and the frame goes out with the old payload
  (`:603-607`). The run has the numbers of the code, 64 and 10, and sends two SDUs of 64
  segments: the second arrives with the last segment of the first. It takes no loss
  and no particular timing.
* **le_resolving.** The first thing asked for is a device on the resolving list. The
  initiator posts its registration; the manager, which has no client yet, posts
  `handle_next_command` (`le_address_manager.cc:503`). That runs after the
  registration, finds a client that is not paused and returns; nobody asks the
  client to pause.

### Seen in the models, without a run

* `number_of_sent_packets_` counts fragments from the time they are buffered
  (`round_robin_scheduler.cc:173`). If the link goes down while some still wait, their
  credits are returned without having been taken; they are sent all the same, and the
  count of credits stays short. `CreditAccounting` is therefore checked while no link
  goes down (`SteadyCredits`).
* The scheduler finds a name request outgoing and posts its cancellation; before that
  runs, the module handles the end of the request, and `ASSERT(pending_ == true)`
  fails (`hci/remote_name_request.cc:149`). `AssertionsHold` leaves it out.
* Connection Complete is handled by way of the scheduler's handler, Disconnection
  Complete at once (`classic_impl.h:479`): a link that goes down at once stays in the
  list. `classic_quiet` has no disconnection for this reason.
* With `BuggyController = TRUE` and `Callers = Targets = {A}` the wrong Connection
  Complete may be taken for an incoming connection, whose own completion then meets
  the assertion at `classic_impl.h:435`.
* The mask of `hci_layer.cc:201` takes any command with a non-zero opcode group for
  vendor specific, where the comment at `:205` speaks of vendor specific commands.
* ERTM, when the sequence numbers wrap: besides `ertm_wrap`, `retransmit_i_frames` stops at
  63 (its `i++` does not wrap), and while the window lies across the wrap
  `sequence_less_than(next_tx_seq_, req_seq)` compares, say, 0 with 63 (`:496`): a good
  frame whose F bit is not the one awaited then counts as one with an invalid ReqSeq
  and closes the channel. The second is an exception in `CloseJustified`.
* ERTM: a device that stops being busy polls in XMIT, where the monitor timer does
  nothing (`:119-122`): if that RR is lost the other device takes it for busy for
  ever. It also stops its retransmission timer, so that frames of its own that were
  lost are not sent again. These are the exceptions in `NeverStranded`. Two devices
  that poll at the same time ignore each other until the channel closes, the other
  exception in `CloseJustified`.
* LE: with overlapping requests `ack_pause`, which loops over copies (`:262-275`), may
  ask a client to pause twice, and a late `ack_resume` (`:301`) may undo a pause; then
  the controller may refuse commands and a scan may stay off.
* `Cancel` of an alarm that has expired but not run yet: `on_fire` then blocks in
  `read` (`alarm.cc:76`) and with it the thread, where `os/alarm.h:48` says "Cancel the
  alarm. No-op if it's not armed."
* `WaitForUnregisteredReactable` waits with `mutex_` held (`reactor.cc:266-270`): if the
  closure it waits for unregisters something, the wait times out and `ASSERT` in
  `Handler::WaitUntilStopped` ends the process.
* A `Post` that passed its check before `Clear` and notifies after it may wake a
  reactable that is deleted while the reactor holds it (`handler.cc:54`). This is the
  first exception in `DeletedNotUsed`.
* `StopAll` waits for the handler of a module and not for its alarms. An alarm that is
  armed when `Stop()` destroys it may expire between the two halves of `Unregister`
  and be reported, and one whose closure is executing runs on in a module that is
  gone (`module.cc:115`, `hci_layer.cc:105-114`), where `os/alarm.h:32` says "when it's
  destroyed, it will unregister itself from the thread". This is the second exception
  in `DeletedNotUsed`; a module that cancels its alarm before it stops is safe, unless
  the alarm has been reported by then.

### Bounds

* `HciLayer`: two commands over two opcodes, which may have the same opcode; two slots,
  so that the controller could hold two commands; one unsolicited event, which may
  come at any time. The proofs cover more commands.
* `RoundRobinScheduler`: two links, as each kind or both of one kind; packets of one and
  three fragments, with fewer credits than the large one needs, so that credits run
  out within a packet; two packets; an HCI queue of two.
* `ClassicConnections`: two requests on one target and one cancellation, one incoming
  connection, one disconnection. The target is also a caller in
  `classic_connections`, and is not in `classic_quiet`, where what `classic_blocked`
  shows would hide everything else.
* `ErtmController`: a remote window of two, so that it fills; two losses and one early
  timer, below what closes the channel; loads one way and both ways, with SDUs of one
  to three segments. Four SDUs one way reach the busy threshold of three. `kMaxTxWin`
  is 6 and one load has seven SDUs, so that numbers wrap with everything else that can
  happen; a second lap, which `ertm_wrap` is about, needs twelve. The overtaking of
  `ertm_overtake` needs four SDUs each way, which the loads of `ertm` do not have:
  `ImplementsFifo` is a claim about these loads. With the code's 64 and 10,
  where these loads do not wrap, all of it holds as well.
* `LeAddressManager`: five patient requests over two devices, or two that overlap over
  one, with one rotation, one failed attempt and one refused command. Three overlapping requests
  (21.7 million states, too long for a regular run) showed no violation either.
* `StackThread`: two handlers, one with an alarm; four posts, so that both handlers have
  tasks when they are cleared; two calls of `Schedule`, so that an alarm is cancelled
  and used again.

`CHECK_DEADLOCK FALSE` is set where the system may finish its bounded work and rest,
which is everywhere.

### Fairness

* `HciLayer`: the handler runs its events; an armed alarm fires (the kernel's timers
  do); the controller grants a credit after an event that granted none, as the HCI
  specification requires. Its *answers* are not assumed: the timeout is for that.
* `RoundRobinScheduler`: the handler goes on with some task or ready queue end, and the
  controller with some packet, in any order (`MCSpec`). `round_robin_stall` assumes more,
  that no task, queue end or link is left aside (`Fairness`), and fails all the same.
  Nobody has to enqueue a packet, connect or disconnect.
* `ClassicConnections`: each handler runs its tasks; the controller answers commands and
  ends paging and the set-up of connections (the page and accept timeouts).
* `StackThread`: the threads run, timers expire, and a wait with a timeout times out.
  Nothing forces `StopAll` to be called or a client to post.

`ErtmController` and `LeAddressManager` state no fairness; what should happen in the end
is there an invariant about states in which nothing is left to happen
(`NeverStranded`, and the properties that speak of `Settled`).

## Proofs

Type correctness and the inductive invariants are proved and have no run of their
own. TLAPS 1.4.5 with Z3, Zenon and LS4. The assumptions are those on the constants, named
in the modules; the bounds (`MaxCommands`, `MaxRequests`, ...) are any natural numbers.

* `HciLayerProofs`: `TypeCorrect`, `Outstanding`, `OneOutstandingHolds`,
  `ResponsesExpectedHolds`, `AnswersMatchHolds`. "One command at the controller" is not
  inductive: that the next response is for the head of the queue depends on events in
  flight. `OutstandingInv` says where the outstanding command is: at the controller
  with no response under way, or in exactly one response under way. Credits play no
  part: `waiting_command_` alone keeps a second command back. The proof of
  `ResponsesExpected` uses the mask of `hci_layer.cc:201` as it is.
* `HciOrderProofs`: `CallbacksInOrder` from `OrderInv` (the queue is in order and follows
  all that was answered); `NoLostWakeupHolds` from `WakeInv` (if no command is
  outstanding and none can be sent, an event that grants credits is on its way or
  owed, whatever events that take them away come before it); and
  `ServiceImplemented`, the refinement, from `ServiceInv` (before a failure the sequence of
  answers is 1, 2, ... and the queue holds exactly the commands that follow).
* `RoundRobinProofs`: `TypeCorrect`, `EnqueueHasCreditHolds`, `OnePacketAtATimeHolds`,
  `IteratorValidHolds`, for any set of handles, credits and fragment counts.
  `SchedulerInv` ties registration to credits: a queue end is registered for dequeue
  only while no fragment waits and its type has a credit, and for enqueue only while
  the front fragment has one. `starting_point_` may be unassigned only while there has
  been no connection.
* `AclSchedulerProofs`: `SchedulerCorrect` and, from it, `NoIdleQueueHolds`,
  `ExactlyOneCallbackHolds`, `StartedInOrderHolds`, about the scheduler with any users.
  The conjunction is inductive. The lemmas follow a queue whose entries are accounted
  for through start, append and cancellation.
* `StackThreadProofs`: `StackInvariant` and, from it, `HandlersStop`, `DeletedReactables`,
  `TasksMatchEvents`, and in `StackWakeupProofs` `NoIdleWakeups`, for any handlers, alarms,
  owners and stop order.
  `ExecutionInv` ties the position of the loop to the status of its reactable,
  `ManagerInv` the position of the management thread to what it has cleared, removed
  and waited for, `EventInv` says that a handler whose event was emptied by `Clear` is
  not polled again unless it was notified late. `AlarmInv` follows the alarms of stopped
  modules: one that was at rest when `Stop()` was called is disarmed, not among the
  events and not executing from then on, for only a closure of its module could arm
  it again, and no such closure runs.
* `ErtmProofs`: `NotifyOnceHolds`, for any windows, thresholds, loads and losses. Whoever
  waits for the buffer to be empty is busy, and whoever is busy is in RECV, where it
  takes no I-frame (`BusyInv`); the lemmas show which functions leave these fields
  alone.

Only model-checked: everything about liveness; `FragmentsInOrder`,
`ControllerNeverOverrun`, `CompletedWereSent`, `SteadyCredits`, which need sums and
cardinalities over changing sets; `ClassicConnections`, whose three queues of tasks
would need an invariant on every order of messages; `LeAddressManager`, for the same
reason; and the refinement of `FifoChannel`, which does not hold for every load.
Recursion over data and ENABLED are beyond the prover.

## Not modelled

* In modelled files: event handlers, client interfaces and data queues of the HCI
  layer; commands and events of an established classic or LE connection, SCO;
  `should_accept_connection_` (always true here); `recv_srej` and the frame check
  sequence of ERTM; `UnregisterSync`, the time before a policy is set, and the choice
  of addresses in the LE address manager; scan parameters and filters; `WaitForIdle`
  and `ModifyRegistration` of the reactor; `RepeatingAlarm`; the reactables of queues,
  which `Stop()` of some modules unregisters too, and the deletion of handlers and
  modules at the end of `StopAll`.
* LE advertising: a third client with one state for each set, with which the instances
  that reach the interesting cases are too large.
* `os/linux_generic/queue.tpp`: its ends appear in `RoundRobinScheduler` by what they
  promise.
* L2CAP signalling and links, pairing, storage, the legacy stack, profiles and the
  Java service: large, mostly sequential state machines over the parts modelled
  here. `src/system/stack/gatt/connection_manager.cc` and `AdapterState.java` are the
  first candidates.
* Packet parsers (generated), codecs, HAL and snoop logger (I/O), test facades.
