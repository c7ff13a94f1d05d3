-------------------------- MODULE LeAddressManager --------------------------
(* The LE address manager (hci/le_address_manager.cc), its two clients (module
   LeClients) and the controller they drive.

   The random address and the filter accept and resolving lists may not change
   while the controller initiates or scans.  The manager therefore caches the
   commands that change them, asks every registered client to pause, sends the
   commands one by one when all have acknowledged, and then resumes the clients.
   Acknowledgements, (un)registrations and command completions are tasks of one
   handler; the clients' callbacks are called synchronously.                 *)
EXTENDS LeClients

CONSTANTS Clients,        \* the clients, in the order of registered_clients_
          Policies,       \* "PUBLIC", "STATIC" or "ROTATING"
          Regimes,        \* how the layers above may behave: see Init
          MaxRotations,   \* how often the rotation alarm fires
          MaxFailures     \* how many links fail to be established

ASSUME BudgetAssumption == {MaxRotations, MaxFailures} \subseteq Nat

VARIABLES host,           \* the fields of the manager and of its clients
          controller,     \* the controller's own state
          regime,         \* how the layers above behave, chosen once
          requests, rotations, failures, refusals   \* how often, so far

vars == << host, controller, regime, requests, rotations, failures, refusals >>

\* A function on clients, with client c mapped to the given state.
WithState(h, c, state) ==
  [h EXCEPT !.registered_clients =
     [d \in DOMAIN @ \union {c} |-> IF d = c THEN state ELSE @[d]]]

Registered(h) == SelectSeq(Clients, LAMBDA c : c \in DOMAIN h.registered_clients)

AllPaused(h) == \A c \in DOMAIN h.registered_clients : h.registered_clients[c] = "PAUSED"

OnPause(h, c) == IF c = "le" THEN le_OnPause(h) ELSE scan_OnPause(h)
OnResume(h, c) == IF c = "le" THEN le_OnResume(h) ELSE scan_OnResume(h)

pause_registered_clients(h) ==
  FoldLeft(LAMBDA g, c : IF g.registered_clients[c] \in {"PAUSED", "WAITING_FOR_PAUSE"}
                         THEN g
                         ELSE OnPause(WithState(g, c, "WAITING_FOR_PAUSE"), c),
           h, Registered(h))

\* LOG_ALWAYS_FATAL unless the policy is a rotating one.
set_random_address(h) ==
  IF ~RotatingAddress(h) THEN [h EXCEPT !.fatal = TRUE]
  ELSE EnqueueCommand([h EXCEPT !.cached_address = @ + 1], "SET_RANDOM_ADDRESS",
                      h.cached_address + 1)

handle_next_command(h) ==
  LET op == Head(h.cached_commands)[1]
      popped == [h EXCEPT !.cached_commands = Tail(@)]
  IN  CASE ~AllPaused(h) -> h
        [] AllPaused(h) /\ h.cached_commands = << >> -> [h EXCEPT !.fatal = TRUE]
        [] OTHER ->
             CASE op = "UPDATE_IRK" -> set_random_address(popped)
               [] op = "ROTATE_RANDOM_ADDRESS" ->
                    set_random_address([popped EXCEPT !.address_rotation_alarm = TRUE])
               [] OTHER -> EnqueueCommand(popped, op, Head(h.cached_commands)[2])

resume_registered_clients(h) ==
  IF h.cached_commands # << >> THEN handle_next_command(h)
  ELSE FoldLeft(LAMBDA g, c : OnResume(WithState(g, c, "WAITING_FOR_RESUME"), c),
                h, Registered(h))

\* Mutant: the next command is run without looking whether there is one.
check_cached_commands_M(h) ==
  IF AllPaused(h) THEN handle_next_command(h) ELSE pause_registered_clients(h)

check_cached_commands(h) ==
  IF h.cached_commands = << >> THEN resume_registered_clients(h)
  ELSE IF AllPaused(h) THEN handle_next_command(h) ELSE pause_registered_clients(h)

\* The loop works on copies of the entries: a client that has to be paused again
\* is told so, but its entry keeps its state.
ack_pause(h, client) ==
  LET acked == WithState(h, client, "PAUSED")
      pending == SelectSeq(Registered(acked),
                           LAMBDA c : acked.registered_clients[c] # "PAUSED")
  IN  IF client \notin DOMAIN h.registered_clients THEN h
      ELSE IF pending = << >> THEN check_cached_commands(acked)
      ELSE IF acked.registered_clients[Head(pending)] = "WAITING_FOR_PAUSE" THEN acked
      ELSE OnPause(acked, Head(pending))

ack_resume(h, client) ==
  IF client \in DOMAIN h.registered_clients THEN WithState(h, client, "RESUMED") ELSE h

register_client(h, client) ==
  LET registered == IF client \in DOMAIN h.registered_clients THEN h
                    ELSE WithState(h, client, "RESUMED")
  IN  IF RotatingAddress(h) /\ Cardinality(DOMAIN registered.registered_clients) = 1
      THEN [registered EXCEPT !.address_rotation_alarm = TRUE]
      ELSE registered

unregister_client(h, client) ==
  LET state == IF client \in DOMAIN h.registered_clients
               THEN h.registered_clients[client] ELSE "NONE"
      acked == CASE state = "WAITING_FOR_PAUSE" -> ack_pause(h, client)
                 [] state = "WAITING_FOR_RESUME" -> ack_resume(h, client)
                 [] OTHER -> h
      left == [acked EXCEPT !.registered_clients =
                 [c \in DOMAIN @ \ {client} |-> @[c]]]
  IN  IF DOMAIN left.registered_clients = {}
      THEN [left EXCEPT !.address_rotation_alarm = FALSE] ELSE left

push_command(h, op, d) == Cached(pause_registered_clients(h), << op >>, d)

prepare_to_rotate(h) ==
  pause_registered_clients(
    Cached([h EXCEPT !.address_rotation_alarm = FALSE], << "ROTATE_RANDOM_ADDRESS" >>, kEmpty))

prepare_to_update_irk(h) ==
  LET cached == Cached(h, << "UPDATE_IRK" >>, kEmpty)
  IN  IF h.registered_clients = << >> THEN handle_next_command(cached)
      ELSE pause_registered_clients(cached)

\* Mutant: the new address is not remembered when the controller has it.
OnCommandComplete_M(h, op, status) ==
  IF op = "SET_RANDOM_ADDRESS" /\ h.policy = "STATIC" THEN h
  ELSE Post(h, Task("check_cached_commands", "", ""))

OnCommandComplete(h, op, status) ==
  LET addressed == IF op = "SET_RANDOM_ADDRESS" /\ status = "SUCCESS"
                   THEN [h EXCEPT !.le_address = h.cached_address] ELSE h
  IN  IF op = "SET_RANDOM_ADDRESS" /\ h.policy = "STATIC" THEN h
      ELSE Post(addressed, Task("check_cached_commands", "", ""))

-----------------------------------------------------------------------------
(* The controller: its commands, executed in order, and its events.          *)

Busy(c) == c.initiating \/ c.scanning

\* What the commands that need an idle controller do to the accept list.
AcceptList(c, op, who) ==
  CASE op = "ADD_ACCEPT" -> c.accept_list \union {who}
    [] op = "REMOVE_ACCEPT" -> c.accept_list \ {who}
    [] op = "CLEAR_ACCEPT" -> {}
    [] OTHER -> c.accept_list

ClientCommands == {"LE_CREATE_CONNECTION", "LE_CREATE_CONNECTION_CANCEL",
                   "SCAN_ENABLE", "SCAN_DISABLE"}

Command == Head(host.commands)[1]
Sent == [host EXCEPT !.commands = Tail(@)]

\* A command that changes the address or a list, refused while the controller
\* initiates or scans.
ExecuteManagerCommand ==
  /\ host.commands # << >>
  /\ Command \notin ClientCommands
  /\ LET who == Head(host.commands)[2]
         status == IF Busy(controller) THEN "COMMAND_DISALLOWED" ELSE "SUCCESS"
     IN  /\ host' = Post(Sent, Task("OnCommandComplete", status, Command))
         /\ controller' =
              IF Busy(controller) THEN [controller EXCEPT !.disallowed = TRUE]
              ELSE [controller EXCEPT
                      !.accept_list = AcceptList(controller, Command, who),
                      !.random_address = IF Command = "SET_RANDOM_ADDRESS"
                                         THEN who ELSE @]
  /\ UNCHANGED << regime, requests, rotations, failures, refusals >>

ExecuteScanEnable ==
  /\ host.commands # << >>
  /\ Command \in {"SCAN_ENABLE", "SCAN_DISABLE"}
  /\ host' = Sent
  /\ controller' = [controller EXCEPT !.scanning = Command = "SCAN_ENABLE"]
  /\ UNCHANGED << regime, requests, rotations, failures, refusals >>

ExecuteCreateConnection(status) ==
  /\ host.commands # << >>
  /\ Command = "LE_CREATE_CONNECTION"
  /\ controller.initiating => status = "COMMAND_DISALLOWED"
  /\ status = "SUCCESS" \/ controller.initiating \/ refusals < regime.max_refusals
  /\ host' = Post(Sent, Task("on_create_connection", "", status))
  /\ controller' = [controller EXCEPT !.initiating = @ \/ status = "SUCCESS"]
  /\ refusals' = IF status = "SUCCESS" \/ controller.initiating
                 THEN refusals ELSE refusals + 1
  /\ UNCHANGED << regime, requests, rotations, failures >>

ExecuteCreateConnectionCancel ==
  /\ host.commands # << >>
  /\ Command = "LE_CREATE_CONNECTION_CANCEL"
  /\ host' = Post(Sent, Task("on_create_connection_cancel_complete", "",
                             IF controller.initiating THEN "SUCCESS"
                             ELSE "COMMAND_DISALLOWED"))
  /\ controller' = [controller EXCEPT !.initiating = FALSE,
                                      !.canceled = controller.initiating]
  /\ UNCHANGED << regime, requests, rotations, failures, refusals >>

\* A cancelled attempt ends with its own connection complete event.
ConnectionCanceled ==
  /\ controller.canceled
  /\ host' = Post(host, Task("on_le_connection_complete", kEmpty, "UNKNOWN_CONNECTION"))
  /\ controller' = [controller EXCEPT !.canceled = FALSE]
  /\ UNCHANGED << regime, requests, rotations, failures, refusals >>

\* A device of the accept list answers, and the link comes up or fails to.
Connect(d, status) ==
  /\ controller.initiating
  /\ d \in controller.accept_list \ controller.links
  /\ status = "FAILED_ESTABLISHMENT" => failures < MaxFailures
  /\ host' = Post(host, Task("on_le_connection_complete", d, status))
  /\ controller' = [controller EXCEPT
                      !.initiating = FALSE,
                      !.links = IF status = "SUCCESS" THEN @ \union {d} ELSE @,
                      !.link_address[d] = IF status = "SUCCESS"
                                          THEN controller.random_address ELSE @]
  /\ failures' = IF status = "SUCCESS" THEN failures ELSE failures + 1
  /\ UNCHANGED << regime, requests, rotations, refusals >>

-----------------------------------------------------------------------------
(* The layers above and the remote devices: calls posted on the ACL handler,
   scan requests run on the scanner's own handler, links made and lost.      *)

\* Nothing is left to run: no task, no command, no cancelled attempt to report.
Settled == host.tasks = << >> /\ host.commands = << >> /\ ~controller.canceled

Ask(kind, d) ==
  /\ << kind, d >> \in regime.requests
  /\ requests < regime.max_requests
  /\ requests' = requests + 1
  /\ UNCHANGED << regime, rotations, failures, refusals >>

\* With patient callers nothing is asked, no alarm fires and no link is made by the
\* peer or lost until what came before has been done.
CallerReady == regime.patient => Settled

AskHost(kind, d, tasks) ==
  /\ Ask(kind, d)
  /\ CallerReady
  /\ host' = [host EXCEPT !.tasks = @ \o tasks]
  /\ UNCHANGED controller

CreateLeConnection(d) ==
  \/ AskHost("direct", d, << Task("create_le_connection", d, "direct") >>)
  \/ AskHost("background", d,
             << Task("add_device_to_background_connection_list", d, ""),
                Task("create_le_connection", d, "background") >>)

CancelLeConnect(d) ==
  AskHost("cancel", d, << Task("remove_device_from_background_connection_list", d, ""),
                          Task("cancel_connect", d, "") >>)

ChangeFilterAcceptList(d) ==
  \/ AskHost("add_accept", d, << Task("add_device_to_connect_list", d, "") >>)
  \/ AskHost("remove_accept", d, << Task("remove_device_from_connect_list", d, "") >>)
  \/ AskHost("clear_accept", d, << Task("clear_filter_accept_list", d, "") >>)

ChangeResolvingList(d) ==
  /\ regime.patient => host.address_manager_registered
  /\ \/ AskHost("add_resolving", d, << Task("add_device_to_resolving_list", d, "") >>)
     \/ AskHost("remove_resolving", d,
                << Task("remove_device_from_resolving_list", d, "") >>)
     \/ AskHost("clear_resolving", d, << Task("clear_resolving_list", d, "") >>)

\* SetPrivacyPolicyForInitiatorAddress, called again.  It posts the task whatever
\* the policy is; the guard is the caller's, for the shim repeats the call only
\* with privacy enabled, that is with a rotating address.
UpdateIrk(d) ==
  /\ RotatingAddress(host)
  /\ AskHost("update_irk", d, << Task("prepare_to_update_irk", d, "") >>)

Scan(d) ==
  /\ \/ Ask("scan", d) /\ host' = scan(host, TRUE)
     \/ Ask("stop_scan", d) /\ host' = scan(host, FALSE)
  /\ CallerReady
  /\ UNCHANGED controller

IncomingConnection(d) ==
  /\ Ask("incoming", d)
  /\ CallerReady
  /\ d \notin controller.links
  /\ host' = Post(host, Task("on_le_peripheral_connection_complete", d, ""))
  /\ controller' = [controller EXCEPT !.links = @ \union {d}, !.link_address[d] = NoAddress]

Disconnect(d) ==
  /\ Ask("disconnect", d)
  /\ CallerReady
  /\ d \in controller.links
  /\ host' = Post(host, Task("on_le_disconnect", d, ""))
  /\ controller' = [controller EXCEPT !.links = @ \ {d}]

-----------------------------------------------------------------------------
(* The host's thread: alarms fire between two tasks, tasks run in order.     *)

RotationAlarm ==
  /\ host.address_rotation_alarm
  /\ rotations < MaxRotations
  /\ CallerReady
  /\ host' = prepare_to_rotate(host)
  /\ rotations' = rotations + 1
  /\ UNCHANGED << controller, regime, requests, failures, refusals >>

CreateConnectionTimeout(d) ==
  /\ d \in host.create_connection_timeout_alarms
  /\ CallerReady
  /\ host' = on_create_connection_timeout(host, d)
  /\ UNCHANGED << controller, regime, requests, rotations, failures, refusals >>

Run(do, Handler(_, _, _)) ==
  /\ host.tasks # << >>
  /\ Head(host.tasks)[1] = do
  /\ host' = Handler([host EXCEPT !.tasks = Tail(@)], Head(host.tasks)[2], Head(host.tasks)[3])
  /\ UNCHANGED << controller, regime, requests, rotations, failures, refusals >>

RunManagerTask ==
  \/ Run("register_client", LAMBDA h, who, op : register_client(h, who))
  \/ Run("unregister_client", LAMBDA h, who, op : unregister_client(h, who))
  \/ Run("ack_pause", LAMBDA h, who, op : ack_pause(h, who))
  \/ Run("ack_resume", LAMBDA h, who, op : ack_resume(h, who))
  \/ Run("push_command", LAMBDA h, who, op : push_command(h, op, who))
  \/ Run("pause_registered_clients", LAMBDA h, who, op : pause_registered_clients(h))
  \/ Run("resume_registered_clients", LAMBDA h, who, op : resume_registered_clients(h))
  \/ Run("handle_next_command", LAMBDA h, who, op : handle_next_command(h))
  \/ Run("check_cached_commands", LAMBDA h, who, op : check_cached_commands(h))
  \/ Run("prepare_to_update_irk", LAMBDA h, who, op : prepare_to_update_irk(h))
  \/ Run("enqueue_command", LAMBDA h, who, op : EnqueueCommand(h, op, h.le_address))
  \/ Run("OnCommandComplete", LAMBDA h, who, op : OnCommandComplete(h, op, who))

RunInitiatorTask ==
  \/ Run("create_le_connection", LAMBDA h, who, op : create_le_connection(h, who, op))
  \/ Run("cancel_connect", LAMBDA h, who, op : cancel_connect(h, who))
  \/ Run("add_device_to_background_connection_list",
         LAMBDA h, who, op : add_device_to_background_connection_list(h, who))
  \/ Run("remove_device_from_background_connection_list",
         LAMBDA h, who, op : remove_device_from_background_connection_list(h, who))
  \/ Run("add_device_to_connect_list",
         LAMBDA h, who, op : add_device_to_connect_list(h, who))
  \/ Run("remove_device_from_connect_list",
         LAMBDA h, who, op : remove_device_from_connect_list(h, who))
  \/ Run("clear_filter_accept_list", LAMBDA h, who, op : clear_filter_accept_list(h))
  \/ Run("add_device_to_resolving_list",
         LAMBDA h, who, op : add_device_to_resolving_list(h, who))
  \/ Run("remove_device_from_resolving_list",
         LAMBDA h, who, op : remove_device_from_resolving_list(h, who))
  \/ Run("clear_resolving_list", LAMBDA h, who, op : ClearResolvingList(h))
  \/ Run("arm_connectability", LAMBDA h, who, op : arm_connectability(h))
  \/ Run("on_create_connection",
         LAMBDA h, who, op : update_connectability_state_after_armed(h, op))
  \/ Run("on_create_connection_cancel_complete",
         LAMBDA h, who, op : on_create_connection_cancel_complete(h, op))
  \/ Run("on_le_connection_complete",
         LAMBDA h, who, op : on_le_connection_complete(h, who, op))
  \/ Run("on_le_peripheral_connection_complete",
         LAMBDA h, who, op : on_le_peripheral_connection_complete(h, who))
  \/ Run("on_le_disconnect", LAMBDA h, who, op : on_le_disconnect(h, who))

Next ==
  \/ ExecuteManagerCommand \/ ExecuteScanEnable \/ ExecuteCreateConnectionCancel
  \/ \E status \in {"SUCCESS", "COMMAND_DISALLOWED"} : ExecuteCreateConnection(status)
  \/ ConnectionCanceled
  \/ \E d \in Devices, status \in {"SUCCESS", "FAILED_ESTABLISHMENT"} : Connect(d, status)
  \/ \E d \in Devices : \/ CreateLeConnection(d) \/ CancelLeConnect(d)
                        \/ ChangeFilterAcceptList(d) \/ ChangeResolvingList(d)
                        \/ UpdateIrk(d) \/ Scan(d)
                        \/ IncomingConnection(d) \/ Disconnect(d)
                        \/ CreateConnectionTimeout(d)
  \/ RotationAlarm \/ RunManagerTask \/ RunInitiatorTask

\* The policy has just been set, before any client registers.
SetPrivacyPolicyForInitiatorAddress(policy) ==
  LET h == [policy |-> policy, registered_clients |-> << >>, cached_commands |-> << >>,
            address_rotation_alarm |-> FALSE, le_address |-> 0, cached_address |-> 0,
            tasks |-> << >>, commands |-> << >>, fatal |-> FALSE,
            connect_list |-> {}, connecting_le |-> {}, direct_connections |-> {},
            background_connections |-> {}, create_connection_timeout_alarms |-> {},
            connections |-> << >>, connectability_state |-> "DISARMED",
            arm_on_resume |-> FALSE, disarmed_while_arming |-> FALSE,
            address_manager_registered |-> FALSE, pause_connection |-> FALSE,
            ready_to_unregister |-> FALSE,
            scan_registered |-> FALSE, is_scanning |-> FALSE, scan_on_resume |-> FALSE,
            paused |-> FALSE, scan_asked |-> FALSE]
  IN  CASE policy = "PUBLIC" -> Post(h, Task("resume_registered_clients", "", ""))
        [] policy = "STATIC" -> Post(h, Task("enqueue_command", "", "SET_RANDOM_ADDRESS"))
        [] policy = "ROTATING" -> set_random_address(h)

\* A regime says whether callers are patient, which requests, as pairs of a kind
\* and a device, they make and how many, and how many LE Create Connection commands
\* the controller refuses.
Init ==
  /\ regime \in Regimes
  /\ \E policy \in Policies : host = SetPrivacyPolicyForInitiatorAddress(policy)
  /\ controller = [initiating |-> FALSE, scanning |-> FALSE, canceled |-> FALSE,
                   random_address |-> 0, accept_list |-> {}, disallowed |-> FALSE,
                   links |-> {}, link_address |-> [d \in Devices |-> NoAddress]]
  /\ requests = 0 /\ rotations = 0 /\ failures = 0 /\ refusals = 0

Spec == Init /\ [][Next]_vars

-----------------------------------------------------------------------------
(* Properties.                                                               *)

\* handle_next_command never finds cached_commands_ empty (its ASSERT), and
\* set_random_address never meets a fixed address policy.
NeverFatal == ~host.fatal

\* When everything has settled the initiator's state machine is armed exactly when
\* the controller initiates, and nobody waits for it to be armed: the cancellation
\* of an attempt, its success and the next attempt may race in any way.
ArmedMeansInitiating ==
  Settled => /\ host.connectability_state = IF controller.initiating THEN "ARMED" ELSE "DISARMED"
             /\ ~host.disarmed_while_arming

\* When everything has settled the controller scans only if that was the last
\* scan request: a resume never restarts a scan that was stopped meanwhile.
ScansOnlyIfAsked == Settled => (controller.scanning => host.scan_asked)

\* The random address and the lists change only while the controller neither
\* initiates nor scans, so that it never refuses such a command: the clients that
\* handle_next_command takes for paused really are.  This is claimed of patient
\* callers only, who make one request at a time: with requests that overlap a
\* late ack_resume undoes a pause and the controller does refuse.
ChangedOnlyWhenIdle == regime.patient => ~controller.disallowed

\* When everything has settled no command is left in the cache: handle_next_command
\* returns without sending only if an acknowledgement will call it again.
CacheDrained == Settled => host.cached_commands = << >>

\* When everything has settled nobody is left paused: every pause, the one a client
\* enters when it registers included, is followed by a resume once the cached
\* commands have been sent.
NobodyLeftPaused ==
  regime.patient /\ Settled =>
    /\ CacheDrained
    /\ \A c \in DOMAIN host.registered_clients : host.registered_clients[c] = "RESUMED"
    /\ ~host.paused /\ ~host.pause_connection

\* When everything has settled the controller holds the accept list the
\* initiator keeps, and is connecting to it if a connection was asked for.
ConnectsToList ==
  regime.patient /\ Settled =>
    /\ controller.accept_list = host.connect_list
    /\ (host.direct_connections \union host.background_connections)
         \intersect host.connect_list # {}
       => controller.initiating

\* The local address recorded for a connection made as central is the address
\* the controller used to make it, whatever rotation was under way.
RecordedAddressUsed ==
  regime.patient =>
    \A d \in DOMAIN host.connections :
      (\A i \in 1..Len(host.tasks) : host.tasks[i][2] # d)
        => host.connections[d] = controller.link_address[d]

=============================================================================
