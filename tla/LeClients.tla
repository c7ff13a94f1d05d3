------------------------------ MODULE LeClients ------------------------------
(* The clients of the LE address manager and the calls they make on it.

   The LE initiator (hci/acl_manager/le_impl.h) connects to the devices of the
   controller's filter accept list; the LE scanner (hci/le_scanning_manager.cc)
   listens for advertisements.  Both use the device's random address and the
   controller's lists, so the address manager (module LeAddressManager) has to
   pause them before it changes either.

   Everything runs on one thread.  A method is an operator from the state "h" of
   the host to the state it leaves: it may change its own fields, post a task at
   the end of the ACL handler's queue (h.tasks) and enqueue an HCI command
   (h.commands).  Nested calls are nested operators, so a handler is one step. *)
EXTENDS Integers, Sequences, FiniteSets, SequencesExt

CONSTANT Devices                      \* the remote devices

kEmpty == "kEmpty"                    \* Address::kEmpty
NoAddress == -1                       \* the advertiser's address: not followed

\* What a task runs, the client, device or status and the operation it is given.
Task(do, who, op) == << do, who, op >>
HCICommand(op, who) == << op, who >>

\* Handler::Post, CallOn and BindOnceOn(...).Invoke(): run later, in order.
Post(h, task) == [h EXCEPT !.tasks = Append(@, task)]

\* HciLayer::EnqueueCommand: commands reach the controller in order.
EnqueueCommand(h, op, who) == [h EXCEPT !.commands = Append(@, HCICommand(op, who))]

-----------------------------------------------------------------------------
(* The public methods of LeAddressManager, which its clients call.           *)

Register(h, client) == Post(h, Task("register_client", client, ""))
Unregister(h, client) == Post(h, Task("unregister_client", client, ""))
AckPause(h, client) == Post(h, Task("ack_pause", client, ""))
AckResume(h, client) == Post(h, Task("ack_resume", client, ""))

\* AddDeviceToFilterAcceptList, RemoveDeviceFrom..., ClearFilterAcceptList.
PushCommand(h, op, d) == Post(h, Task("push_command", d, op))

Cached(h, ops, d) ==
  [h EXCEPT !.cached_commands = @ \o [i \in 1..Len(ops) |-> HCICommand(ops[i], d)]]

RotatingAddress(h) == h.policy = "ROTATING"

\* supports_ble_privacy_ is taken to be true: without it the three functions on
\* the resolving list return at once.

\* The choice is made on the clients registered now; the task runs later.
PostHandleOrPause(h) ==
  IF h.registered_clients = << >>
  THEN Post(h, Task("handle_next_command", "", ""))
  ELSE Post(h, Task("pause_registered_clients", "", ""))

AddDeviceToResolvingList(h, d) ==
  PostHandleOrPause(Cached(h, << "RESOLUTION_DISABLE", "ADD_RESOLVING",
                                 "SET_PRIVACY_MODE", "RESOLUTION_ENABLE" >>, d))

RemoveDeviceFromResolvingList(h, d) ==
  PostHandleOrPause(Cached(h, << "RESOLUTION_DISABLE", "REMOVE_RESOLVING",
                                 "RESOLUTION_ENABLE" >>, d))

ClearResolvingList(h) ==
  Post(Cached(h, << "RESOLUTION_DISABLE", "CLEAR_RESOLVING",
                    "RESOLUTION_ENABLE" >>, kEmpty),
       Task("pause_registered_clients", "", ""))

-----------------------------------------------------------------------------
(* le_impl: the filter accept list and the connectability state machine.     *)

register_with_address_manager(h) ==
  IF h.address_manager_registered THEN h
  ELSE [Register(h, "le") EXCEPT !.address_manager_registered = TRUE,
                                 !.pause_connection = TRUE]

alreadyConnected(h, d) == d \in DOMAIN h.connections

add_device_to_connect_list(h, d) ==
  IF alreadyConnected(h, d) \/ d \in h.connect_list THEN h
  ELSE PushCommand(
         register_with_address_manager([h EXCEPT !.connect_list = @ \union {d}]),
         "ADD_ACCEPT", d)

remove_device_from_connect_list(h, d) ==
  IF d \notin h.connect_list THEN h
  ELSE PushCommand(
         register_with_address_manager([h EXCEPT !.connect_list = @ \ {d},
                                                 !.connecting_le = @ \ {d},
                                                 !.direct_connections = @ \ {d}]),
         "REMOVE_ACCEPT", d)

clear_filter_accept_list(h) ==
  PushCommand(register_with_address_manager([h EXCEPT !.connect_list = {}]),
              "CLEAR_ACCEPT", kEmpty)

add_device_to_resolving_list(h, d) ==
  AddDeviceToResolvingList(register_with_address_manager(h), d)

remove_device_from_resolving_list(h, d) ==
  RemoveDeviceFromResolvingList(register_with_address_manager(h), d)

arm_connectability(h) ==
  IF h.connectability_state # "DISARMED" \/ h.connect_list = {} THEN h
  ELSE EnqueueCommand([h EXCEPT !.connectability_state = "ARMING",
                                !.connecting_le = h.connect_list],
                      "LE_CREATE_CONNECTION", kEmpty)

disarm_connectability(h) ==
  CASE h.connectability_state = "ARMED" ->
         EnqueueCommand([h EXCEPT !.connectability_state = "DISARMING"],
                        "LE_CREATE_CONNECTION_CANCEL", kEmpty)
    [] h.connectability_state = "ARMING" -> [h EXCEPT !.disarmed_while_arming = TRUE]
    [] OTHER -> h

\* Mutant: the postponed disarm is not forgotten once it is done.
update_connectability_state_after_armed_M(h, status) ==
  IF h.connectability_state # "ARMING" THEN h
  ELSE LET armed == [h EXCEPT !.connectability_state =
                                IF status = "SUCCESS" THEN "ARMED" ELSE "DISARMED"]
       IN  IF h.disarmed_while_arming THEN disarm_connectability(armed) ELSE armed

update_connectability_state_after_armed(h, status) ==
  IF h.connectability_state # "ARMING" THEN h
  ELSE LET armed == [h EXCEPT !.connectability_state =
                                IF status = "SUCCESS" THEN "ARMED" ELSE "DISARMED",
                              !.disarmed_while_arming = FALSE]
       IN  IF h.disarmed_while_arming THEN disarm_connectability(armed) ELSE armed

\* "how" is "direct" or "background" when the device is to be added to the
\* connect list, "rearm" when the list is only to be connected to again.
create_le_connection(h, d, how) ==
  LET listed == IF how = "rearm" THEN h ELSE add_device_to_connect_list(h, d)
      timed == IF how # "direct" THEN listed
               ELSE [listed EXCEPT !.direct_connections = @ \union {d},
                                   !.create_connection_timeout_alarms = @ \union {d}]
      known == IF timed.address_manager_registered THEN timed
               ELSE [Register(timed, "le") EXCEPT
                       !.address_manager_registered = TRUE,
                       !.pause_connection = @ \/ RotatingAddress(h)]
  IN  CASE alreadyConnected(h, d) -> h
        [] ~alreadyConnected(h, d) /\ known.pause_connection ->
             [known EXCEPT !.arm_on_resume = TRUE]
        [] OTHER ->
             IF known.connectability_state \in {"ARMED", "ARMING"} THEN known
             ELSE IF how = "rearm"
                  THEN Post(known, Task("arm_connectability", "", ""))
                  ELSE [known EXCEPT !.arm_on_resume = TRUE]

cancel_connect(h, d) ==
  remove_device_from_connect_list(
    [h EXCEPT !.create_connection_timeout_alarms = @ \ {d}], d)

on_create_connection_timeout(h, d) ==
  LET fired == [h EXCEPT !.create_connection_timeout_alarms = @ \ {d}]
  IN  IF d \in h.background_connections
      THEN disarm_connectability([fired EXCEPT !.direct_connections = @ \ {d}])
      ELSE cancel_connect(fired, d)

add_device_to_background_connection_list(h, d) ==
  [h EXCEPT !.background_connections = @ \union {d}]

remove_device_from_background_connection_list(h, d) ==
  [h EXCEPT !.background_connections = @ \ {d}]

on_le_connection_canceled_on_pause(h) ==
  AckPause([h EXCEPT !.arm_on_resume = TRUE, !.connectability_state = "DISARMED"], "le")

on_common_le_connection_complete(h, d) ==
  [h EXCEPT !.connecting_le = {}, !.create_connection_timeout_alarms = @ \ {d}]

AddConnection(h, d, address) ==
  [h EXCEPT !.connections = [e \in DOMAIN @ \union {d} |->
                               IF e = d THEN address ELSE @[e]]]

\* As central: the event that ends an LE Create Connection command.
on_le_connection_complete(h, d, status) ==
  LET disarmed == [h EXCEPT !.connectability_state = "DISARMED"]
      common == on_common_le_connection_complete(disarmed, d)
      removed == remove_device_from_connect_list(
                   [common EXCEPT !.arm_on_resume = FALSE,
                                  !.ready_to_unregister = TRUE], d)
      rearmed == IF removed.connect_list = {} THEN removed
                 ELSE Post(removed, Task("create_le_connection", kEmpty, "rearm"))
  IN  IF status = "UNKNOWN_CONNECTION"
      THEN IF h.pause_connection THEN on_le_connection_canceled_on_pause(disarmed)
           ELSE create_le_connection(common, kEmpty, "rearm")
      ELSE IF status # "SUCCESS" THEN rearmed
           ELSE AddConnection(rearmed, d, h.le_address)

\* As peripheral: the remote device connected to one of our advertisements.
on_le_peripheral_connection_complete(h, d) ==
  AddConnection(IF d \in h.connect_list THEN cancel_connect(h, d) ELSE h, d, NoAddress)

on_le_disconnect(h, d) ==
  LET gone == [h EXCEPT !.connections = [e \in DOMAIN @ \ {d} |-> @[e]]]
  IN  IF d \notin h.background_connections THEN gone
      ELSE add_device_to_connect_list([gone EXCEPT !.arm_on_resume = TRUE], d)

\* Mutant: a cancellation that came too late is not acknowledged.
on_create_connection_cancel_complete_M(h, status) == h

on_create_connection_cancel_complete(h, status) ==
  IF status # "SUCCESS" /\ h.pause_connection THEN AckPause(h, "le") ELSE h

check_for_unregister(h) ==
  IF /\ DOMAIN h.connections = {} /\ h.connecting_le = {}
     /\ h.address_manager_registered /\ h.ready_to_unregister
  THEN [Unregister(h, "le") EXCEPT !.address_manager_registered = FALSE,
                                   !.pause_connection = FALSE,
                                   !.ready_to_unregister = FALSE]
  ELSE h

\* Mutant: the pause is acknowledged whatever the state, and nothing is cancelled.
le_OnPause_M(h) ==
  IF ~h.address_manager_registered THEN h
  ELSE AckPause([h EXCEPT !.pause_connection = TRUE], "le")

le_OnPause(h) ==
  LET paused == [h EXCEPT !.pause_connection = TRUE]
  IN  CASE ~h.address_manager_registered -> h
        [] h.address_manager_registered /\ h.connectability_state = "DISARMED" ->
             AckPause(paused, "le")
        [] OTHER -> disarm_connectability(
                      [paused EXCEPT !.arm_on_resume = h.connecting_le # {}])

\* Mutant: the wish to connect is forgotten before it is looked at.
le_OnResume_M(h) ==
  IF ~h.address_manager_registered THEN h
  ELSE check_for_unregister(
         AckResume([h EXCEPT !.pause_connection = FALSE, !.arm_on_resume = FALSE], "le"))

le_OnResume(h) ==
  LET resumed == [h EXCEPT !.pause_connection = FALSE]
      armed == IF h.arm_on_resume THEN arm_connectability(resumed) ELSE resumed
  IN  IF ~h.address_manager_registered THEN h
      ELSE check_for_unregister(AckResume([armed EXCEPT !.arm_on_resume = FALSE], "le"))

-----------------------------------------------------------------------------
(* The scanner.                                                              *)

start_scan(h) ==
  IF h.paused /\ h.scan_registered THEN [h EXCEPT !.scan_on_resume = TRUE]
  ELSE EnqueueCommand([(IF h.scan_registered THEN h ELSE Register(h, "scan")) EXCEPT
                         !.is_scanning = TRUE, !.scan_registered = TRUE],
                      "SCAN_ENABLE", kEmpty)

stop_scan(h) ==
  IF ~h.is_scanning THEN h
  ELSE EnqueueCommand([h EXCEPT !.is_scanning = FALSE], "SCAN_DISABLE", kEmpty)

\* Mutant: stopping the scan leaves the scanner registered.
scan_M(h, start) ==
  IF start THEN start_scan([h EXCEPT !.scan_asked = TRUE])
  ELSE stop_scan([h EXCEPT !.scan_asked = FALSE])

\* scan_asked, kept for the properties, is the caller's last request.
scan(h, start) ==
  LET asked == [h EXCEPT !.scan_asked = start]
  IN  IF start THEN start_scan(asked)
      ELSE stop_scan(IF h.scan_registered
                     THEN [Unregister(asked, "scan") EXCEPT !.scan_registered = FALSE,
                                                            !.paused = FALSE]
                     ELSE asked)

scan_OnPause(h) ==
  IF ~h.scan_registered THEN h
  ELSE AckPause(stop_scan([h EXCEPT !.paused = TRUE,
                                    !.scan_on_resume = h.is_scanning]), "scan")

scan_OnResume(h) ==
  LET resumed == [h EXCEPT !.paused = FALSE]
  IN  IF ~h.scan_registered THEN h
      ELSE AckResume(IF h.scan_on_resume THEN start_scan(resumed) ELSE resumed, "scan")

=============================================================================
