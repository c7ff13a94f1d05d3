---------------------------- MODULE MCLeAddress ----------------------------
(* Small instances of the LE address manager and its clients.               *)
EXTENDS LeAddressManager

CONSTANTS d1, d2

MCClients == << "le", "scan" >>

\* One thing after another, over two devices: one connected to, one only listed.
OneAtATime ==
  [patient |-> TRUE, max_requests |-> 5, max_refusals |-> 0,
   requests |-> {"direct", "background", "cancel", "incoming", "disconnect",
                 "update_irk", "scan", "stop_scan", "clear_accept"} \X {d1}
                \union {"add_accept", "remove_accept", "add_resolving",
                       "remove_resolving", "clear_resolving"} \X {d2}]

\* Everything may overlap, for one device.
Overlapping ==
  [patient |-> FALSE, max_requests |-> 2, max_refusals |-> 1,
   requests |-> {"direct", "background", "cancel", "incoming", "disconnect",
                 "update_irk", "scan", "stop_scan", "add_accept", "remove_accept",
                 "clear_accept", "add_resolving", "remove_resolving",
                 "clear_resolving"} \X {d1}]

Both == {OneAtATime, Overlapping}

\* A device is added to the resolving list before anything else is asked for.
FirstResolving ==
  {[patient |-> FALSE, max_requests |-> 1, max_refusals |-> 0,
    requests |-> {<< "add_resolving", d1 >>}]}

=============================================================================
