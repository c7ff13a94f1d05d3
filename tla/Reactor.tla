------------------------------ MODULE Reactor ------------------------------
(***************************************************************************)
(* The reactor of a thread (system/gd/os/linux_generic/reactor.cc): the    *)
(* loop that waits for descriptors with epoll and runs the callbacks of    *)
(* the reactables registered for them, and the functions by which any      *)
(* thread unregisters a reactable and waits until its callback is over.    *)
(*                                                                         *)
(* A step is what runs under one lock.  Reactor::mutex_ is held across     *)
(* steps only by WaitForUnregisteredReactable; Reactable::mutex_ never is. *)
(* Each handler and each alarm registers one reactable, before the start.  *)
(***************************************************************************)
EXTENDS Naturals, Sequences, FiniteSets, SequencesExt

CONSTANTS
  Handlers,   \* the handlers of the thread
  Alarms,     \* its alarms
  None        \* nullptr

Reactables == Handlers \cup Alarms

ASSUME ReactablesAssumption ==
  /\ None \notin Reactables
  /\ Handlers \cap Alarms = {}
  /\ IsFiniteSet(Handlers) /\ IsFiniteSet(Alarms)

VARIABLES
  at,                  \* where Run is
  events,              \* what epoll_wait returned and is not yet handled
  on,                  \* the reactable with is_executing_
  status,              \* of each reactable, see below
  invalidation_list,   \* invalidation_list_
  finished,            \* whose future is executing_reactable_finished_
  mutex,               \* mutex_: None, or "held" by a thread that waits
  control              \* control_fd_: "none" or "stop"

reactor_vars == <<at, events, on, status, invalidation_list, finished, mutex, control>>

\* A reactable is registered; invalidated once Unregister has put it on the
\* list; then removed, if it is executing, or deleted.
Status == {"registered", "invalidated", "removed", "deleted"}

\* Run is between two events; in epoll_wait; in a callback (at its start, in
\* the closure it runs, inside that closure's Post or ~Alarm, in the read of
\* an alarm, at its end); or has returned.  It is undefined what happens once
\* it uses a reactable that was deleted.
Places == {"next", "epoll", "callback", "closure", "notify", "destroy", "read",
           "finish", "returned", "undefined"}

ReactorInit ==
  /\ at = "next" /\ events = <<>> /\ on = None
  /\ status = [r \in Reactables |-> "registered"]
  /\ invalidation_list = {}
  /\ finished = None /\ mutex = None /\ control = "none"

-----------------------------------------------------------------------------
(* Run                                                                     *)

\* The top of the loop.
ClearInvalidationList ==
  /\ at = "next" /\ events = <<>>
  /\ mutex = None
  /\ invalidation_list' = {}
  /\ at' = "epoll"
  /\ UNCHANGED <<events, on, status, finished, mutex, control>>

\* epoll_wait reports every registered descriptor that is readable, in any
\* order; None is the control descriptor.
epoll_wait(readable) ==
  LET ready == {r \in readable : status[r] \in {"registered", "invalidated"}}
                 \cup (IF control = "stop" THEN {None} ELSE {})
  IN /\ at = "epoll"
     /\ ready # {}
     /\ events' \in SetToSeqs(ready)
     /\ at' = "next"
     /\ UNCHANGED <<on, status, invalidation_list, finished, mutex, control>>

\* The next event is skipped if its reactable is on the list.
Dispatch ==
  /\ at = "next" /\ events # <<>> /\ Head(events) # None
  /\ mutex = None
  /\ finished' = None
  /\ events' = Tail(events)
  /\ IF Head(events) \in invalidation_list
     THEN UNCHANGED <<at, on>>
     ELSE /\ on' = Head(events)
          /\ at' = IF status[Head(events)] = "deleted" THEN "undefined" ELSE "callback"
  /\ UNCHANGED <<status, invalidation_list, mutex, control>>

\* kStopReactor: Run returns, whatever events are left.
StopRunning ==
  /\ at = "next" /\ events # <<>> /\ Head(events) = None
  /\ control' = "none"
  /\ at' = "returned"
  /\ UNCHANGED <<events, on, status, invalidation_list, finished, mutex>>

\* After a callback: a reactable unregistered meanwhile is deleted, and its
\* promise kept.
FinishCallback ==
  /\ at = "finish"
  /\ status' = IF status[on] = "removed" THEN [status EXCEPT ![on] = "deleted"]
               ELSE status
  /\ on' = None
  /\ at' = "next"
  /\ UNCHANGED <<events, invalidation_list, finished, mutex, control>>

-----------------------------------------------------------------------------
(* Unregister, in two halves                                               *)

Invalidate(r) ==
  /\ status[r] = "registered"
  /\ mutex = None
  /\ invalidation_list' = invalidation_list \cup {r}
  /\ status' = [status EXCEPT ![r] = "invalidated"]

\* Mutant: deleted even while it is executing.
DetachAtOnce(r) ==
  /\ status[r] = "invalidated"
  /\ status' = [status EXCEPT ![r] = "deleted"]
  /\ UNCHANGED finished

\* Out of the epoll set, and deleted unless its callback is executing.
Detach(r) ==
  /\ status[r] = "invalidated"
  /\ status' = [status EXCEPT ![r] = IF on = r THEN "removed" ELSE "deleted"]
  /\ finished' = IF on = r THEN r ELSE finished

(* WaitForUnregisteredReactable *)

\* There is nothing to wait for.
NothingToWaitFor == mutex = None /\ finished = None

\* The future is waited for with mutex_ held.
StartToWait ==
  /\ mutex = None /\ finished # None
  /\ mutex' = "held"

FutureReady == mutex = "held" /\ status[finished] = "deleted"
=============================================================================
