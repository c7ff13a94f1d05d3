------------------------- MODULE StackWakeupProofs -------------------------
(***************************************************************************)
(* Proof that handle_next_event is never called for work that is not       *)
(* there, from the invariant of StackThreadProofs.                         *)
(***************************************************************************)
EXTENDS StackThreadProofs

\* An event of a handler that is not cleared finds its eventfd readable: each
\* reactable is reported once, and only the reactor reads.
WakeupInv ==
  /\ \A i \in DOMAIN events : events[i] \in Handlers \ cleared => event[events[i]] > 0
  /\ \A i, j \in DOMAIN events : events[i] = events[j] => i = j
  /\ at \in InCallback => \A i \in DOMAIN events : events[i] # on
  /\ at = "callback" /\ on \in Handlers \ cleared => event[on] > 0
  /\ NoIdleWakeup

\* Steps that touch no event, and read no eventfd of a handler that is not
\* cleared.
LEMMA OthersKeepWakeup ==
  ASSUME StackInv, WakeupInv, UNCHANGED <<events, on>>,
         NoIdleWakeup',
         cleared \subseteq cleared',
         \A h \in Handlers \ cleared' : event'[h] \in Nat /\ event'[h] >= event[h],
         \/ at' = at
         \/ at' \notin {"callback"} /\ (at' \in InCallback => at \in InCallback)
  PROVE  WakeupInv'
BY DEF StackInv, ThreadInv, StackTypeOK, WakeupInv, InCallback

\* The loop of the reactor.
LEMMA LoopKeepsWakeup ==
  ASSUME StackInv, WakeupInv, Loop
  PROVE  WakeupInv'
<1>0. UNCHANGED <<event, cleared, process>>
  BY DEF Loop, handler_vars
<1>1. NoIdleWakeup'
  BY <1>0 DEF WakeupInv, NoIdleWakeup
<1>2. event \in [Handlers -> Nat] /\ cleared \subseteq Handlers
  BY DEF StackInv, ThreadInv, StackTypeOK
<1>3. CASE epoll_wait(Readable)
  <2>. DEFINE ready == {r \in Readable : status[r] \in {"registered", "invalidated"}}
                         \cup (IF control = "stop" THEN {None} ELSE {})
  <2>1. ready \in SUBSET (Reactables \cup {None}) /\ events' \in SetToSeqs(ready)
    BY <1>3 DEF epoll_wait, Readable, Reactables
  <2>2. events' \in Seq(Reactables \cup {None}) /\ \A i \in DOMAIN events' : events'[i] \in ready
    BY <2>1, EventsAreReady DEF StackInv, ThreadInv
  <2>3. \A i, j \in DOMAIN events' : events'[i] = events'[j] => i = j
    BY <2>1 DEF SetToSeqs, IsInjective
  <2>4. \A r \in ready : r \in Handlers => event[r] > 0
    BY ReactablesAssumption DEF Readable, Reactables
  <2>5. at' = "next"
    BY <1>3 DEF epoll_wait
  <2>. HIDE DEF ready
  <2>. QED
    BY <1>0, <1>1, <2>2, <2>3, <2>4, <2>5 DEF WakeupInv, InCallback
<1>4. CASE Dispatch
  <2>1. events # <<>> /\ events' = Tail(events)
    BY <1>4 DEF Dispatch
  <2>2. /\ Head(events) = events[1] /\ 1 \in DOMAIN events
        /\ \A i \in DOMAIN events' : i \in Nat \ {0} /\ i + 1 \in DOMAIN events
                                       /\ events'[i] = events[i + 1]
    <3>1. Tail(events) \in Seq(Reactables \cup {None})
      BY <2>1, HeadAndTailOfEvents DEF StackInv, ThreadInv
    <3>2. \A i \in DOMAIN events' : i \in Nat \ {0}
      BY <2>1, <3>1
    <3>. QED
      BY <2>1, <3>2, HeadAndTailOfEvents DEF StackInv, ThreadInv
  <2>3. at = "next" /\ \/ at' = at
                       \/ on' = Head(events) /\ at' \in {"callback", "undefined"}
    BY <1>4 DEF Dispatch
  <2>4. /\ \A i \in DOMAIN events' : events'[i] \in Handlers \ cleared => event[events'[i]] > 0
        /\ \A i, j \in DOMAIN events' : events'[i] = events'[j] => i = j
        /\ \A i \in DOMAIN events' : events'[i] # Head(events)
        /\ Head(events) \in Handlers \ cleared => event[Head(events)] > 0
    BY <2>2 DEF WakeupInv
  <2>. QED
    BY <1>0, <1>1, <2>3, <2>4 DEF WakeupInv, InCallback
<1>5. CASE ClearInvalidationList \/ StopRunning
  BY <1>0, <1>1, <1>2, <1>5, OthersKeepWakeup
     DEF ClearInvalidationList, StopRunning, InCallback
<1>6. CASE FinishCallback
  BY <1>0, <1>1, <1>6 DEF FinishCallback, WakeupInv, InCallback
<1>. QED
  BY <1>3, <1>4, <1>5, <1>6 DEF Loop
\* handle_next_event reads its own eventfd, of which no event is left.
LEMMA HandlerKeepsWakeup ==
  ASSUME StackInv, WakeupInv, handle_next_event
  PROVE  WakeupInv'
<1>1. event \in [Handlers -> Nat]
  BY DEF StackInv, ThreadInv, StackTypeOK
<1>2. /\ at = "callback" /\ on \in Handlers /\ UNCHANGED <<events, on, cleared>>
      /\ event' = [event EXCEPT ![on] = IF event[on] > 0 THEN event[on] - 1 ELSE 0]
  BY DEF handle_next_event, Within
<1>3. on \notin cleared => event[on] > 0
  BY <1>2 DEF WakeupInv
<1>4. UNCHANGED process /\ at' \in {"finish", "closure"}
  <2>1. /\ process' = IF on \notin cleared /\ ~(event[on] > 0)
                      THEN "Notified for work but no work available" ELSE process
        /\ at' \in {"finish", "closure"}
    BY DEF handle_next_event, Within
  <2>. QED
    BY <1>3, <2>1
<1>5. \A i \in DOMAIN events : events[i] # on
  BY <1>2 DEF WakeupInv, InCallback
<1>6. \A h \in Handlers : h # on => event'[h] = event[h]
  BY <1>1, <1>2
<1>. QED
  BY <1>2, <1>4, <1>5, <1>6 DEF WakeupInv, NoIdleWakeup, InCallback

\* A notification only adds.
LEMMA NotifyAdds ==
  ASSUME StackInv, NEW p \in Posters, Notify(p)
  PROVE  /\ \A h \in Handlers : event'[h] \in Nat /\ event'[h] >= event[h]
         /\ UNCHANGED cleared
<1>1. event \in [Handlers -> Nat] /\ posting \in [Posters -> Handlers \cup {None}]
  BY DEF StackInv, ThreadInv, StackTypeOK
<1>2. /\ posting[p] \in Handlers
      /\ event' = [event EXCEPT ![posting[p]] = event[posting[p]] + 1]
      /\ UNCHANGED cleared
  BY <1>1 DEF Notify
<1>. QED
  BY <1>1, <1>2

\* WakeupInv is kept by every step.
LEMMA NextKeepsWakeup ==
  ASSUME StackInv, WakeupInv, [Next]_vars
  PROVE  WakeupInv'
<1>0. event \in [Handlers -> Nat] /\ cleared \subseteq Handlers
  BY DEF StackInv, ThreadInv, StackTypeOK
<1>. DEFINE same == \A h \in Handlers : event[h] \in Nat /\ event[h] >= event[h]
<1>00. same
  BY <1>0
<1>000. NoIdleWakeup
  BY DEF WakeupInv
<1>1. CASE Loop
  BY <1>1, LoopKeepsWakeup
<1>2. CASE handle_next_event
  BY <1>2, HandlerKeepsWakeup
<1>3. CASE on_fire \/ Closure \/ ClosureDestroys \/ ClosureOutlives
  <2>1. /\ UNCHANGED <<events, on, event, cleared, process>>
        /\ at \in InCallback /\ at' # "callback"
    BY <1>3 DEF on_fire, Closure, ClosureDestroys, ClosureOutlives, Within, Post, handler_vars,
         InCallback
  <2>. QED
    BY <1>00, <1>000, <2>1, OthersKeepWakeup DEF NoIdleWakeup
<1>4. CASE ClosureNotifies
  <2>1. /\ UNCHANGED <<events, on, cleared, process>>
        /\ at = "notify" /\ at' = "finish"
        /\ \A h \in Handlers : event'[h] \in Nat /\ event'[h] >= event[h]
    BY <1>4, NotifyAdds DEF ClosureNotifies, Within, Posters
  <2>. QED
    BY <1>000, <2>1, OthersKeepWakeup DEF NoIdleWakeup, InCallback
<1>5. CASE ClientNotifies
  <2>1. /\ UNCHANGED <<events, on, cleared, process, at>>
        /\ \A h \in Handlers : event'[h] \in Nat /\ event'[h] >= event[h]
    BY <1>5, NotifyAdds DEF ClientNotifies, reactor_vars, Posters
  <2>. QED
    BY <1>000, <2>1, OthersKeepWakeup DEF NoIdleWakeup
<1>6. CASE ClearEvent
  <2>1. Stopping \in cleared /\ Stopping \in Handlers
    BY <1>6, StoppingIsHandler DEF ClearEvent, ManagerAt, StackInv, ThreadInv, EventInv
  <2>2. /\ UNCHANGED <<events, on, cleared, process, at>>
        /\ event' = [event EXCEPT ![Stopping] = 0]
    BY <1>6 DEF ClearEvent, ManagerQuiet
  <2>3. \A h \in Handlers \ cleared : event'[h] \in Nat /\ event'[h] >= event[h]
    BY <1>0, <2>1, <2>2
  <2>. QED
    BY <1>000, <2>2, <2>3, OthersKeepWakeup DEF NoIdleWakeup
<1>7. CASE ClearTasks
  <2>1. /\ UNCHANGED <<events, on, event, process, at>>
        /\ cleared \subseteq cleared'
    BY <1>7 DEF ClearTasks, ManagerQuiet
  <2>. QED
    BY <1>00, <1>000, <2>1, OthersKeepWakeup DEF NoIdleWakeup
<1>8. CASE \/ ClientPosts \/ ManagerUnregisters \/ WaitUntilStopped
           \/ StopCancels \/ StopDestroys \/ StopReturns \/ StopThread
  <2>1. UNCHANGED <<events, on, event, cleared, process, at>>
    BY <1>8 DEF ClientPosts, Post, ManagerUnregisters, WaitUntilStopped, StopCancels, StopDestroys,
         StopReturns, StopThread, ManagerQuiet, reactor_vars, handler_vars
  <2>. QED
    BY <1>00, <1>000, <2>1, OthersKeepWakeup DEF NoIdleWakeup
<1>9. CASE WaitTimesOut \/ (\E a \in Alarms : Expire(a)) \/ UNCHANGED vars
  <2>1. UNCHANGED <<events, on, event, cleared, at>>
    BY <1>9 DEF WaitTimesOut, Expire, vars, reactor_vars, handler_vars
  <2>2. NoIdleWakeup'
    BY <1>9, <1>000 DEF WaitTimesOut, Expire, vars, NoIdleWakeup
  <2>. QED
    BY <1>00, <2>1, <2>2, OthersKeepWakeup
<1>. QED
  BY <1>1, <1>2, <1>3, <1>4, <1>5, <1>6, <1>7, <1>8, <1>9 DEF Next, Callback, Manage

\* A handler is never notified for work that is not there.
THEOREM NoIdleWakeups == Spec => []NoIdleWakeup
<1>1. Init => WakeupInv
  BY DEF Init, ReactorInit, WakeupInv, NoIdleWakeup, InCallback
<1>2. StackInv /\ WakeupInv /\ [Next]_vars => WakeupInv'
  BY NextKeepsWakeup
<1>3. WakeupInv => NoIdleWakeup
  BY DEF WakeupInv
<1>. QED
  BY <1>1, <1>2, <1>3, StackInvariant, PTL DEF Spec
=============================================================================
