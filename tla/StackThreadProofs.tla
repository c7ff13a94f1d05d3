------------------------- MODULE StackThreadProofs -------------------------
(***************************************************************************)
(* Proofs about the thread of the stack, for every set of handlers and     *)
(* alarms: a handler that is stopped runs nothing, a deleted reactable is  *)
(* not used but for the two cases DeletedNotUsed names, and tasks and      *)
(* notifications of a handler match.                                       *)
(***************************************************************************)
EXTENDS StackThread, SequenceTheorems, FiniteSetTheorems, TLAPS

StackTypeOK ==
  /\ at \in Places
  /\ events \in Seq(Reactables \cup {None})
  /\ on \in Reactables \cup {None}
  /\ status \in [Reactables -> Status]
  /\ finished \in Reactables \cup {None}
  /\ tasks \in [Handlers -> Nat]
  /\ cleared \subseteq Handlers
  /\ event \in [Handlers -> Nat]
  /\ posting \in [Posters -> Handlers \cup {None}]
  /\ to_stop \in Seq(Handlers)
  /\ stopped \subseteq Handlers

\* Where Run is while is_executing_ of a reactable is set.
InCallback == {"callback", "closure", "notify", "destroy", "read", "finish"}

\* Between callbacks nothing executes; a reactable that was removed but not
\* deleted is the one that executes, and the future to wait for is its own.
ExecutionInv ==
  /\ at \in {"next", "epoll", "returned"} => on = None
  /\ at \in InCallback => on \in Reactables
  /\ \A r \in Reactables : status[r] = "removed" => on = r /\ finished = r
  /\ \A r \in Reactables : status[r] = "deleted" /\ at # "undefined" => on # r

\* A handler that is stopped was unregistered, and its reactable deleted.
ManagerInv ==
  /\ to_stop # <<>> /\ manager = "WaitUntilStopped" =>
       status[Stopping] \in {"removed", "deleted"}
  /\ \A h \in stopped : status[h] = "deleted"

\* The event of a handler that Clear has gone past stays empty, except for a
\* late notification.  Hence an event of a reactable that is being unregistered
\* is on the list, or that of a handler notified late, or of an alarm that was
\* not at rest when Stop() was called.
EventInv ==
  /\ to_stop # <<>> /\ manager = "event_->Clear" => Stopping \in cleared
  /\ to_stop # <<>> /\ manager = "Unregister" =>
       Stopping \in cleared /\ (event[Stopping] = 0 \/ Stopping \in late)
  /\ \A h \in Handlers : status[h] # "registered" =>
       h \in cleared /\ (event[h] = 0 \/ h \in late)
  /\ \A i \in DOMAIN events :
       events[i] \in Reactables /\ status[events[i]] # "registered" =>
         events[i] \in invalidation_list \cup late \cup outlived
  /\ at = "undefined" => on \in late \cup outlived

ThreadInv == StackTypeOK /\ ExecutionInv /\ ManagerInv /\ EventInv /\ OneTaskPerEvent

AlarmTypeOK ==
  /\ timer \in [Alarms -> {"disarmed", "armed", "expired"}]
  /\ destroying \in Alarms \cup {None}
  /\ outlived \subseteq Alarms

\* Stop() is called when the handler of the module has stopped, and has at
\* most one alarm of the module half unregistered.
StopInv == to_stop # <<>> /\ manager = "Stop" => Stopping \in stopped

DestroyingInv ==
  destroying # None =>
    /\ to_stop # <<>> /\ manager = "Stop" /\ Owner[destroying] = Stopping
    /\ status[destroying] = "invalidated"

\* Any other alarm is unregistered by the closure that runs.
InvalidatedInv ==
  /\ \A a \in Alarms : status[a] = "invalidated" /\ a # destroying => at \in {"destroy", "undefined"}
  /\ \A a, b \in Alarms \ {destroying} :
       status[a] = "invalidated" /\ status[b] = "invalidated" => a = b

RemovedInv ==
  \A a \in Alarms : status[a] = "removed" => at = "finish" \/ Owner[a] \in stopped

\* An alarm that is at rest when Stop() of its module is called stays at rest:
\* no closure is left to schedule it.
RestInv ==
  \A a \in Alarms : Owner[a] \in stopped /\ a \notin outlived => AtRest(a) \/ status[a] = "deleted"

AlarmInv ==
  AlarmTypeOK /\ StopInv /\ DestroyingInv /\ InvalidatedInv /\ RemovedInv /\ RestInv

StackInv == ThreadInv /\ AlarmInv

-----------------------------------------------------------------------------
\* The first handler to be stopped is a handler.
LEMMA StoppingIsHandler ==
  ASSUME StackTypeOK, to_stop # <<>>
  PROVE  Stopping \in Handlers /\ Tail(to_stop) \in Seq(Handlers)
BY HeadTailProperties DEF StackTypeOK, Stopping

\* The first event, and what is left of the events after it.
LEMMA HeadAndTailOfEvents ==
  ASSUME StackTypeOK, events # <<>>
  PROVE  /\ Head(events) \in Reactables \cup {None}
         /\ Head(events) = events[1] /\ 1 \in DOMAIN events
         /\ Tail(events) \in Seq(Reactables \cup {None})
         /\ \A i \in DOMAIN Tail(events) :
              i + 1 \in DOMAIN events /\ Tail(events)[i] = events[i + 1]
BY HeadTailProperties DEF StackTypeOK

\* epoll_wait returns a sequence of ready reactables.
LEMMA EventsAreReady ==
  ASSUME StackTypeOK, NEW ready \in SUBSET (Reactables \cup {None}),
         NEW s \in SetToSeqs(ready)
  PROVE  s \in Seq(Reactables \cup {None}) /\ \A i \in DOMAIN s : s[i] \in ready
<1>1. IsFiniteSet(ready)
  <2>1. IsFiniteSet(Reactables)
    BY FS_Union, ReactablesAssumption DEF Reactables
  <2>2. IsFiniteSet(Reactables \cup {None})
    BY <2>1, FS_AddElement
  <2>. QED
    BY <2>2, FS_Subset
<1>2. Cardinality(ready) \in Nat
  BY <1>1, FS_CardinalityType
<1>3. s \in [1..Cardinality(ready) -> ready]
  BY DEF SetToSeqs
<1>. QED
  BY <1>2, <1>3

-----------------------------------------------------------------------------
\* The invariant holds at the start.
LEMMA StackInit == Init => StackInv
<1>. SUFFICES ASSUME Init PROVE StackInv
  OBVIOUS
<1>. USE DEF Init, ReactorInit
<1>1. StackTypeOK
  BY StackAssumption DEF StackTypeOK, Places, Status, Posters
<1>2. ExecutionInv /\ ManagerInv
  BY <1>1 DEF ExecutionInv, ManagerInv, InCallback
<1>3. EventInv
  BY <1>1 DEF EventInv, Reactables
<1>4. OneTaskPerEvent
  BY ReactablesAssumption DEF OneTaskPerEvent, Pending, Posters, Reactables
<1>5. AlarmInv
  BY DEF AlarmInv, AlarmTypeOK, StopInv, DestroyingInv, InvalidatedInv, RemovedInv, RestInv, Reactables
<1>. QED
  BY <1>1, <1>2, <1>3, <1>4, <1>5 DEF StackInv, ThreadInv

\* What executes is not the reactable of a handler that is stopped.
LEMMA NoneStoppedExecutes ==
  ASSUME StackInv, Running
  PROVE  on \notin stopped
BY DEF StackInv, ThreadInv, StackTypeOK, ExecutionInv, ManagerInv, Running, Reactables

\* An alarm that executes although the handler of its module is stopped was
\* executing when Stop() was called, or due.
LEMMA ExecutingIsOutlived ==
  ASSUME StackInv, Running, on \in Alarms, Owner[on] \in stopped
  PROVE  on \in outlived
BY DEF StackInv, ThreadInv, ExecutionInv, AlarmInv, RestInv, AtRest, Running, Reactables
-----------------------------------------------------------------------------
\* The loop of the reactor.
LEMMA LoopKeepsInv ==
  ASSUME StackInv, Running, Loop
  PROVE  ThreadInv'
<1>. USE DEF StackInv, ThreadInv, handler_vars, alarm_vars, manager_vars
<1>. Running
  OBVIOUS
<1>0. OneTaskPerEvent'
  BY DEF Loop, OneTaskPerEvent, Pending
<1>1. CASE ClearInvalidationList
  <2>1. StackTypeOK' /\ ExecutionInv'
    BY <1>1 DEF Loop, ClearInvalidationList, StackTypeOK, ExecutionInv, Places, InCallback
  <2>2. ManagerInv' /\ EventInv'
    BY <1>1 DEF Loop, ClearInvalidationList, StackTypeOK, ManagerInv, EventInv, Stopping
  <2>. QED
    BY <1>0, <2>1, <2>2
<1>2. CASE epoll_wait(Readable)
  <2>. DEFINE ready == {r \in Readable : status[r] \in {"registered", "invalidated"}}
                         \cup (IF control = "stop" THEN {None} ELSE {})
  <2>1. ready \in SUBSET (Reactables \cup {None}) /\ events' \in SetToSeqs(ready)
    BY <1>2 DEF epoll_wait, Readable, Reactables
  <2>2. events' \in Seq(Reactables \cup {None}) /\ \A i \in DOMAIN events' : events'[i] \in ready
    BY <2>1, EventsAreReady
  <2>3. StackTypeOK' /\ ExecutionInv' /\ ManagerInv'
    BY <1>2, <2>2 DEF Loop, epoll_wait, StackTypeOK, ExecutionInv, ManagerInv, Places,
         InCallback, Stopping
  <2>4. \A r \in ready \ {None} : status[r] # "registered" => r \in late \cup outlived
    <3>. SUFFICES ASSUME NEW r \in ready \ {None}, status[r] # "registered"
                  PROVE  r \in late \cup outlived
      OBVIOUS
    <3>1. r \in Readable /\ status[r] = "invalidated"
      OBVIOUS
    <3>2. CASE r \in Alarms
      <4>1. r = destroying /\ Owner[r] \in stopped
        BY <1>2, <3>1, <3>2, ReactablesAssumption
           DEF AlarmInv, StopInv, DestroyingInv, InvalidatedInv, epoll_wait, Reactables
      <4>2. timer[r] = "expired"
        BY <3>1, <3>2, ReactablesAssumption DEF Readable
      <4>. QED
        BY <3>1, <3>2, <4>1, <4>2 DEF AlarmInv, RestInv, AtRest
    <3>3. CASE r \notin Alarms
      <4>1. r \in Handlers /\ event[r] > 0
        BY <3>1, <3>3 DEF Readable
      <4>. QED
        BY <3>1, <4>1 DEF EventInv, StackTypeOK
    <3>. QED
      BY <3>2, <3>3
  <2>5. EventInv'
    <3>. HIDE DEF ready
    <3>1. \A i \in DOMAIN events' :
            events'[i] \in Reactables /\ status[events'[i]] # "registered" =>
              events'[i] \in late \cup outlived
      BY <2>2, <2>4, ReactablesAssumption
    <3>. QED
      BY <1>2, <3>1 DEF Loop, epoll_wait, EventInv, Stopping
  <2>. QED
    BY <1>0, <2>3, <2>5
<1>3. CASE Dispatch
  <2>. DEFINE r == Head(events)
  <2>1. /\ r \in Reactables
        /\ Tail(events) \in Seq(Reactables \cup {None})
        /\ \A i \in DOMAIN Tail(events) :
             i + 1 \in DOMAIN events /\ Tail(events)[i] = events[i + 1]
        /\ status[r] # "registered" => r \in invalidation_list \cup late \cup outlived
    BY <1>3, HeadAndTailOfEvents DEF Dispatch, EventInv
  <2>2. StackTypeOK'
    BY <1>3, <2>1 DEF Loop, Dispatch, StackTypeOK, Places
  <2>3. ExecutionInv' /\ ManagerInv'
    BY <1>3, <2>1, ReactablesAssumption DEF Loop, Dispatch, ExecutionInv, ManagerInv, InCallback, Stopping
  <2>4. EventInv'
    BY <1>3, <2>1 DEF Loop, Dispatch, EventInv, Stopping
  <2>. QED
    BY <1>0, <2>2, <2>3, <2>4
<1>4. CASE StopRunning
  <2>1. StackTypeOK' /\ ExecutionInv'
    BY <1>4 DEF Loop, StopRunning, StackTypeOK, ExecutionInv, Places, InCallback
  <2>2. ManagerInv' /\ EventInv'
    BY <1>4 DEF Loop, StopRunning, ManagerInv, EventInv, Stopping
  <2>. QED
    BY <1>0, <2>1, <2>2
<1>5. CASE FinishCallback
  <2>1. on \in Reactables
    BY <1>5 DEF FinishCallback, ExecutionInv, InCallback
  <2>2. StackTypeOK' /\ ExecutionInv'
    BY <1>5, <2>1, ReactablesAssumption
       DEF Loop, FinishCallback, StackTypeOK, ExecutionInv, Places, InCallback, Status
  <2>3. ManagerInv'
    BY <1>5, <2>1, StoppingIsHandler
       DEF Loop, FinishCallback, StackTypeOK, ManagerInv, Stopping, Reactables
  <2>4. EventInv'
    BY <1>5, <2>1 DEF Loop, FinishCallback, StackTypeOK, EventInv, Stopping, Reactables
  <2>. QED
    BY <1>0, <2>2, <2>3, <2>4
<1>. QED
  BY <1>1, <1>2, <1>3, <1>4, <1>5 DEF Loop
-----------------------------------------------------------------------------
\* A Post keeps tasks and notifications in step.
LEMMA PostKeepsCount ==
  ASSUME StackInv, NEW p \in Posters, NEW h \in Handlers, Post(p, h)
  PROVE  /\ OneTaskPerEvent'
         /\ tasks' \in [Handlers -> Nat]
         /\ posting' \in [Posters -> Handlers \cup {None}]
<1>0. /\ tasks \in [Handlers -> Nat] /\ event \in [Handlers -> Nat]
      /\ posting \in [Posters -> Handlers \cup {None}]
      /\ OneTaskPerEvent
  BY DEF StackInv, ThreadInv, StackTypeOK
<1>1. CASE h \in cleared
  BY <1>0, <1>1 DEF Post, OneTaskPerEvent, Pending
<1>2. CASE h \notin cleared
  <2>1. /\ tasks' = [tasks EXCEPT ![h] = tasks[h] + 1]
        /\ posting' = [posting EXCEPT ![p] = h]
        /\ posting[p] = None /\ UNCHANGED <<cleared, event>>
    BY <1>2 DEF Post
  <2>2. tasks' \in [Handlers -> Nat] /\ posting' \in [Posters -> Handlers \cup {None}]
    BY <1>0, <2>1
  <2>3. OneTaskPerEvent'
    BY <1>0, <2>1, ReactablesAssumption DEF OneTaskPerEvent, Pending, Posters, Reactables
  <2>. QED
    BY <2>2, <2>3
<1>. QED
  BY <1>1, <1>2

\* So does a notification, which may only be late.
LEMMA NotifyKeepsCount ==
  ASSUME StackInv, NEW p \in Posters, Notify(p)
  PROVE  /\ OneTaskPerEvent'
         /\ event' \in [Handlers -> Nat]
         /\ posting' \in [Posters -> Handlers \cup {None}]
         /\ late \subseteq late'
         /\ \A h \in Handlers : h \in cleared /\ (event[h] = 0 \/ h \in late) =>
              event'[h] = 0 \/ h \in late'
<1>. DEFINE g == posting[p]
<1>0. /\ tasks \in [Handlers -> Nat] /\ event \in [Handlers -> Nat]
      /\ posting \in [Posters -> Handlers \cup {None}]
      /\ OneTaskPerEvent
  BY DEF StackInv, ThreadInv, StackTypeOK
<1>1. /\ g \in Handlers
      /\ event' = [event EXCEPT ![g] = event[g] + 1]
      /\ posting' = [posting EXCEPT ![p] = None]
      /\ late' = late \cup ({g} \cap cleared)
      /\ UNCHANGED <<tasks, cleared>>
  BY <1>0 DEF Notify
<1>2. OneTaskPerEvent'
  BY <1>0, <1>1, ReactablesAssumption DEF OneTaskPerEvent, Pending, Posters, Reactables
<1>3. event' \in [Handlers -> Nat] /\ posting' \in [Posters -> Handlers \cup {None}]
  BY <1>0, <1>1
<1>. QED
  BY <1>0, <1>1, <1>2, <1>3

\* The callbacks of handlers and alarms, and the closures they run.
LEMMA CallbackKeepsInv ==
  ASSUME StackInv, Running, Callback
  PROVE  ThreadInv'
<1>. USE DEF StackInv, ThreadInv, alarm_vars, manager_vars, Within
<1>1. CASE handle_next_event
  <2>0. /\ tasks \in [Handlers -> Nat] /\ event \in [Handlers -> Nat]
        /\ on \in Handlers /\ OneTaskPerEvent
        /\ event' = [event EXCEPT ![on] = IF event[on] > 0 THEN event[on] - 1 ELSE 0]
        /\ UNCHANGED <<cleared, posting>>
        /\ on \notin cleared /\ event[on] > 0 =>
             tasks' = [tasks EXCEPT ![on] = tasks[on] - 1]
        /\ on \in cleared \/ event[on] = 0 => UNCHANGED tasks
    <3>1. /\ tasks \in [Handlers -> Nat] /\ event \in [Handlers -> Nat]
          /\ OneTaskPerEvent
      BY DEF StackTypeOK
    <3>2. event[on] \in Nat
      BY <1>1, <3>1 DEF handle_next_event
    <3>3. /\ on \in Handlers
          /\ event' = [event EXCEPT ![on] = IF event[on] > 0 THEN event[on] - 1 ELSE 0]
          /\ UNCHANGED <<cleared, posting>>
      BY <1>1 DEF handle_next_event
    <3>4. \/ on \in cleared /\ UNCHANGED tasks
          \/ event[on] = 0 /\ UNCHANGED tasks
          \/ /\ on \notin cleared /\ event[on] > 0
             /\ tasks' = [tasks EXCEPT ![on] = tasks[on] - 1]
      <4>1. tasks' = IF on \notin cleared /\ event[on] > 0
                     THEN [tasks EXCEPT ![on] = tasks[on] - 1] ELSE tasks
        BY <1>1 DEF handle_next_event
      <4>. QED
        BY <3>2, <4>1
    <3>. QED
      BY <3>1, <3>2, <3>3, <3>4
  <2>1. on \in Handlers /\ event' \in [Handlers -> Nat]
    BY <2>0
  <2>2. OneTaskPerEvent' /\ tasks' \in [Handlers -> Nat]
    <3>1. CASE on \notin cleared /\ event[on] > 0
      <4>1. /\ tasks[on] \in Nat \ {0} /\ event[on] \in Nat
            /\ event' = [event EXCEPT ![on] = event[on] - 1]
            /\ tasks' = [tasks EXCEPT ![on] = tasks[on] - 1]
        BY <2>0, <3>1 DEF OneTaskPerEvent, Pending
      <4>. QED
        BY <2>0, <3>1, <4>1 DEF OneTaskPerEvent, Pending
    <3>2. CASE on \in cleared \/ event[on] = 0
      <4>1. event' = [event EXCEPT ![on] = IF event[on] > 0 THEN event[on] - 1 ELSE 0]
            /\ UNCHANGED <<tasks, cleared, posting>>
        BY <2>0, <3>2
      <4>. QED
        BY <2>0, <3>2, <4>1 DEF OneTaskPerEvent, Pending
    <3>. QED
      BY <2>0, <3>1, <3>2
  <2>3. StackTypeOK' /\ ExecutionInv' /\ ManagerInv'
    BY <1>1, <2>1, <2>2 DEF handle_next_event, StackTypeOK, ExecutionInv, ManagerInv,
         Places, InCallback, Stopping
  <2>4. \A h \in Handlers : event[h] = 0 => event'[h] = 0
    BY <2>0
  <2>5. /\ UNCHANGED <<cleared, late, outlived, status, events, on, invalidation_list,
                       to_stop, manager>>
        /\ at = "callback" /\ at' # "undefined"
    BY <1>1 DEF handle_next_event
  <2>6. EventInv'
    BY <2>4, <2>5, StoppingIsHandler DEF EventInv, Stopping
  <2>. QED
    BY <2>2, <2>3, <2>6
<1>2. CASE on_fire
  <2>1. StackTypeOK' /\ ExecutionInv'
    BY <1>2 DEF on_fire, StackTypeOK, ExecutionInv, Places, InCallback, handler_vars
  <2>2. ManagerInv' /\ OneTaskPerEvent'
    BY <1>2 DEF on_fire, ManagerInv, OneTaskPerEvent, Pending, Stopping, handler_vars
  <2>3. status[on] = "removed" => on \in outlived
    BY <1>2, ExecutingIsOutlived DEF on_fire, AlarmInv, RemovedInv
  <2>4. EventInv'
    BY <1>2, <2>3 DEF on_fire, EventInv, Stopping, handler_vars
  <2>. QED
    BY <2>1, <2>2, <2>4
<1>3. CASE Closure
  <2>1. CASE \E h \in Handlers : Post("reactor", h)
    <3>1. /\ OneTaskPerEvent'
          /\ tasks' \in [Handlers -> Nat]
          /\ posting' \in [Posters -> Handlers \cup {None}]
      BY <2>1, PostKeepsCount DEF Posters
    <3>2. UNCHANGED <<cleared, event, late, outlived, events, on, status, invalidation_list,
                      finished, to_stop, manager, stopped>>
      BY <1>3, <2>1 DEF Closure, Post
    <3>3. at = "closure" /\ at' \in {"finish", "notify"}
      BY <1>3 DEF Closure
    <3>4. StackTypeOK' /\ ExecutionInv' /\ ManagerInv'
      BY <3>1, <3>2, <3>3 DEF StackTypeOK, ExecutionInv, ManagerInv, Places, InCallback,
           Stopping
    <3>5. EventInv'
      BY <3>2, <3>3 DEF EventInv, Stopping
    <3>. QED
      BY <3>1, <3>4, <3>5
  <2>2. CASE UNCHANGED handler_vars
    <3>1. UNCHANGED <<cleared, event, late, outlived, tasks, posting, events, on, status,
                      invalidation_list, finished, to_stop, manager, stopped>>
      BY <1>3, <2>2 DEF Closure, handler_vars
    <3>2. at = "closure" /\ at' \in {"finish", "notify"}
      BY <1>3 DEF Closure
    <3>3. StackTypeOK' /\ ExecutionInv' /\ ManagerInv'
      BY <3>1, <3>2 DEF StackTypeOK, ExecutionInv, ManagerInv, Places, InCallback,
           Stopping
    <3>4. EventInv' /\ OneTaskPerEvent'
      BY <3>1, <3>2 DEF EventInv, OneTaskPerEvent, Pending, Stopping
    <3>. QED
      BY <3>3, <3>4
  <2>. QED
    BY <1>3, <2>1, <2>2 DEF Closure
<1>4. CASE ClosureNotifies
  <2>1. /\ OneTaskPerEvent'
        /\ event' \in [Handlers -> Nat]
        /\ posting' \in [Posters -> Handlers \cup {None}]
        /\ late \subseteq late'
        /\ \A h \in Handlers : h \in cleared /\ (event[h] = 0 \/ h \in late) =>
             event'[h] = 0 \/ h \in late'
    BY <1>4, NotifyKeepsCount DEF ClosureNotifies, Posters
  <2>2. StackTypeOK' /\ ExecutionInv' /\ ManagerInv'
    BY <1>4, <2>1 DEF ClosureNotifies, Notify, StackTypeOK, ExecutionInv, ManagerInv,
         Places, InCallback, Stopping
  <2>3. EventInv'
    BY <1>4, <2>1, StoppingIsHandler DEF ClosureNotifies, Notify, EventInv, Stopping
  <2>. QED
    BY <2>1, <2>2, <2>3
<1>5. CASE ClosureDestroys
  <2>1. OneTaskPerEvent'
    BY <1>5 DEF ClosureDestroys, handler_vars, OneTaskPerEvent, Pending
  <2>2. CASE at = "closure"
    <3>1. PICK a \in Usable : Invalidate(a)
      BY <1>5, <2>2 DEF ClosureDestroys
    <3>2. a \in Alarms /\ a \in Reactables /\ status[a] = "registered"
      BY <3>1 DEF Usable, Reactables
    <3>3. /\ at' = "destroy"
          /\ UNCHANGED <<finished, events, on, cleared, event, late, outlived, tasks, posting,
                         to_stop, manager, stopped>>
      BY <1>5, <2>2 DEF ClosureDestroys, handler_vars
    <3>4. StackTypeOK' /\ ExecutionInv'
      BY <2>2, <3>1, <3>2, <3>3 DEF Invalidate, StackTypeOK, ExecutionInv, Places,
           InCallback, Status
    <3>5. ManagerInv'
      BY <3>1, <3>2, <3>3, StoppingIsHandler DEF Invalidate, StackTypeOK, ManagerInv,
           Stopping, Reactables
    <3>6. EventInv'
      BY <2>2, <3>1, <3>2, <3>3, ReactablesAssumption
         DEF Invalidate, StackTypeOK, EventInv, Stopping, Reactables
    <3>. QED
      BY <2>1, <3>4, <3>5, <3>6
  <2>3. CASE at = "destroy"
    <3>1. PICK a \in Alarms \ {destroying} : Detach(a)
      BY <1>5, <2>3 DEF ClosureDestroys
    <3>2. a \in Reactables /\ status[a] = "invalidated"
      BY <3>1 DEF Detach, Reactables
    <3>3. /\ at' = "finish"
          /\ UNCHANGED <<invalidation_list, events, on, cleared, event, late, outlived, tasks,
                         posting, to_stop, manager, stopped>>
      BY <1>5, <2>3 DEF ClosureDestroys, handler_vars
    <3>4. StackTypeOK' /\ ExecutionInv'
      BY <2>3, <3>1, <3>2, <3>3 DEF Detach, StackTypeOK, ExecutionInv, Places,
           InCallback, Status
    <3>5. ManagerInv'
      BY <3>1, <3>2, <3>3, StoppingIsHandler DEF Detach, StackTypeOK, ManagerInv,
           Stopping, Reactables
    <3>6. EventInv'
      BY <2>3, <3>1, <3>2, <3>3, ReactablesAssumption
         DEF Detach, StackTypeOK, EventInv, Stopping, Reactables
    <3>. QED
      BY <2>1, <3>4, <3>5, <3>6
  <2>. QED
    BY <1>5, <2>2, <2>3 DEF ClosureDestroys
<1>6. CASE ClosureOutlives
  <2>1. on \in outlived
    BY <1>6, ExecutingIsOutlived DEF ClosureOutlives
  <2>2. StackTypeOK' /\ ExecutionInv' /\ ManagerInv' /\ OneTaskPerEvent'
    BY <1>6 DEF ClosureOutlives, StackTypeOK, ExecutionInv, ManagerInv, OneTaskPerEvent,
         Pending, Places, InCallback, Stopping, handler_vars
  <2>3. EventInv'
    BY <1>6, <2>1 DEF ClosureOutlives, EventInv, Stopping, handler_vars
  <2>. QED
    BY <2>2, <2>3
<1>. QED
  BY <1>1, <1>2, <1>3, <1>4, <1>5, <1>6 DEF Callback
-----------------------------------------------------------------------------
\* The other thread that posts.
LEMMA ClientKeepsInv ==
  ASSUME StackInv, ClientPosts \/ ClientNotifies
  PROVE  ThreadInv'
<1>. USE DEF StackInv, ThreadInv, reactor_vars, alarm_vars, manager_vars
<1>1. CASE ClientPosts
  <2>1. /\ OneTaskPerEvent'
        /\ tasks' \in [Handlers -> Nat]
        /\ posting' \in [Posters -> Handlers \cup {None}]
    BY <1>1, PostKeepsCount DEF ClientPosts, Posters
  <2>2. UNCHANGED <<cleared, event, late, outlived, at, events, on, status, invalidation_list,
                    finished, to_stop, manager, stopped>>
    BY <1>1 DEF ClientPosts, Post
  <2>3. StackTypeOK' /\ ExecutionInv' /\ ManagerInv'
    BY <2>1, <2>2 DEF StackTypeOK, ExecutionInv, ManagerInv, Stopping
  <2>4. EventInv'
    BY <2>2 DEF EventInv, Stopping
  <2>. QED
    BY <2>1, <2>3, <2>4
<1>2. CASE ClientNotifies
  <2>1. /\ OneTaskPerEvent'
        /\ event' \in [Handlers -> Nat]
        /\ posting' \in [Posters -> Handlers \cup {None}]
        /\ late \subseteq late'
        /\ \A h \in Handlers : h \in cleared /\ (event[h] = 0 \/ h \in late) =>
             event'[h] = 0 \/ h \in late'
    BY <1>2, NotifyKeepsCount DEF ClientNotifies, Posters
  <2>2. UNCHANGED <<cleared, tasks, outlived, at, events, on, status, invalidation_list,
                    finished, to_stop, manager, stopped>>
    BY <1>2 DEF ClientNotifies, Notify
  <2>3. StackTypeOK' /\ ExecutionInv' /\ ManagerInv'
    BY <2>1, <2>2 DEF StackTypeOK, ExecutionInv, ManagerInv, Stopping
  <2>4. EventInv'
    BY <2>1, <2>2, StoppingIsHandler DEF EventInv, Stopping
  <2>. QED
    BY <2>1, <2>3, <2>4
<1>. QED
  BY <1>1, <1>2

\* ThreadInv only reads these variables.
LEMMA IdleKeepsInv ==
  ASSUME ThreadInv,
         UNCHANGED <<cleared, tasks, event, status, invalidation_list, finished, to_stop,
                     manager, stopped, at, events, on, posting, late, outlived>>
  PROVE  ThreadInv'
<1>1. StackTypeOK' /\ ExecutionInv' /\ ManagerInv' /\ OneTaskPerEvent'
  BY DEF ThreadInv, StackTypeOK, ExecutionInv, ManagerInv, OneTaskPerEvent, Pending, Stopping
<1>2. EventInv'
  BY DEF ThreadInv, EventInv, Stopping
<1>. QED
  BY <1>1, <1>2 DEF ThreadInv

\* The management thread.
LEMMA ManageKeepsInv ==
  ASSUME StackInv, Running, Manage
  PROVE  ThreadInv'
<1>. USE DEF StackInv, ThreadInv, alarm_vars, ManagerAt, ManagerQuiet
<1>. DEFINE h == Stopping
<1>1. CASE ClearTasks
  <2>1. h \in Handlers
    BY <1>1, StoppingIsHandler DEF ClearTasks
  <2>2. /\ cleared' = cleared \cup {h} /\ tasks' = [tasks EXCEPT ![h] = 0]
        /\ manager' = "event_->Clear"
        /\ UNCHANGED <<event, status, invalidation_list, finished, to_stop, stopped,
                       at, events, on, posting, late, outlived>>
    BY <1>1 DEF ClearTasks
  <2>3. StackTypeOK' /\ ExecutionInv' /\ ManagerInv'
    BY <2>1, <2>2 DEF StackTypeOK, ExecutionInv, ManagerInv, Stopping
  <2>4. EventInv'
    BY <2>1, <2>2 DEF EventInv, Stopping
  <2>5. OneTaskPerEvent'
    BY <2>1, <2>2 DEF StackTypeOK, OneTaskPerEvent, Pending
  <2>. QED
    BY <2>3, <2>4, <2>5
<1>2. CASE ClearEvent
  <2>1. h \in Handlers /\ h \in cleared
    BY <1>2, StoppingIsHandler DEF ClearEvent, EventInv
  <2>2. /\ event' = [event EXCEPT ![h] = 0]
        /\ manager' = "Unregister"
        /\ UNCHANGED <<cleared, tasks, status, invalidation_list, finished, to_stop,
                       stopped, at, events, on, posting, late, outlived>>
    BY <1>2 DEF ClearEvent
  <2>3. StackTypeOK' /\ ExecutionInv' /\ ManagerInv'
    BY <2>1, <2>2 DEF StackTypeOK, ExecutionInv, ManagerInv, Stopping
  <2>4. EventInv'
    BY <2>1, <2>2 DEF StackTypeOK, EventInv, Stopping
  <2>5. OneTaskPerEvent'
    BY <2>1, <2>2 DEF StackTypeOK, OneTaskPerEvent, Pending
  <2>. QED
    BY <2>3, <2>4, <2>5
<1>3. CASE ManagerUnregisters
  <2>1. h \in Handlers /\ h \in Reactables
    BY <1>3, StoppingIsHandler DEF ManagerUnregisters, Reactables
  <2>2. UNCHANGED <<cleared, tasks, event, to_stop, stopped, at, events, on, posting, late,
                    outlived>>
    BY <1>3 DEF ManagerUnregisters
  <2>3. OneTaskPerEvent'
    BY <2>2 DEF OneTaskPerEvent, Pending
  <2>4. CASE manager = "Unregister"
    <3>1. /\ manager' = "Detach" /\ UNCHANGED finished
          /\ status[h] = "registered"
          /\ status' = [status EXCEPT ![h] = "invalidated"]
          /\ invalidation_list' = invalidation_list \cup {h}
          /\ h \in cleared /\ (event[h] = 0 \/ h \in late)
      BY <1>3, <2>4 DEF ManagerUnregisters, Invalidate, EventInv
    <3>2. StackTypeOK' /\ ExecutionInv' /\ ManagerInv'
      BY <2>1, <2>2, <3>1 DEF StackTypeOK, ExecutionInv, ManagerInv, Status, Stopping,
           Reactables
    <3>3. EventInv'
      BY <2>1, <2>2, <3>1, ReactablesAssumption
         DEF StackTypeOK, EventInv, Stopping, Reactables
    <3>. QED
      BY <2>3, <3>2, <3>3
  <2>5. CASE manager = "Detach"
    <3>1. /\ manager' = "WaitUntilStopped" /\ UNCHANGED invalidation_list
          /\ status[h] = "invalidated"
          /\ status' = [status EXCEPT ![h] = IF on = h THEN "removed" ELSE "deleted"]
          /\ finished' = IF on = h THEN h ELSE finished
      BY <1>3, <2>5 DEF ManagerUnregisters, Detach
    <3>2. StackTypeOK' /\ ExecutionInv' /\ ManagerInv'
      BY <2>1, <2>2, <3>1 DEF StackTypeOK, ExecutionInv, ManagerInv, Status, Stopping,
           Reactables
    <3>3. EventInv'
      BY <2>1, <2>2, <3>1, ReactablesAssumption
         DEF StackTypeOK, EventInv, Stopping, Reactables
    <3>. QED
      BY <2>3, <3>2, <3>3
  <2>. QED
    BY <1>3, <2>4, <2>5 DEF ManagerUnregisters
<1>4. CASE WaitUntilStopped
  <2>1. h \in Handlers /\ h \in Reactables
    BY <1>4, StoppingIsHandler DEF WaitUntilStopped, Reactables
  <2>2. /\ UNCHANGED <<cleared, tasks, event, status, invalidation_list, finished, at,
                       events, on, posting, late, to_stop>>
        /\ outlived \subseteq outlived'
    BY <1>4 DEF WaitUntilStopped
  <2>3. ExecutionInv' /\ OneTaskPerEvent'
    BY <2>2 DEF ExecutionInv, OneTaskPerEvent, Pending
  <2>4. CASE UNCHANGED <<stopped, manager>>
    BY <2>2, <2>3, <2>4 DEF StackTypeOK, ManagerInv, EventInv, Stopping
  <2>5. CASE NothingToWaitFor \/ FutureReady
    <3>1. status[h] \in {"removed", "deleted"}
      BY <1>4 DEF WaitUntilStopped, ManagerInv
    <3>2. status[h] = "deleted"
      BY <2>1, <2>5, <3>1, ReactablesAssumption DEF NothingToWaitFor, FutureReady, ExecutionInv
    <3>3. CASE UNCHANGED <<stopped, manager>>
      BY <2>4, <3>3
    <3>4. CASE stopped' = stopped \cup {h} /\ manager' = "Stop"
      <4>1. StackTypeOK' /\ ManagerInv'
        BY <2>1, <2>2, <3>2, <3>4 DEF StackTypeOK, ManagerInv, Stopping
      <4>2. EventInv'
        BY <2>2, <3>4 DEF EventInv, Stopping
      <4>. QED
        BY <2>3, <4>1, <4>2
    <3>. QED
      BY <1>4, <3>3, <3>4 DEF WaitUntilStopped
  <2>. QED
    BY <1>4, <2>4, <2>5 DEF WaitUntilStopped
<1>5. CASE StopThread
  <2>1. UNCHANGED <<cleared, tasks, event, status, invalidation_list, finished, to_stop,
                    stopped, at, events, on, posting, late, outlived>>
    BY <1>5 DEF StopThread, handler_vars
  <2>2. to_stop = <<>>
    BY <1>5 DEF StopThread
  <2>3. StackTypeOK' /\ ExecutionInv' /\ ManagerInv' /\ OneTaskPerEvent'
    BY <2>1, <2>2 DEF StackTypeOK, ExecutionInv, ManagerInv, OneTaskPerEvent, Pending
  <2>4. EventInv'
    BY <2>1, <2>2 DEF EventInv
  <2>. QED
    BY <2>3, <2>4
<1>6. CASE StopCancels
  BY <1>6, IdleKeepsInv DEF StopCancels, reactor_vars, handler_vars, manager_vars
<1>7. CASE StopDestroys
  <2>1. /\ to_stop # <<>> /\ manager = "Stop"
        /\ UNCHANGED <<cleared, tasks, event, to_stop, manager, stopped, at, events, on,
                       posting, late, outlived>>
    BY <1>7 DEF StopDestroys, handler_vars
  <2>2. OneTaskPerEvent'
    BY <2>1 DEF OneTaskPerEvent, Pending
  <2>3. CASE destroying = None
    <3>1. PICK a \in Alarms : Invalidate(a) /\ UNCHANGED finished
      BY <1>7, <2>3 DEF StopDestroys, AlarmsLeft
    <3>2. StackTypeOK' /\ ExecutionInv' /\ ManagerInv'
      BY <2>1, <3>1, ReactablesAssumption DEF Invalidate, StackTypeOK, ExecutionInv, ManagerInv, Status,
           Stopping, Reactables
    <3>3. EventInv'
      BY <2>1, <3>1, ReactablesAssumption DEF Invalidate, StackTypeOK, EventInv, Stopping, Reactables
    <3>. QED
      BY <2>2, <3>2, <3>3
  <2>4. CASE destroying # None
    <3>. DEFINE a == destroying
    <3>1. a \in Alarms /\ Detach(a) /\ UNCHANGED invalidation_list
      BY <1>7, <2>4 DEF StopDestroys, AlarmInv, AlarmTypeOK
    <3>. HIDE DEF a
    <3>2. StackTypeOK' /\ ExecutionInv' /\ ManagerInv'
      BY <2>1, <3>1, ReactablesAssumption DEF Detach, StackTypeOK, ExecutionInv, ManagerInv, Status,
           Stopping, Reactables
    <3>3. EventInv'
      BY <2>1, <3>1, ReactablesAssumption DEF Detach, StackTypeOK, EventInv, Stopping, Reactables
    <3>. QED
      BY <2>2, <3>2, <3>3
  <2>. QED
    BY <2>3, <2>4
<1>8. CASE StopReturns
  <2>1. Tail(to_stop) \in Seq(Handlers)
    BY <1>8, StoppingIsHandler DEF StopReturns
  <2>2. /\ UNCHANGED <<cleared, tasks, event, status, invalidation_list, finished, stopped,
                       at, events, on, posting, late, outlived>>
        /\ to_stop' = Tail(to_stop) /\ manager' = "Clear"
    BY <1>8 DEF StopReturns, reactor_vars, handler_vars
  <2>3. StackTypeOK' /\ ExecutionInv' /\ ManagerInv' /\ OneTaskPerEvent'
    BY <2>1, <2>2 DEF StackTypeOK, ExecutionInv, ManagerInv, OneTaskPerEvent, Pending
  <2>4. EventInv'
    BY <2>2 DEF EventInv
  <2>. QED
    BY <2>3, <2>4
<1>. QED
  BY <1>1, <1>2, <1>3, <1>4, <1>5, <1>6, <1>7, <1>8 DEF Manage

-----------------------------------------------------------------------------
\* A step that leaves the status of the alarms alone, and does not leave a
\* closure that unregisters one, keeps AlarmInv if alarms at rest stay so.
LEMMA SameStatusKeepsAlarms ==
  ASSUME AlarmInv, AlarmTypeOK', StopInv', DestroyingInv', RestInv',
         \A a \in Alarms : status'[a] = status[a],
         destroying' = destroying, stopped \subseteq stopped',
         \/ at' = at \/ at \notin {"destroy", "finish", "undefined"}
         \/ (at = "destroy" /\ at' = "undefined")
  PROVE  AlarmInv'
<1>1. InvalidatedInv'
  BY DEF AlarmInv, InvalidatedInv
<1>2. RemovedInv'
  BY DEF AlarmInv, RemovedInv
<1>. QED
  BY <1>1, <1>2 DEF AlarmInv

\* The management thread does not move.
LEMMA SameModuleKeepsAlarms ==
  ASSUME AlarmInv, AlarmTypeOK',
         UNCHANGED <<status, to_stop, manager, stopped, destroying, outlived>>,
         \A a \in Alarms : Owner[a] \in stopped /\ AtRest(a) => AtRest(a)',
         \/ at' = at \/ at \notin {"destroy", "finish", "undefined"}
         \/ (at = "destroy" /\ at' = "undefined")
  PROVE  AlarmInv'
<1>1. StopInv' /\ DestroyingInv'
  BY DEF AlarmInv, StopInv, DestroyingInv, Stopping
<1>2. RestInv'
  BY DEF AlarmInv, RestInv
<1>. QED
  BY <1>1, <1>2, SameStatusKeepsAlarms

\* Nor does it destroy an alarm.
LEMMA NoModuleKeepsAlarms ==
  ASSUME AlarmInv, manager' # "Stop", destroying = None,
         UNCHANGED <<at, events, on, timer, stopped, destroying, outlived>>,
         \A a \in Alarms : status'[a] = status[a]
  PROVE  AlarmInv'
<1>1. AlarmTypeOK' /\ StopInv' /\ DestroyingInv'
  BY DEF AlarmInv, AlarmTypeOK, StopInv, DestroyingInv
<1>2. \A a \in Alarms : AtRest(a) => AtRest(a)'
  BY DEF AtRest
<1>3. RestInv'
  BY <1>2 DEF AlarmInv, RestInv
<1>. QED
  BY <1>1, <1>3, SameStatusKeepsAlarms

\* AlarmInv only reads these variables.
LEMMA IdleKeepsAlarms ==
  ASSUME AlarmInv,
         UNCHANGED <<status, to_stop, manager, stopped, at, events, on, timer, destroying, outlived>>
  PROVE  AlarmInv'
<1>1. AlarmTypeOK'
  BY DEF AlarmInv, AlarmTypeOK
<1>2. \A a \in Alarms : AtRest(a) => AtRest(a)'
  BY DEF AtRest
<1>. QED
  BY <1>1, <1>2, SameModuleKeepsAlarms

\* A timer that expires is one that was armed.
LEMMA ExpireKeepsAlarms ==
  ASSUME AlarmInv, NEW a \in Alarms, Expire(a)
  PROVE  AlarmInv'
<1>1. /\ timer[a] = "armed" /\ timer' = [timer EXCEPT ![a] = "expired"]
      /\ UNCHANGED <<status, to_stop, manager, stopped, at, events, on, destroying, outlived>>
  BY DEF Expire, reactor_vars, manager_vars
<1>2. AlarmTypeOK'
  BY <1>1 DEF AlarmInv, AlarmTypeOK
<1>3. \A b \in Alarms : AtRest(b) => AtRest(b)'
  BY <1>1 DEF AtRest, AlarmInv, AlarmTypeOK
<1>. QED
  BY <1>1, <1>2, <1>3, SameModuleKeepsAlarms

\* The loop of the reactor keeps AlarmInv: epoll_wait reports no alarm that is
\* at rest.
LEMMA LoopKeepsAlarms ==
  ASSUME StackInv, Running, Loop
  PROVE  AlarmInv'
<1>0. AlarmInv /\ UNCHANGED <<timer, to_stop, manager, stopped, destroying, outlived>>
  BY DEF StackInv, Loop, alarm_vars, manager_vars
<1>00. AlarmTypeOK'
  BY <1>0 DEF AlarmInv, AlarmTypeOK
<1>1. CASE ClearInvalidationList \/ StopRunning
  <2>1. UNCHANGED <<events, on, status>> /\ at = "next"
    BY <1>1 DEF ClearInvalidationList, StopRunning
  <2>2. \A a \in Alarms : AtRest(a) => AtRest(a)'
    BY <1>0, <2>1 DEF AtRest
  <2>. QED
    BY <1>0, <1>00, <2>1, <2>2, SameModuleKeepsAlarms
<1>2. CASE epoll_wait(Readable)
  <2>1. /\ at = "epoll" /\ at' = "next" /\ UNCHANGED <<on, status>>
        /\ \A i \in DOMAIN events' : events'[i] \in Readable \cup {None}
    <3>. DEFINE ready == {r \in Readable : status[r] \in {"registered", "invalidated"}}
                           \cup (IF control = "stop" THEN {None} ELSE {})
    <3>1. ready \in SUBSET (Reactables \cup {None}) /\ events' \in SetToSeqs(ready)
      BY <1>2 DEF epoll_wait, Readable, Reactables
    <3>2. \A i \in DOMAIN events' : events'[i] \in ready
      BY <3>1, EventsAreReady DEF StackInv, ThreadInv
    <3>3. at = "epoll" /\ at' = "next" /\ UNCHANGED <<on, status>>
      BY <1>2 DEF epoll_wait
    <3>. QED
      BY <3>2, <3>3
  <2>2. \A a \in Alarms : AtRest(a) => AtRest(a)'
    <3>. SUFFICES ASSUME NEW a \in Alarms, AtRest(a), NEW i \in DOMAIN events'
                  PROVE  events'[i] # a
      BY <1>0, <2>1 DEF AtRest
    <3>1. a \notin Readable \cup {None}
      BY ReactablesAssumption DEF Readable, AtRest, Reactables
    <3>. QED
      BY <2>1, <3>1
  <2>. QED
    BY <1>0, <1>00, <2>1, <2>2, SameModuleKeepsAlarms
<1>3. CASE Dispatch
  <2>1. /\ at = "next"
        /\ UNCHANGED status /\ events # <<>> /\ events' = Tail(events)
        /\ UNCHANGED on \/ on' = Head(events)
    BY <1>3 DEF Dispatch
  <2>2. /\ Head(events) = events[1] /\ 1 \in DOMAIN events
        /\ \A i \in DOMAIN events' : i + 1 \in DOMAIN events /\ events'[i] = events[i + 1]
    BY <2>1, HeadAndTailOfEvents DEF StackInv, ThreadInv
  <2>3. \A a \in Alarms : AtRest(a) => AtRest(a)'
    BY <1>0, <2>1, <2>2 DEF AtRest
  <2>. QED
    BY <1>0, <1>00, <2>1, <2>3, SameModuleKeepsAlarms
<1>4. CASE FinishCallback
  <2>1. /\ at = "finish" /\ at' = "next" /\ on' = None /\ UNCHANGED events
        /\ status' = IF status[on] = "removed" THEN [status EXCEPT ![on] = "deleted"] ELSE status
    BY <1>4 DEF FinishCallback
  <2>2. status \in [Reactables -> Status] /\ on \in Reactables
    BY <2>1 DEF StackInv, ThreadInv, StackTypeOK, ExecutionInv, InCallback
  <2>3. \A a \in Alarms : a \in Reactables /\ (status[a] = "removed" => a = on) /\ a # None
    BY ReactablesAssumption DEF StackInv, ThreadInv, ExecutionInv, Reactables
  <2>4. \A a \in Alarms :
          /\ status[a] = "removed" => status'[a] = "deleted"
          /\ status[a] # "removed" => status'[a] = status[a]
    BY <2>1, <2>2, <2>3
  <2>5. \A a \in Alarms : AtRest(a) => AtRest(a)'
    BY <1>0, <2>1, <2>3 DEF AtRest
  <2>6. StopInv' /\ DestroyingInv'
    BY <1>0, <2>4 DEF AlarmInv, AlarmTypeOK, StopInv, DestroyingInv, Stopping
  <2>7. InvalidatedInv' /\ RemovedInv'
    BY <1>0, <2>1, <2>4 DEF AlarmInv, InvalidatedInv, RemovedInv
  <2>8. RestInv'
    BY <1>0, <2>4, <2>5 DEF AlarmInv, RestInv
  <2>. QED
    BY <1>00, <2>6, <2>7, <2>8 DEF AlarmInv
<1>. QED
  BY <1>1, <1>2, <1>3, <1>4 DEF Loop

\* So do callbacks and closures: a closure that uses an alarm is one of the
\* alarm itself, or of a handler that is not stopped.
LEMMA CallbackKeepsAlarms ==
  ASSUME StackInv, Running, Callback
  PROVE  AlarmInv'
<1>0. /\ AlarmInv /\ status \in [Reactables -> Status]
      /\ UNCHANGED <<to_stop, manager, stopped, destroying, outlived>>
  BY DEF StackInv, ThreadInv, StackTypeOK, Callback, handle_next_event, on_fire, Closure,
       ClosureNotifies, ClosureDestroys, ClosureOutlives, manager_vars
<1>1. CASE handle_next_event \/ ClosureNotifies \/ ClosureOutlives
  <2>1. /\ UNCHANGED <<timer, events, on, status>>
        /\ at \in {"callback", "notify", "closure"} \/ (at = "destroy" /\ at' = "undefined")
    BY <1>1 DEF handle_next_event, ClosureNotifies, ClosureOutlives, Within, alarm_vars
  <2>2. AlarmTypeOK'
    BY <1>0, <2>1 DEF AlarmInv, AlarmTypeOK
  <2>3. \A a \in Alarms : AtRest(a) => AtRest(a)'
    BY <2>1 DEF AtRest
  <2>. QED
    BY <1>0, <2>1, <2>2, <2>3, SameModuleKeepsAlarms
<1>2. CASE on_fire
  <2>1. /\ UNCHANGED <<events, on, status>> /\ on \in Alarms /\ at \in {"callback", "read"}
        /\ UNCHANGED timer \/ timer' = [timer EXCEPT ![on] = "disarmed"]
    BY <1>2 DEF on_fire, Within
  <2>2. AlarmTypeOK'
    BY <1>0, <2>1 DEF AlarmInv, AlarmTypeOK
  <2>3. \A a \in Alarms : AtRest(a) => AtRest(a)'
    BY <1>0, <2>1 DEF AtRest, AlarmInv, AlarmTypeOK
  <2>. QED
    BY <1>0, <2>1, <2>2, <2>3, SameModuleKeepsAlarms
<1>3. CASE Closure
  <2>1. UNCHANGED <<events, on, status>> /\ at = "closure"
    BY <1>3 DEF Closure, Within
  <2>2. \/ UNCHANGED timer
        \/ \E a \in Alarms : \/ timer' = [timer EXCEPT ![a] = "disarmed"]
                             \/ /\ on = a \/ on = Owner[a]
                                /\ timer' = [timer EXCEPT ![a] = "armed"]
    BY <1>3 DEF Closure, Usable, Schedule, Cancel, alarm_vars
  <2>3. AlarmTypeOK'
    BY <1>0, <2>2 DEF AlarmInv, AlarmTypeOK
  <2>4. \A a \in Alarms : Owner[a] \in stopped /\ AtRest(a) => AtRest(a)'
    BY <1>0, <2>1, <2>2, NoneStoppedExecutes DEF AtRest, AlarmInv, AlarmTypeOK
  <2>. QED
    BY <1>0, <2>1, <2>3, <2>4, SameModuleKeepsAlarms
<1>4. CASE ClosureDestroys
  <2>1. UNCHANGED <<timer, events, on>>
    BY <1>4 DEF ClosureDestroys, alarm_vars
  <2>2. \A a \in Alarms : AtRest(a) => AtRest(a)'
    BY <2>1 DEF AtRest
  <2>3. AlarmTypeOK' /\ StopInv'
    BY <1>0, <2>1 DEF AlarmInv, AlarmTypeOK, StopInv, Stopping
  <2>4. CASE at = "closure"
    <3>1. PICK a \in Alarms : Invalidate(a)
      BY <1>4, <2>4 DEF ClosureDestroys, Usable
    <3>2. at' = "destroy"
      BY <1>4, <2>4 DEF ClosureDestroys
    <3>3. /\ status[a] = "registered" /\ status'[a] = "invalidated"
          /\ \A b \in Alarms \ {a} : status'[b] = status[b]
      BY <1>0, <3>1 DEF Invalidate, Reactables
    <3>4. DestroyingInv'
      BY <1>0, <3>3 DEF AlarmInv, AlarmTypeOK, DestroyingInv, Stopping
    <3>5. \A b \in Alarms \ {destroying} : status[b] # "invalidated"
      BY <1>0, <2>4 DEF AlarmInv, InvalidatedInv
    <3>6. InvalidatedInv' /\ RemovedInv'
      BY <1>0, <2>4, <3>2, <3>3, <3>5 DEF AlarmInv, InvalidatedInv, RemovedInv
    <3>7. RestInv'
      BY <1>0, <2>2, <3>3 DEF AlarmInv, RestInv
    <3>. QED
      BY <2>3, <3>4, <3>6, <3>7 DEF AlarmInv
  <2>5. CASE at = "destroy"
    <3>1. PICK a \in Alarms \ {destroying} : Detach(a)
      BY <1>4, <2>5 DEF ClosureDestroys
    <3>2. at' = "finish"
      BY <1>4, <2>5 DEF ClosureDestroys
    <3>3. /\ status[a] = "invalidated" /\ status'[a] \in {"removed", "deleted"}
          /\ \A b \in Alarms \ {a} : status'[b] = status[b]
          /\ on # a => status'[a] = "deleted"
      BY <1>0, <3>1 DEF Detach, Reactables
    <3>4. DestroyingInv'
      BY <1>0, <3>1, <3>3 DEF AlarmInv, AlarmTypeOK, DestroyingInv, Stopping
    <3>5. \A b \in Alarms \ {destroying} : status'[b] # "invalidated"
      BY <1>0, <3>1, <3>3 DEF AlarmInv, InvalidatedInv
    <3>6. InvalidatedInv' /\ RemovedInv'
      BY <1>0, <3>2, <3>5 DEF InvalidatedInv, RemovedInv
    <3>7. RestInv'
      BY <1>0, <2>2, <3>1, <3>3 DEF AlarmInv, RestInv
    <3>. QED
      BY <2>3, <3>4, <3>6, <3>7 DEF AlarmInv
  <2>. QED
    BY <1>4, <2>4, <2>5 DEF ClosureDestroys
<1>. QED
  BY <1>1, <1>2, <1>3, <1>4 DEF Callback

\* The management thread: an alarm of a module that is being stopped is at
\* rest, or counted in outlived, before Stop() destroys it.
LEMMA ManageKeepsAlarms ==
  ASSUME StackInv, Running, Manage
  PROVE  AlarmInv'
<1>0. AlarmInv /\ status \in [Reactables -> Status]
  BY DEF StackInv, ThreadInv, StackTypeOK
<1>00. manager # "Stop" => destroying = None
  BY <1>0 DEF AlarmInv, DestroyingInv
<1>1. CASE ClearTasks \/ ClearEvent
  <2>1. /\ UNCHANGED <<status, stopped, at, events, on, timer, destroying, outlived>>
        /\ manager # "Stop" /\ manager' # "Stop"
    BY <1>1 DEF ClearTasks, ClearEvent, ManagerAt, ManagerQuiet, alarm_vars
  <2>. QED
    BY <1>0, <1>00, <2>1, NoModuleKeepsAlarms
<1>2. CASE ManagerUnregisters
  <2>1. /\ UNCHANGED <<stopped, at, events, on, timer, destroying, outlived>>
        /\ manager # "Stop" /\ manager' # "Stop"
    BY <1>2 DEF ManagerUnregisters, ManagerAt, ManagerQuiet, alarm_vars
  <2>2. Stopping \in Handlers
    BY <1>2, StoppingIsHandler DEF ManagerUnregisters, ManagerAt, StackInv, ThreadInv
  <2>3. \A a \in Alarms : status'[a] = status[a]
    BY <1>0, <1>2, <2>2, ReactablesAssumption DEF ManagerUnregisters, Invalidate, Detach, Reactables
  <2>. QED
    BY <1>0, <1>00, <2>1, <2>3, NoModuleKeepsAlarms
<1>3. CASE WaitUntilStopped
  <2>1. /\ UNCHANGED <<status, to_stop, at, events, on, timer, destroying>>
        /\ manager # "Stop"
    BY <1>3 DEF WaitUntilStopped, ManagerAt, ManagerQuiet, alarm_vars
  <2>2. CASE UNCHANGED <<stopped, manager, outlived>>
    BY <1>0, <2>1, <2>2, IdleKeepsAlarms
  <2>3. CASE /\ stopped' = stopped \cup {Stopping} /\ manager' = "Stop"
             /\ outlived' = outlived \cup
                  {a \in Alarms : Owner[a] = Stopping /\ status[a] # "deleted" /\ ~AtRest(a)}
    <3>1. \A a \in Alarms : AtRest(a) => AtRest(a)'
      BY <2>1 DEF AtRest
    <3>2. \A a \in Alarms : Owner[a] \in stopped' /\ a \notin outlived' =>
            AtRest(a) \/ status[a] = "deleted"
      BY <1>0, <2>3 DEF AlarmInv, RestInv
    <3>3. RestInv'
      BY <2>1, <3>1, <3>2 DEF RestInv
    <3>4. AlarmTypeOK'
      BY <1>0, <2>1, <2>3 DEF AlarmInv, AlarmTypeOK
    <3>5. StopInv' /\ DestroyingInv'
      BY <1>00, <2>1, <2>3 DEF StopInv, DestroyingInv, Stopping
    <3>. QED
      BY <1>0, <2>1, <2>3, <3>3, <3>4, <3>5, SameStatusKeepsAlarms
  <2>. QED
    BY <1>3, <2>2, <2>3 DEF WaitUntilStopped
<1>4. CASE StopCancels
  <2>1. /\ UNCHANGED <<status, to_stop, manager, stopped, at, events, on, destroying, outlived>>
        /\ \E a \in Alarms : timer' = [timer EXCEPT ![a] = "disarmed"]
    BY <1>4 DEF StopCancels, AlarmsLeft, Cancel, reactor_vars, manager_vars
  <2>2. AlarmTypeOK'
    BY <1>0, <2>1 DEF AlarmInv, AlarmTypeOK
  <2>3. \A a \in Alarms : AtRest(a) => AtRest(a)'
    BY <1>0, <2>1 DEF AtRest, AlarmInv, AlarmTypeOK
  <2>. QED
    BY <1>0, <2>1, <2>2, <2>3, SameModuleKeepsAlarms
<1>5. CASE StopDestroys
  <2>1. /\ UNCHANGED <<to_stop, manager, stopped, at, events, on, timer, outlived>>
        /\ to_stop # <<>> /\ manager = "Stop"
    BY <1>5 DEF StopDestroys, ManagerAt, alarm_vars
  <2>2. \A a \in Alarms : AtRest(a) => AtRest(a)'
    BY <2>1 DEF AtRest
  <2>3. StopInv' /\ Stopping' = Stopping /\ Stopping \in stopped
    BY <1>0, <2>1 DEF AlarmInv, StopInv, Stopping
  <2>4. CASE destroying = None
    <3>1. PICK a \in AlarmsLeft : Invalidate(a) /\ destroying' = a
      BY <1>5, <2>4 DEF StopDestroys
    <3>2. /\ a \in Alarms /\ Owner[a] = Stopping
          /\ status[a] = "registered" /\ status'[a] = "invalidated"
          /\ \A b \in Alarms \ {a} : status'[b] = status[b] /\ b # destroying
      BY <1>0, <2>4, <3>1, ReactablesAssumption DEF AlarmsLeft, Invalidate, Reactables
    <3>3. AlarmTypeOK'
      BY <1>0, <2>1, <3>1, <3>2 DEF AlarmInv, AlarmTypeOK
    <3>4. DestroyingInv'
      BY <2>1, <2>3, <3>1, <3>2 DEF DestroyingInv
    <3>5. InvalidatedInv'
      BY <1>0, <2>1, <3>1, <3>2 DEF AlarmInv, InvalidatedInv
    <3>6. RemovedInv'
      BY <1>0, <2>1, <3>2 DEF AlarmInv, RemovedInv
    <3>7. RestInv'
      BY <1>0, <2>1, <2>2, <3>2 DEF AlarmInv, RestInv
    <3>. QED
      BY <2>3, <3>3, <3>4, <3>5, <3>6, <3>7 DEF AlarmInv
  <2>5. CASE destroying # None
    <3>1. Detach(destroying) /\ destroying' = None
      BY <1>5, <2>5 DEF StopDestroys
    <3>2. destroying \in Alarms /\ Owner[destroying] \in stopped
      BY <1>0, <2>3, <2>5 DEF AlarmInv, AlarmTypeOK, DestroyingInv
    <3>3. /\ status[destroying] = "invalidated" /\ status'[destroying] \in {"removed", "deleted"}
          /\ \A b \in Alarms \ {destroying} : status'[b] = status[b]
      BY <1>0, <3>1, <3>2 DEF Detach, Reactables
    <3>4. AlarmTypeOK' /\ DestroyingInv'
      BY <1>0, <2>1, <3>1 DEF AlarmInv, AlarmTypeOK, DestroyingInv
    <3>5. \A b \in Alarms : status'[b] = "invalidated" => b # destroying /\ status[b] = "invalidated"
      BY <3>2, <3>3
    <3>6. InvalidatedInv'
      BY <1>0, <2>1, <3>5 DEF AlarmInv, InvalidatedInv
    <3>7. RemovedInv'
      BY <1>0, <2>1, <3>2, <3>3 DEF AlarmInv, RemovedInv
    <3>8. RestInv'
      BY <1>0, <2>1, <2>2, <3>2, <3>3 DEF AlarmInv, RestInv
    <3>. QED
      BY <2>3, <3>4, <3>6, <3>7, <3>8 DEF AlarmInv
  <2>. QED
    BY <2>4, <2>5
<1>6. CASE StopReturns \/ StopThread
  <2>1. /\ UNCHANGED <<status, stopped, at, events, on, timer, destroying, outlived>>
        /\ manager' # "Stop"
    BY <1>6 DEF StopReturns, StopThread, reactor_vars, alarm_vars
  <2>2. destroying = None
    BY <1>0, <1>6 DEF StopReturns, StopThread, AlarmInv, DestroyingInv
  <2>. QED
    BY <1>0, <2>1, <2>2, NoModuleKeepsAlarms
<1>. QED
  BY <1>1, <1>2, <1>3, <1>4, <1>5, <1>6 DEF Manage

\* StackInv is an invariant of the thread.
THEOREM StackInvariant == Spec => []StackInv
<1>1. Init => StackInv
  BY StackInit
<1>2. StackInv /\ [Next]_vars => StackInv'
  <2>. SUFFICES ASSUME StackInv, [Next]_vars PROVE StackInv'
    OBVIOUS
  <2>1. CASE Running /\ Loop
    BY <2>1, LoopKeepsInv, LoopKeepsAlarms DEF StackInv
  <2>2. CASE Running /\ Callback
    BY <2>2, CallbackKeepsInv, CallbackKeepsAlarms DEF StackInv
  <2>3. CASE ClientPosts \/ ClientNotifies
    <3>1. UNCHANGED <<status, to_stop, manager, stopped, at, events, on, timer, destroying,
                      outlived>>
      BY <2>3 DEF ClientPosts, ClientNotifies, reactor_vars, alarm_vars, manager_vars
    <3>. QED
      BY <2>3, <3>1, ClientKeepsInv, IdleKeepsAlarms DEF StackInv
  <2>4. CASE Running /\ Manage
    BY <2>4, ManageKeepsInv, ManageKeepsAlarms DEF StackInv
  <2>5. CASE WaitTimesOut \/ UNCHANGED vars
    BY <2>5, IdleKeepsInv, IdleKeepsAlarms
       DEF WaitTimesOut, vars, reactor_vars, handler_vars, alarm_vars, manager_vars, StackInv
  <2>6. CASE \E a \in Alarms : Expire(a)
    BY <2>6, IdleKeepsInv, ExpireKeepsAlarms
       DEF Expire, reactor_vars, handler_vars, manager_vars, StackInv
  <2>. QED
    BY <2>1, <2>2, <2>3, <2>4, <2>5, <2>6 DEF Next
<1>. QED
  BY <1>1, <1>2, PTL DEF Spec

\* Once WaitUntilStopped of a handler has returned, its callback does not run.
THEOREM HandlersStop == Spec => []StoppedMeansStopped
<1>1. StackInv => StoppedMeansStopped
  BY DEF StackInv, ThreadInv, StackTypeOK, ExecutionInv, ManagerInv, StoppedMeansStopped, Reactables
<1>. QED
  BY <1>1, StackInvariant, PTL

\* Reactor::Run uses no deleted reactable but that of a handler notified late,
\* and of an alarm that was not at rest when Stop() of its module was called.
THEOREM DeletedReactables == Spec => []DeletedNotUsed
<1>1. StackInv => DeletedNotUsed
  BY DEF StackInv, ThreadInv, EventInv, DeletedNotUsed
<1>. QED
  BY <1>1, StackInvariant, PTL

\* Tasks and notifications of a handler match until it is cleared.
THEOREM TasksMatchEvents == Spec => []OneTaskPerEvent
<1>1. StackInv => OneTaskPerEvent
  BY DEF StackInv, ThreadInv
<1>. QED
  BY <1>1, StackInvariant, PTL
=============================================================================
