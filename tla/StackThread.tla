---------------------------- MODULE StackThread ----------------------------
(***************************************************************************)
(* The thread of the stack: its reactor, the handlers of the modules       *)
(* (system/gd/os/handler.cc), their alarms (linux_generic/alarm.cc), and   *)
(* the management thread that stops the modules (ModuleRegistry::StopAll,  *)
(* system/gd/module.cc) and then the thread, while another thread posts.   *)
(*                                                                         *)
(* What a closure does is chosen when it runs: nothing, a Post to a        *)
(* handler, or an operation on an alarm of its module.  Stop() of a module *)
(* runs on the management thread while the reactor goes on, and destroys   *)
(* the alarms the module has left.                                         *)
(***************************************************************************)
EXTENDS Reactor

CONSTANTS
  Owner,       \* the handler of the module that owns an alarm
  StopOrder,   \* the handlers, in reverse order of their start
  MaxPosts,    \* bound: calls of Post
  MaxSchedules \* bound: calls of Schedule

ASSUME StackAssumption ==
  /\ Owner \in [Alarms -> Handlers]
  /\ StopOrder \in Seq(Handlers)
  /\ MaxPosts \in Nat /\ MaxSchedules \in Nat

VARIABLES
  tasks,       \* length of tasks_ of each handler
  cleared,     \* handlers whose tasks_ is nullptr
  event,       \* eventfd of each handler
  posting,     \* per thread, the handler it will notify
  timer,       \* timerfd of each alarm: "disarmed", "armed", "expired"
  to_stop,     \* the handlers StopAll has still to stop
  manager,     \* what the management thread does next
  stopped,     \* handlers whose WaitUntilStopped has returned
  destroying,  \* the alarm in whose ~Alarm the management thread is, or None
  process,     \* "running", or the assertion that failed
  posts, schedules,
  late,        \* handlers notified after Clear had dropped their tasks
  outlived     \* alarms that were not at rest when Stop() was called

handler_vars == <<tasks, cleared, event, posting, posts, late>>
alarm_vars == <<timer, schedules>>
manager_vars == <<to_stop, manager, stopped, destroying, outlived>>
vars == <<reactor_vars, handler_vars, alarm_vars, manager_vars, process>>

Posters == {"reactor", "client"}

Init ==
  /\ ReactorInit
  /\ tasks = [h \in Handlers |-> 0]
  /\ cleared = {}
  /\ event = [h \in Handlers |-> 0]
  /\ posting = [p \in Posters |-> None]
  /\ timer = [a \in Alarms |-> "disarmed"]
  /\ to_stop = StopOrder
  /\ manager = "Clear"
  /\ stopped = {} /\ destroying = None
  /\ process = "running"
  /\ posts = 0 /\ schedules = 0
  /\ late = {} /\ outlived = {}

-----------------------------------------------------------------------------
(* Handler                                                                 *)

\* Mutant: only the first task in the queue is notified.
PostNotifyingFirst(p, h) ==
  /\ posts < MaxPosts /\ posting[p] = None
  /\ posts' = posts + 1
  /\ h \notin cleared
  /\ tasks' = [tasks EXCEPT ![h] = @ + 1]
  /\ posting' = IF tasks[h] = 0 THEN [posting EXCEPT ![p] = h] ELSE posting
  /\ UNCHANGED <<cleared, event, late>>

\* Post, under the lock of the handler; the event is notified after it.
Post(p, h) ==
  /\ posts < MaxPosts /\ posting[p] = None
  /\ posts' = posts + 1
  /\ IF h \in cleared
     THEN UNCHANGED <<tasks, posting>>
     ELSE /\ tasks' = [tasks EXCEPT ![h] = @ + 1]
          /\ posting' = [posting EXCEPT ![p] = h]
  /\ UNCHANGED <<cleared, event, late>>

Notify(p) ==
  /\ posting[p] # None
  /\ event' = [event EXCEPT ![posting[p]] = @ + 1]
  /\ posting' = [posting EXCEPT ![p] = None]
  /\ late' = late \cup ({posting[p]} \cap cleared)
  /\ UNCHANGED <<tasks, cleared, posts>>

\* A step of Run inside a callback: only its place changes in the reactor.
Within(place) ==
  /\ at' = place
  /\ UNCHANGED <<events, on, status, invalidation_list, finished, mutex, control>>

\* Mutant: the event is not read.
HandleWithoutRead ==
  /\ at = "callback" /\ on \in Handlers
  /\ IF on \in cleared \/ tasks[on] = 0
     THEN Within("finish") /\ UNCHANGED tasks
     ELSE Within("closure") /\ tasks' = [tasks EXCEPT ![on] = @ - 1]
  /\ UNCHANGED <<event, cleared, posting, posts, late, alarm_vars, manager_vars, process>>

\* Read takes one from the event, if there is one to take.
handle_next_event ==
  /\ at = "callback" /\ on \in Handlers
  /\ event' = [event EXCEPT ![on] = IF @ > 0 THEN @ - 1 ELSE 0]
  /\ LET has_data == event[on] > 0
     IN /\ tasks' = IF on \notin cleared /\ has_data THEN [tasks EXCEPT ![on] = @ - 1]
                    ELSE tasks
        /\ process' = IF on \notin cleared /\ ~has_data
                      THEN "Notified for work but no work available" ELSE process
        /\ Within(IF on \notin cleared /\ has_data THEN "closure" ELSE "finish")
  /\ UNCHANGED <<cleared, posting, posts, late, alarm_vars, manager_vars>>

-----------------------------------------------------------------------------
(* Alarm                                                                   *)

Expire(a) ==
  /\ timer[a] = "armed"
  /\ timer' = [timer EXCEPT ![a] = "expired"]
  /\ UNCHANGED <<reactor_vars, handler_vars, schedules, manager_vars, process>>

\* The descriptor blocks: on_fire reads it whether or not the timer has been
\* disarmed since epoll_wait, and goes on when it has expired.  It is
\* undefined what it does once another thread has destroyed the alarm.
on_fire ==
  /\ at \in {"callback", "read"} /\ on \in Alarms
  /\ \/ /\ timer[on] = "expired" /\ status[on] # "removed"
        /\ timer' = [timer EXCEPT ![on] = "disarmed"]
        /\ Within("closure")
     \/ /\ timer[on] # "expired" /\ status[on] # "removed"
        /\ at = "callback" /\ Within("read") /\ UNCHANGED timer
     \/ /\ status[on] = "removed" /\ (at = "callback" \/ timer[on] = "expired")
        /\ Within("undefined") /\ UNCHANGED timer
  /\ UNCHANGED <<handler_vars, schedules, manager_vars, process>>

\* The alarms a closure may use: those of its module that are not destroyed.
Usable == {a \in Alarms : (on = a \/ on = Owner[a]) /\ status[a] = "registered"}

Schedule(a) ==
  /\ schedules < MaxSchedules
  /\ schedules' = schedules + 1
  /\ timer' = [timer EXCEPT ![a] = "armed"]

Cancel(a) ==
  /\ timer' = [timer EXCEPT ![a] = "disarmed"]
  /\ UNCHANGED schedules

-----------------------------------------------------------------------------
(* Closures on the thread, run by handle_next_event and on_fire            *)

Closure ==
  /\ at = "closure"
  /\ \/ Within("finish") /\ UNCHANGED <<handler_vars, alarm_vars>>
     \/ \E h \in Handlers :
          /\ Post("reactor", h)
          /\ Within(IF h \in cleared THEN "finish" ELSE "notify")
          /\ UNCHANGED alarm_vars
     \/ \E a \in Usable :
          /\ Schedule(a) \/ Cancel(a)
          /\ Within("finish")
          /\ UNCHANGED handler_vars
  /\ UNCHANGED <<manager_vars, process>>

ClosureNotifies ==
  /\ at = "notify"
  /\ Notify("reactor")
  /\ Within("finish")
  /\ UNCHANGED <<alarm_vars, manager_vars, process>>

\* An alarm may run a closure while Stop() destroys its module, or after: the
\* closure then uses what is gone.
ClosureOutlives ==
  /\ at \in {"closure", "notify", "destroy"}
  /\ on \in Alarms /\ Owner[on] \in stopped
  /\ Within("undefined")
  /\ UNCHANGED <<handler_vars, alarm_vars, manager_vars, process>>

\* ~Alarm, which unregisters its reactable.
ClosureDestroys ==
  /\ \/ /\ at = "closure"
        /\ \E a \in Usable : Invalidate(a)
        /\ at' = "destroy" /\ UNCHANGED finished
     \/ /\ at = "destroy"
        /\ \E a \in Alarms \ {destroying} : Detach(a)
        /\ at' = "finish" /\ UNCHANGED invalidation_list
  /\ UNCHANGED <<events, on, mutex, control>>
  /\ UNCHANGED <<handler_vars, alarm_vars, manager_vars, process>>

-----------------------------------------------------------------------------
(* Another thread posts                                                    *)

ClientPosts ==
  /\ \E h \in Handlers : Post("client", h)
  /\ UNCHANGED <<reactor_vars, alarm_vars, manager_vars, process>>

ClientNotifies ==
  /\ Notify("client")
  /\ UNCHANGED <<reactor_vars, alarm_vars, manager_vars, process>>

-----------------------------------------------------------------------------
(* The management thread: for each module, Clear and WaitUntilStopped of   *)
(* its handler, then Stop()                                                *)

Stopping == Head(to_stop)

ManagerAt(step) == manager = step /\ to_stop # <<>>
ManagerQuiet ==
  UNCHANGED <<at, events, on, control, alarm_vars, process, posting, posts, late, destroying>>

\* Mutant: the event is emptied first.
ClearEventFirst ==
  /\ ManagerAt("Clear")
  /\ \/ /\ event[Stopping] > 0
        /\ event' = [event EXCEPT ![Stopping] = 0]
        /\ UNCHANGED <<cleared, tasks, manager>>
     \/ /\ cleared' = cleared \cup {Stopping}
        /\ tasks' = [tasks EXCEPT ![Stopping] = 0]
        /\ manager' = "event_->Clear"
        /\ UNCHANGED event
  /\ UNCHANGED <<status, invalidation_list, finished, mutex, to_stop, stopped,
                 outlived>>
  /\ ManagerQuiet

\* The tasks are dropped.
ClearTasks ==
  /\ ManagerAt("Clear")
  /\ cleared' = cleared \cup {Stopping}
  /\ tasks' = [tasks EXCEPT ![Stopping] = 0]
  /\ manager' = "event_->Clear"
  /\ UNCHANGED <<event, status, invalidation_list, finished, mutex, to_stop, stopped,
                 outlived>>
  /\ ManagerQuiet

\* Mutant: the event is left as it is.
LeaveEvent ==
  /\ ManagerAt("event_->Clear")
  /\ manager' = "Unregister"
  /\ UNCHANGED <<event, cleared, tasks, status, invalidation_list, finished, mutex,
                 to_stop, stopped, outlived>>
  /\ ManagerQuiet

ClearEvent ==
  /\ ManagerAt("event_->Clear")
  /\ event' = [event EXCEPT ![Stopping] = 0]
  /\ manager' = "Unregister"
  /\ UNCHANGED <<cleared, tasks, status, invalidation_list, finished, mutex,
                 to_stop, stopped, outlived>>
  /\ ManagerQuiet

ManagerUnregisters ==
  /\ \/ /\ ManagerAt("Unregister") /\ Invalidate(Stopping)
        /\ manager' = "Detach" /\ UNCHANGED finished
     \/ /\ ManagerAt("Detach") /\ Detach(Stopping)
        /\ manager' = "WaitUntilStopped" /\ UNCHANGED invalidation_list
  /\ UNCHANGED <<cleared, tasks, event, mutex, to_stop, stopped, outlived>>
  /\ ManagerQuiet

\* An alarm that is not armed, not reported by epoll_wait and not executing.
AtRest(a) ==
  /\ timer[a] = "disarmed" /\ on # a
  /\ \A i \in DOMAIN events : events[i] # a

\* WaitUntilStopped: the assertion fails if the wait times out.  It waits for
\* the callback of the handler, not for those of the alarms of its module.
WaitUntilStopped ==
  /\ ManagerAt("WaitUntilStopped")
  /\ \/ /\ NothingToWaitFor \/ FutureReady
        /\ mutex' = None
        /\ stopped' = stopped \cup {Stopping}
        /\ manager' = "Stop"
        /\ outlived' = outlived \cup
             {a \in Alarms : Owner[a] = Stopping /\ status[a] # "deleted" /\ ~AtRest(a)}
     \/ StartToWait /\ UNCHANGED <<stopped, manager, outlived>>
  /\ UNCHANGED <<cleared, tasks, event, status, invalidation_list, finished, to_stop>>
  /\ ManagerQuiet

WaitTimesOut ==
  /\ ManagerAt("WaitUntilStopped") /\ mutex = "held" /\ ~FutureReady
  /\ process' = "Unregister reactable timed out"
  /\ UNCHANGED <<reactor_vars, handler_vars, alarm_vars, manager_vars>>

\* What Stop() has still to destroy.
AlarmsLeft == {a \in Alarms : Owner[a] = Stopping /\ status[a] = "registered"}

\* Some modules cancel an alarm first.  on_fire holds the lock in its read.
StopCancels ==
  /\ ManagerAt("Stop") /\ destroying = None
  /\ \E a \in AlarmsLeft : ~(at = "read" /\ on = a) /\ Cancel(a)
  /\ UNCHANGED <<reactor_vars, handler_vars, manager_vars, process>>

\* ~Alarm.
StopDestroys ==
  /\ ManagerAt("Stop")
  /\ \/ /\ destroying = None
        /\ \E a \in AlarmsLeft : Invalidate(a) /\ destroying' = a
        /\ UNCHANGED finished
     \/ /\ destroying # None
        /\ Detach(destroying) /\ destroying' = None
        /\ UNCHANGED invalidation_list
  /\ UNCHANGED <<at, events, on, mutex, control>>
  /\ UNCHANGED <<handler_vars, alarm_vars, to_stop, manager, stopped, outlived, process>>

StopReturns ==
  /\ ManagerAt("Stop") /\ destroying = None /\ AlarmsLeft = {}
  /\ to_stop' = Tail(to_stop)
  /\ manager' = "Clear"
  /\ UNCHANGED <<reactor_vars, handler_vars, alarm_vars, stopped, destroying, outlived, process>>

\* Mutant: a reactor that is not waiting is not told.
StopThreadIfWaiting ==
  /\ to_stop = <<>>
  /\ \/ /\ manager = "Clear" /\ manager' = "join"
        /\ control' = IF at = "epoll" THEN "stop" ELSE control
     \/ manager = "join" /\ at = "returned" /\ manager' = "done" /\ UNCHANGED control
  /\ UNCHANGED <<at, events, on, status, invalidation_list, finished, mutex>>
  /\ UNCHANGED <<handler_vars, alarm_vars, to_stop, stopped, destroying, outlived, process>>

\* Thread::Stop: the reactor is told to stop, and the thread joined.
StopThread ==
  /\ to_stop = <<>>
  /\ \/ manager = "Clear" /\ control' = "stop" /\ manager' = "join"
     \/ manager = "join" /\ at = "returned" /\ manager' = "done" /\ UNCHANGED control
  /\ UNCHANGED <<at, events, on, status, invalidation_list, finished, mutex>>
  /\ UNCHANGED <<handler_vars, alarm_vars, to_stop, stopped, destroying, outlived, process>>

-----------------------------------------------------------------------------
Readable == {h \in Handlers : event[h] > 0} \cup {a \in Alarms : timer[a] = "expired"}

Loop ==
  /\ ClearInvalidationList \/ epoll_wait(Readable) \/ Dispatch \/ StopRunning \/ FinishCallback
  /\ UNCHANGED <<handler_vars, alarm_vars, manager_vars, process>>

Callback ==
  \/ handle_next_event \/ on_fire
  \/ Closure \/ ClosureNotifies \/ ClosureDestroys \/ ClosureOutlives

Manage ==
  \/ ClearTasks \/ ClearEvent \/ ManagerUnregisters \/ WaitUntilStopped
  \/ StopCancels \/ StopDestroys \/ StopReturns \/ StopThread

Running == process = "running" /\ at # "undefined"

Next ==
  /\ Running
  /\ \/ Loop \/ Callback \/ ClientPosts \/ ClientNotifies \/ Manage \/ WaitTimesOut
     \/ \E a \in Alarms : Expire(a)

Spec == Init /\ [][Next]_vars

\* Nothing forces StopAll to be called; once it is, the thread goes on.
Begun == manager # "Clear" \/ to_stop # StopOrder

Fairness ==
  /\ WF_vars(Running /\ Loop) /\ WF_vars(Running /\ Callback)
  /\ WF_vars(Running /\ ClientNotifies)
  /\ WF_vars(Running /\ Begun /\ Manage) /\ WF_vars(Running /\ WaitTimesOut)
  /\ \A a \in Alarms : WF_vars(Running /\ Expire(a))

FairSpec == Spec /\ Fairness

-----------------------------------------------------------------------------
(* Properties                                                              *)

\* 1 if thread p has posted to h and not yet notified it.
Pending(p, h) == IF posting[p] = h THEN 1 ELSE 0

\* Once WaitUntilStopped of a handler has returned, no closure of it is
\* running or starts, whichever event of it the reactor had already taken
\* from epoll_wait and wherever it stood when the handler was cleared.
StoppedMeansStopped == at # "undefined" => on \notin stopped

\* Until it is cleared, a handler has one task for each notification that is
\* still to be read or still to come: no task waits without being notified,
\* and handle_next_event never takes the front of an empty queue.
OneTaskPerEvent ==
  \A h \in Handlers \ cleared : tasks[h] = event[h] + Pending("reactor", h) + Pending("client", h)

\* The assertion of handle_next_event holds: Clear drops the tasks before it
\* empties the event, so that a callback that finds no work sees the handler
\* cleared.
NoIdleWakeup == process # "Notified for work but no work available"

\* The reactor never uses a reactable that was deleted, nor an alarm or the
\* module of an alarm that Stop() has destroyed, although Unregister takes a
\* reactable out of the epoll set only after the list it is put on may have
\* been cleared again.  A handler is safe because Clear has emptied its event
\* before, an alarm if it is at rest when Stop() is called.  There are two
\* exceptions: a handler that a Post notifies after Clear, having passed its
\* check before, and an alarm that is armed, reported or executing when Stop()
\* of its module is called, which nothing in StopAll waits for.
DeletedNotUsed == at = "undefined" => on \in late \cup outlived

\* The read of an alarm that was cancelled after epoll_wait reported it.
BlockedInRead == at = "read" /\ timer[on] = "disarmed"

\* Once StopAll is called the modules are stopped and the thread is joined,
\* or the process has ended (the wait timed out: mutex_ is held meanwhile, and
\* a closure may need it to unregister), or the thread blocks for ever in the
\* read of an alarm that was cancelled.
StopAllEnds == Begun ~> (manager = "done" \/ ~Running \/ BlockedInRead)

\* Each task posted is run, or dropped by Clear, with the same exceptions.
EveryTaskRuns ==
  \A h \in Handlers :
    (tasks[h] > 0) ~> (tasks[h] = 0 \/ ~Running \/ BlockedInRead)
=============================================================================
