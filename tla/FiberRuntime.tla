---------------------------- MODULE FiberRuntime ----------------------------
(***************************************************************************)
(* The fiber runtime of src/fiber: a Scheduler whose worker threads take   *)
(* tasks from one list, the IOManager whose idle fibers wait in epoll, the *)
(* TimerManager and the state of the fibers.  What a fiber does while it   *)
(* runs is in FiberHook.                                                   *)
(*                                                                         *)
(* Time is relative: a timer and an epoll_wait hold what is left of them,  *)
(* and Tick takes one unit off each.  A CondPanic ends the process.        *)
(***************************************************************************)
EXTENDS Integers, Sequences, FiniteSets, SequencesExt

CONSTANTS
  Worker,      \* the threads of threadPool_
  Fiber,       \* the fibers the program starts with scheduler(cb)
  Fd,          \* descriptors of sockets
  MaxWait,     \* MAX_TIMEOUT of idle, in units of time
  MaxDelay,    \* the longest timer
  None

READ == "READ"
WRITE == "WRITE"
Event == {READ, WRITE}
Delay == 0 .. MaxDelay

ASSUME RuntimeAssumption ==
  /\ Worker /= {} /\ IsFiniteSet(Worker) /\ IsFiniteSet(Fiber) /\ IsFiniteSet(Fd)
  /\ MaxWait \in Nat \ {0} /\ MaxDelay \in Nat
  /\ None \notin Worker \union Fiber \union Fd \union Event /\ None \notin Nat

VARIABLES
  tasks,             \* tasks_
  isStopped,         \* isStopped_
  active, idling,    \* activeThreadCnt_, idleThreadCnt_
  at,                \* where each worker is
  running,           \* the task it took
  cbs, reported,     \* idle's locals: expired callbacks, what epoll_wait returned
  timeLeft,          \* what is left of its epoll_wait
  idleDone,          \* its idle fiber is TERM
  pipe,              \* there is a byte in tickleFds_
  timers, tickled,   \* timers_, tickled_
  events, waiter,    \* FdContext: registered events, the fiber each will resume
  armed,             \* registered events epoll has not reported yet
  pending,           \* pendingEventCnt_
  state,             \* Fiber::state_
  panicked           \* a CondPanic has failed

schedVars == <<tasks, isStopped, active, idling, pipe>>
workerVars == <<at, running, cbs, reported, timeLeft, idleDone>>
timerVars == <<timers, tickled>>
eventVars == <<events, waiter, armed, pending>>
runtimeVars == <<schedVars, workerVars, timerVars, eventVars, state, panicked>>

-----------------------------------------------------------------------------
(* Tasks.  fn is what runs: a fiber that yielded is resumed, a body starts *)
(* a new fiber; wake and timeout are the callbacks of timers of hooked     *)
(* calls, user that of a timer of the program.                             *)

Fn == {"fiber", "body", "wake", "timeout", "user"}
Task == [fn : Fn, fiber : Fiber \union {None}, thread : Worker \union {None}]
NoTask == [fn |-> "none", fiber |-> None, thread |-> None]
TaskOf(fn, f) == [fn |-> fn, fiber |-> f, thread |-> None]

\* IOManager::tickle: nothing is written unless some thread is idle.
Tickled(yes) == pipe' = (pipe \/ (yes /\ idling > 0))

\* Scheduler::scheduler, for each of ts in turn: tickle when the list was empty.
Pushed(ts) ==
  /\ tasks' = tasks \o ts
  /\ Tickled(tasks = <<>> /\ ts /= <<>>)

Panic == panicked' = TRUE

-----------------------------------------------------------------------------
(* Timers: a function from the names of the timers in timers_.             *)

NewTimer(ms, recurring, task) ==
  [left |-> ms, ms |-> ms, recurring |-> recurring, cb |-> task]

\* The least that is left of any timer; None when there is none.
LeastLeft(ts) ==
  IF DOMAIN ts = {} THEN None
  ELSE CHOOSE d \in Delay : /\ \E i \in DOMAIN ts : ts[i].left = d
                            /\ \A i \in DOMAIN ts : d <= ts[i].left

Without(i) == [j \in DOMAIN timers \ {i} |-> timers[j]]
With(i, timer) == [j \in DOMAIN timers \union {i} |->
                     IF j = i THEN timer ELSE timers[j]]

\* addTimer: a timer at the front tickles, once until getNextTimer runs again.
\* Among timers that are due together which is first is a matter of addresses.
Inserted(i, timer) ==
  /\ timers' = With(i, timer)
  /\ \E atFront \in BOOLEAN :
       /\ atFront => timer.left = LeastLeft(With(i, timer))
       /\ ~atFront => \E j \in DOMAIN timers \ {i} : timers[j].left <= timer.left
       /\ tickled' = (tickled \/ atFront)
       /\ Tickled(atFront /\ ~tickled)

\* Timer::cancel: a timer that was taken out by listExpiredCb stays out.
Cancelled(i) == timers' = Without(i)

-----------------------------------------------------------------------------
RuntimeInit ==
  /\ tasks = <<>> /\ isStopped = FALSE
  /\ active = 0 /\ idling = 0
  /\ at = [w \in Worker |-> "take"]
  /\ running = [w \in Worker |-> NoTask]
  /\ cbs = [w \in Worker |-> <<>>]
  /\ reported = [w \in Worker |-> <<>>]
  /\ timeLeft = [w \in Worker |-> None]
  /\ idleDone = [w \in Worker |-> FALSE]
  /\ pipe = FALSE
  /\ timers = <<>> /\ tickled = FALSE
  /\ events = [fd \in Fd |-> {}]
  /\ waiter = [fd \in Fd |-> [e \in Event |-> None]]
  /\ armed = [fd \in Fd |-> {}]
  /\ pending = 0
  /\ state = [f \in Fiber |-> "TERM"]
  /\ panicked = FALSE

Goto(w, where) == at' = [at EXCEPT ![w] = where]

-----------------------------------------------------------------------------
(* Scheduler::run                                                          *)

\* The tasks worker w may take: those not meant for another thread.
Mine(w) == {i \in DOMAIN tasks : tasks[i].thread \in {None, w}}
FirstOf(S) == CHOOSE i \in S : \A j \in S : i <= j

\* Under mutex_: the first task that is not another thread's.  A fiber among the
\* tasks has to be READY.  A task left, or skipped, tickles.
Take(w) ==
  /\ at[w] = "take" /\ Mine(w) /= {}
  /\ LET i == FirstOf(Mine(w))
         task == tasks[i]
     IN \/ /\ task.fn = "fiber" => state[task.fiber] = "READY"
           /\ tasks' = RemoveAt(tasks, i)
           /\ running' = [running EXCEPT ![w] = task]
           /\ active' = active + 1
           /\ Tickled(Len(tasks) > 1)
           /\ Goto(w, "resume")
           /\ UNCHANGED panicked
        \/ /\ task.fn = "fiber" /\ state[task.fiber] /= "READY"
           /\ Panic
           /\ UNCHANGED <<tasks, running, active, pipe, at>>
  /\ UNCHANGED <<isStopped, idling, cbs, reported, timeLeft, idleDone, timerVars,
                 eventVars, state>>

\* There is none, or none for this thread.
NoTaskForMe(w) ==
  /\ at[w] = "take" /\ Mine(w) = {}
  /\ Tickled(tasks /= <<>>)
  /\ Goto(w, "rest")
  /\ UNCHANGED <<tasks, isStopped, active, idling, running, cbs, reported, timeLeft,
                 idleDone, timerVars, eventVars, state, panicked>>

\* run resumes its idle fiber, or returns when that is TERM.  A task pushed since
\* the lock was released finds no idle thread to tickle.
Rest(w) ==
  /\ at[w] = "rest"
  /\ IF idleDone[w] THEN Goto(w, "ended") /\ UNCHANGED idling
                    ELSE Goto(w, "look") /\ idling' = idling + 1
  /\ UNCHANGED <<tasks, isStopped, active, pipe, running, cbs, reported, timeLeft,
                 idleDone, timerVars, eventVars, state, panicked>>

\* Mutant of Finished: activeThreadCnt_ is not decremented.
FinishedStaysActive(w) ==
  /\ Goto(w, "take")
  /\ running' = [running EXCEPT ![w] = NoTask]
  /\ UNCHANGED active

\* The task is over, or its fiber has yielded.
Finished(w) ==
  /\ Goto(w, "take")
  /\ running' = [running EXCEPT ![w] = NoTask]
  /\ active' = active - 1

-----------------------------------------------------------------------------
(* IOManager::idle                                                         *)

\* getNextTimer, and how long epoll_wait will wait.
Look(w) ==
  /\ at[w] = "look"
  /\ tickled' = FALSE
  /\ timeLeft' = [timeLeft EXCEPT ![w] = LeastLeft(timers)]
  /\ Goto(w, "check")
  /\ UNCHANGED <<schedVars, running, cbs, reported, idleDone, timers, eventVars,
                 state, panicked>>

\* Mutant of Stoppable: timers that are still to come are not waited for.
StoppableWithTimers(w) == pending = 0

\* IOManager::stopping, before it asks the scheduler: no timer, no pending event
Stoppable(w) == timeLeft[w] = None /\ pending = 0

\* Mutant of Waiting: without a timer the wait has no end.
WaitingForever(left) == left

\* next_timeout, cut at MAX_TIMEOUT
Waiting(left) == IF left = None \/ left > MaxWait THEN MaxWait ELSE left

Waits(w) ==
  /\ timeLeft' = [timeLeft EXCEPT ![w] = Waiting(@)]
  /\ Goto(w, "wait")

\* stopping looks at the next timer and at pendingEventCnt_, under no lock ...
Check(w) ==
  /\ at[w] = "check"
  /\ \/ Stoppable(w) /\ Goto(w, "ask") /\ UNCHANGED timeLeft
     \/ ~Stoppable(w) /\ Waits(w)
  /\ UNCHANGED <<schedVars, running, cbs, reported, idleDone, timerVars, eventVars,
                 state, panicked>>

\* Scheduler::stopping
Stopping == isStopped /\ tasks = <<>> /\ active = 0

\* ... and then at the scheduler, under mutex_: the idle fiber runs to its end, or
\* waits.
Ask(w) ==
  /\ at[w] = "ask"
  /\ \/ /\ Stopping
        /\ idleDone' = [idleDone EXCEPT ![w] = TRUE]
        /\ idling' = idling - 1
        /\ Goto(w, "take")
        /\ UNCHANGED timeLeft
     \/ /\ ~Stopping
        /\ Waits(w)
        /\ UNCHANGED <<idleDone, idling>>
  /\ UNCHANGED <<tasks, isStopped, active, pipe, running, cbs, reported, timerVars,
                 eventVars, state, panicked>>

\* epoll_wait returns: ready[fd] is what descriptor fd is ready for; the entry
\* with no descriptor is the pipe's.
Wait(w, ready) ==
  LET due == {fd \in Fd : armed[fd] \intersect ready[fd] /= {}}
      all == due \union {None : p \in {pipe} \ {FALSE}}
  IN
  /\ at[w] = "wait"
  /\ all /= {} \/ timeLeft[w] = 0
  /\ \E order \in SetToSeqs(all) :
       reported' = [reported EXCEPT ![w] =
         [i \in DOMAIN order |->
            [fd |-> order[i],
             events |-> IF order[i] = None THEN {}
                        ELSE armed[order[i]] \intersect ready[order[i]]]]]
  /\ armed' = [fd \in Fd |-> armed[fd] \ ready[fd]]
  /\ timeLeft' = [timeLeft EXCEPT ![w] = None]
  /\ Goto(w, "expire")
  /\ UNCHANGED <<schedVars, running, cbs, idleDone, timerVars, events, waiter,
                 pending, state, panicked>>

\* listExpiredCb: what is due leaves the set, a recurring timer enters it anew.
Expire(w) ==
  LET due == {i \in DOMAIN timers : timers[i].left = 0}
      again == {i \in due : timers[i].recurring}
  IN
  /\ at[w] = "expire"
  /\ \E order \in SetToSeqs(due) :
       cbs' = [cbs EXCEPT ![w] = [i \in DOMAIN order |-> timers[order[i]].cb]]
  /\ timers' = [i \in (DOMAIN timers \ due) \union again |->
                  IF i \in again THEN [timers[i] EXCEPT !.left = @ + timers[i].ms]
                  ELSE timers[i]]
  /\ Goto(w, "push")
  /\ UNCHANGED <<schedVars, running, reported, timeLeft, idleDone, tickled,
                 eventVars, state, panicked>>

\* The callbacks become tasks.
PushExpired(w) ==
  /\ at[w] = "push"
  /\ Pushed(cbs[w])
  /\ cbs' = [cbs EXCEPT ![w] = <<>>]
  /\ Goto(w, "handle")
  /\ UNCHANGED <<isStopped, active, idling, running, reported, timeLeft, idleDone,
                 timerVars, eventVars, state, panicked>>

-----------------------------------------------------------------------------
(* Events of a descriptor                                                  *)

InOrder(es) ==
  (IF READ \in es THEN <<READ>> ELSE <<>>) \o (IF WRITE \in es THEN <<WRITE>> ELSE <<>>)

\* Mutant of Triggered: the event stays registered.
TriggeredStays(fd, es) ==
  /\ Pushed([i \in DOMAIN InOrder(es) |->
               TaskOf("fiber", waiter[fd][InOrder(es)[i]])])
  /\ UNCHANGED <<events, armed, waiter, pending>>

\* Mutant of Triggered: resetEveContext is left out.
TriggeredKeepsFiber(fd, es) ==
  /\ Pushed([i \in DOMAIN InOrder(es) |->
               TaskOf("fiber", waiter[fd][InOrder(es)[i]])])
  /\ events' = [events EXCEPT ![fd] = @ \ es]
  /\ armed' = [armed EXCEPT ![fd] = events[fd] \ es]
  /\ pending' = pending - Cardinality(es)
  /\ UNCHANGED waiter

\* triggerEvent for each event of es, all of them registered: their fibers become
\* tasks, and epoll keeps what is left.
Triggered(fd, es) ==
  /\ Pushed([i \in DOMAIN InOrder(es) |->
               TaskOf("fiber", waiter[fd][InOrder(es)[i]])])
  /\ waiter' = [waiter EXCEPT ![fd] =
                  [e \in Event |-> IF e \in es THEN None ELSE @[e]]]
  /\ events' = [events EXCEPT ![fd] = @ \ es]
  /\ armed' = [armed EXCEPT ![fd] = events[fd] \ es]
  /\ pending' = pending - Cardinality(es)

\* addEvent, for a fiber of the caller.  epoll takes the event when it is the only
\* one of its descriptor: it is added with EPOLLEXCLUSIVE, and what was added so
\* cannot be modified.
Registered(fd, e, f) ==
  /\ events' = [events EXCEPT ![fd] = @ \union {e}]
  /\ armed' = [armed EXCEPT ![fd] = events[fd] \union {e}]
  /\ waiter' = [waiter EXCEPT ![fd][e] = f]
  /\ pending' = pending + 1

\* Mutant of Refused: pendingEventCnt_ was incremented before.
RefusedCounted == pending' = pending + 1 /\ UNCHANGED <<events, waiter, armed>>

\* addEvent, when epoll_ctl returns an error
Refused == UNCHANGED eventVars

\* The loop over what epoll_wait returned empties the pipe.
Drain(w) ==
  /\ at[w] = "handle" /\ reported[w] /= <<>>
  /\ Head(reported[w]).fd = None
  /\ pipe' = FALSE
  /\ reported' = [reported EXCEPT ![w] = Tail(@)]
  /\ UNCHANGED <<tasks, isStopped, active, idling, at, running, cbs, timeLeft,
                 idleDone, timerVars, eventVars, state, panicked>>

\* The same loop for a descriptor.  An event that is no longer registered
\* is skipped when no other of the descriptor's is, and panics otherwise; epoll
\* refuses a descriptor that is closed by now, and it is skipped as well.
Handle(w, open) ==
  /\ at[w] = "handle" /\ reported[w] /= <<>>
  /\ Head(reported[w]).fd /= None
  /\ LET fd == Head(reported[w]).fd
         real == Head(reported[w]).events
     IN \/ /\ events[fd] \intersect real = {} \/ ~open[fd]
           /\ UNCHANGED <<tasks, pipe, eventVars, panicked>>
        \/ /\ real \subseteq events[fd] /\ open[fd]
           /\ Triggered(fd, real)
           /\ UNCHANGED panicked
        \/ /\ events[fd] \intersect real /= {} /\ ~(real \subseteq events[fd])
           /\ open[fd]
           /\ Panic
           /\ UNCHANGED <<tasks, pipe, eventVars>>
  /\ reported' = [reported EXCEPT ![w] = Tail(@)]
  /\ UNCHANGED <<isStopped, active, idling, at, running, cbs, timeLeft, idleDone,
                 timerVars, state>>

\* The idle fiber yields to run.
Handled(w) ==
  /\ at[w] = "handle" /\ reported[w] = <<>>
  /\ idling' = idling - 1
  /\ Goto(w, "take")
  /\ UNCHANGED <<tasks, isStopped, active, pipe, running, cbs, reported, timeLeft,
                 idleDone, timerVars, eventVars, state, panicked>>

-----------------------------------------------------------------------------
\* A unit of time passes.
Tick ==
  /\ timers' = [i \in DOMAIN timers |->
                  [timers[i] EXCEPT !.left = IF @ = 0 THEN 0 ELSE @ - 1]]
  /\ timeLeft' = [w \in Worker |->
                    IF at[w] = "wait" /\ timeLeft[w] \notin {None, 0}
                    THEN timeLeft[w] - 1 ELSE timeLeft[w]]
  /\ UNCHANGED <<schedVars, at, running, cbs, reported, idleDone, tickled,
                 eventVars, state, panicked>>

\* Scheduler::stop, up to the join of the threads.  Its own call of stopping finds
\* isStopped_ unset, and runs getNextTimer.
Stop ==
  /\ ~isStopped
  /\ isStopped' = TRUE
  /\ tickled' = FALSE
  /\ Tickled(TRUE)
  /\ UNCHANGED <<tasks, active, idling, workerVars, timers, eventVars, state,
                 panicked>>
=============================================================================
