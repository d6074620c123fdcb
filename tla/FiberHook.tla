----------------------------- MODULE FiberHook -----------------------------
(***************************************************************************)
(* What fibers do: the system calls hook.cpp replaces, on the descriptors  *)
(* FdManager knows.  A fiber makes hooked calls one after the other and    *)
(* returns; a worker runs it until it yields or returns.                   *)
(***************************************************************************)
EXTENDS FiberRuntime

CONSTANTS
  Timeouts,       \* what SO_RCVTIMEO, SO_SNDTIMEO and a sleep are set to
  ConnectTimeout, \* g_tcp_connect_timeout
  Target,         \* the thread a task is scheduled on: a worker, or None
  MaxCalls,       \* bound: per fiber, the hooked calls of one run of it
  Settings,       \* bound: what an FdCtx is set to: a timeout of an
                  \* event, or the user's O_NONBLOCK
  UserTimers      \* bound: the program's own timer, [ms, recurring]

ASSUME HookAssumption ==
  /\ Timeouts \subseteq Delay /\ ConnectTimeout \in Delay
  /\ Target \subseteq Worker \union {None} /\ MaxCalls \in [Fiber -> Nat]
  /\ \A s \in Settings :
       \/ s.event = None /\ s.nonblock \in BOOLEAN
       \/ s.event \in Event /\ s.timeout \in Delay \union {None}
  /\ UserTimers \subseteq [ms : Delay, recurring : BOOLEAN]

VARIABLES
  pc,        \* where each fiber is in its program
  call,      \* the hooked call it is in: descriptor, event, timeout, retries
  cancelled, \* tinfo->cnacelled of that call
  calls,     \* the calls it has made
  ctx,       \* FdManager::m_datas: the FdCtx of a descriptor, or None
  open,      \* the kernel has the descriptor open
  ready      \* what it is ready for

fiberVars == <<pc, call, cancelled, calls>>
fdVars == <<ctx, open, ready>>
vars == <<runtimeVars, fiberVars, fdVars>>

NoCall == [fd |-> None, event |-> None, timeout |-> None, retries |-> FALSE]

\* FdCtx(fd) of a socket: the user's flag is not set, no timeout
FdCtx == [userNonblock |-> FALSE, timeout |-> [e \in Event |-> None]]

Init ==
  /\ RuntimeInit
  /\ pc = [f \in Fiber |-> "none"]
  /\ call = [f \in Fiber |-> NoCall]
  /\ cancelled = [f \in Fiber |-> FALSE]
  /\ calls = [f \in Fiber |-> 0]
  /\ ctx = [fd \in Fd |-> None]
  /\ open = [fd \in Fd |-> FALSE]
  /\ ready = [fd \in Fd |-> {}]

\* The fiber worker w runs.
On(w) == running[w].fiber
Runs(w, f) == at[w] = "fiber" /\ On(w) = f
Next_(f, where) == pc' = [pc EXCEPT ![f] = where]

-----------------------------------------------------------------------------
(* Fiber: resume, yield, MainFunc                                          *)

\* resume: a fiber that is not READY panics, and so does one another worker has
\* not switched out of yet, whose context is not saved.
Resume(w) ==
  LET f == On(w) IN
  /\ at[w] = "resume" /\ running[w].fn \in {"fiber", "body"}
  /\ \/ /\ running[w].fn = "body" \/ (state[f] = "READY" /\ pc[f] /= "switch")
        /\ state' = [state EXCEPT ![f] = "RUNNING"]
        /\ Next_(f, IF running[w].fn = "body" THEN "run" ELSE pc[f])
        /\ Goto(w, "fiber")
        /\ UNCHANGED panicked
     \/ /\ running[w].fn = "fiber" /\ (state[f] /= "READY" \/ pc[f] = "switch")
        /\ Panic
        /\ UNCHANGED <<state, pc, at>>
  /\ UNCHANGED <<schedVars, running, cbs, reported, timeLeft, idleDone, timerVars,
                 eventVars, call, cancelled, calls, fdVars>>

\* yield: the fiber is READY before its context is saved ...
Yield(w) ==
  LET f == On(w) IN
  /\ Runs(w, f) /\ pc[f] = "yield"
  /\ state' = [state EXCEPT ![f] = "READY"]
  /\ Next_(f, "switch")
  /\ UNCHANGED <<schedVars, workerVars, timerVars, eventVars, panicked, call,
                 cancelled, calls, fdVars>>

\* ... and the worker is back in run.
Switch(w) ==
  LET f == On(w) IN
  /\ Runs(w, f) /\ pc[f] = "switch"
  /\ Finished(w)
  /\ Next_(f, IF call[f] = NoCall THEN "run" ELSE "woken")
  /\ UNCHANGED <<tasks, isStopped, idling, pipe, cbs, reported, timeLeft, idleDone,
                 timerVars, eventVars, state, panicked, call, cancelled, calls,
                 fdVars>>

\* MainFunc: the body has returned.
Return(w) ==
  LET f == On(w) IN
  /\ Runs(w, f) /\ pc[f] = "run"
  /\ state' = [state EXCEPT ![f] = "TERM"]
  /\ Next_(f, "none")
  /\ calls' = [calls EXCEPT ![f] = 0]
  /\ Finished(w)
  /\ UNCHANGED <<tasks, isStopped, idling, pipe, cbs, reported, timeLeft, idleDone,
                 timerVars, eventVars, panicked, call, cancelled, fdVars>>

-----------------------------------------------------------------------------
(* Hooked calls.  A step of a call changes nothing of the runtime but what *)
(* it says.                                                                *)

Begins(w, f) ==
  /\ Runs(w, f) /\ pc[f] = "run" /\ calls[f] < MaxCalls[f]
  /\ calls' = [calls EXCEPT ![f] = @ + 1]

\* sleep, usleep, nanosleep: the timer is there before the fiber yields.
Sleep(w) ==
  LET f == On(w) IN
  /\ Begins(w, f)
  /\ \E ms \in Timeouts :
       Inserted(<<"sleep", f>>, NewTimer(ms, FALSE, TaskOf("wake", f)))
  /\ Next_(f, "yield")
  /\ UNCHANGED <<tasks, isStopped, active, idling, workerVars, eventVars, state,
                 panicked, call, cancelled, fdVars>>

\* The fibers that are inside a call on a descriptor.
Using(fd) == {f \in Fiber : call[f].fd = fd}

\* socket, and accept after do_io: FdMgr gets the descriptor's FdCtx.  A number is
\* not used again while a fiber still waits on what it stood for.
Socket(w) ==
  LET f == On(w) IN
  /\ Begins(w, f)
  /\ \E fd \in Fd : /\ ~open[fd] /\ Using(fd) = {}
                    /\ open' = [open EXCEPT ![fd] = TRUE]
                    /\ ready' = [ready EXCEPT ![fd] = {}]
                    /\ ctx' = [ctx EXCEPT ![fd] = FdCtx]
  /\ UNCHANGED <<runtimeVars, pc, call, cancelled>>

\* setsockopt(SO_RCVTIMEO, SO_SNDTIMEO) and fcntl(F_SETFL)
Configure(w) ==
  LET f == On(w) IN
  /\ Begins(w, f)
  /\ \E fd \in Fd :
       /\ ctx[fd] /= None
       /\ \E s \in Settings :
            ctx' = IF s.event = None
                   THEN [ctx EXCEPT ![fd].userNonblock = s.nonblock]
                   ELSE [ctx EXCEPT ![fd].timeout[s.event] = s.timeout]
  /\ UNCHANGED <<runtimeVars, pc, call, cancelled, open, ready>>

\* A socket of FdManager's that its user left blocking.
Blocking(fd) == ctx[fd] /= None /\ ~ctx[fd].userNonblock

\* do_io up to retry: only a socket its user left blocking is waited for.  One
\* direction of a descriptor is used by one fiber at a time.
Io(w) ==
  LET f == On(w) IN
  /\ Begins(w, f)
  /\ \E fd \in Fd, e \in Event :
       /\ \A g \in Using(fd) : call[g].event /= e
       /\ \/ /\ Blocking(fd)
             /\ call' = [call EXCEPT ![f] =
                  [fd |-> fd, event |-> e, timeout |-> ctx[fd].timeout[e],
                   retries |-> TRUE]]
             /\ Next_(f, "try")
          \/ /\ ~Blocking(fd)
             /\ UNCHANGED <<call, pc>>
  /\ UNCHANGED <<runtimeVars, cancelled, fdVars>>

\* connect_with_timeout: EINPROGRESS, so it waits for WRITE once.
Connect(w) ==
  LET f == On(w) IN
  /\ Begins(w, f)
  /\ \E fd \in Fd :
       /\ Blocking(fd)
       /\ \A g \in Using(fd) : call[g].event /= WRITE
       /\ call' = [call EXCEPT ![f] =
            [fd |-> fd, event |-> WRITE, timeout |-> ConnectTimeout,
             retries |-> FALSE]]
  /\ Next_(f, "arm")
  /\ UNCHANGED <<runtimeVars, cancelled, fdVars>>

\* A call is over: its tinfo dies, and with it the weak pointer a timeout still
\* among the tasks or the expired callbacks would lock.
Dead(task, f) ==
  IF task = TaskOf("timeout", f) THEN TaskOf("user", None) ELSE task

Over(w, f) ==
  /\ call' = [call EXCEPT ![f] = NoCall]
  /\ cancelled' = [cancelled EXCEPT ![f] = FALSE]
  /\ Next_(f, "run")
  /\ tasks' = [i \in DOMAIN tasks |-> Dead(tasks[i], f)]
  /\ cbs' = [v \in Worker |-> [i \in DOMAIN cbs[v] |-> Dead(cbs[v][i], f)]]
  /\ running' = [v \in Worker |-> Dead(running[v], f)]

\* fun: it has an answer (data, an error, EBADF of a closed descriptor), or EAGAIN.
Try(w) ==
  LET f == On(w)
      c == call[f]
  IN
  /\ Runs(w, f) /\ pc[f] = "try"
  /\ \/ /\ ~open[c.fd]
        /\ Over(w, f)
        /\ UNCHANGED ready
     \/ /\ open[c.fd] /\ c.event \in ready[c.fd]
        /\ Over(w, f)
        /\ ready' \in {ready, [ready EXCEPT ![c.fd] = @ \ {c.event}]}
     \/ /\ open[c.fd] /\ c.event \notin ready[c.fd]
        /\ Next_(f, "arm")
        /\ UNCHANGED <<tasks, cbs, running, call, cancelled, ready>>
  /\ UNCHANGED <<isStopped, active, idling, pipe, at, reported, timeLeft, idleDone,
                 timerVars, eventVars, state, panicked, calls, ctx, open>>

\* addConditionTimer, when the call has a timeout
Arm(w) ==
  LET f == On(w) IN
  /\ Runs(w, f) /\ pc[f] = "arm"
  /\ \/ /\ call[f].timeout /= None
        /\ Inserted(<<"io", f>>, NewTimer(call[f].timeout, FALSE, TaskOf("timeout", f)))
     \/ call[f].timeout = None /\ UNCHANGED <<timerVars, pipe>>
  /\ Next_(f, "add")
  /\ UNCHANGED <<tasks, isStopped, active, idling, workerVars, eventVars, state,
                 panicked, call, cancelled, calls, fdVars>>

\* addEvent: panics when the event is registered already; epoll refuses a closed
\* descriptor and one the other event of which is registered, and then the call
\* cancels its timer and gives up.
Add(w) ==
  LET f == On(w)
      c == call[f]
  IN
  /\ Runs(w, f) /\ pc[f] = "add"
  /\ \/ /\ c.event \in events[c.fd]
        /\ Panic
        /\ UNCHANGED <<eventVars, timers, tasks, cbs, running, fiberVars>>
     \/ /\ events[c.fd] = {} /\ open[c.fd]
        /\ Registered(c.fd, c.event, f)
        /\ Next_(f, "yield")
        /\ UNCHANGED <<timers, tasks, cbs, running, call, cancelled, calls, panicked>>
     \/ /\ c.event \notin events[c.fd]
        /\ events[c.fd] /= {} \/ ~open[c.fd]
        /\ Refused
        /\ Cancelled(<<"io", f>>)
        /\ Over(w, f)
        /\ UNCHANGED <<calls, panicked>>
  /\ UNCHANGED <<isStopped, active, idling, pipe, at, reported, timeLeft, idleDone,
                 tickled, state, fdVars>>

\* After the yield: the timer is cancelled; a call that timed out fails, connect
\* looks at SO_ERROR, the others retry.
Woken(w) ==
  LET f == On(w) IN
  /\ Runs(w, f) /\ pc[f] = "woken"
  /\ Cancelled(<<"io", f>>)
  /\ \/ /\ cancelled[f] \/ ~call[f].retries
        /\ Over(w, f)
     \/ /\ ~cancelled[f] /\ call[f].retries
        /\ Next_(f, "try")
        /\ UNCHANGED <<tasks, cbs, running, call, cancelled>>
  /\ UNCHANGED <<isStopped, active, idling, pipe, at, reported, timeLeft, idleDone,
                 tickled, eventVars, state, panicked, calls, fdVars>>

\* close: cancelAll, FdMgr::del, ...
Close(w) ==
  LET f == On(w) IN
  /\ Begins(w, f)
  /\ \E fd \in Fd :
       /\ ctx[fd] /= None
       /\ Triggered(fd, events[fd])
       /\ ctx' = [ctx EXCEPT ![fd] = None]
       /\ call' = [call EXCEPT ![f] = [NoCall EXCEPT !.fd = fd]]
  /\ Next_(f, "close")
  /\ UNCHANGED <<isStopped, active, idling, workerVars, timerVars, state, panicked,
                 cancelled, open, ready>>

\* ... close_f
CloseFd(w) ==
  LET f == On(w) IN
  /\ Runs(w, f) /\ pc[f] = "close"
  /\ open' = [open EXCEPT ![call[f].fd] = FALSE]
  /\ ready' = [ready EXCEPT ![call[f].fd] = {}]
  /\ call' = [call EXCEPT ![f] = NoCall]
  /\ Next_(f, "run")
  /\ UNCHANGED <<runtimeVars, cancelled, calls, ctx>>

-----------------------------------------------------------------------------
(* Callbacks, each run as the body of a new fiber that never yields.       *)

CallbackOver(w) == Finished(w) /\ UNCHANGED <<cbs, reported, timeLeft, idleDone>>

\* A sleep is over: scheduler(fiber).
Wake(w) ==
  /\ at[w] = "resume" /\ running[w].fn = "wake"
  /\ Pushed(<<TaskOf("fiber", On(w))>>)
  /\ CallbackOver(w)
  /\ UNCHANGED <<isStopped, idling, timerVars, eventVars, state, panicked,
                 fiberVars, fdVars>>

\* Mutant of Interrupt: the fiber is not resumed.
InterruptNobody(c) == UNCHANGED <<tasks, pipe, eventVars>>

\* cancelEvent, if the event is registered and epoll still has the descriptor
Interrupt(c) ==
  \/ /\ c.event \in events[c.fd] /\ open[c.fd]
     /\ Triggered(c.fd, {c.event})
  \/ /\ c.event \notin events[c.fd] \/ ~open[c.fd]
     /\ UNCHANGED <<tasks, pipe, eventVars>>

\* The timeout of a call that is not over: it is marked, once, and its fiber
\* resumed.
Timeout(w) ==
  LET f == On(w) IN
  /\ at[w] = "resume" /\ running[w].fn = "timeout"
  /\ IF cancelled[f] THEN UNCHANGED <<cancelled, tasks, pipe, eventVars>>
     ELSE /\ cancelled' = [cancelled EXCEPT ![f] = TRUE]
          /\ Interrupt(call[f])
  /\ CallbackOver(w)
  /\ UNCHANGED <<isStopped, idling, timerVars, state, panicked, pc, call, calls,
                 fdVars>>

UserCallback(w) ==
  /\ at[w] = "resume" /\ running[w].fn = "user"
  /\ CallbackOver(w)
  /\ UNCHANGED <<tasks, isStopped, idling, pipe, timerVars, eventVars, state,
                 panicked, fiberVars, fdVars>>

-----------------------------------------------------------------------------
(* The rest of the program, on threads that are not the scheduler's.       *)

\* The timer the program itself sets.
User == <<"user", None>>

Outside == <<workerVars, eventVars, state, panicked, call, cancelled, calls, fdVars>>

\* scheduler(cb, thread)
Schedule ==
  /\ ~isStopped
  /\ \E f \in Fiber, w \in Target :
       /\ pc[f] = "none"
       /\ Pushed(<<[TaskOf("body", f) EXCEPT !.thread = w]>>)
       /\ Next_(f, "queued")
  /\ UNCHANGED <<isStopped, active, idling, timerVars, Outside>>

\* addTimer
AddTimer ==
  /\ ~isStopped /\ User \notin DOMAIN timers
  /\ \E t \in UserTimers :
       Inserted(User, NewTimer(t.ms, t.recurring, TaskOf("user", None)))
  /\ UNCHANGED <<tasks, isStopped, active, idling, pc, Outside>>

\* Timer::cancel, refresh and reset of a timer that has its callback still
ChangeTimer ==
  /\ ~isStopped /\ User \in DOMAIN timers
  /\ LET t == timers[User] IN
     \/ Cancelled(User) /\ UNCHANGED <<tickled, pipe>>
     \/ timers' = With(User, [t EXCEPT !.left = t.ms]) /\ UNCHANGED <<tickled, pipe>>
     \/ \E ms \in {u.ms : u \in UserTimers}, from_now \in BOOLEAN :
          /\ ms /= t.ms \/ from_now
          /\ LET left == IF from_now THEN ms ELSE t.left - t.ms + ms IN
             Inserted(User, [t EXCEPT !.ms = ms,
                                        !.left = IF left < 0 THEN 0 ELSE left])
  /\ UNCHANGED <<tasks, isStopped, active, idling, pc, Outside>>

\* A peer sends, reads, or goes away.
Arrive ==
  /\ \E fd \in Fd, e \in Event : /\ open[fd] /\ e \notin ready[fd]
                                 /\ ready' = [ready EXCEPT ![fd] = @ \union {e}]
                                 /\ armed' = [armed EXCEPT ![fd] =
                                      @ \union ({e} \intersect events[fd])]
  /\ UNCHANGED <<schedVars, workerVars, timerVars, events, waiter, pending, state,
                 panicked, fiberVars, ctx, open>>

-----------------------------------------------------------------------------
\* What worker w does next.
RunStep(w) ==
  /\ \/ Take(w) \/ NoTaskForMe(w) \/ Rest(w)
     \/ Look(w) \/ Check(w) \/ Ask(w) \/ Wait(w, ready)
     \/ Expire(w) \/ PushExpired(w) \/ Drain(w) \/ Handle(w, open) \/ Handled(w)
  /\ UNCHANGED <<fiberVars, fdVars>>

FiberStep(w) ==
  \/ Resume(w) \/ Yield(w) \/ Switch(w) \/ Return(w)
  \/ Sleep(w) \/ Socket(w) \/ Configure(w) \/ Io(w) \/ Connect(w)
  \/ Try(w) \/ Arm(w) \/ Add(w) \/ Woken(w) \/ Close(w) \/ CloseFd(w)
  \/ Wake(w) \/ Timeout(w) \/ UserCallback(w)

WorkerStep(w) == ~panicked /\ (RunStep(w) \/ FiberStep(w))

Time == ~panicked /\ Tick /\ UNCHANGED <<fiberVars, fdVars>>
StopCalled == Stop /\ UNCHANGED <<fiberVars, fdVars>>

Next ==
  \/ \E w \in Worker : WorkerStep(w)
  \/ Time
  \/ ~panicked /\ (Schedule \/ AddTimer \/ ChangeTimer \/ StopCalled \/ Arrive)

\* The threads are scheduled and the clock runs; nothing is asked of the peers,
\* nor of what the program schedules and when it stops.
Fairness == WF_vars(Time) /\ \A w \in Worker : WF_vars(WorkerStep(w))

Spec == Init /\ [][Next]_vars /\ Fairness
=============================================================================
