----------------------------- MODULE FiberProps -----------------------------
(***************************************************************************)
(* What the fiber runtime owes the program that runs on it.                *)
(***************************************************************************)
EXTENDS FiberHook

TimerNames == {User} \union ({"sleep", "io"} \X Fiber)
Tasks == Task \union {NoTask}

\* Types of the runtime's and the fibers' state.
TypeOK ==
  /\ tasks \in Seq(Task) /\ isStopped \in BOOLEAN /\ panicked \in BOOLEAN
  /\ active \in 0 .. Cardinality(Worker) /\ idling \in 0 .. Cardinality(Worker)
  /\ at \in [Worker -> {"take", "resume", "fiber", "look", "check", "ask", "wait",
                        "expire", "push", "handle", "rest", "ended"}]
  /\ running \in [Worker -> Tasks] /\ \A w \in Worker : cbs[w] \in Seq(Task)
  /\ timeLeft \in [Worker -> 0 .. MaxDelay + MaxWait \union {None}]
  /\ DOMAIN timers \subseteq TimerNames
  /\ \A i \in DOMAIN timers : timers[i].left \in Delay
  /\ events \in [Fd -> SUBSET Event] /\ waiter \in [Fd -> [Event -> Fiber \union {None}]]
  /\ state \in [Fiber -> {"READY", "RUNNING", "TERM"}]
  /\ pc \in [Fiber -> {"none", "queued", "run", "try", "arm", "add", "yield", "switch",
                       "woken", "close"}]
  /\ ctx \in [Fd -> {None} \union [userNonblock : BOOLEAN,
                                   timeout : [Event -> Delay \union {None}]]]

\* No CondPanic of the runtime fails: a fiber is resumed only when it is READY and
\* off its worker, an event is added once and triggered only while registered.
NoPanic == ~panicked

\* What is going to resume fiber f: a task, a worker about to, the timer of its
\* sleep or the callback of that timer, an event it is registered for.
Resumes(task, f) == task.fiber = f /\ task.fn \in {"fiber", "wake"}
Callbacks == UNION {{w} \X DOMAIN cbs[w] : w \in Worker}
Sources(f) ==
  Cardinality({i \in DOMAIN tasks : Resumes(tasks[i], f)})
  + Cardinality({w \in Worker : at[w] = "resume" /\ Resumes(running[w], f)})
  + Cardinality({p \in Callbacks : Resumes(cbs[p[1]][p[2]], f)})
  + Cardinality({<<"sleep", f>>} \intersect DOMAIN timers)
  + Cardinality({p \in Fd \X Event : waiter[p[1]][p[2]] = f})

\* A fiber that has yielded is going to be resumed by exactly one thing: it is
\* never forgotten, and an answer and a timeout, an event and a close never resume
\* it twice.  A fiber that runs and is not about to yield is resumed by nothing.
OneWakeUp ==
  \A f \in Fiber :
    /\ state[f] = "READY" => Sources(f) = 1
    /\ state[f] /= "READY" /\ pc[f] /= "yield" => Sources(f) = 0

\* pendingEventCnt_ is the number of registered events, whoever removed the last
\* one; the other counters are the workers inside a task and inside idle.
PendingCounts ==
  pending = Cardinality({p \in Fd \X Event : p[2] \in events[p[1]]})
WorkersCount ==
  /\ active = Cardinality({w \in Worker : at[w] \in {"resume", "fiber"}})
  /\ idling = Cardinality({w \in Worker :
       at[w] \in {"look", "check", "ask", "wait", "expire", "push", "handle"}})

\* The counters idle threads end on and tickle asks are those of what they count
\* (scheduler.cpp:104-145, iomanager.cpp:72-221): each is moved far from
\* where the state it stands for is.
CountsRight == TypeOK /\ PendingCounts /\ WorkersCount

\* Once every worker has ended no fiber is left behind, in a task, a sleep or a wait
\* (scheduler.hpp:87 has stop wait for all tasks).  A timer another thread adds
\* between getNextTimer and the look at isStopped_ is: stopping reads them apart.
Ended == \A w \in Worker : at[w] = "ended"
StopDrains ==
  Ended => /\ tasks = <<>> /\ pending = 0 /\ DOMAIN timers \subseteq {User}
           /\ \A f \in Fiber : state[f] = "TERM"

-----------------------------------------------------------------------------
\* A task that was scheduled is run, although a tickle can be lost: epoll_wait
\* never waits longer than MAX_TIMEOUT.
TasksRun == \A f \in Fiber : pc[f] = "queued" ~> pc[f] /= "queued"

\* The fiber has yielded for a sleep, or in a call that has a timeout.
HasDeadline(f) ==
  /\ state[f] = "READY"
  /\ \/ <<"sleep", f>> \in DOMAIN timers
     \/ call[f].timeout /= None

\* A fiber that sleeps, or waits with a timeout, runs again, provided the workers
\* run out of tasks time and again: only idle looks at the timers, so a program
\* that schedules faster than its workers run delays every deadline for ever.
DeadlinesKept ==
  []<>(\E w \in Worker : at[w] = "look") =>
    \A f \in Fiber : HasDeadline(f) ~> state[f] = "RUNNING"

\* What keeps the workers from ending: a recurring timer, a wait without timeout.
Kept ==
  \/ User \in DOMAIN timers /\ timers[User].recurring
  \/ \E f \in Fiber : /\ call[f] /= NoCall /\ call[f].timeout = None
                      /\ call[f].event /= None

\* Once stop is called the workers end, and join returns, unless something keeps
\* them.
StopReturns == <>[](isStopped /\ ~Kept) => <>Ended
=============================================================================
