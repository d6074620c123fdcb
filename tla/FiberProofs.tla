----------------------------- MODULE FiberProofs -----------------------------
(***************************************************************************)
(* The fiber runtime, for any number of worker threads, fibers and         *)
(* descriptors.                                                            *)
(*                                                                         *)
(* The argument: a fiber that has yielded is owned by exactly one source   *)
(* of its wake-up, and every step moves it from one source to the next: a  *)
(* timer to an expired callback, that to a task, a registered event to a   *)
(* task, a task to a worker.  A fiber that runs is owned by none, so what  *)
(* it arms or registers is the one.                                        *)
(***************************************************************************)
EXTENDS FiberProps, FiniteSetTheorems, SequenceTheorems, WellFoundedInduction, TLAPS

-----------------------------------------------------------------------------
(* Counts                                                                  *)

\* The elements of s that are in S.
Count(s, S) == Cardinality({i \in DOMAIN s : s[i] \in S})

\* The workers about to run a task of S.
AboutTo(where, what, S) ==
  Cardinality({w \in Worker : where[w] = "resume" /\ what[w] \in S})

\* The expired callbacks of S.
CallbacksOf(c) == UNION {{w} \X DOMAIN c[w] : w \in Worker}
Expired(c, S) == Cardinality({p \in CallbacksOf(c) : c[p[1]][p[2]] \in S})

\* The events fiber f is registered for.
WaitedFor(who, f) == Cardinality({p \in Fd \X Event : who[p[1]][p[2]] = f})

\* The workers that are at one of places.
Workers(where, places) == Cardinality({w \in Worker : where[w] \in places})

\* The tasks that resume fiber f, and those that start it.
Resuming(f) == {task \in Task : Resumes(task, f)}
StartOf(f) == {task \in Task : task.fn = "body" /\ task.fiber = f}

\* What will resume fiber f: the sum of FiberProps.
Owners(f) ==
  Count(tasks, Resuming(f)) + AboutTo(at, running, Resuming(f))
  + Expired(cbs, Resuming(f)) + Cardinality({<<"sleep", f>>} \intersect DOMAIN timers)
  + WaitedFor(waiter, f)

-----------------------------------------------------------------------------
(* The inductive invariant                                                 *)

\* A task is of the fiber it is about; only new fibers are for a given thread.
GoodTask(task) ==
  /\ task \in Task
  /\ IF task.fn = "user" THEN task.fiber = None ELSE task.fiber \in Fiber
  /\ task.fn # "body" => task.thread = None
Callback(task) == GoodTask(task) /\ task.fn \in {"wake", "timeout", "user"}

TasksGood == tasks \in Seq(Task) /\ \A i \in DOMAIN tasks : GoodTask(tasks[i])

\* A worker has a task from when it takes one until that is over or has yielded.
Place == {"take", "resume", "fiber", "look", "check", "ask", "wait", "expire", "push",
          "handle", "rest", "ended"}
RunningGood ==
  /\ at \in [Worker -> Place] /\ running \in [Worker -> Tasks]
  /\ \A w \in Worker :
       /\ at[w] \in {"resume", "fiber"} => GoodTask(running[w])
       /\ at[w] \notin {"resume", "fiber"} => running[w] = NoTask
       /\ at[w] = "fiber" => running[w].fn \in {"fiber", "body"}

\* Only between listExpiredCb and the lock of tasks_ are there expired callbacks.
CallbacksGood ==
  /\ cbs \in [Worker -> Seq(Task)]
  /\ \A w \in Worker : /\ \A i \in DOMAIN cbs[w] : Callback(cbs[w][i])
                       /\ at[w] # "push" => cbs[w] = <<>>

\* What runs when each timer is due.
CallbackOf(i) ==
  CASE i[1] = "sleep" -> TaskOf("wake", i[2])
    [] i[1] = "io" -> TaskOf("timeout", i[2])
    [] OTHER -> TaskOf("user", None)

Timer == [left : Delay, ms : Delay, recurring : BOOLEAN, cb : Task]
TimersGood ==
  /\ DOMAIN timers \subseteq TimerNames
  /\ \A i \in DOMAIN timers :
       /\ timers[i] \in Timer /\ timers[i].left <= timers[i].ms
       /\ timers[i].cb = CallbackOf(i)
       /\ i # User => ~timers[i].recurring

\* The events of a descriptor and the fibers that wait for them.
EventsGood ==
  /\ events \in [Fd -> SUBSET Event] /\ armed \in [Fd -> SUBSET Event]
  /\ waiter \in [Fd -> [Event -> Fiber \union {None}]]
  /\ \A fd \in Fd : /\ armed[fd] \subseteq events[fd]
                    /\ \A e \in Event : waiter[fd][e] = None <=> e \notin events[fd]

\* What an idle worker still has to handle.
Reported == [fd : Fd \union {None}, events : SUBSET Event]
ReportsGood == reported \in [Worker -> Seq(Reported)]

\* Where a fiber is, in its program and on the workers.
FibersGood ==
  /\ state \in [Fiber -> {"READY", "RUNNING", "TERM"}]
  /\ pc \in [Fiber -> {"none", "queued", "run", "try", "arm", "add", "yield", "switch",
                       "woken", "close"}]
  /\ \A f \in Fiber :
       /\ pc[f] \in {"none", "queued"} <=> state[f] = "TERM"
       /\ pc[f] \in {"try", "arm", "add", "yield", "close"} => state[f] = "RUNNING"
       /\ pc[f] = "switch" => state[f] = "READY"
       /\ (state[f] = "RUNNING" \/ pc[f] = "switch") <=> \E w \in Worker : Runs(w, f)
  /\ \A f \in Fiber : \A v, w \in Worker : Runs(v, f) /\ Runs(w, f) => v = w

IoCall == [fd : Fd, event : Event, timeout : Delay \union {None}, retries : BOOLEAN]
ClosingCall == {[NoCall EXCEPT !.fd = fd] : fd \in Fd}

\* The call a fiber is in.
CallsGood ==
  /\ call \in [Fiber -> IoCall \union ClosingCall \union {NoCall}]
  /\ cancelled \in [Fiber -> BOOLEAN] /\ calls \in [Fiber -> Nat]
  /\ \A f \in Fiber :
       /\ pc[f] \in {"none", "queued", "run"} => call[f] = NoCall
       /\ pc[f] \in {"try", "arm", "add", "woken"} => call[f] \in IoCall
       /\ pc[f] \in {"yield", "switch"} => call[f] \in IoCall \union {NoCall}
       /\ pc[f] = "close" => call[f] \in ClosingCall

\* One direction of a descriptor is one fiber's.
CallsApart ==
  \A f, g \in Fiber : call[f] \in IoCall /\ call[g] \in IoCall /\ call[f].fd = call[g].fd
                        /\ call[f].event = call[g].event => f = g

\* A fiber is registered for the event of its call.
WaitersCall ==
  \A fd \in Fd, e \in Event : waiter[fd][e] # None =>
    /\ call[waiter[fd][e]] \in IoCall
    /\ call[waiter[fd][e]].fd = fd /\ call[waiter[fd][e]].event = e

\* The timer and the timeout of a call end with the call.
TimersCall ==
  \A f \in Fiber : <<"io", f>> \in DOMAIN timers =>
    call[f] \in IoCall /\ pc[f] \in {"add", "yield", "switch", "woken"}
TimeoutsCall ==
  \A f \in Fiber : call[f] \in IoCall
    \/ /\ \A i \in DOMAIN tasks : tasks[i] # TaskOf("timeout", f)
       /\ \A w \in Worker : /\ running[w] # TaskOf("timeout", f)
                            /\ \A i \in DOMAIN cbs[w] : cbs[w][i] # TaskOf("timeout", f)

\* A fiber that was scheduled starts once.
StartsOnce ==
  \A f \in Fiber : Count(tasks, StartOf(f)) + AboutTo(at, running, StartOf(f))
                     = IF pc[f] = "queued" THEN 1 ELSE 0

\* A fiber that has yielded, or is about to, is woken by one thing, any other by
\* none.
WokenOnce ==
  \A f \in Fiber : Owners(f) = IF state[f] = "READY" \/ pc[f] = "yield" THEN 1 ELSE 0

\* What else TypeOK says.
RestTyped ==
  /\ isStopped \in BOOLEAN /\ panicked \in BOOLEAN /\ idleDone \in [Worker -> BOOLEAN]
  /\ timeLeft \in [Worker -> 0 .. MaxDelay + MaxWait \union {None}]
  /\ ctx \in [Fd -> {None} \union [userNonblock : BOOLEAN,
                                   timeout : [Event -> Delay \union {None}]]]

FiberInv ==
  /\ TasksGood /\ RunningGood /\ CallbacksGood /\ TimersGood /\ EventsGood /\ ReportsGood
  /\ FibersGood /\ CallsGood /\ CallsApart /\ WaitersCall /\ TimersCall /\ TimeoutsCall
  /\ StartsOnce /\ WokenOnce /\ PendingCounts /\ WorkersCount /\ RestTyped

-----------------------------------------------------------------------------
(* With one worker                                                         *)

OneWorker == \A v, w \in Worker : v = w

\* Between epoll_wait and the loop over what it returned nobody changes the events.
ReportsOf(w) ==
  /\ at[w] \notin {"expire", "push", "handle"} => reported[w] = <<>>
  /\ \A i \in DOMAIN reported[w] : reported[w][i].fd # None =>
       /\ reported[w][i].events \subseteq events[reported[w][i].fd]
       /\ \A j \in DOMAIN reported[w] : reported[w][j].fd = reported[w][i].fd => i = j

\* The worker that is done has left nothing behind.
NothingLeft ==
  /\ tasks = <<>> /\ pending = 0 /\ DOMAIN timers \subseteq {User}
  /\ \A f \in Fiber : state[f] = "TERM"
DoneOf(w) ==
  /\ at[w] = "check" /\ timeLeft[w] = None => DOMAIN timers \subseteq {User}
  /\ at[w] = "ask" => pending = 0 /\ DOMAIN timers \subseteq {User}
  /\ idleDone[w] => isStopped /\ at[w] \in {"take", "rest", "ended"} /\ NothingLeft
  /\ at[w] = "ended" => idleDone[w]

OneWorkerInv == ~panicked /\ \A w \in Worker : ReportsOf(w) /\ DoneOf(w)


\* A set of naturals that is not empty has a least element.
LEMMA LeastExists ==
  ASSUME NEW S, S \subseteq Nat, S # {}
  PROVE  \E n \in S : \A m \in S : n <= m
<1>1. \E R : /\ IsWellFoundedOn(R, Nat)
             /\ \A m, n \in Nat : <<m, n>> \in R <=> m < n
  <2>1. \A m, n \in Nat : <<m, n>> \in OpToRel(<, Nat) <=> m < n
    BY Zenon DEF OpToRel
  <2>. QED BY <2>1, NatLessThanWellFounded, Zenon
<1>2. PICK R : /\ IsWellFoundedOn(R, Nat)
               /\ \A m, n \in Nat : <<m, n>> \in R <=> m < n
  BY <1>1, Zenon
<1>3. \E n \in S : \A m \in S : ~ (<<m, n>> \in R)
  <2>1. IsWellFoundedOn(R, Nat) BY <1>2
  <2>. QED BY <2>1, WFMin
<1>4. PICK n \in S : \A m \in S : ~ (<<m, n>> \in R)
  BY <1>3
<1>5. \A m \in S : n <= m
  <2>1. TAKE m \in S
  <2>2. n \in Nat /\ m \in Nat OBVIOUS
  <2>3. ~ (m < n) BY <1>2, <1>4, <2>2, Zenon
  <2>. QED BY <2>2, <2>3
<1>. QED BY <1>5

\* Two sets that differ by at most one element.
LEMMA DifferByOne ==
  ASSUME NEW X, NEW Y, NEW x, IsFiniteSet(X), X \ {x} = Y \ {x}
  PROVE  /\ IsFiniteSet(Y) /\ Cardinality(X) \in Nat /\ Cardinality(Y) \in Nat
         /\ Cardinality(X) + (IF x \in Y THEN 1 ELSE 0)
              = Cardinality(Y) + (IF x \in X THEN 1 ELSE 0)
<1>1. IsFiniteSet(X \ {x})
      /\ Cardinality(X \ {x}) = IF x \in X THEN Cardinality(X) - 1 ELSE Cardinality(X)
  BY FS_RemoveElement
<1>2. IsFiniteSet(Y)
  <2>1. CASE x \in Y
    <3>1. Y = (Y \ {x}) \union {x} BY <2>1
    <3>. QED BY <1>1, <3>1, FS_AddElement
  <2>2. CASE x \notin Y
    <3>1. Y = Y \ {x} BY <2>2
    <3>. QED BY <1>1, <3>1
  <2>. QED BY <2>1, <2>2
<1>3. Cardinality(Y \ {x}) = IF x \in Y THEN Cardinality(Y) - 1 ELSE Cardinality(Y)
  BY <1>2, FS_RemoveElement
<1>4. Cardinality(X) \in Nat /\ Cardinality(Y) \in Nat
  BY <1>2, FS_CardinalityType
<1>. QED BY <1>1, <1>2, <1>3, <1>4

\* A one-to-one image has as many elements.
LEMMA SameSize ==
  ASSUME NEW X, NEW Y, NEW g, IsFiniteSet(X), g \in [X -> Y],
         \A a, b \in X : g[a] = g[b] => a = b,
         \A y \in Y : \E a \in X : g[a] = y
  PROVE  IsFiniteSet(Y) /\ Cardinality(Y) = Cardinality(X)
<1>1. g \in Bijection(X, Y)
  BY DEF Bijection, Injection, Surjection, IsInjective
<1>2. ExistsBijection(X, Y) BY <1>1 DEF ExistsBijection
<1>. QED BY <1>2, FS_Bijection

\* The indices of a sequence that a count is about are finitely many.
LEMMA CountFinite ==
  ASSUME NEW T, NEW s \in Seq(T), NEW S
  PROVE  IsFiniteSet({i \in DOMAIN s : s[i] \in S}) /\ Count(s, S) \in Nat
<1>1. DOMAIN s = 1 .. Len(s) /\ Len(s) \in Nat OBVIOUS
<1>2. IsFiniteSet(DOMAIN s) BY <1>1, FS_Interval
<1>3. {i \in DOMAIN s : s[i] \in S} \in SUBSET DOMAIN s OBVIOUS
<1>. QED BY <1>2, <1>3, FS_Subset, FS_CardinalityType DEF Count

\* Nothing is counted where nothing is of the set.
LEMMA CountNone ==
  ASSUME NEW s, NEW S, \A i \in DOMAIN s : s[i] \notin S
  PROVE  Count(s, S) = 0
<1>1. {i \in DOMAIN s : s[i] \in S} = {} OBVIOUS
<1>. QED BY <1>1, FS_EmptySet DEF Count

\* And the other way round.
LEMMA CountZero ==
  ASSUME NEW T, NEW s \in Seq(T), NEW S, Count(s, S) = 0
  PROVE  \A i \in DOMAIN s : s[i] \notin S
<1>1. IsFiniteSet({i \in DOMAIN s : s[i] \in S}) BY CountFinite
<1>2. {i \in DOMAIN s : s[i] \in S} = {} BY <1>1, FS_EmptySet DEF Count
<1>. QED BY <1>2

\* What is counted once is one element.
LEMMA CountOne ==
  ASSUME NEW s, NEW S, NEW k \in DOMAIN s, \A i \in DOMAIN s : s[i] \in S <=> i = k
  PROVE  Count(s, S) = 1
<1>1. {i \in DOMAIN s : s[i] \in S} = {k} OBVIOUS
<1>. QED BY <1>1, FS_Singleton DEF Count

\* Two sequences with the set's elements in the same places.
LEMMA CountSame ==
  ASSUME NEW s, NEW t, NEW S, DOMAIN s = DOMAIN t,
         \A i \in DOMAIN s : s[i] \in S <=> t[i] \in S
  PROVE  Count(s, S) = Count(t, S)
<1>1. {i \in DOMAIN s : s[i] \in S} = {i \in DOMAIN t : t[i] \in S} OBVIOUS
<1>. QED BY <1>1 DEF Count

\* A sequence that was extended.
LEMMA CountConcat ==
  ASSUME NEW T, NEW s \in Seq(T), NEW t \in Seq(T), NEW S
  PROVE  Count(s \o t, S) = Count(s, S) + Count(t, S)
<1>. DEFINE n == Len(s)
            A == {i \in DOMAIN s : s[i] \in S}
            B == {i \in DOMAIN t : t[i] \in S}
            C == {i \in n + 1 .. n + Len(t) : t[i - n] \in S}
            AB == {i \in DOMAIN (s \o t) : (s \o t)[i] \in S}
<1>1. n \in Nat /\ Len(t) \in Nat /\ DOMAIN s = 1 .. n /\ DOMAIN t = 1 .. Len(t)
      /\ DOMAIN (s \o t) = 1 .. n + Len(t)
  OBVIOUS
<1>2. \A i \in 1 .. n : (s \o t)[i] = s[i]
  OBVIOUS
<1>3. \A i \in n + 1 .. n + Len(t) : (s \o t)[i] = t[i - n]
  OBVIOUS
<1>4. AB = A \union C /\ A \intersect C = {}
  <2>. HIDE DEF n
  <2>. QED BY <1>1, <1>2, <1>3
<1>5. IsFiniteSet(A) /\ IsFiniteSet(B) BY CountFinite
<1>6. IsFiniteSet(C) /\ Cardinality(C) = Cardinality(B)
  <2>. DEFINE g == [i \in B |-> i + n]
  <2>1. g \in [B -> C]
    <3>. HIDE DEF n
    <3>. QED BY <1>1
  <2>2. \A a, b \in B : g[a] = g[b] => a = b
    <3>. HIDE DEF n
    <3>. QED BY <1>1
  <2>3. \A y \in C : \E a \in B : g[a] = y
    <3>. HIDE DEF n
    <3>1. \A y \in C : y - n \in B /\ (y - n) + n = y BY <1>1
    <3>. QED BY <3>1
  <2>. HIDE DEF g, B, C
  <2>. QED BY <1>5, <2>1, <2>2, <2>3, SameSize, SMTT(20)
<1>7. Cardinality(AB) = Cardinality(A) + Cardinality(C)
  <2>. HIDE DEF A, C, AB
  <2>1. Cardinality(A \union C) = Cardinality(A) + Cardinality(C) - Cardinality({})
    BY <1>4, <1>5, <1>6, FS_Union
  <2>2. Cardinality(A) \in Nat /\ Cardinality(C) \in Nat BY <1>5, <1>6, FS_CardinalityType
  <2>. QED BY <1>4, <2>1, <2>2, FS_EmptySet
<1>8. Count(s \o t, S) = Cardinality(AB) /\ Count(s, S) = Cardinality(A)
      /\ Count(t, S) = Cardinality(B)
  BY DEF Count
<1>. HIDE DEF A, B, C, AB
<1>. QED BY <1>6, <1>7, <1>8

\* A sequence that lost its element k.
LEMMA CountRemoved ==
  ASSUME NEW T, NEW s \in Seq(T), NEW k \in 1 .. Len(s), NEW S
  PROVE  /\ RemoveAt(s, k) \in Seq(T)
         /\ \A i \in DOMAIN RemoveAt(s, k) : \E j \in DOMAIN s : RemoveAt(s, k)[i] = s[j]
         /\ Count(RemoveAt(s, k), S) + (IF s[k] \in S THEN 1 ELSE 0) = Count(s, S)
<1>. DEFINE a == SubSeq(s, 1, k - 1)
            b == SubSeq(s, k + 1, Len(s))
            c == <<s[k]>>
<1>0. k \in 1 .. Len(s) /\ Len(s) \in Nat OBVIOUS
<1>1. a \in Seq(T) /\ b \in Seq(T) /\ c \in Seq(T)
  BY <1>0
<1>2. s = (a \o c) \o b
  <2>1. Len(a) = k - 1 /\ Len(b) = Len(s) - k /\ Len(c) = 1 BY <1>0
  <2>2. \A i \in 1 .. k - 1 : a[i] = s[i] BY <1>0
  <2>3. \A i \in 1 .. Len(s) - k : b[i] = s[i + k] BY <1>0
  <2>4. c[1] = s[k] OBVIOUS
  <2>5. a \o c \in Seq(T) /\ Len(a \o c) = k
        /\ \A i \in 1 .. k : (a \o c)[i] = s[i]
    <3>. HIDE DEF a, c
    <3>1. /\ a \o c \in Seq(T) /\ Len(a \o c) = Len(a) + Len(c)
          /\ \A i \in 1 .. Len(a) + Len(c) :
               (a \o c)[i] = IF i <= Len(a) THEN a[i] ELSE c[i - Len(a)]
      BY <1>1, ConcatProperties
    <3>2. Len(a) + Len(c) = k BY <1>0, <2>1
    <3>3. ASSUME NEW i \in 1 .. k PROVE (a \o c)[i] = s[i]
      <4>1. CASE i = k
        <5>1. (a \o c)[i] = c[i - Len(a)] /\ i - Len(a) = 1 BY <1>0, <2>1, <3>1, <4>1
        <5>. QED BY <5>1, <2>4, <4>1
      <4>2. CASE i \in 1 .. k - 1 BY <1>0, <2>1, <2>2, <3>1, <4>2
      <4>3. i = k \/ i \in 1 .. k - 1 BY <1>0
      <4>. QED BY <4>1, <4>2, <4>3, Zenon
    <3>. QED BY <3>1, <3>2, <3>3
  <2>6. (a \o c) \o b \in Seq(T) /\ Len((a \o c) \o b) = Len(s)
    <3>. HIDE DEF a, b, c
    <3>. QED BY <1>0, <1>1, <2>1, <2>5
  <2>7. \A i \in 1 .. Len(s) : ((a \o c) \o b)[i] = s[i]
    <3>. DEFINE d == a \o c
    <3>1. d \in Seq(T) /\ Len(d) = k /\ \A i \in 1 .. k : d[i] = s[i] BY <2>5
    <3>. HIDE DEF a, b, c, d
    <3>2. \A i \in 1 .. Len(s) : (d \o b)[i] = IF i <= k THEN d[i] ELSE b[i - k]
      <4>1. \A i \in 1 .. Len(d) + Len(b) :
              (d \o b)[i] = IF i <= Len(d) THEN d[i] ELSE b[i - Len(d)]
        BY <1>1, <3>1, ConcatProperties
      <4>2. Len(d) + Len(b) = Len(s) BY <1>0, <2>1, <3>1
      <4>. QED BY <3>1, <4>1, <4>2
    <3>3. \A i \in 1 .. Len(s) : i > k => i - k \in 1 .. Len(s) - k /\ (i - k) + k = i
      BY <1>0
    <3>4. ASSUME NEW i \in 1 .. Len(s) PROVE (d \o b)[i] = s[i]
      <4>1. CASE i <= k BY <1>0, <3>1, <3>2, <4>1
      <4>2. CASE i > k
        <5>1. (d \o b)[i] = b[i - k]
          <6>1. i \in Int /\ k \in Int /\ ~(i <= k) BY <1>0, <4>2
          <6>. QED BY <3>2, <6>1
        <5>2. b[i - k] = s[(i - k) + k] BY <3>3, <2>3, <4>2
        <5>. QED BY <5>1, <5>2, <3>3, <4>2
      <4>3. i <= k \/ i > k BY <1>0
      <4>. QED BY <4>1, <4>2, <4>3, Zenon
    <3>. QED BY <3>4 DEF d
  <2>. HIDE DEF a, b, c
  <2>. QED BY <2>6, <2>7, SeqEqual
<1>3. RemoveAt(s, k) = a \o b BY DEF RemoveAt
<1>4. Count(c, S) = IF s[k] \in S THEN 1 ELSE 0
  <2>1. DOMAIN c = {1} /\ c[1] = s[k] OBVIOUS
  <2>. HIDE DEF c
  <2>. QED BY <2>1, CountOne, CountNone
<1>. HIDE DEF a, b, c
<1>5. Count(s, S) = Count(a, S) + Count(c, S) + Count(b, S)
  <2>1. a \o c \in Seq(T) BY <1>1
  <2>2. Count(a \o c, S) = Count(a, S) + Count(c, S) BY <1>1, CountConcat
  <2>3. Count((a \o c) \o b, S) = Count(a \o c, S) + Count(b, S) BY <1>1, <2>1, CountConcat
  <2>. QED BY <1>2, <2>2, <2>3
<1>6. Count(a \o b, S) = Count(a, S) + Count(b, S) BY <1>1, CountConcat
<1>7. Count(a, S) \in Nat /\ Count(b, S) \in Nat BY <1>1, CountFinite
<1>8. \A i \in DOMAIN (a \o b) : \E j \in DOMAIN s : (a \o b)[i] = s[j]
  <2>1. a \o c \in Seq(T) /\ DOMAIN a = 1 .. Len(a) /\ DOMAIN s = 1 .. Len(s)
        /\ Len(a \o c) = Len(a) + 1 /\ Len(s) = Len(a) + 1 + Len(b)
        /\ Len(a) \in Nat /\ Len(b) \in Nat /\ DOMAIN (a \o b) = 1 .. Len(a) + Len(b)
    <3>1. Len(c) = 1 BY DEF c
    <3>2. a \o c \in Seq(T) /\ Len(a \o c) = Len(a) + 1 
      <4>1. a \o c \in Seq(T) /\ Len(a \o c) = Len(a) + Len(c) BY <1>1, ConcatProperties
      <4>. QED BY <3>1, <4>1
    <3>3. Len((a \o c) \o b) = Len(a \o c) + Len(b)
      <4>1. \A x \in Seq(T) : Len(x \o b) = Len(x) + Len(b) BY <1>1, ConcatProperties
      <4>. QED BY <3>2, <4>1
    <3>4. DOMAIN (a \o b) = 1 .. Len(a) + Len(b) BY <1>1
    <3>. QED BY <1>1, <1>2, <3>2, <3>3, <3>4
  <2>2. \A i \in 1 .. Len(a) : (a \o b)[i] = a[i] /\ s[i] = a[i] BY <1>1, <1>2, <2>1
  <2>3. \A i \in 1 .. Len(b) : (a \o b)[Len(a) + i] = b[i] /\ s[Len(a) + 1 + i] = b[i]
    BY <1>1, <1>2, <2>1
  <2>4. \A i \in 1 .. Len(a) + Len(b) : i > Len(a) =>
          i - Len(a) \in 1 .. Len(b) /\ Len(a) + (i - Len(a)) = i
    BY <2>1
  <2>5. ASSUME NEW i \in 1 .. Len(a) + Len(b)
        PROVE  \E j \in DOMAIN s : (a \o b)[i] = s[j]
    <3>1. CASE i <= Len(a) BY <2>1, <2>2, <3>1
    <3>2. CASE i > Len(a)
      <4>1. PICK m \in 1 .. Len(b) : Len(a) + m = i BY <2>4, <3>2
      <4>2. (a \o b)[i] = s[Len(a) + 1 + m] BY <4>1, <2>3
      <4>3. Len(a) + 1 + m \in DOMAIN s BY <2>1
      <4>. QED BY <4>2, <4>3
    <3>. QED BY <2>1, <3>1, <3>2
  <2>. QED BY <2>1, <2>5
<1>9. a \o b \in Seq(T) BY <1>1
<1>. QED BY <1>3, <1>4, <1>5, <1>6, <1>7, <1>8, <1>9, SMTT(20)

\* A worker about to run a task of S, as a number.
AtOne(where, what, w, S) == IF where[w] = "resume" /\ what[w] \in S THEN 1 ELSE 0

\* Nothing changes for the workers about to run a task of S.
LEMMA AboutToSame ==
  ASSUME NEW a1, NEW r1, NEW a2, NEW r2, NEW S,
         \A w \in Worker : (a1[w] = "resume" /\ r1[w] \in S)
                             <=> (a2[w] = "resume" /\ r2[w] \in S)
  PROVE  AboutTo(a1, r1, S) = AboutTo(a2, r2, S)
<1>1. {w \in Worker : a1[w] = "resume" /\ r1[w] \in S}
      = {w \in Worker : a2[w] = "resume" /\ r2[w] \in S}
  OBVIOUS
<1>. QED BY <1>1 DEF AboutTo

\* It changes for worker w only.
LEMMA AboutToMoves ==
  ASSUME NEW a1, NEW r1, NEW a2, NEW r2, NEW S, NEW w \in Worker,
         \A v \in Worker : v # w => a1[v] = a2[v] /\ r1[v] = r2[v]
  PROVE  AboutTo(a1, r1, S) + AtOne(a2, r2, w, S) = AboutTo(a2, r2, S) + AtOne(a1, r1, w, S)
<1>. DEFINE X == {v \in Worker : a1[v] = "resume" /\ r1[v] \in S}
            Y == {v \in Worker : a2[v] = "resume" /\ r2[v] \in S}
<1>1. IsFiniteSet(X)
  <2>1. X \in SUBSET Worker OBVIOUS
  <2>. QED BY <2>1, RuntimeAssumption, FS_Subset
<1>2. X \ {w} = Y \ {w} OBVIOUS
<1>3. (w \in X <=> a1[w] = "resume" /\ r1[w] \in S)
      /\ (w \in Y <=> a2[w] = "resume" /\ r2[w] \in S)
  OBVIOUS
<1>4. AboutTo(a1, r1, S) = Cardinality(X) /\ AboutTo(a2, r2, S) = Cardinality(Y)
  BY DEF AboutTo
<1>. HIDE DEF X, Y
<1>5. /\ Cardinality(X) \in Nat /\ Cardinality(Y) \in Nat
      /\ Cardinality(X) + (IF w \in Y THEN 1 ELSE 0) = Cardinality(Y) + (IF w \in X THEN 1 ELSE 0)
  BY <1>1, <1>2, DifferByOne
<1>. QED BY <1>3, <1>4, <1>5 DEF AtOne

\* The workers about to run a task of S are finitely many; one of them counts.
LEMMA AboutToNat ==
  ASSUME NEW a, NEW r, NEW S
  PROVE  /\ AboutTo(a, r, S) \in Nat
         /\ \A w \in Worker : a[w] = "resume" /\ r[w] \in S => AboutTo(a, r, S) >= 1
<1>. DEFINE X == {v \in Worker : a[v] = "resume" /\ r[v] \in S}
<1>1. IsFiniteSet(X)
  <2>1. X \in SUBSET Worker OBVIOUS
  <2>. QED BY <2>1, RuntimeAssumption, FS_Subset
<1>2. Cardinality(X) \in Nat BY <1>1, FS_CardinalityType
<1>3. ASSUME NEW w \in X PROVE Cardinality(X) >= 1
  <2>1. X # {} BY <1>3
  <2>. HIDE DEF X
  <2>2. Cardinality(X) # 0 BY <1>1, <2>1, FS_EmptySet
  <2>. QED BY <1>2, <2>2
<1>4. AboutTo(a, r, S) = Cardinality(X) BY DEF AboutTo
<1>5. \A w \in Worker : a[w] = "resume" /\ r[w] \in S => w \in X OBVIOUS
<1>. HIDE DEF X
<1>. QED BY <1>2, <1>3, <1>4, <1>5

\* A worker that goes from one place to another.
LEMMA WorkersMove ==
  ASSUME NEW a1, NEW a2, NEW P, NEW w \in Worker,
         \A v \in Worker : v # w => a1[v] = a2[v]
  PROVE  /\ Workers(a1, P) \in Nat /\ Workers(a2, P) \in Nat
         /\ Workers(a1, P) + (IF a2[w] \in P THEN 1 ELSE 0)
              = Workers(a2, P) + (IF a1[w] \in P THEN 1 ELSE 0)
<1>. DEFINE X == {v \in Worker : a1[v] \in P}
            Y == {v \in Worker : a2[v] \in P}
<1>1. IsFiniteSet(X)
  <2>1. X \in SUBSET Worker OBVIOUS
  <2>. QED BY <2>1, RuntimeAssumption, FS_Subset
<1>2. X \ {w} = Y \ {w} OBVIOUS
<1>3. (w \in X <=> a1[w] \in P) /\ (w \in Y <=> a2[w] \in P) OBVIOUS
<1>4. Workers(a1, P) = Cardinality(X) /\ Workers(a2, P) = Cardinality(Y) BY DEF Workers
<1>. HIDE DEF X, Y
<1>5. /\ Cardinality(X) \in Nat /\ Cardinality(Y) \in Nat
      /\ Cardinality(X) + (IF w \in Y THEN 1 ELSE 0) = Cardinality(Y) + (IF w \in X THEN 1 ELSE 0)
  BY <1>1, <1>2, DifferByOne
<1>. QED BY <1>3, <1>4, <1>5

\* The expired callbacks are finitely many.
LEMMA CallbacksFinite ==
  ASSUME NEW T, NEW c, \A w \in Worker : c[w] \in Seq(T), NEW S
  PROVE  /\ IsFiniteSet({p \in CallbacksOf(c) : c[p[1]][p[2]] \in S})
         /\ Expired(c, S) \in Nat
<1>. DEFINE X == {{w} \X DOMAIN c[w] : w \in Worker}
<1>1. ASSUME NEW w \in Worker PROVE IsFiniteSet({w} \X DOMAIN c[w])
  <2>1. DOMAIN c[w] = 1 .. Len(c[w]) /\ Len(c[w]) \in Nat OBVIOUS
  <2>2. IsFiniteSet(DOMAIN c[w]) BY <2>1, FS_Interval
  <2>. QED BY <2>2, FS_Singleton, FS_Product
<1>2. \A Y \in X : IsFiniteSet(Y) BY <1>1
<1>3. IsFiniteSet(X)
  <2>. DEFINE g == [w \in Worker |-> {w} \X DOMAIN c[w]]
  <2>1. g \in Surjection(Worker, X) BY DEF Surjection
  <2>. HIDE DEF g, X
  <2>. QED BY <2>1, RuntimeAssumption, FS_Surjection
<1>4. IsFiniteSet(CallbacksOf(c))
  <2>1. CallbacksOf(c) = UNION X BY DEF CallbacksOf
  <2>. HIDE DEF X
  <2>. QED BY <1>2, <1>3, <2>1, FS_UNION
<1>5. {p \in CallbacksOf(c) : c[p[1]][p[2]] \in S} \in SUBSET CallbacksOf(c) OBVIOUS
<1>. HIDE DEF X
<1>. QED BY <1>4, <1>5, FS_Subset, FS_CardinalityType DEF Expired

\* Worker w has others.
LEMMA CallbacksMove ==
  ASSUME NEW T, NEW c, NEW d, \A v \in Worker : c[v] \in Seq(T) /\ d[v] \in Seq(T),
         NEW w \in Worker, \A v \in Worker : v # w => c[v] = d[v], NEW S
  PROVE  Expired(c, S) + Count(d[w], S) = Expired(d, S) + Count(c[w], S)
<1>. DEFINE In(x) == {p \in CallbacksOf(x) : x[p[1]][p[2]] \in S}
            Of(x) == {p \in In(x) : p[1] = w}
            Rest_ == {p \in In(c) : p[1] # w}
<1>1. \A v, i : (<<v, i>> \in CallbacksOf(c) <=> v \in Worker /\ i \in DOMAIN c[v])
              /\ (<<v, i>> \in CallbacksOf(d) <=> v \in Worker /\ i \in DOMAIN d[v])
  BY DEF CallbacksOf
<1>2. \A p : p \in CallbacksOf(c) \/ p \in CallbacksOf(d) => p = <<p[1], p[2]>>
  BY DEF CallbacksOf
<1>3. Rest_ = {p \in In(d) : p[1] # w}
  <2>1. ASSUME NEW p, p \in In(c), p[1] # w PROVE p \in In(d)
    <3>1. p = <<p[1], p[2]>> /\ p[1] \in Worker /\ p[2] \in DOMAIN c[p[1]] BY <1>1, <1>2, <2>1
    <3>2. c[p[1]] = d[p[1]] BY <2>1, <3>1
    <3>3. <<p[1], p[2]>> \in CallbacksOf(d) BY <1>1, <3>1, <3>2
    <3>. QED BY <2>1, <3>1, <3>2, <3>3
  <2>2. ASSUME NEW p, p \in In(d), p[1] # w PROVE p \in In(c)
    <3>1. p = <<p[1], p[2]>> /\ p[1] \in Worker /\ p[2] \in DOMAIN d[p[1]] BY <1>1, <1>2, <2>2
    <3>2. c[p[1]] = d[p[1]] BY <2>2, <3>1
    <3>3. <<p[1], p[2]>> \in CallbacksOf(c) BY <1>1, <3>1, <3>2
    <3>. QED BY <2>2, <3>1, <3>2, <3>3
  <2>. HIDE DEF In
  <2>. QED BY <2>1, <2>2
<1>4. IsFiniteSet(In(c)) /\ IsFiniteSet(In(d)) BY CallbacksFinite
<1>5. ASSUME NEW x, \A v, i : <<v, i>> \in CallbacksOf(x) <=> v \in Worker /\ i \in DOMAIN x[v],
             \A p : p \in CallbacksOf(x) => p = <<p[1], p[2]>>, x[w] \in Seq(T)
      PROVE  IsFiniteSet(Of(x)) /\ Cardinality(Of(x)) = Count(x[w], S)
  <2>. DEFINE B == {i \in DOMAIN x[w] : x[w][i] \in S}
              g == [i \in B |-> <<w, i>>]
  <2>1. IsFiniteSet(B) BY <1>5, CountFinite
  <2>2. g \in [B -> Of(x)] BY <1>5
  <2>3. \A a, b \in B : g[a] = g[b] => a = b OBVIOUS
  <2>4. ASSUME NEW y \in Of(x) PROVE \E a \in B : g[a] = y
    <3>1. y = <<w, y[2]>> /\ y[2] \in B BY <1>5
    <3>. QED BY <3>1
  <2>5. Cardinality(B) = Count(x[w], S) BY DEF Count
  <2>. HIDE DEF B, g, Of
  <2>. QED BY <2>1, <2>2, <2>3, <2>4, <2>5, SameSize
<1>6. IsFiniteSet(Of(c)) /\ Cardinality(Of(c)) = Count(c[w], S)
  <2>. HIDE DEF Of
  <2>. QED BY <1>1, <1>2, <1>5
<1>7. IsFiniteSet(Of(d)) /\ Cardinality(Of(d)) = Count(d[w], S)
  <2>. HIDE DEF Of
  <2>. QED BY <1>1, <1>2, <1>5
<1>8. IsFiniteSet(Rest_)
  <2>1. Rest_ \in SUBSET In(c) OBVIOUS
  <2>. HIDE DEF In, Rest_
  <2>. QED BY <1>4, <2>1, FS_Subset
<1>9. In(c) = Of(c) \union Rest_ /\ Of(c) \intersect Rest_ = {}
  <2>. HIDE DEF In
  <2>. QED OBVIOUS
<1>10. In(d) = Of(d) \union Rest_ /\ Of(d) \intersect Rest_ = {}
  <2>. HIDE DEF In
  <2>. QED BY <1>3
<1>11. Expired(c, S) = Cardinality(In(c)) /\ Expired(d, S) = Cardinality(In(d))
  BY DEF Expired
<1>. HIDE DEF In, Of, Rest_
<1>12. Cardinality(In(c)) = Cardinality(Of(c)) + Cardinality(Rest_) - Cardinality({})
  BY <1>6, <1>8, <1>9, FS_Union
<1>13. Cardinality(In(d)) = Cardinality(Of(d)) + Cardinality(Rest_) - Cardinality({})
  BY <1>7, <1>8, <1>10, FS_Union
<1>14. Cardinality(Of(c)) \in Nat /\ Cardinality(Of(d)) \in Nat /\ Cardinality(Rest_) \in Nat
  BY <1>6, <1>7, <1>8, FS_CardinalityType
<1>. QED BY <1>6, <1>7, <1>11, <1>12, <1>13, <1>14, FS_EmptySet

\* The callbacks of S stay where they are.
LEMMA CallbacksSame ==
  ASSUME NEW c, NEW d, NEW S, \A w \in Worker : DOMAIN c[w] = DOMAIN d[w],
         \A w \in Worker : \A i \in DOMAIN c[w] : c[w][i] \in S <=> d[w][i] \in S
  PROVE  Expired(c, S) = Expired(d, S)
<1>1. CallbacksOf(c) = CallbacksOf(d) BY DEF CallbacksOf
<1>2. \A p \in CallbacksOf(c) : p[1] \in Worker /\ p[2] \in DOMAIN c[p[1]] BY DEF CallbacksOf
<1>3. {p \in CallbacksOf(c) : c[p[1]][p[2]] \in S} = {p \in CallbacksOf(d) : d[p[1]][p[2]] \in S}
  BY <1>1, <1>2
<1>. QED BY <1>3 DEF Expired

\* A callback of S counts.
LEMMA CallbacksZero ==
  ASSUME NEW T, NEW c, \A w \in Worker : c[w] \in Seq(T), NEW S, Expired(c, S) = 0
  PROVE  \A w \in Worker : \A i \in DOMAIN c[w] : c[w][i] \notin S
<1>1. {p \in CallbacksOf(c) : c[p[1]][p[2]] \in S} = {}
  <2>1. IsFiniteSet({p \in CallbacksOf(c) : c[p[1]][p[2]] \in S}) BY CallbacksFinite
  <2>. QED BY <2>1, FS_EmptySet DEF Expired
<1>2. ASSUME NEW w \in Worker, NEW i \in DOMAIN c[w] PROVE c[w][i] \notin S
  <2>1. <<w, i>> \in CallbacksOf(c) BY DEF CallbacksOf
  <2>. QED BY <1>1, <2>1
<1>. QED BY <1>2

\* The events are finitely many; one that fiber f waits for counts.
LEMMA EventsFinite ==
  /\ IsFiniteSet(Fd \X Event)
  /\ \A S \in SUBSET (Fd \X Event) : IsFiniteSet(S) /\ Cardinality(S) \in Nat
<1>1. IsFiniteSet(Event)
  <2>1. IsFiniteSet({READ}) BY FS_Singleton
  <2>2. IsFiniteSet({READ} \union {WRITE}) BY <2>1, FS_AddElement
  <2>. QED BY <2>2 DEF Event
<1>2. IsFiniteSet(Fd \X Event) BY <1>1, RuntimeAssumption, FS_Product
<1>. QED BY <1>2, FS_Subset, FS_CardinalityType

\* A fiber registered nowhere.
LEMMA WaitedForZero ==
  ASSUME NEW who, NEW f, WaitedFor(who, f) = 0
  PROVE  \A fd \in Fd, e \in Event : who[fd][e] # f
<1>. DEFINE X == {p \in Fd \X Event : who[p[1]][p[2]] = f}
<1>1. IsFiniteSet(X)
  <2>1. X \in SUBSET (Fd \X Event) OBVIOUS
  <2>. QED BY <2>1, EventsFinite
<1>2. Cardinality(X) = 0 BY DEF WaitedFor
<1>3. X = {}
  <2>. HIDE DEF X
  <2>. QED BY <1>1, <1>2, FS_EmptySet
<1>4. ASSUME NEW fd \in Fd, NEW e \in Event PROVE who[fd][e] # f
  <2>1. <<fd, e>> \in Fd \X Event /\ <<fd, e>>[1] = fd /\ <<fd, e>>[2] = e OBVIOUS
  <2>. QED BY <1>3, <2>1
<1>. QED BY <1>4

\* What InOrder returns: the events of es, each once.
LEMMA InOrderOf ==
  ASSUME NEW es \in SUBSET Event
  PROVE  /\ InOrder(es) \in Seq(Event) /\ \A i \in DOMAIN InOrder(es) : InOrder(es)[i] \in es
         /\ \A i, j \in DOMAIN InOrder(es) : InOrder(es)[i] = InOrder(es)[j] => i = j
         /\ \A e \in es : \E i \in DOMAIN InOrder(es) : InOrder(es)[i] = e
         /\ IsFiniteSet(es)
<1>1. READ # WRITE BY DEF READ, WRITE
<1>2. es = {} \/ es = {READ} \/ es = {WRITE} \/ es = {READ, WRITE} BY DEF Event
<1>. DEFINE Result(s) ==
       /\ s \in Seq(Event) /\ \A i \in DOMAIN s : s[i] \in es
       /\ \A i, j \in DOMAIN s : s[i] = s[j] => i = j
       /\ \A e \in es : \E i \in DOMAIN s : s[i] = e
       /\ IsFiniteSet(es)
<1>3. ASSUME NEW e \in Event
      PROVE  /\ <<e>> \in Seq(Event) /\ <<e>> \o <<>> = <<e>> /\ <<>> \o <<e>> = <<e>>
             /\ DOMAIN <<e>> = {1} /\ <<e>>[1] = e
  <2>1. <<e>> \in Seq(Event) OBVIOUS
  <2>. QED BY <2>1, ConcatEmptySeq
<1>4. CASE es = {}
  <2>1. InOrder(es) = <<>> BY <1>4 DEF InOrder
  <2>2. DOMAIN <<>> = {} /\ <<>> \in Seq(Event) OBVIOUS
  <2>3. Result(<<>>) BY <1>4, <2>2, FS_EmptySet
  <2>. QED BY <2>1, <2>3
<1>5. CASE \E e \in Event : es = {e}
  <2>1. PICK e \in Event : es = {e} BY <1>5
  <2>2. InOrder(es) = <<e>>
    <3>1. CASE e = READ
      <4>1. InOrder(es) = <<READ>> \o <<>> BY <1>1, <2>1, <3>1 DEF InOrder
      <4>. QED BY <1>3, <3>1, <4>1
    <3>2. CASE e = WRITE
      <4>1. InOrder(es) = <<>> \o <<WRITE>> BY <1>1, <2>1, <3>2 DEF InOrder
      <4>. QED BY <1>3, <3>2, <4>1
    <3>. QED BY <3>1, <3>2 DEF Event
  <2>3. Result(<<e>>) BY <1>3, <2>1, FS_Singleton
  <2>. QED BY <2>2, <2>3
<1>6. CASE es = {READ, WRITE}
  <2>1. InOrder(es) = <<READ>> \o <<WRITE>> BY <1>6 DEF InOrder
  <2>2. <<READ>> \o <<WRITE>> = <<READ, WRITE>>
    <3>. DEFINE s == <<READ>> \o <<WRITE>>
    <3>1. <<READ>> \in Seq(Event) /\ <<WRITE>> \in Seq(Event) BY <1>3 DEF Event
    <3>2. Len(<<READ>>) = 1 /\ Len(<<WRITE>>) = 1 /\ <<READ>>[1] = READ /\ <<WRITE>>[1] = WRITE
      OBVIOUS
    <3>3. s \in Seq(Event) /\ Len(s) = 2 /\ s[1] = READ /\ s[2] = WRITE
      BY <3>1, <3>2, ConcatProperties
    <3>4. <<READ, WRITE>> \in Seq(Event) /\ Len(<<READ, WRITE>>) = 2
          /\ <<READ, WRITE>>[1] = READ /\ <<READ, WRITE>>[2] = WRITE
      BY DEF Event
    <3>. HIDE DEF s
    <3>5. \A i \in 1 .. Len(s) : s[i] = <<READ, WRITE>>[i] BY <3>3, <3>4
    <3>6. s = <<READ, WRITE>> BY <3>3, <3>4, <3>5, SeqEqual
    <3>. QED BY <3>6 DEF s
  <2>3. es = {READ} \union {WRITE} BY <1>6
  <2>4. IsFiniteSet(es) BY <2>3, FS_Singleton, FS_AddElement
  <2>5. DOMAIN <<READ, WRITE>> = {1, 2} /\ <<READ, WRITE>>[1] = READ
        /\ <<READ, WRITE>>[2] = WRITE /\ <<READ, WRITE>> \in Seq(Event)
    BY DEF Event
  <2>6. Result(<<READ, WRITE>>)
    <3>. DEFINE s == <<READ, WRITE>>
    <3>. HIDE DEF s
    <3>1. DOMAIN s = {1, 2} /\ s[1] = READ /\ s[2] = WRITE /\ s \in Seq(Event)
      BY <2>5 DEF s
    <3>2. Result(s) BY <1>1, <1>6, <2>4, <3>1
    <3>. QED BY <3>2 DEF s
  <2>. QED BY <2>1, <2>2, <2>6
<1>. QED BY <1>2, <1>4, <1>5, <1>6 DEF Event

\* The tasks of the fibers that wait for the events of es.
Tasked(who, es) == [i \in DOMAIN InOrder(es) |-> TaskOf("fiber", who[InOrder(es)[i]])]

\* The tasks of the fibers that wait for the events es.
LEMMA TaskedFibers ==
  ASSUME NEW es \in SUBSET Event, NEW who, \A e \in es : who[e] \in Fiber
  PROVE  /\ Tasked(who, es) \in Seq(Task)
         /\ \A i \in DOMAIN Tasked(who, es) :
              GoodTask(Tasked(who, es)[i]) /\ Tasked(who, es)[i].fn = "fiber"
         /\ \A f \in Fiber :
              Count(Tasked(who, es), Resuming(f)) = Cardinality({e \in es : who[e] = f})
<1>. DEFINE s == InOrder(es)  t == Tasked(who, es)
<1>1. s \in Seq(Event) /\ DOMAIN s = 1 .. Len(s) /\ Len(s) \in Nat
      /\ \A i \in DOMAIN s : s[i] \in es
  BY InOrderOf
<1>2. DOMAIN t = DOMAIN s /\ \A i \in DOMAIN s : t[i] = TaskOf("fiber", who[s[i]])
  BY DEF Tasked
<1>3. \A i \in DOMAIN s : t[i] \in Task /\ t[i].fn = "fiber" /\ t[i].fiber = who[s[i]]
                          /\ t[i].fiber \in Fiber /\ t[i].thread = None
  <2>. HIDE DEF s, t
  <2>. QED BY <1>1, <1>2 DEF TaskOf, Task, Fn
<1>4. t \in Seq(Task)
  <2>1. t = [i \in 1 .. Len(s) |-> TaskOf("fiber", who[s[i]])] BY <1>1 DEF Tasked
  <2>. HIDE DEF s, t
  <2>. QED BY <1>1, <1>2, <1>3, <2>1
<1>5. ASSUME NEW f \in Fiber PROVE Count(t, Resuming(f)) = Cardinality({e \in es : who[e] = f})
  <2>. DEFINE X == {i \in DOMAIN t : t[i] \in Resuming(f)}
              Y == {e \in es : who[e] = f}
              g == [i \in X |-> s[i]]
  <2>1. \A i \in DOMAIN t : t[i] \in Resuming(f) <=> who[s[i]] = f
    <3>. HIDE DEF s, t
    <3>. QED BY <1>2, <1>3 DEF Resuming, Resumes
  <2>2. IsFiniteSet(X) BY <1>4, CountFinite
  <2>3. g \in [X -> Y]
    <3>. HIDE DEF s, t
    <3>. QED BY <1>1, <1>2, <2>1
  <2>4. \A a, b \in X : g[a] = g[b] => a = b
    <3>1. \A a, b \in DOMAIN s : s[a] = s[b] => a = b BY InOrderOf
    <3>2. X \subseteq DOMAIN s BY <1>2
    <3>3. \A a \in X : g[a] = s[a] OBVIOUS
    <3>. HIDE DEF s, t, X, g
    <3>. QED BY <3>1, <3>2, <3>3
  <2>5. \A y \in Y : \E a \in X : g[a] = y
    <3>1. \A e \in es : \E i \in DOMAIN s : s[i] = e BY InOrderOf
    <3>2. ASSUME NEW y \in Y PROVE \E a \in X : g[a] = y
      <4>1. PICK i \in DOMAIN s : s[i] = y BY <3>1
      <4>2. i \in X BY <1>2, <2>1, <4>1
      <4>3. g[i] = y BY <4>1, <4>2
      <4>. QED BY <4>2, <4>3
    <3>. QED BY <3>2
  <2>6. Count(t, Resuming(f)) = Cardinality(X) BY DEF Count
  <2>. HIDE DEF X, Y, g, t
  <2>7. Cardinality(Y) = Cardinality(X) BY <2>2, <2>3, <2>4, <2>5, SameSize
  <2>. QED BY <2>6, <2>7 DEF Y
<1>. HIDE DEF s, t
<1>6. \A i \in DOMAIN t : GoodTask(t[i]) /\ t[i].fn = "fiber"
  BY <1>2, <1>3 DEF GoodTask
<1>. QED BY <1>4, <1>5, <1>6 DEF t

\* The events of a descriptor that are taken out of a set of events.
LEMMA EventsTaken ==
  ASSUME NEW X, X \subseteq Fd \X Event, NEW fd \in Fd, NEW es,
         \A e \in es : <<fd, e>> \in X
  PROVE  Cardinality(X \ ({fd} \X es)) + Cardinality(es) = Cardinality(X)
<1>. DEFINE P == {fd} \X es
<1>1. P \subseteq X OBVIOUS
<1>2. X \in SUBSET (Fd \X Event) /\ P \in SUBSET (Fd \X Event) BY <1>1
<1>3. IsFiniteSet(X) /\ IsFiniteSet(P) BY <1>2, EventsFinite
<1>4. Cardinality(X \ P) = Cardinality(X) - Cardinality(P)
  <2>1. X \intersect P = P BY <1>1
  <2>. HIDE DEF P
  <2>2. Cardinality(X \ P) = Cardinality(X) - Cardinality(X \intersect P) BY <1>3, FS_Difference
  <2>. QED BY <2>1, <2>2
<1>5. Cardinality(P) = Cardinality(es)
  <2>. DEFINE g == [p \in P |-> p[2]]
  <2>1. g \in [P -> es] OBVIOUS
  <2>2. \A a, b \in P : g[a] = g[b] => a = b OBVIOUS
  <2>3. \A y \in es : \E a \in P : g[a] = y
    <3>1. \A y \in es : <<fd, y>> \in P /\ g[<<fd, y>>] = y OBVIOUS
    <3>. QED BY <3>1
  <2>. HIDE DEF P, g
  <2>. QED BY <1>3, <2>1, <2>2, <2>3, SameSize
<1>6. Cardinality(X) \in Nat /\ Cardinality(P) \in Nat BY <1>3, FS_CardinalityType
<1>. HIDE DEF P
<1>7. Cardinality(X \ P) + Cardinality(es) = Cardinality(X) BY <1>4, <1>5, <1>6
<1>. QED BY <1>7 DEF P

-----------------------------------------------------------------------------
(* What the helpers of the model do to the parts of the invariant          *)

\* Facts about constants that many steps need.
LEMMA Distinct ==
  /\ None \notin Fiber /\ None \notin Fd /\ None \notin Event /\ None \notin Worker
  /\ None \notin Nat /\ READ \in Event /\ WRITE \in Event
  /\ \A f \in Fiber : <<"sleep", f>> # User /\ <<"io", f>> # User
  /\ \A f, g \in Fiber : <<"sleep", f>> # <<"io", g>>
  /\ \A f, g \in Fiber : (<<"io", f>> = <<"io", g>> => f = g)
                         /\ (<<"sleep", f>> = <<"sleep", g>> => f = g)
BY RuntimeAssumption DEF User, Event

\* The tasks a program and a timer make.
LEMMA TaskOfGood ==
  /\ \A f \in Fiber, fn \in {"fiber", "body", "wake", "timeout"} :
       /\ GoodTask(TaskOf(fn, f)) /\ TaskOf(fn, f).fn = fn /\ TaskOf(fn, f).fiber = f
       /\ TaskOf(fn, f).thread = None
  /\ GoodTask(TaskOf("user", None)) /\ TaskOf("user", None).fn = "user"
BY DEF GoodTask, TaskOf, Task, Fn

\* The tasks that were pushed.
LEMMA PushedTasks ==
  ASSUME TasksGood, NEW ts \in Seq(Task), \A i \in DOMAIN ts : GoodTask(ts[i]),
         tasks' = tasks \o ts
  PROVE  /\ TasksGood'
         /\ \A S : Count(tasks, S)' = Count(tasks, S) + Count(ts, S)
         /\ \A x : (\A i \in DOMAIN tasks : tasks[i] # x) /\ (\A i \in DOMAIN ts : ts[i] # x)
                     => (\A i \in DOMAIN tasks' : tasks'[i] # x)
<1>1. tasks \in Seq(Task) BY DEF TasksGood
<1>2. /\ tasks' \in Seq(Task) /\ Len(tasks') = Len(tasks) + Len(ts)
      /\ \A i \in 1 .. Len(tasks) + Len(ts) :
           tasks'[i] = IF i <= Len(tasks) THEN tasks[i] ELSE ts[i - Len(tasks)]
  BY <1>1, ConcatProperties
<1>3. DOMAIN tasks = 1 .. Len(tasks) /\ DOMAIN ts = 1 .. Len(ts) /\ DOMAIN tasks' = 1 .. Len(tasks')
      /\ Len(tasks) \in Nat /\ Len(ts) \in Nat
  BY <1>1, <1>2
<1>4. \A i \in DOMAIN tasks' : \/ i \in DOMAIN tasks /\ tasks'[i] = tasks[i]
                               \/ i - Len(tasks) \in DOMAIN ts /\ tasks'[i] = ts[i - Len(tasks)]
  BY <1>2, <1>3
<1>5. TasksGood' BY <1>2, <1>4 DEF TasksGood
<1>6. ASSUME NEW S PROVE Count(tasks', S) = Count(tasks, S) + Count(ts, S)
  BY <1>1, CountConcat
<1>7. ASSUME NEW x, \A i \in DOMAIN tasks : tasks[i] # x, \A i \in DOMAIN ts : ts[i] # x
      PROVE  \A i \in DOMAIN tasks' : tasks'[i] # x
  BY <1>4, <1>7
<1>. QED BY <1>5, <1>6, <1>7

\* triggerEvent makes the fibers it takes out of the events into tasks.
LEMMA TriggeredMoves ==
  ASSUME TasksGood, EventsGood, PendingCounts, NEW fd \in Fd, NEW es \in SUBSET Event,
         es \subseteq events[fd], Triggered(fd, es)
  PROVE  /\ TasksGood' /\ EventsGood' /\ PendingCounts'
         /\ \A f \in Fiber :
              /\ Count(tasks, Resuming(f))' + WaitedFor(waiter, f)'
                   = Count(tasks, Resuming(f)) + WaitedFor(waiter, f)
              /\ Count(tasks, StartOf(f))' = Count(tasks, StartOf(f))
              /\ (\A i \in DOMAIN tasks : tasks[i] # TaskOf("timeout", f))
                   => (\A i \in DOMAIN tasks' : tasks'[i] # TaskOf("timeout", f))
         /\ \A g \in Fd, e \in Event : waiter'[g][e] # None => waiter'[g][e] = waiter[g][e]
         /\ \A g \in Fd : g # fd => events'[g] = events[g]
         /\ events'[fd] = events[fd] \ es /\ pending' = pending - Cardinality(es)
<1>. DEFINE ts == Tasked(waiter[fd], es)
<1>1. \A e \in es : e \in Event /\ waiter[fd][e] \in Fiber
  BY DEF EventsGood
<1>2. /\ ts \in Seq(Task) /\ \A i \in DOMAIN ts : GoodTask(ts[i]) /\ ts[i].fn = "fiber"
      /\ \A f \in Fiber : Count(ts, Resuming(f)) = Cardinality({e \in es : waiter[fd][e] = f})
  <2>1. PICK who : who = waiter[fd] OBVIOUS
  <2>2. \A e \in es : who[e] \in Fiber BY <1>1, <2>1
  <2>. QED BY <2>1, <2>2, TaskedFibers
<1>3. tasks' = tasks \o ts BY DEF Triggered, Pushed, Tasked
<1>. HIDE DEF ts
<1>4. PICK tt : tt = ts OBVIOUS
<1>5. /\ TasksGood'
      /\ \A S : Count(tasks, S)' = Count(tasks, S) + Count(ts, S)
      /\ \A x : (\A i \in DOMAIN tasks : tasks[i] # x) /\ (\A i \in DOMAIN ts : ts[i] # x)
                  => (\A i \in DOMAIN tasks' : tasks'[i] # x)
  <2>1. tt \in Seq(Task) /\ (\A i \in DOMAIN tt : GoodTask(tt[i])) /\ tasks' = tasks \o tt
    BY <1>2, <1>3, <1>4
  <2>2. /\ TasksGood'
        /\ \A S : Count(tasks, S)' = Count(tasks, S) + Count(tt, S)
        /\ \A x : (\A i \in DOMAIN tasks : tasks[i] # x) /\ (\A i \in DOMAIN tt : tt[i] # x)
                    => (\A i \in DOMAIN tasks' : tasks'[i] # x)
    BY <2>1, PushedTasks
  <2>. QED BY <1>4, <2>2
<1>6. /\ waiter' = [waiter EXCEPT ![fd] = [e \in Event |-> IF e \in es THEN None ELSE @[e]]]
      /\ events' = [events EXCEPT ![fd] = @ \ es]
      /\ armed' = [armed EXCEPT ![fd] = events[fd] \ es]
      /\ pending' = pending - Cardinality(es)
  BY DEF Triggered
<1>7. /\ \A g \in Fd, e \in Event :
           waiter'[g][e] = IF g = fd /\ e \in es THEN None ELSE waiter[g][e]
      /\ \A g \in Fd : events'[g] = IF g = fd THEN events[g] \ es ELSE events[g]
  BY <1>6 DEF EventsGood
<1>8. EventsGood'
  <2>1. events' \in [Fd -> SUBSET Event] /\ armed' \in [Fd -> SUBSET Event] BY <1>6 DEF EventsGood
  <2>2. waiter' \in [Fd -> [Event -> Fiber \union {None}]]
    <3>1. [e \in Event |-> IF e \in es THEN None ELSE waiter[fd][e]] \in [Event -> Fiber \union {None}]
      BY DEF EventsGood
    <3>. QED BY <1>6, <3>1 DEF EventsGood
  <2>3. \A g \in Fd : armed'[g] \subseteq events'[g] BY <1>6 DEF EventsGood
  <2>4. ASSUME NEW g \in Fd, NEW e \in Event
        PROVE  waiter'[g][e] = None <=> e \notin events'[g]
    <3>1. waiter[g][e] = None <=> e \notin events[g] BY DEF EventsGood
    <3>2. CASE g = fd BY <1>7, <3>1, <3>2
    <3>3. CASE g # fd BY <1>7, <3>1, <3>3
    <3>. QED BY <3>2, <3>3
  <2>. QED BY <2>1, <2>2, <2>3, <2>4 DEF EventsGood
<1>9. PendingCounts'
  <2>. DEFINE X == {p \in Fd \X Event : p[2] \in events[p[1]]}
              Y == {p \in Fd \X Event : p[2] \in events'[p[1]]}
  <2>1. Y = X \ ({fd} \X es) BY <1>7
  <2>2. X \in SUBSET (Fd \X Event) /\ Y \in SUBSET (Fd \X Event) OBVIOUS
  <2>3. \A e \in es : <<fd, e>> \in X OBVIOUS
  <2>4. pending = Cardinality(X) BY DEF PendingCounts
  <2>5. es \in SUBSET Event /\ Cardinality(es) \in Nat BY InOrderOf, FS_CardinalityType
  <2>6. PendingCounts' <=> pending' = Cardinality(Y) BY DEF PendingCounts
  <2>. HIDE DEF X, Y
  <2>7. Cardinality(X \ ({fd} \X es)) + Cardinality(es) = Cardinality(X)
    <3>1. PICK x : x = X OBVIOUS
    <3>2. x \subseteq Fd \X Event /\ \A e \in es : <<fd, e>> \in x BY <2>2, <2>3, <3>1
    <3>3. Cardinality(x \ ({fd} \X es)) + Cardinality(es) = Cardinality(x)
      BY <3>2, EventsTaken
    <3>. QED BY <3>1, <3>3
  <2>8. Cardinality(X) \in Nat /\ Cardinality(Y) \in Nat BY <2>2, EventsFinite
  <2>9. Cardinality(Y) + Cardinality(es) = Cardinality(X) BY <2>1, <2>7
  <2>. QED BY <1>6, <2>4, <2>5, <2>6, <2>8, <2>9
<1>10. ASSUME NEW f \in Fiber
       PROVE Count(tasks, Resuming(f))' + WaitedFor(waiter, f)'
               = Count(tasks, Resuming(f)) + WaitedFor(waiter, f)
  <2>. DEFINE X == {p \in Fd \X Event : waiter[p[1]][p[2]] = f}
              Y == {p \in Fd \X Event : waiter'[p[1]][p[2]] = f}
              E == {e \in es : waiter[fd][e] = f}
  <2>1. Y = X \ ({fd} \X E)
    <3>1. None # f BY RuntimeAssumption
    <3>. QED BY <1>7, <3>1
  <2>2. X \in SUBSET (Fd \X Event) /\ Y \in SUBSET (Fd \X Event) OBVIOUS
  <2>3. \A e \in E : <<fd, e>> \in X OBVIOUS
  <2>4. WaitedFor(waiter, f) = Cardinality(X) /\ WaitedFor(waiter, f)' = Cardinality(Y)
    BY DEF WaitedFor
  <2>5. E \in SUBSET Event OBVIOUS
  <2>6. Count(tasks, Resuming(f))' = Count(tasks, Resuming(f)) + Cardinality(E)
    BY <1>2, <1>5 DEF Resuming, Resumes
  <2>7. Cardinality(E) \in Nat BY <2>5, InOrderOf, FS_CardinalityType
  <2>8. Count(tasks, Resuming(f)) \in Nat BY CountFinite DEF TasksGood
  <2>. HIDE DEF X, Y, E
  <2>9. Cardinality(X \ ({fd} \X E)) + Cardinality(E) = Cardinality(X)
    <3>1. PICK x, en : x = X /\ en = E OBVIOUS
    <3>2. x \subseteq Fd \X Event /\ \A e \in en : <<fd, e>> \in x BY <2>2, <2>3, <3>1
    <3>3. Cardinality(x \ ({fd} \X en)) + Cardinality(en) = Cardinality(x)
      BY <3>2, EventsTaken
    <3>. QED BY <3>1, <3>3
  <2>10. Cardinality(X) \in Nat /\ Cardinality(Y) \in Nat BY <2>2, EventsFinite
  <2>11. Cardinality(Y) + Cardinality(E) = Cardinality(X) BY <2>1, <2>9
  <2>. QED BY <2>4, <2>6, <2>7, <2>8, <2>10, <2>11
<1>11. ASSUME NEW f \in Fiber
       PROVE /\ Count(tasks, StartOf(f))' = Count(tasks, StartOf(f))
             /\ (\A i \in DOMAIN tasks : tasks[i] # TaskOf("timeout", f))
                  => (\A i \in DOMAIN tasks' : tasks'[i] # TaskOf("timeout", f))
  <2>1. \A i \in DOMAIN ts : ts[i] \notin StartOf(f) /\ ts[i] # TaskOf("timeout", f)
    BY <1>2, TaskOfGood DEF StartOf
  <2>2. Count(ts, StartOf(f)) = 0 BY <2>1, CountNone
  <2>3. Count(tasks, StartOf(f)) \in Nat BY CountFinite DEF TasksGood
  <2>4. Count(tasks, StartOf(f))' = Count(tasks, StartOf(f)) + Count(ts, StartOf(f))
    BY <1>5 DEF StartOf
  <2>. QED BY <1>5, <2>1, <2>2, <2>3, <2>4
<1>. QED BY <1>5, <1>6, <1>7, <1>8, <1>9, <1>10, <1>11

\* What the counters of threads count.
LEMMA CountsOfWorkers ==
  WorkersCount <=> /\ active = Workers(at, {"resume", "fiber"})
                   /\ idling = Workers(at, {"look", "check", "ask", "wait", "expire", "push", "handle"})
BY DEF WorkersCount, Workers

\* A worker that is not in a task, nor takes one, goes on.
LEMMA QuietMove ==
  ASSUME FiberInv, NEW w \in Worker, NEW x \in Place,
         at[w] \notin {"resume", "fiber"}, x \notin {"resume", "fiber"},
         at' = [at EXCEPT ![w] = x], running' = running
  PROVE  /\ RunningGood' /\ \A S : AboutTo(at', running', S) = AboutTo(at, running, S)
         /\ UNCHANGED <<state, pc>> => FibersGood'
         /\ \A v \in Worker : v # w => at'[v] = at[v]
         /\ at'[w] = x
<1>1. (\A v \in Worker : v # w => at'[v] = at[v]) /\ at'[w] = x BY DEF FiberInv, RunningGood
<1>2. RunningGood' BY <1>1 DEF FiberInv, RunningGood
<1>3. ASSUME NEW S PROVE AboutTo(at', running', S) = AboutTo(at, running, S)
  <2>1. \A v \in Worker : (at'[v] = "resume" /\ running'[v] \in S)
                            <=> (at[v] = "resume" /\ running[v] \in S)
    BY <1>1
  <2>2. PICK a, b, r : a = at /\ b = at' /\ r = running OBVIOUS
  <2>3. \A v \in Worker : (b[v] = "resume" /\ r[v] \in S) <=> (a[v] = "resume" /\ r[v] \in S)
    BY <2>1, <2>2
  <2>4. AboutTo(b, r, S) = AboutTo(a, r, S) BY <2>3, AboutToSame
  <2>. QED BY <2>2, <2>4
<1>4. ASSUME UNCHANGED <<state, pc>> PROVE FibersGood'
  <2>1. \A v \in Worker, f \in Fiber : Runs(v, f)' <=> Runs(v, f) BY <1>1 DEF Runs, On
  <2>. QED BY <1>4, <2>1 DEF FiberInv, FibersGood
<1>. QED BY <1>1, <1>2, <1>3, <1>4

\* The workers about to run a task of S, when worker w moves.
LEMMA AboutToOther ==
  ASSUME NEW w \in Worker, NEW S,
         \A v \in Worker : v # w => at'[v] = at[v] /\ running'[v] = running[v]
  PROVE  /\ AboutTo(at', running', S) \in Nat /\ AboutTo(at, running, S) \in Nat
         /\ AboutTo(at, running, S) + AtOne(at', running', w, S)
              = AboutTo(at', running', S) + AtOne(at, running, w, S)
<1>1. PICK a, r, b, q : a = at /\ r = running /\ b = at' /\ q = running' OBVIOUS
<1>2. \A v \in Worker : v # w => a[v] = b[v] /\ r[v] = q[v] BY <1>1
<1>3. AboutTo(a, r, S) \in Nat /\ AboutTo(b, q, S) \in Nat BY AboutToNat
<1>4. AboutTo(a, r, S) + AtOne(b, q, w, S) = AboutTo(b, q, S) + AtOne(a, r, w, S)
  BY <1>2, AboutToMoves
<1>. QED BY <1>1, <1>3, <1>4

\* A worker that leaves its task.
LEMMA FinishedMove ==
  ASSUME FiberInv, NEW w \in Worker, at[w] \in {"resume", "fiber"}, Finished(w)
  PROVE  /\ RunningGood'
         /\ idling' = idling => WorkersCount'
         /\ \A S : AboutTo(at, running, S)
                     = AboutTo(at', running', S) + AtOne(at, running, w, S)
         /\ \A S : AboutTo(at', running', S) \in Nat /\ AboutTo(at, running, S) \in Nat
         /\ \A v \in Worker : v # w => at'[v] = at[v] /\ running'[v] = running[v]
         /\ at'[w] = "take" /\ running'[w] = NoTask
<1>1. /\ \A v \in Worker : v # w => at'[v] = at[v] /\ running'[v] = running[v]
      /\ at'[w] = "take" /\ running'[w] = NoTask
  BY DEF FiberInv, RunningGood, Finished, Goto
<1>2. RunningGood'
  <2>1. at' \in [Worker -> Place] BY DEF FiberInv, RunningGood, Finished, Goto, Place
  <2>2. running' \in [Worker -> Tasks] BY DEF FiberInv, RunningGood, Finished, Tasks
  <2>. QED BY <1>1, <2>1, <2>2 DEF FiberInv, RunningGood
<1>3. ASSUME NEW S
      PROVE  /\ AboutTo(at, running, S) = AboutTo(at', running', S) + AtOne(at, running, w, S)
             /\ AboutTo(at', running', S) \in Nat /\ AboutTo(at, running, S) \in Nat
  <2>1. AtOne(at', running', w, S) = 0 BY <1>1 DEF AtOne
  <2>2. /\ AboutTo(at, running, S) \in Nat /\ AboutTo(at', running', S) \in Nat
        /\ AboutTo(at, running, S) + AtOne(at', running', w, S)
             = AboutTo(at', running', S) + AtOne(at, running, w, S)
    BY <1>1, AboutToOther
  <2>. QED BY <2>1, <2>2
<1>4. ASSUME idling' = idling PROVE WorkersCount'
  <2>. DEFINE P == {"resume", "fiber"}
              Q == {"look", "check", "ask", "wait", "expire", "push", "handle"}
  <2>1. ASSUME NEW p
        PROVE  /\ Workers(at, p) \in Nat /\ Workers(at', p) \in Nat
               /\ Workers(at, p) + (IF at'[w] \in p THEN 1 ELSE 0)
                    = Workers(at', p) + (IF at[w] \in p THEN 1 ELSE 0)
    <3>1. PICK a, b : a = at /\ b = at' OBVIOUS
    <3>2. \A v \in Worker : v # w => a[v] = b[v] BY <1>1, <3>1
    <3>3. /\ Workers(a, p) \in Nat /\ Workers(b, p) \in Nat
         /\ Workers(a, p) + (IF b[w] \in p THEN 1 ELSE 0)
              = Workers(b, p) + (IF a[w] \in p THEN 1 ELSE 0)
      BY <3>2, WorkersMove
    <3>. QED BY <3>1, <3>3
  <2>3. at[w] \in P /\ at'[w] \notin P /\ at[w] \notin Q /\ at'[w] \notin Q BY <1>1
  <2>4. active' = active - 1 BY DEF Finished
  <2>5. active = Workers(at, P) /\ idling = Workers(at, Q) BY CountsOfWorkers DEF FiberInv
  <2>. HIDE DEF P, Q
  <2>6. active' = Workers(at', P) /\ idling' = Workers(at', Q)
    BY <1>4, <2>1, <2>3, <2>4, <2>5
  <2>. QED BY <2>6 DEF WorkersCount, Workers, P, Q
<1>. QED BY <1>1, <1>2, <1>3, <1>4

\* A worker in the idle fiber, as a number.
InIdle(place) ==
  IF place \in {"look", "check", "ask", "wait", "expire", "push", "handle"} THEN 1 ELSE 0

\* A worker that is not in a task goes on, in idle or out of it.
LEMMA IdlingCounts ==
  ASSUME FiberInv, NEW w \in Worker, NEW x \in Place,
         at[w] \notin {"resume", "fiber"}, x \notin {"resume", "fiber"},
         at' = [at EXCEPT ![w] = x], active' = active,
         idling' = idling + InIdle(x) - InIdle(at[w])
  PROVE  WorkersCount'
<1>. DEFINE P == {"resume", "fiber"}
            Q == {"look", "check", "ask", "wait", "expire", "push", "handle"}
<1>0. (\A v \in Worker : v # w => at[v] = at'[v]) /\ at'[w] = x BY DEF FiberInv, RunningGood
<1>1. ASSUME NEW p
      PROVE  /\ Workers(at, p) \in Nat /\ Workers(at', p) \in Nat
             /\ Workers(at, p) + (IF at'[w] \in p THEN 1 ELSE 0)
                  = Workers(at', p) + (IF at[w] \in p THEN 1 ELSE 0)
  <2>1. PICK a, b : a = at /\ b = at' OBVIOUS
  <2>2. \A v \in Worker : v # w => a[v] = b[v] BY <1>0, <2>1
  <2>3. /\ Workers(a, p) \in Nat /\ Workers(b, p) \in Nat
       /\ Workers(a, p) + (IF b[w] \in p THEN 1 ELSE 0)
            = Workers(b, p) + (IF a[w] \in p THEN 1 ELSE 0)
    BY <2>2, WorkersMove
  <2>. QED BY <2>1, <2>3
<1>3. at[w] \notin P /\ at'[w] \notin P BY <1>0
<1>4. active = Workers(at, P) /\ idling = Workers(at, Q) BY CountsOfWorkers DEF FiberInv
<1>5. idling' = idling + (IF at'[w] \in Q THEN 1 ELSE 0) - (IF at[w] \in Q THEN 1 ELSE 0)
  BY <1>0 DEF InIdle
<1>. HIDE DEF P, Q
<1>6. active' = Workers(at', P)
  <2>1. /\ Workers(at, P) \in Nat /\ Workers(at', P) \in Nat
        /\ Workers(at, P) + 0 = Workers(at', P) + 0
    BY <1>1, <1>3
  <2>. QED BY <1>4, <2>1
<1>7. idling' = Workers(at', Q)
  <2>1. PICK m, n \in {0, 1} : /\ m = IF at'[w] \in Q THEN 1 ELSE 0
                               /\ n = IF at[w] \in Q THEN 1 ELSE 0
    OBVIOUS
  <2>2. PICK i : i = idling' OBVIOUS
  <2>3. i = idling + m - n BY <1>5, <2>1, <2>2
  <2>4. /\ Workers(at, Q) \in Nat /\ Workers(at', Q) \in Nat
        /\ Workers(at, Q) + m = Workers(at', Q) + n
    BY <1>1, <2>1
  <2>. QED BY <1>4, <2>2, <2>3, <2>4
<1>. QED BY <1>6, <1>7 DEF WorkersCount, Workers, P, Q

\* The counters are numbers, no greater than there are workers.
LEMMA CountersTyped ==
  ASSUME FiberInv
  PROVE  active \in 0 .. Cardinality(Worker) /\ idling \in 0 .. Cardinality(Worker)
<1>1. ASSUME NEW P PROVE Workers(at, P) \in 0 .. Cardinality(Worker)
  <2>1. PICK X : X = {w \in Worker : at[w] \in P} OBVIOUS
  <2>2. X \in SUBSET Worker BY <2>1
  <2>3. Cardinality(X) <= Cardinality(Worker) /\ Cardinality(X) \in Nat /\ Cardinality(Worker) \in Nat
    BY <2>2, RuntimeAssumption, FS_Subset, FS_CardinalityType
  <2>. QED BY <2>1, <2>3 DEF Workers
<1>. QED BY <1>1, CountsOfWorkers DEF FiberInv

\* A timer that is added, or takes another's place.
LEMMA InsertedMoves ==
  ASSUME TimersGood, NEW i \in TimerNames, NEW timer \in Timer, timer.left <= timer.ms,
         timer.cb = CallbackOf(i), i # User => ~timer.recurring, Inserted(i, timer)
  PROVE  TimersGood' /\ DOMAIN timers' = DOMAIN timers \union {i}
<1>1. timers' = With(i, timer) BY DEF Inserted
<1>2. DOMAIN timers' = DOMAIN timers \union {i}
      /\ \A j \in DOMAIN timers' : timers'[j] = IF j = i THEN timer ELSE timers[j]
  BY <1>1 DEF With
<1>. QED BY <1>2 DEF TimersGood

\* A timer that is cancelled.
LEMMA CancelledMoves ==
  ASSUME TimersGood, NEW i, Cancelled(i)
  PROVE  TimersGood' /\ DOMAIN timers' = DOMAIN timers \ {i}
<1>1. DOMAIN timers' = DOMAIN timers \ {i} /\ \A j \in DOMAIN timers' : timers'[j] = timers[j]
  BY DEF Cancelled, Without
<1>. QED BY <1>1 DEF TimersGood

\* The sleep of fiber f, as a number.
LEMMA Asleep ==
  ASSUME NEW f, NEW D
  PROVE  Cardinality({<<"sleep", f>>} \intersect D) = IF <<"sleep", f>> \in D THEN 1 ELSE 0
<1>1. CASE <<"sleep", f>> \in D
  <2>1. {<<"sleep", f>>} \intersect D = {<<"sleep", f>>} BY <1>1
  <2>. QED BY <1>1, <2>1, FS_Singleton
<1>2. CASE <<"sleep", f>> \notin D
  <2>1. {<<"sleep", f>>} \intersect D = {} BY <1>2
  <2>. QED BY <1>2, <2>1, FS_EmptySet
<1>. QED BY <1>1, <1>2

\* The parts of the sum are numbers.
LEMMA OwnersNat ==
  ASSUME TasksGood, CallbacksGood, NEW f
  PROVE  /\ Count(tasks, Resuming(f)) \in Nat /\ AboutTo(at, running, Resuming(f)) \in Nat
         /\ Expired(cbs, Resuming(f)) \in Nat /\ WaitedFor(waiter, f) \in Nat
         /\ Cardinality({<<"sleep", f>>} \intersect DOMAIN timers) \in Nat
         /\ Count(tasks, StartOf(f)) \in Nat /\ AboutTo(at, running, StartOf(f)) \in Nat
<1>1. Count(tasks, Resuming(f)) \in Nat /\ Count(tasks, StartOf(f)) \in Nat
  BY CountFinite DEF TasksGood
<1>2. Expired(cbs, Resuming(f)) \in Nat
  <2>1. PICK c : c = cbs OBVIOUS
  <2>2. \A w \in Worker : c[w] \in Seq(Task) BY <2>1 DEF CallbacksGood
  <2>3. Expired(c, Resuming(f)) \in Nat BY <2>2, CallbacksFinite
  <2>. QED BY <2>1, <2>3
<1>3. WaitedFor(waiter, f) \in Nat
  <2>1. {p \in Fd \X Event : waiter[p[1]][p[2]] = f} \in SUBSET (Fd \X Event) OBVIOUS
  <2>. QED BY <2>1, EventsFinite DEF WaitedFor
<1>4. AboutTo(at, running, Resuming(f)) \in Nat /\ AboutTo(at, running, StartOf(f)) \in Nat
  BY AboutToNat
<1>5. Cardinality({<<"sleep", f>>} \intersect DOMAIN timers) \in Nat
  <2>1. PICK D : D = DOMAIN timers OBVIOUS
  <2>2. IsFiniteSet({<<"sleep", f>>} \intersect D) BY FS_Singleton, FS_Intersection
  <2>3. Cardinality({<<"sleep", f>>} \intersect D) \in Nat BY <2>2, FS_CardinalityType
  <2>. QED BY <2>1, <2>3
<1>. QED BY <1>1, <1>2, <1>3, <1>4, <1>5

\* A fiber that runs, and is not about to yield, is owned by nothing.
LEMMA RunsFree ==
  ASSUME FiberInv, NEW f \in Fiber, state[f] # "READY", pc[f] # "yield"
  PROVE  /\ Owners(f) = 0
         /\ \A i \in DOMAIN tasks : tasks[i] \notin Resuming(f)
         /\ \A w \in Worker : at[w] = "resume" => running[w] \notin Resuming(f)
         /\ \A w \in Worker : \A i \in DOMAIN cbs[w] : cbs[w][i] \notin Resuming(f)
         /\ <<"sleep", f>> \notin DOMAIN timers
         /\ \A fd \in Fd, e \in Event : waiter[fd][e] # f
<1>1. Owners(f) = 0 BY DEF FiberInv, WokenOnce
<1>2. /\ Count(tasks, Resuming(f)) = 0 /\ AboutTo(at, running, Resuming(f)) = 0
      /\ Expired(cbs, Resuming(f)) = 0 /\ WaitedFor(waiter, f) = 0
      /\ Cardinality({<<"sleep", f>>} \intersect DOMAIN timers) = 0
  BY <1>1, OwnersNat DEF Owners, FiberInv
<1>3. \A i \in DOMAIN tasks : tasks[i] \notin Resuming(f)
  BY <1>2, CountZero DEF FiberInv, TasksGood
<1>4. \A w \in Worker : at[w] = "resume" => running[w] \notin Resuming(f)
  <2>1. \A w \in Worker : at[w] = "resume" /\ running[w] \in Resuming(f) => 0 >= 1
    BY <1>2, AboutToNat
  <2>. QED BY <2>1
<1>5. \A w \in Worker : \A i \in DOMAIN cbs[w] : cbs[w][i] \notin Resuming(f)
  <2>1. PICK c : c = cbs OBVIOUS
  <2>2. (\A w \in Worker : c[w] \in Seq(Task)) /\ Expired(c, Resuming(f)) = 0
    BY <1>2, <2>1 DEF FiberInv, CallbacksGood
  <2>3. \A w \in Worker : \A i \in DOMAIN c[w] : c[w][i] \notin Resuming(f)
    BY <2>2, CallbacksZero
  <2>. QED BY <2>1, <2>3
<1>6. <<"sleep", f>> \notin DOMAIN timers
  <2>1. PICK D : D = DOMAIN timers OBVIOUS
  <2>2. <<"sleep", f>> \notin D BY <1>2, <2>1, Asleep
  <2>. QED BY <2>1, <2>2
<1>7. \A fd \in Fd, e \in Event : waiter[fd][e] # f
  <2>1. PICK who : who = waiter OBVIOUS
  <2>2. WaitedFor(who, f) = 0 BY <1>2, <2>1
  <2>. QED BY <2>1, <2>2, WaitedForZero
<1>. QED BY <1>1, <1>3, <1>4, <1>5, <1>6, <1>7

\* The fiber of a worker that runs one.
LEMMA RunsOne ==
  ASSUME FiberInv, NEW w \in Worker, at[w] = "fiber"
  PROVE  /\ On(w) \in Fiber /\ Runs(w, On(w))
         /\ state[On(w)] = "RUNNING" \/ pc[On(w)] = "switch"
<1>1. GoodTask(running[w]) /\ running[w].fn \in {"fiber", "body"} BY DEF FiberInv, RunningGood
<1>2. On(w) \in Fiber /\ Runs(w, On(w)) BY <1>1 DEF GoodTask, On, Runs
<1>. QED BY <1>2 DEF FiberInv, FibersGood

\* A call is over, in a fiber that runs and whose timer is gone.
LEMMA OverMoves ==
  ASSUME FiberInv, NEW w \in Worker, NEW f \in Fiber, Runs(w, f), pc[f] \in {"try", "add", "woken"},
         Over(w, f), TimersGood', DOMAIN timers' = DOMAIN timers \ {<<"io", f>>},
         UNCHANGED <<isStopped, active, idling, at, reported, timeLeft, idleDone, eventVars,
                     state, panicked, calls, ctx>>
  PROVE  FiberInv'
<1>1. /\ call' = [call EXCEPT ![f] = NoCall] /\ cancelled' = [cancelled EXCEPT ![f] = FALSE]
      /\ pc' = [pc EXCEPT ![f] = "run"]
      /\ tasks' = [i \in DOMAIN tasks |-> Dead(tasks[i], f)]
      /\ cbs' = [v \in Worker |-> [i \in DOMAIN cbs[v] |-> Dead(cbs[v][i], f)]]
      /\ running' = [v \in Worker |-> Dead(running[v], f)]
  BY DEF Over, Next_
<1>2. state[f] = "RUNNING"
  BY DEF FiberInv, FibersGood
<1>3. /\ \A i \in DOMAIN tasks : tasks[i] \notin Resuming(f)
      /\ \A fd \in Fd, e \in Event : waiter[fd][e] # f
  BY <1>2, RunsFree
<1>. DEFINE Alike(t, d) ==
       /\ t.fn \notin {"timeout", "user"} => d = t
       /\ (t.fn \in {"timeout", "user"} => d.fn \in {"timeout", "user"})
       /\ GoodTask(t) => GoodTask(d)
       /\ d # TaskOf("timeout", f)
       /\ \A g \in Fiber : d = TaskOf("timeout", g) => t = d
<1>4. \A t \in Tasks : Alike(t, Dead(t, f)) /\ Dead(t, f) \in Tasks
                       /\ (t \in Task => Dead(t, f) \in Task) /\ (t = NoTask => Dead(t, f) = t)
  BY TaskOfGood, Distinct DEF Dead, Tasks, Task, NoTask, GoodTask, TaskOf, Fn
<1>5. /\ DOMAIN tasks' = DOMAIN tasks /\ tasks' \in Seq(Task)
      /\ \A i \in DOMAIN tasks : Alike(tasks[i], tasks'[i])
  <2>1. tasks \in Seq(Task) BY DEF FiberInv, TasksGood
  <2>2. \A i \in DOMAIN tasks : tasks[i] \in Task /\ tasks[i] \in Tasks BY <2>1 DEF Tasks
  <2>3. DOMAIN tasks' = DOMAIN tasks /\ \A i \in DOMAIN tasks : tasks'[i] = Dead(tasks[i], f)
    BY <1>1
  <2>4. tasks' \in Seq(Task)
    <3>1. DOMAIN tasks = 1 .. Len(tasks) /\ Len(tasks) \in Nat BY <2>1
    <3>2. \A i \in 1 .. Len(tasks) : Dead(tasks[i], f) \in Task BY <1>4, <2>2, <3>1
    <3>3. tasks' = [i \in 1 .. Len(tasks) |-> Dead(tasks[i], f)] BY <1>1, <3>1
    <3>. QED BY <3>1, <3>2, <3>3
  <2>. HIDE DEF Alike
  <2>. QED BY <1>4, <2>2, <2>3, <2>4
<1>6. \A v \in Worker : Alike(running[v], running'[v]) /\ running'[v] \in Tasks
                        /\ (running[v] = NoTask => running'[v] = NoTask)
  <2>1. \A v \in Worker : running[v] \in Tasks BY DEF FiberInv, RunningGood
  <2>. HIDE DEF Alike
  <2>. QED BY <1>1, <1>4, <2>1
<1>7. \A v \in Worker : /\ DOMAIN cbs'[v] = DOMAIN cbs[v] /\ cbs'[v] \in Seq(Task)
                        /\ \A i \in DOMAIN cbs[v] : Alike(cbs[v][i], cbs'[v][i])
                        /\ (cbs[v] = <<>> => cbs'[v] = <<>>)
  <2>0. TAKE v \in Worker
  <2>1. cbs[v] \in Seq(Task) BY DEF FiberInv, CallbacksGood
  <2>2. \A i \in DOMAIN cbs[v] : cbs[v][i] \in Task /\ cbs[v][i] \in Tasks BY <2>1 DEF Tasks
  <2>3. DOMAIN cbs'[v] = DOMAIN cbs[v] /\ \A i \in DOMAIN cbs[v] : cbs'[v][i] = Dead(cbs[v][i], f)
    BY <1>1
  <2>4. cbs'[v] \in Seq(Task)
    <3>1. DOMAIN cbs[v] = 1 .. Len(cbs[v]) /\ Len(cbs[v]) \in Nat BY <2>1
    <3>2. \A i \in 1 .. Len(cbs[v]) : Dead(cbs[v][i], f) \in Task BY <1>4, <2>2, <3>1
    <3>3. cbs'[v] = [i \in 1 .. Len(cbs[v]) |-> Dead(cbs[v][i], f)] BY <1>1, <3>1
    <3>. QED BY <3>1, <3>2, <3>3
  <2>5. cbs[v] = <<>> => cbs'[v] = <<>>
    <3>1. cbs[v] = <<>> => DOMAIN cbs'[v] = {} BY <2>3
    <3>2. \A s \in Seq(Task) : DOMAIN s = {} => s = <<>> OBVIOUS
    <3>. QED BY <2>4, <3>1, <3>2
  <2>. HIDE DEF Alike
  <2>. QED BY <1>4, <2>2, <2>3, <2>4, <2>5
<1>8. \A g \in Fiber : \A t, d : Alike(t, d) /\ t \in Tasks /\ d \in Tasks =>
        (t \in Resuming(g) <=> d \in Resuming(g)) /\ (t \in StartOf(g) <=> d \in StartOf(g))
  BY DEF Resuming, Resumes, StartOf, Tasks, NoTask, Task
<1>9. \A v \in Worker, g \in Fiber : Runs(v, g)' <=> Runs(v, g)
  <2>1. \A v \in Worker : at[v] = "fiber" => running'[v] = running[v]
    BY <1>6 DEF FiberInv, RunningGood
  <2>. QED BY <2>1 DEF Runs, On
<1>10. TasksGood' BY <1>5 DEF FiberInv, TasksGood
<1>11. RunningGood'
  <2>1. running' \in [Worker -> Tasks] BY <1>1, <1>6
  <2>2. \A v \in Worker : running[v].fn \in {"fiber", "body"} => running'[v] = running[v]
    BY <1>6
  <2>3. \A v \in Worker : GoodTask(running[v]) => GoodTask(running'[v]) BY <1>6
  <2>. HIDE DEF Alike
  <2>. QED BY <1>6, <2>1, <2>2, <2>3 DEF FiberInv, RunningGood
<1>12. CallbacksGood'
  <2>1. \A v \in Worker : \A i \in DOMAIN cbs[v] : Callback(cbs[v][i]) => Callback(cbs'[v][i])
    BY <1>7 DEF Callback
  <2>2. cbs' \in [Worker -> Seq(Task)]
    <3>1. DOMAIN cbs' = Worker /\ cbs' = [v \in Worker |-> cbs'[v]] BY <1>1
    <3>. QED BY <1>7, <3>1
  <2>. HIDE DEF Alike
  <2>. QED BY <1>7, <2>1, <2>2 DEF FiberInv, CallbacksGood
<1>13. EventsGood' /\ ReportsGood' /\ PendingCounts' /\ WorkersCount' /\ RestTyped'
  BY DEF FiberInv, EventsGood, ReportsGood, PendingCounts, WorkersCount, RestTyped, eventVars
<1>14. FibersGood'
  <2>1. /\ pc' = [pc EXCEPT ![f] = "run"] /\ state' = state BY <1>1
  <2>. QED BY <1>2, <1>9, <2>1 DEF FiberInv, FibersGood
<1>15. CallsGood' BY <1>1 DEF FiberInv, CallsGood, FibersGood
<1>16. CallsApart'
  <2>1. NoCall \notin IoCall BY Distinct DEF NoCall, IoCall
  <2>. QED BY <1>1, <2>1 DEF FiberInv, CallsApart, CallsGood
<1>17. WaitersCall'
  BY <1>1, <1>3 DEF FiberInv, WaitersCall, CallsGood, EventsGood, eventVars
<1>18. TimersCall'
  BY <1>1, Distinct DEF FiberInv, TimersCall, CallsGood, FibersGood
<1>19. TimeoutsCall'
  <2>1. ASSUME NEW g \in Fiber
        PROVE  call'[g] \in IoCall
          \/ /\ \A i \in DOMAIN tasks' : tasks'[i] # TaskOf("timeout", g)
             /\ \A v \in Worker : /\ running'[v] # TaskOf("timeout", g)
                                  /\ \A i \in DOMAIN cbs'[v] : cbs'[v][i] # TaskOf("timeout", g)
    <3>1. CASE g = f BY <1>5, <1>6, <1>7, <3>1
    <3>2. CASE g # f
      <4>1. call'[g] = call[g] BY <1>1, <3>2 DEF FiberInv, CallsGood
      <4>2. (\A i \in DOMAIN tasks : tasks[i] # TaskOf("timeout", g))
              => (\A i \in DOMAIN tasks' : tasks'[i] # TaskOf("timeout", g))
        BY <1>5
      <4>3. \A v \in Worker : running[v] # TaskOf("timeout", g) => running'[v] # TaskOf("timeout", g)
        BY <1>6
      <4>4. \A v \in Worker : (\A i \in DOMAIN cbs[v] : cbs[v][i] # TaskOf("timeout", g))
              => (\A i \in DOMAIN cbs'[v] : cbs'[v][i] # TaskOf("timeout", g))
        BY <1>7
      <4>. QED BY <4>1, <4>2, <4>3, <4>4 DEF FiberInv, TimeoutsCall
    <3>. QED BY <3>1, <3>2
  <2>. QED BY <2>1 DEF TimeoutsCall
<1>. HIDE DEF Alike
<1>20. ASSUME NEW g \in Fiber
       PROVE  /\ Count(tasks', Resuming(g)) = Count(tasks, Resuming(g))
              /\ Count(tasks', StartOf(g)) = Count(tasks, StartOf(g))
              /\ AboutTo(at', running', Resuming(g)) = AboutTo(at, running, Resuming(g))
              /\ AboutTo(at', running', StartOf(g)) = AboutTo(at, running, StartOf(g))
              /\ Expired(cbs', Resuming(g)) = Expired(cbs, Resuming(g))
  <2>1. PICK t1, t2, r1, r2, c1, c2, a :
          t1 = tasks /\ t2 = tasks' /\ r1 = running /\ r2 = running' /\ c1 = cbs /\ c2 = cbs' /\ a = at
    OBVIOUS
  <2>2. /\ DOMAIN t1 = DOMAIN t2
        /\ \A i \in DOMAIN t1 : (t1[i] \in Resuming(g) <=> t2[i] \in Resuming(g))
                                /\ (t1[i] \in StartOf(g) <=> t2[i] \in StartOf(g))
    <3>1. \A i \in DOMAIN tasks : tasks[i] \in Tasks /\ tasks'[i] \in Tasks
      BY <1>5 DEF FiberInv, TasksGood, Tasks
    <3>2. \A i \in DOMAIN tasks : Alike(tasks[i], tasks'[i]) /\ tasks[i] \in Tasks /\ tasks'[i] \in Tasks
      BY <1>5, <3>1
    <3>. QED BY <1>5, <1>8, <2>1, <3>2
  <2>3. \A v \in Worker : (r1[v] \in Resuming(g) <=> r2[v] \in Resuming(g))
                          /\ (r1[v] \in StartOf(g) <=> r2[v] \in StartOf(g))
    <3>1. \A v \in Worker : running[v] \in Tasks /\ Alike(running[v], running'[v]) /\ running'[v] \in Tasks
      BY <1>6 DEF FiberInv, RunningGood
    <3>. QED BY <1>8, <2>1, <3>1
  <2>4. \A v \in Worker : DOMAIN c1[v] = DOMAIN c2[v]
          /\ \A i \in DOMAIN c1[v] : c1[v][i] \in Resuming(g) <=> c2[v][i] \in Resuming(g)
    <3>1. \A v \in Worker : \A i \in DOMAIN cbs[v] : cbs[v][i] \in Tasks /\ cbs'[v][i] \in Tasks
      BY <1>7 DEF FiberInv, CallbacksGood, Tasks
    <3>2. \A v \in Worker : \A i \in DOMAIN cbs[v] :
            Alike(cbs[v][i], cbs'[v][i]) /\ cbs[v][i] \in Tasks /\ cbs'[v][i] \in Tasks
      BY <1>7, <3>1
    <3>. QED BY <1>7, <1>8, <2>1, <3>2
  <2>5. Count(t1, Resuming(g)) = Count(t2, Resuming(g)) /\ Count(t1, StartOf(g)) = Count(t2, StartOf(g))
    BY <2>2, CountSame
  <2>6. AboutTo(a, r1, Resuming(g)) = AboutTo(a, r2, Resuming(g))
        /\ AboutTo(a, r1, StartOf(g)) = AboutTo(a, r2, StartOf(g))
    BY <2>3, AboutToSame
  <2>7. Expired(c1, Resuming(g)) = Expired(c2, Resuming(g)) BY <2>4, CallbacksSame
  <2>8. at' = at OBVIOUS
  <2>. QED BY <2>1, <2>5, <2>6, <2>7, <2>8
<1>21. StartsOnce'
  <2>1. \A g \in Fiber : pc'[g] = "queued" <=> pc[g] = "queued"
    BY <1>1 DEF FiberInv, FibersGood
  <2>. QED BY <1>20, <2>1 DEF FiberInv, StartsOnce, StartOf
<1>22. WokenOnce'
  <2>1. \A g \in Fiber : Owners(g)' = Owners(g)
    <3>1. TAKE g \in Fiber
    <3>2. WaitedFor(waiter, g)' = WaitedFor(waiter, g) BY DEF eventVars, WaitedFor
    <3>3. {<<"sleep", g>>} \intersect DOMAIN timers' = {<<"sleep", g>>} \intersect DOMAIN timers
      BY Distinct
    <3>. QED BY <1>20, <3>2, <3>3 DEF Owners, Resuming, Resumes
  <2>2. \A g \in Fiber : (pc'[g] = "yield" <=> pc[g] = "yield") /\ state'[g] = state[g]
    BY <1>1 DEF FiberInv, FibersGood
  <2>. QED BY <2>1, <2>2 DEF FiberInv, WokenOnce
<1>. QED BY <1>10, <1>11, <1>12, <1>13, <1>14, <1>15, <1>16, <1>17, <1>18, <1>19, <1>21, <1>22
         DEF FiberInv

-----------------------------------------------------------------------------
(* Scheduler::run and idle                                                 *)

\* A CondPanic changes nothing else.
LEMMA PanicKeeps ==
  ASSUME FiberInv, panicked' \in BOOLEAN,
         UNCHANGED <<tasks, isStopped, active, idling, workerVars, timers, eventVars, state,
                     fiberVars, ctx>>
  PROVE  FiberInv'
<1>1. TasksGood' /\ RunningGood' /\ CallbacksGood' /\ TimersGood' /\ EventsGood' /\
     ReportsGood'
  BY DEF FiberInv, TasksGood, RunningGood, CallbacksGood, TimersGood, EventsGood,
       ReportsGood, schedVars, workerVars, timerVars, eventVars, runtimeVars, fiberVars,
       fdVars
<1>2. FibersGood' /\ CallsGood' /\ CallsApart' /\ WaitersCall' /\ TimersCall'
  BY DEF FiberInv, FibersGood, Runs, On, CallsGood, CallsApart, WaitersCall, TimersCall,
       schedVars, workerVars, timerVars, eventVars, runtimeVars, fiberVars, fdVars
<1>3. TimeoutsCall' /\ PendingCounts' /\ WorkersCount' /\ RestTyped'
  BY DEF FiberInv, TimeoutsCall, PendingCounts, WorkersCount, RestTyped, schedVars,
       workerVars, timerVars, eventVars, runtimeVars, fiberVars, fdVars
<1>4. StartsOnce'
  BY DEF FiberInv, StartsOnce, schedVars, workerVars, timerVars, eventVars, runtimeVars,
       fiberVars, fdVars
<1>5. WokenOnce'
  BY DEF FiberInv, WokenOnce, Owners, schedVars, workerVars, timerVars, eventVars,
       runtimeVars, fiberVars, fdVars
<1>. QED BY <1>1, <1>2, <1>3, <1>4, <1>5 DEF FiberInv

\* The first of the tasks a worker may take.
LEMMA FirstOfMine ==
  ASSUME TasksGood, NEW w \in Worker, Mine(w) # {}
  PROVE  FirstOf(Mine(w)) \in 1 .. Len(tasks) /\ FirstOf(Mine(w)) \in Mine(w)
<1>1. DOMAIN tasks = 1 .. Len(tasks) /\ Len(tasks) \in Nat BY DEF TasksGood
<1>2. PICK M : M = Mine(w) OBVIOUS
<1>3. M \subseteq Nat /\ M # {} BY <1>1, <1>2 DEF Mine
<1>4. \E i \in M : \A j \in M : i <= j BY <1>3, LeastExists
<1>5. FirstOf(M) \in M BY <1>4 DEF FirstOf
<1>. QED BY <1>1, <1>2, <1>5 DEF Mine

\* A task goes from the list to a worker.
LEMMA TakeKeeps ==
  ASSUME FiberInv, NEW w \in Worker, Take(w), UNCHANGED <<fiberVars, fdVars>>
  PROVE  FiberInv'
<1>0. Mine(w) # {} /\ at[w] = "take" BY DEF Take
<1>1. PICK k, task : k \in 1 .. Len(tasks) /\ k = FirstOf(Mine(w)) /\ task = tasks[k]
  BY <1>0, FirstOfMine DEF FiberInv
<1>2. CASE Panic
         /\ UNCHANGED <<tasks, running, active, pipe, at>>
  BY <1>2, PanicKeeps DEF Take, Panic, schedVars, workerVars, timerVars, fdVars
<1>3. CASE /\ task.fn = "fiber" => state[task.fiber] = "READY"
           /\ tasks' = RemoveAt(tasks, k)
           /\ running' = [running EXCEPT ![w] = task]
           /\ active' = active + 1
           /\ Goto(w, "resume")
           /\ UNCHANGED panicked
  <2>0. UNCHANGED <<isStopped, idling, cbs, reported, timeLeft, idleDone, timerVars,
                    eventVars, state>>
    BY DEF Take
  <2>1. /\ tasks \in Seq(Task) /\ tasks' \in Seq(Task)
        /\ \A i \in DOMAIN tasks' : \E j \in DOMAIN tasks : tasks'[i] = tasks[j]
        /\ \A S : Count(tasks', S) + (IF task \in S THEN 1 ELSE 0) = Count(tasks, S)
    <3>1. tasks \in Seq(Task) BY DEF FiberInv, TasksGood
    <3>. QED BY <1>1, <1>3, <3>1, CountRemoved
  <2>2. GoodTask(task) /\ k \in DOMAIN tasks
    <3>1. k \in DOMAIN tasks BY <1>1, <2>1
    <3>. QED BY <1>1, <3>1 DEF FiberInv, TasksGood
  <2>3. /\ \A v \in Worker : v # w => at'[v] = at[v] /\ running'[v] = running[v]
        /\ at'[w] = "resume" /\ running'[w] = task
    BY <1>3 DEF FiberInv, RunningGood, Goto
  <2>4. TasksGood' BY <2>1 DEF FiberInv, TasksGood
  <2>5. RunningGood'
    <3>1. at' \in [Worker -> Place] BY <1>3 DEF FiberInv, RunningGood, Goto, Place
    <3>2. running' \in [Worker -> Tasks]
      BY <1>3, <2>2 DEF FiberInv, RunningGood, Tasks, GoodTask
    <3>. QED BY <2>2, <2>3, <3>1, <3>2 DEF FiberInv, RunningGood
  <2>6. CallbacksGood' BY <1>0, <2>0, <2>3 DEF FiberInv, CallbacksGood
  <2>7. FibersGood'
    <3>1. \A v \in Worker, f \in Fiber : Runs(v, f)' <=> Runs(v, f)
      BY <1>0, <2>3 DEF Runs, On
    <3>. QED BY <2>0, <3>1 DEF FiberInv, FibersGood, fiberVars
  <2>8. TimersGood' /\ EventsGood' /\ ReportsGood' /\ CallsGood' /\ CallsApart' /\
       WaitersCall' /\ TimersCall'
    BY <2>0 DEF FiberInv, TimersGood, EventsGood, ReportsGood, CallsGood, CallsApart,
         WaitersCall, TimersCall, schedVars, workerVars, timerVars, eventVars,
         runtimeVars, fiberVars, fdVars
  <2>9. TimeoutsCall'
    <3>1. \A f \in Fiber : running'[w] = TaskOf("timeout", f) => tasks[k] = TaskOf("timeout", f)
      BY <1>1, <2>3
    <3>. SUFFICES ASSUME NEW f \in Fiber, call'[f] \notin IoCall
                  PROVE  /\ \A i \in DOMAIN tasks' : tasks'[i] # TaskOf("timeout", f)
                         /\ \A v \in Worker :
                              /\ running'[v] # TaskOf("timeout", f)
                              /\ \A i \in DOMAIN cbs'[v] : cbs'[v][i] # TaskOf("timeout", f)
      BY DEF TimeoutsCall
    <3>2. call[f] \notin IoCall BY DEF fiberVars
    <3>3. /\ \A i \in DOMAIN tasks : tasks[i] # TaskOf("timeout", f)
          /\ \A v \in Worker : /\ running[v] # TaskOf("timeout", f)
                               /\ \A i \in DOMAIN cbs[v] : cbs[v][i] # TaskOf("timeout", f)
      BY <3>2 DEF FiberInv, TimeoutsCall
    <3>4. tasks[k] # TaskOf("timeout", f) BY <2>2, <3>3
    <3>5. \A i \in DOMAIN tasks' : tasks'[i] # TaskOf("timeout", f) BY <2>1, <3>3
    <3>6. \A v \in Worker : running'[v] # TaskOf("timeout", f) BY <2>3, <3>1, <3>3, <3>4
    <3>. QED BY <2>0, <3>3, <3>5, <3>6
  <2>10. PendingCounts' /\ RestTyped'
    BY <1>3, <2>0 DEF FiberInv, PendingCounts, RestTyped, schedVars, workerVars,
         timerVars, eventVars, runtimeVars, fiberVars, fdVars
  <2>11. ASSUME NEW S
         PROVE  /\ AboutTo(at', running', S) = AboutTo(at, running, S) + (IF task \in S THEN 1 ELSE 0)
                /\ AboutTo(at, running, S) \in Nat
    <3>1. /\ AboutTo(at', running', S) \in Nat /\ AboutTo(at, running, S) \in Nat
          /\ AboutTo(at, running, S) + AtOne(at', running', w, S)
               = AboutTo(at', running', S) + AtOne(at, running, w, S)
      BY <2>3, AboutToOther
    <3>2. AtOne(at', running', w, S) = (IF task \in S THEN 1 ELSE 0) /\ AtOne(at, running, w, S) = 0
      BY <1>0, <2>3 DEF AtOne
    <3>3. PICK m, n \in Nat : m = AboutTo(at, running, S) /\ n = AboutTo(at', running', S)
      BY <3>1
    <3>4. m + (IF task \in S THEN 1 ELSE 0) = n + 0 BY <3>1, <3>2, <3>3
    <3>. QED BY <3>3, <3>4
  <2>12. \A S : Count(tasks', S) + AboutTo(at', running', S) = Count(tasks, S) + AboutTo(at, running, S)
    <3>1. \A S : Count(tasks', S) \in Nat BY <2>1, CountFinite
    <3>. QED BY <2>1, <2>11, <3>1
  <2>13. StartsOnce' BY <2>12 DEF FiberInv, StartsOnce, StartOf, fiberVars
  <2>14. WokenOnce'
    <3>1. ASSUME NEW f \in Fiber PROVE Owners(f)' = Owners(f)
      <4>1. Expired(cbs, Resuming(f))' = Expired(cbs, Resuming(f))
            /\ WaitedFor(waiter, f)' = WaitedFor(waiter, f)
            /\ ({<<"sleep", f>>} \intersect DOMAIN timers)' = {<<"sleep", f>>} \intersect DOMAIN timers
        BY <2>0 DEF eventVars, timerVars, Resuming, Resumes
      <4>2. Count(tasks', Resuming(f)) + AboutTo(at', running', Resuming(f))
              = Count(tasks, Resuming(f)) + AboutTo(at, running, Resuming(f))
        BY <2>12
      <4>. QED BY <4>1, <4>2 DEF Owners, Resuming, Resumes
    <3>. QED BY <2>0, <3>1 DEF FiberInv, WokenOnce, fiberVars
  <2>15. WorkersCount'
    <3>. DEFINE P == {"resume", "fiber"}
                Q == {"look", "check", "ask", "wait", "expire", "push", "handle"}
    <3>1. ASSUME NEW p
          PROVE  /\ Workers(at, p) \in Nat /\ Workers(at', p) \in Nat
                 /\ Workers(at, p) + (IF at'[w] \in p THEN 1 ELSE 0)
                      = Workers(at', p) + (IF at[w] \in p THEN 1 ELSE 0)
      <4>1. PICK a, b : a = at /\ b = at' OBVIOUS
      <4>2. \A v \in Worker : v # w => a[v] = b[v] BY <2>3, <4>1
      <4>3. /\ Workers(a, p) \in Nat /\ Workers(b, p) \in Nat
            /\ Workers(a, p) + (IF b[w] \in p THEN 1 ELSE 0)
                 = Workers(b, p) + (IF a[w] \in p THEN 1 ELSE 0)
        BY <4>2, WorkersMove
      <4>. QED BY <4>1, <4>3
    <3>2. at[w] \notin P /\ at'[w] \in P /\ at[w] \notin Q /\ at'[w] \notin Q BY <1>0, <2>3
    <3>3. active = Workers(at, P) /\ idling = Workers(at, Q) BY CountsOfWorkers DEF FiberInv
    <3>. HIDE DEF P, Q
    <3>4. active' = Workers(at', P) /\ idling' = Workers(at', Q)
      <4>1. active' = active + 1 /\ idling' = idling BY <1>3, <2>0
      <4>. QED BY <3>1, <3>2, <3>3, <4>1
    <3>. QED BY <3>4 DEF WorkersCount, Workers, P, Q
  <2>. QED BY <2>4, <2>5, <2>6, <2>7, <2>8, <2>9, <2>10, <2>13, <2>14, <2>15 DEF FiberInv
<1>. QED BY <1>1, <1>2, <1>3 DEF Take

\* A worker that is not in a task goes on, and changes nothing that others have.
LEMMA GoesOn ==
  ASSUME FiberInv, NEW w \in Worker, NEW x \in Place,
         at[w] \notin {"resume", "fiber", "push"}, x \notin {"resume", "fiber"},
         at' = [at EXCEPT ![w] = x], active' = active,
         idling' = idling + InIdle(x) - InIdle(at[w]),
         armed' \in [Fd -> SUBSET Event], \A fd \in Fd : armed'[fd] \subseteq events[fd],
         ReportsGood', RestTyped',
         UNCHANGED <<tasks, running, cbs, timers, events, waiter, pending, state, fiberVars>>
  PROVE  FiberInv'
<1>1. at[w] \notin {"resume", "fiber"} /\ running' = running OBVIOUS
<1>2. /\ RunningGood' /\ \A S : AboutTo(at', running', S) = AboutTo(at, running, S)
      /\ UNCHANGED <<state, pc>> => FibersGood'
      /\ \A v \in Worker : v # w => at'[v] = at[v]
      /\ at'[w] = x
  BY <1>1, QuietMove
<1>3. FibersGood' BY <1>2 DEF fiberVars
<1>4. WorkersCount' BY <1>1, IdlingCounts
<1>5. CallbacksGood' BY <1>2 DEF FiberInv, CallbacksGood
<1>6. EventsGood' BY DEF FiberInv, EventsGood
<1>7. TasksGood' /\ TimersGood' /\ CallsGood' /\ CallsApart' /\ WaitersCall' /\
     TimersCall' /\ TimeoutsCall' /\ PendingCounts'
  BY DEF FiberInv, TasksGood, TimersGood, CallsGood, CallsApart, WaitersCall,
       TimersCall, TimeoutsCall, PendingCounts, schedVars, workerVars, timerVars,
       eventVars, runtimeVars, fiberVars, fdVars
<1>8. StartsOnce' BY <1>2 DEF FiberInv, StartsOnce, StartOf, fiberVars
<1>9. WokenOnce' BY <1>2 DEF FiberInv, WokenOnce, Owners, Resuming, Resumes, fiberVars
<1>. QED BY <1>2, <1>3, <1>4, <1>5, <1>6, <1>7, <1>8, <1>9 DEF FiberInv

\* A worker that finds no task.
LEMMA NoTaskForMeKeeps ==
  ASSUME FiberInv, NEW w \in Worker, NoTaskForMe(w), UNCHANGED <<fiberVars, fdVars>>
  PROVE  FiberInv'
<1>1. PICK x \in Place : x = "rest" BY DEF Place
<1>2. ReportsGood' /\ RestTyped'
  BY DEF FiberInv, ReportsGood, RestTyped, NoTaskForMe, fdVars, schedVars, workerVars,
       timerVars, eventVars, runtimeVars, fiberVars
<1>3. armed' \in [Fd -> SUBSET Event] /\ \A fd \in Fd : armed'[fd] \subseteq events[fd]
  BY DEF FiberInv, EventsGood, NoTaskForMe, eventVars
<1>4. /\ at[w] = "take" /\ at' = [at EXCEPT ![w] = x] /\ active' = active /\ idling' = idling
      /\ UNCHANGED <<tasks, running, cbs, timers, events, waiter, pending, state, fiberVars>>
  BY <1>1 DEF NoTaskForMe, Goto, timerVars, eventVars
<1>5. idling' = idling + InIdle(x) - InIdle(at[w])
  BY <1>1, <1>4, CountersTyped DEF InIdle
<1>. QED BY <1>1, <1>2, <1>3, <1>4, <1>5, GoesOn

\* It goes idle, or ends.
LEMMA RestKeeps ==
  ASSUME FiberInv, NEW w \in Worker, Rest(w), UNCHANGED <<fiberVars, fdVars>>
  PROVE  FiberInv'
<1>2. ReportsGood' /\ RestTyped'
  BY DEF FiberInv, ReportsGood, RestTyped, Rest, fdVars, schedVars, workerVars,
       timerVars, eventVars, runtimeVars, fiberVars
<1>3. armed' \in [Fd -> SUBSET Event] /\ \A fd \in Fd : armed'[fd] \subseteq events[fd]
  BY DEF FiberInv, EventsGood, Rest, eventVars
<1>4. /\ at[w] = "rest" /\ active' = active
      /\ UNCHANGED <<tasks, running, cbs, timers, events, waiter, pending, state, fiberVars>>
  BY DEF Rest, Goto, timerVars, eventVars
<1>6. CASE Goto(w, "ended") /\ UNCHANGED idling
  <2>1. PICK x \in Place : x = "ended" BY DEF Place
  <2>2. at' = [at EXCEPT ![w] = x] /\ idling' = idling BY <1>6, <2>1 DEF Goto
  <2>7. idling' = idling + InIdle(x) - InIdle(at[w])
    BY <1>6, <1>4, <2>1, <2>2, CountersTyped DEF InIdle
  <2>. QED BY <1>2, <1>3, <1>4, <2>1, <2>2, <2>7, GoesOn
<1>7. CASE Goto(w, "look") /\ idling' = idling + 1
  <2>1. PICK x \in Place : x = "look" BY DEF Place
  <2>2. at' = [at EXCEPT ![w] = x] /\ idling' = idling + 1 BY <1>7, <2>1 DEF Goto
  <2>7. idling' = idling + InIdle(x) - InIdle(at[w])
    BY <1>7, <1>4, <2>1, <2>2, CountersTyped DEF InIdle
  <2>. QED BY <1>2, <1>3, <1>4, <2>1, <2>2, <2>7, GoesOn
<1>. QED BY <1>6, <1>7 DEF Rest

\* What is left of the timer that is due first.
LEMMA LeastLeftTyped ==
  ASSUME TimersGood
  PROVE  LeastLeft(timers) \in Delay \union {None}
         /\ (LeastLeft(timers) = None <=> DOMAIN timers = {})
<1>1. CASE DOMAIN timers = {} BY <1>1 DEF LeastLeft
<1>2. CASE DOMAIN timers # {}
  <2>1. PICK M : M = {timers[i].left : i \in DOMAIN timers} OBVIOUS
  <2>2. M \subseteq Delay BY <2>1 DEF TimersGood, Timer
  <2>3. M # {} BY <1>2, <2>1
  <2>4. M \subseteq Nat BY <2>2, RuntimeAssumption DEF Delay
  <2>5. PICK d \in M : \A m \in M : d <= m BY <2>3, <2>4, LeastExists
  <2>6. d \in Delay /\ (\E i \in DOMAIN timers : timers[i].left = d)
        /\ \A i \in DOMAIN timers : d <= timers[i].left
    BY <2>1, <2>2, <2>5
  <2>7. LeastLeft(timers) \in Delay BY <1>2, <2>6 DEF LeastLeft
  <2>8. None \notin Delay BY RuntimeAssumption DEF Delay
  <2>. QED BY <1>2, <2>7, <2>8
<1>. QED BY <1>1, <1>2

\* It asks how long until the next timer.
LEMMA LookKeeps ==
  ASSUME FiberInv, NEW w \in Worker, Look(w), UNCHANGED <<fiberVars, fdVars>>
  PROVE  FiberInv'
<1>1. PICK x \in Place : x = "check" BY DEF Place
<1>2. ReportsGood'
  BY DEF FiberInv, ReportsGood, Look, fdVars, schedVars, workerVars, timerVars,
       eventVars, runtimeVars, fiberVars
<1>3. armed' \in [Fd -> SUBSET Event] /\ \A fd \in Fd : armed'[fd] \subseteq events[fd]
  BY DEF FiberInv, EventsGood, Look, eventVars
<1>4. /\ at[w] = "look" /\ at' = [at EXCEPT ![w] = x] /\ active' = active /\ idling' = idling
      /\ UNCHANGED <<tasks, running, cbs, timers, events, waiter, pending, state, fiberVars>>
  BY <1>1 DEF Look, Goto, schedVars, eventVars
<1>5. idling' = idling + InIdle(x) - InIdle(at[w])
  BY <1>1, <1>4, CountersTyped DEF InIdle
<1>6. RestTyped'
  <2>1. PICK d : d = LeastLeft(timers) OBVIOUS
  <2>2. d \in 0 .. MaxDelay + MaxWait \union {None}
    BY <2>1, LeastLeftTyped, RuntimeAssumption DEF FiberInv, Delay
  <2>3. timeLeft' = [timeLeft EXCEPT ![w] = d] BY <2>1 DEF Look
  <2>. QED BY <2>2, <2>3 DEF FiberInv, RestTyped, Look, schedVars, fdVars
<1>. QED BY <1>1, <1>2, <1>3, <1>4, <1>5, <1>6, GoesOn

\* It stays among those in idle, and will wait as long as MAX_TIMEOUT at most.
LEMMA IdleMoves ==
  ASSUME FiberInv, NEW w \in Worker, at[w] \in {"check", "ask"},
         \/ Goto(w, "ask") /\ UNCHANGED timeLeft
         \/ Waits(w),
         UNCHANGED <<schedVars, running, cbs, reported, idleDone, timerVars, eventVars,
                     state, panicked, fiberVars, fdVars>>
  PROVE  FiberInv'
<1>1. PICK x \in Place : x \in {"ask", "wait"} /\ at' = [at EXCEPT ![w] = x]
  BY DEF Place, Goto, Waits
<1>2. ReportsGood' BY DEF FiberInv, ReportsGood
<1>3. armed' \in [Fd -> SUBSET Event] /\ \A fd \in Fd : armed'[fd] \subseteq events[fd]
  BY DEF FiberInv, EventsGood, eventVars
<1>4. UNCHANGED <<active, idling, tasks, running, cbs, timers, events, waiter, pending, state,
                  fiberVars>>
  BY DEF schedVars, timerVars, eventVars
<1>5. PICK d : d \in 0 .. MaxDelay + MaxWait \union {None}
               /\ timeLeft' = [timeLeft EXCEPT ![w] = d]
  <2>1. PICK e \in 0 .. MaxDelay + MaxWait \union {None} : e = timeLeft[w]
    BY DEF FiberInv, RestTyped
  <2>2. Waiting(e) \in 0 .. MaxDelay + MaxWait BY <2>1, RuntimeAssumption DEF Waiting
  <2>3. CASE Waits(w) BY <2>1, <2>2, <2>3 DEF Waits
  <2>4. CASE UNCHANGED timeLeft BY <2>1, <2>4 DEF FiberInv, RestTyped
  <2>. QED BY <2>3, <2>4
<1>6. RestTyped' BY <1>5 DEF FiberInv, RestTyped, schedVars, fdVars
<1>7. idling' = idling + InIdle(x) - InIdle(at[w])
  BY <1>1, <1>4, CountersTyped DEF InIdle
<1>. QED BY <1>1, <1>2, <1>3, <1>4, <1>6, <1>7, GoesOn

\* It waits, or asks the scheduler.
LEMMA CheckKeeps ==
  ASSUME FiberInv, NEW w \in Worker, Check(w), UNCHANGED <<fiberVars, fdVars>>
  PROVE  FiberInv'
BY IdleMoves DEF Check

\* It waits, or its idle fiber is done.
LEMMA AskKeeps ==
  ASSUME FiberInv, NEW w \in Worker, Ask(w), UNCHANGED <<fiberVars, fdVars>>
  PROVE  FiberInv'
<1>1. CASE Waits(w) /\ UNCHANGED <<idleDone, idling>>
  BY <1>1, IdleMoves DEF Ask, schedVars
<1>2. CASE /\ Stopping
           /\ idleDone' = [idleDone EXCEPT ![w] = TRUE]
           /\ idling' = idling - 1
           /\ Goto(w, "take")
           /\ UNCHANGED timeLeft
  <2>1. PICK x \in Place : x = "take" BY DEF Place
  <2>2. at' = [at EXCEPT ![w] = x] BY <1>2, <2>1 DEF Goto
  <2>3. /\ at[w] = "ask"
        /\ UNCHANGED <<isStopped, active, tasks, running, cbs, timers, events, waiter, pending,
                       state, fiberVars>>
    BY DEF Ask, timerVars, eventVars
  <2>4. ReportsGood'
    BY DEF FiberInv, ReportsGood, Ask
  <2>5. armed' \in [Fd -> SUBSET Event] /\ \A fd \in Fd : armed'[fd] \subseteq events[fd]
    BY DEF FiberInv, EventsGood, Ask, eventVars
  <2>6. RestTyped' BY <1>2 DEF FiberInv, RestTyped, Ask, fdVars
  <2>7. idling' = idling + InIdle(x) - InIdle(at[w])
    BY <1>2, <2>1, <2>3, CountersTyped DEF InIdle
  <2>. QED BY <2>1, <2>2, <2>3, <2>4, <2>5, <2>6, <2>7, GoesOn
<1>. QED BY <1>1, <1>2 DEF Ask

\* epoll_wait returns registered events.
LEMMA WaitKeeps ==
  ASSUME FiberInv, NEW w \in Worker, Wait(w, ready), UNCHANGED <<fiberVars, fdVars>>
  PROVE  FiberInv'
<1>1. PICK x \in Place : x = "expire" BY DEF Place
<1>2. ReportsGood'
  <2>. DEFINE due == {fd \in Fd : armed[fd] \intersect ready[fd] /= {}}
              all == due \union {None : p \in {pipe} \ {FALSE}}
              R(order) == [i \in DOMAIN order |->
                [fd |-> order[i],
                 events |-> IF order[i] = None THEN {}
                            ELSE armed[order[i]] \intersect ready[order[i]]]]
  <2>1. PICK order \in SetToSeqs(all) : reported' = [reported EXCEPT ![w] = R(order)]
    BY DEF Wait
  <2>2. PICK n : n = Cardinality(all) OBVIOUS
  <2>3. order \in [1 .. n -> all] BY <2>2 DEF SetToSeqs
  <2>4. all \subseteq Fd \union {None} OBVIOUS
  <2>5. n \in Nat
    <3>1. all \in SUBSET (Fd \union {None}) BY <2>4
    <3>2. IsFiniteSet(Fd \union {None}) BY RuntimeAssumption, FS_AddElement
    <3>. HIDE DEF all
    <3>. QED BY <2>2, <3>1, <3>2, FS_Subset, FS_CardinalityType
  <2>6. R(order) \in Seq(Reported)
    <3>1. \A i \in 1 .. n : order[i] \in Fd \union {None} BY <2>3, <2>4
    <3>2. DOMAIN order = 1 .. n BY <2>3
    <3>3. \A i \in 1 .. n : R(order)[i] \in Reported
      BY <3>1, <3>2 DEF FiberInv, EventsGood, Reported
    <3>4. R(order) = [i \in 1 .. n |-> R(order)[i]] BY <3>2
    <3>. HIDE DEF R
    <3>. QED BY <2>5, <3>3, <3>4
  <2>. HIDE DEF R
  <2>. QED BY <2>1, <2>6 DEF FiberInv, ReportsGood
<1>3. armed' \in [Fd -> SUBSET Event] /\ \A fd \in Fd : armed'[fd] \subseteq events[fd]
  <2>1. armed' = [fd \in Fd |-> armed[fd] \ ready[fd]] BY DEF Wait
  <2>. QED BY <2>1 DEF FiberInv, EventsGood
<1>4. /\ at[w] = "wait" /\ at' = [at EXCEPT ![w] = x] /\ active' = active /\ idling' = idling
      /\ UNCHANGED <<tasks, running, cbs, timers, events, waiter, pending, state, fiberVars>>
  BY <1>1 DEF Wait, Goto, schedVars, timerVars
<1>5. idling' = idling + InIdle(x) - InIdle(at[w])
  BY <1>1, <1>4, CountersTyped DEF InIdle
<1>6. RestTyped' BY DEF FiberInv, RestTyped, Wait, schedVars, fdVars
<1>. QED BY <1>1, <1>2, <1>3, <1>4, <1>5, <1>6, GoesOn

\* The idle fiber yields to run.
LEMMA HandledKeeps ==
  ASSUME FiberInv, NEW w \in Worker, Handled(w), UNCHANGED <<fiberVars, fdVars>>
  PROVE  FiberInv'
<1>1. PICK x \in Place : x = "take" BY DEF Place
<1>2. ReportsGood' /\ RestTyped'
  BY DEF FiberInv, ReportsGood, RestTyped, Handled, fdVars, schedVars, workerVars,
       timerVars, eventVars, runtimeVars, fiberVars
<1>3. armed' \in [Fd -> SUBSET Event] /\ \A fd \in Fd : armed'[fd] \subseteq events[fd]
  BY DEF FiberInv, EventsGood, Handled, eventVars
<1>4. /\ at[w] = "handle" /\ at' = [at EXCEPT ![w] = x] /\ active' = active /\ idling' = idling - 1
      /\ UNCHANGED <<tasks, running, cbs, timers, events, waiter, pending, state, fiberVars>>
  BY <1>1 DEF Handled, Goto, timerVars, eventVars
<1>5. idling' = idling + InIdle(x) - InIdle(at[w])
  BY <1>1, <1>4, CountersTyped DEF InIdle
<1>. QED BY <1>1, <1>2, <1>3, <1>4, <1>5, GoesOn

\* What listExpiredCb takes: the callback of each timer that is due, once.
LEMMA ExpiredCallbacks ==
  ASSUME FiberInv, NEW due, due \subseteq DOMAIN timers, NEW order \in SetToSeqs(due),
         NEW s, s = [i \in DOMAIN order |-> timers[order[i]].cb]
  PROVE  /\ s \in Seq(Task) /\ \A i \in DOMAIN s : Callback(s[i])
         /\ \A f \in Fiber :
              /\ Count(s, Resuming(f)) = IF <<"sleep", f>> \in due THEN 1 ELSE 0
              /\ \A i \in DOMAIN s : s[i] = TaskOf("timeout", f) => <<"io", f>> \in due
<1>1. PICK n : n = Cardinality(due) OBVIOUS
<1>2. IsFiniteSet(due) /\ n \in Nat
  <2>1. IsFiniteSet({"sleep"}) /\ IsFiniteSet({"sleep"} \union {"io"})
    BY FS_Singleton, FS_AddElement
  <2>2. {"sleep", "io"} = {"sleep"} \union {"io"} OBVIOUS
  <2>3. IsFiniteSet({"sleep", "io"} \X Fiber) BY <2>1, <2>2, RuntimeAssumption, FS_Product
  <2>4. IsFiniteSet(({"sleep", "io"} \X Fiber) \union {User}) BY <2>3, FS_AddElement
  <2>5. TimerNames = ({"sleep", "io"} \X Fiber) \union {User} BY DEF TimerNames
  <2>6. due \in SUBSET TimerNames BY DEF FiberInv, TimersGood
  <2>. QED BY <1>1, <2>4, <2>5, <2>6, FS_Subset, FS_CardinalityType
<1>3. /\ order \in [1 .. n -> due] /\ DOMAIN order = 1 .. n
      /\ \A i, j \in 1 .. n : i # j => order[i] # order[j]
  BY <1>1 DEF SetToSeqs
<1>4. \A x \in due : \E i \in 1 .. n : order[i] = x
  <2>1. order \in Injection(1 .. n, due) BY <1>3 DEF Injection, IsInjective
  <2>2. Cardinality(1 .. n) = n BY <1>2, FS_Interval
  <2>3. order \in Surjection(1 .. n, due)
    <3>1. /\ Cardinality(1 .. n) = Cardinality(due) <=> order \in Surjection(1 .. n, due)
      BY <1>2, <2>1, FS_Injection
    <3>. QED BY <1>1, <2>2, <3>1
  <2>. QED BY <2>3 DEF Surjection
<1>5. /\ DOMAIN s = 1 .. n
      /\ \A i \in 1 .. n : order[i] \in due /\ s[i] = CallbackOf(order[i])
  <2>1. \A x \in due : timers[x].cb = CallbackOf(x) BY DEF FiberInv, TimersGood
  <2>. QED BY <1>3, <2>1
<1>6. ASSUME NEW x \in due
      PROVE  /\ Callback(CallbackOf(x))
             /\ \A f \in Fiber : /\ CallbackOf(x) \in Resuming(f) <=> x = <<"sleep", f>>
                                 /\ CallbackOf(x) = TaskOf("timeout", f) => x = <<"io", f>>
  <2>1. x \in TimerNames BY DEF FiberInv, TimersGood
  <2>2. CASE x = User
    <3>1. CallbackOf(x) = TaskOf("user", None) BY <2>2 DEF CallbackOf, User
    <3>2. CallbackOf(x).fn = "user" BY <3>1, TaskOfGood
    <3>. QED BY <2>2, <3>1, <3>2, TaskOfGood, Distinct DEF Callback, Resuming, Resumes
  <2>3. CASE \E g \in Fiber : x = <<"sleep", g>>
    <3>1. PICK g \in Fiber : x = <<"sleep", g>> BY <2>3
    <3>2. CallbackOf(x) = TaskOf("wake", g) BY <3>1 DEF CallbackOf
    <3>. QED BY <3>1, <3>2, TaskOfGood, Distinct DEF Callback, GoodTask, Resuming, Resumes
  <2>4. CASE \E g \in Fiber : x = <<"io", g>>
    <3>1. PICK g \in Fiber : x = <<"io", g>> BY <2>4
    <3>2. CallbackOf(x) = TaskOf("timeout", g) BY <3>1 DEF CallbackOf
    <3>. QED BY <3>1, <3>2, TaskOfGood, Distinct DEF Callback, GoodTask, Resuming, Resumes
  <2>. QED BY <2>1, <2>2, <2>3, <2>4 DEF TimerNames
<1>7. s \in Seq(Task) /\ \A i \in DOMAIN s : Callback(s[i])
  <2>1. \A i \in 1 .. n : Callback(s[i]) BY <1>5, <1>6
  <2>2. \A i \in 1 .. n : s[i] \in Task BY <2>1 DEF Callback, GoodTask
  <2>3. s = [i \in 1 .. n |-> s[i]] BY <1>3
  <2>. QED BY <1>2, <1>5, <2>1, <2>2, <2>3
<1>8. ASSUME NEW f \in Fiber
      PROVE  Count(s, Resuming(f)) = IF <<"sleep", f>> \in due THEN 1 ELSE 0
  <2>1. \A i \in DOMAIN s : s[i] \in Resuming(f) <=> order[i] = <<"sleep", f>>
    BY <1>5, <1>6
  <2>2. CASE <<"sleep", f>> \in due
    <3>1. PICK k \in 1 .. n : order[k] = <<"sleep", f>> BY <1>4, <2>2
    <3>2. k \in DOMAIN s /\ \A i \in DOMAIN s : s[i] \in Resuming(f) <=> i = k
      BY <1>3, <1>5, <2>1, <3>1
    <3>3. Count(s, Resuming(f)) = 1 BY <3>2, CountOne
    <3>. QED BY <2>2, <3>3
  <2>3. CASE <<"sleep", f>> \notin due
    <3>1. \A i \in DOMAIN s : s[i] \notin Resuming(f) BY <1>5, <2>1, <2>3
    <3>2. Count(s, Resuming(f)) = 0 BY <3>1, CountNone
    <3>. QED BY <2>3, <3>2
  <2>. QED BY <2>2, <2>3
<1>. QED BY <1>5, <1>6, <1>7, <1>8

\* The sleeps that are due become callbacks.
LEMMA ExpireKeeps ==
  ASSUME FiberInv, NEW w \in Worker, Expire(w), UNCHANGED <<fiberVars, fdVars>>
  PROVE  FiberInv'
<1>1. PICK due, again : /\ due = {i \in DOMAIN timers : timers[i].left = 0}
                        /\ again = {i \in due : timers[i].recurring}
  OBVIOUS
<1>2. PICK order \in SetToSeqs(due) :
        cbs' = [cbs EXCEPT ![w] = [i \in DOMAIN order |-> timers[order[i]].cb]]
  BY <1>1 DEF Expire
<1>3. PICK s : s = [i \in DOMAIN order |-> timers[order[i]].cb] OBVIOUS
<1>4. /\ s \in Seq(Task) /\ \A i \in DOMAIN s : Callback(s[i])
      /\ \A f \in Fiber :
           /\ Count(s, Resuming(f)) = IF <<"sleep", f>> \in due THEN 1 ELSE 0
           /\ \A i \in DOMAIN s : s[i] = TaskOf("timeout", f) => <<"io", f>> \in due
  <2>1. due \subseteq DOMAIN timers BY <1>1
  <2>. QED BY <1>3, <2>1, ExpiredCallbacks
<1>5. /\ at[w] = "expire" /\ at' = [at EXCEPT ![w] = "push"]
      /\ timers' = [i \in (DOMAIN timers \ due) \union again |->
                      IF i \in again THEN [timers[i] EXCEPT !.left = @ + timers[i].ms]
                      ELSE timers[i]]
      /\ UNCHANGED <<schedVars, running, reported, timeLeft, idleDone, tickled,
                     eventVars, state, panicked>>
  BY <1>1 DEF Expire, Goto
<1>6. cbs[w] = <<>> BY <1>5 DEF FiberInv, CallbacksGood
<1>7. /\ DOMAIN timers' = (DOMAIN timers \ due) \union again
      /\ \A i \in again : timers'[i] = [timers[i] EXCEPT !.left = @ + timers[i].ms]
      /\ \A i \in DOMAIN timers \ due : timers'[i] = timers[i]
      /\ again \subseteq {User}
  BY <1>1, <1>5 DEF FiberInv, TimersGood
<1>8. PICK x \in Place : x = "push" BY DEF Place
<1>9. /\ RunningGood' /\ \A S : AboutTo(at', running', S) = AboutTo(at, running, S)
      /\ UNCHANGED <<state, pc>> => FibersGood'
      /\ \A v \in Worker : v # w => at'[v] = at[v]
      /\ at'[w] = x
  BY <1>5, <1>8, QuietMove
<1>10. FibersGood' BY <1>5, <1>9 DEF fiberVars
<1>11. WorkersCount'
  <2>1. idling' = idling + InIdle(x) - InIdle(at[w])
    BY <1>5, <1>8, CountersTyped DEF InIdle, schedVars
  <2>2. at' = [at EXCEPT ![w] = x] /\ active' = active BY <1>5, <1>8 DEF schedVars
  <2>. QED BY <1>5, <1>8, <2>1, <2>2, IdlingCounts
<1>12. (\A v \in Worker : v # w => cbs'[v] = cbs[v]) /\ cbs'[w] = s
       /\ cbs' \in [Worker -> Seq(Task)]
  BY <1>2, <1>3, <1>4 DEF FiberInv, CallbacksGood
<1>13. CallbacksGood' BY <1>4, <1>8, <1>9, <1>12 DEF FiberInv, CallbacksGood
<1>14. TimersGood'
  <2>1. ASSUME NEW i \in again
        PROVE  /\ timers'[i] \in Timer /\ timers'[i].left <= timers'[i].ms
               /\ timers'[i].cb = CallbackOf(i)
    <3>1. timers[i] \in Timer /\ timers[i].left = 0 /\ timers[i].cb = CallbackOf(i)
      BY <1>1 DEF FiberInv, TimersGood
    <3>2. PICK t : t = timers[i] OBVIOUS
    <3>3. timers'[i] = [t EXCEPT !.left = t.ms]
      <4>1. timers'[i] = [t EXCEPT !.left = t.left + t.ms] BY <1>7, <3>2
      <4>2. t.left + t.ms = t.ms BY <3>1, <3>2, RuntimeAssumption DEF Timer, Delay
      <4>. QED BY <4>1, <4>2
    <3>. QED BY <3>1, <3>2, <3>3, RuntimeAssumption DEF Timer, Delay
  <2>. QED BY <1>1, <1>7, <2>1 DEF FiberInv, TimersGood
<1>15. TasksGood' /\ EventsGood' /\ ReportsGood' /\ CallsGood' /\ CallsApart' /\
     WaitersCall' /\ PendingCounts' /\ RestTyped'
  BY <1>5 DEF FiberInv, TasksGood, EventsGood, ReportsGood, CallsGood, CallsApart,
       WaitersCall, PendingCounts, RestTyped, schedVars, workerVars, timerVars,
       eventVars, runtimeVars, fiberVars, fdVars
<1>16. TimersCall'
  <2>1. \A f \in Fiber : <<"io", f>> \in DOMAIN timers' => <<"io", f>> \in DOMAIN timers
    BY <1>1, <1>7
  <2>. QED BY <2>1 DEF FiberInv, TimersCall, fiberVars
<1>17. TimeoutsCall'
  <2>1. \A f \in Fiber : \A i \in DOMAIN s : s[i] = TaskOf("timeout", f) => call[f] \in IoCall
    BY <1>1, <1>4 DEF FiberInv, TimersCall
  <2>. QED BY <1>5, <1>12, <2>1 DEF FiberInv, TimeoutsCall, fiberVars, schedVars
<1>18. StartsOnce' BY <1>5, <1>9 DEF FiberInv, StartsOnce, StartOf, fiberVars, schedVars
<1>19. WokenOnce'
  <2>1. ASSUME NEW f \in Fiber PROVE Owners(f)' = Owners(f)
    <3>1. Expired(cbs', Resuming(f)) = Expired(cbs, Resuming(f)) + Count(s, Resuming(f))
      <4>1. PICK c, d : c = cbs /\ d = cbs' OBVIOUS
      <4>2. (\A v \in Worker : c[v] \in Seq(Task) /\ d[v] \in Seq(Task))
            /\ \A v \in Worker : v # w => c[v] = d[v]
        BY <1>12, <1>13, <4>1 DEF FiberInv, CallbacksGood
      <4>3. Expired(c, Resuming(f)) + Count(d[w], Resuming(f))
              = Expired(d, Resuming(f)) + Count(c[w], Resuming(f))
        BY <4>2, CallbacksMove
      <4>4. c[w] = <<>> /\ Count(<<>>, Resuming(f)) = 0 BY <1>6, <4>1, CountNone
      <4>5. d[w] = s BY <1>12, <4>1
      <4>6. Expired(c, Resuming(f)) \in Nat /\ Expired(d, Resuming(f)) \in Nat
        BY <4>2, CallbacksFinite
      <4>. QED BY <4>1, <4>3, <4>4, <4>5, <4>6
    <3>2. Cardinality({<<"sleep", f>>} \intersect DOMAIN timers')
            + Count(s, Resuming(f)) = Cardinality({<<"sleep", f>>} \intersect DOMAIN timers)
      <4>1. PICK C, D : C = DOMAIN timers /\ D = DOMAIN timers' OBVIOUS
      <4>2. <<"sleep", f>> \in D <=> <<"sleep", f>> \in C /\ <<"sleep", f>> \notin due
        BY <1>7, <4>1, Distinct
      <4>3. <<"sleep", f>> \in due => <<"sleep", f>> \in C BY <1>1, <4>1
      <4>4. Cardinality({<<"sleep", f>>} \intersect D) = IF <<"sleep", f>> \in D THEN 1 ELSE 0
        BY Asleep
      <4>5. Cardinality({<<"sleep", f>>} \intersect C) = IF <<"sleep", f>> \in C THEN 1 ELSE 0
        BY Asleep
      <4>6. Count(s, Resuming(f)) = IF <<"sleep", f>> \in due THEN 1 ELSE 0 BY <1>4
      <4>7. Cardinality({<<"sleep", f>>} \intersect D) + Count(s, Resuming(f))
              = Cardinality({<<"sleep", f>>} \intersect C)
        <5>1. CASE <<"sleep", f>> \in due BY <4>2, <4>3, <4>4, <4>5, <4>6, <5>1
        <5>2. CASE <<"sleep", f>> \notin due BY <4>2, <4>4, <4>5, <4>6, <5>2
        <5>. QED BY <5>1, <5>2
      <4>. QED BY <4>1, <4>7
    <3>3. Count(tasks', Resuming(f)) = Count(tasks, Resuming(f))
          /\ AboutTo(at', running', Resuming(f)) = AboutTo(at, running, Resuming(f))
          /\ WaitedFor(waiter', f) = WaitedFor(waiter, f)
      BY <1>5, <1>9 DEF schedVars, eventVars
    <3>4. Count(s, Resuming(f)) \in Nat BY <1>4, CountFinite
    <3>5. Expired(cbs, Resuming(f)) \in Nat
          /\ Cardinality({<<"sleep", f>>} \intersect DOMAIN timers) \in Nat
          /\ Count(tasks, Resuming(f)) \in Nat /\ AboutTo(at, running, Resuming(f)) \in Nat
          /\ WaitedFor(waiter, f) \in Nat
      BY OwnersNat DEF FiberInv
    <3>6. Cardinality({<<"sleep", f>>} \intersect DOMAIN timers') \in Nat
      <4>1. PICK D : D = DOMAIN timers' OBVIOUS
      <4>2. IsFiniteSet({<<"sleep", f>>} \intersect D) BY FS_Singleton, FS_Intersection
      <4>. QED BY <4>1, <4>2, FS_CardinalityType
    <3>. QED BY <3>1, <3>2, <3>3, <3>4, <3>5, <3>6 DEF Owners, Resuming, Resumes
  <2>. QED BY <1>5, <2>1 DEF FiberInv, WokenOnce, fiberVars
<1>. QED BY <1>9, <1>10, <1>11, <1>13, <1>14, <1>15, <1>16, <1>17, <1>18, <1>19 DEF FiberInv

\* What will resume fiber f before and after a step, part by part.
LEMMA OwnersParts ==
  ASSUME TasksGood, CallbacksGood, TasksGood', CallbacksGood', NEW f
  PROVE  /\ \E c, a, e, s, h \in Nat :
              /\ c = Count(tasks, Resuming(f)) /\ a = AboutTo(at, running, Resuming(f))
              /\ e = Expired(cbs, Resuming(f)) /\ h = WaitedFor(waiter, f)
              /\ s = Cardinality({<<"sleep", f>>} \intersect DOMAIN timers)
              /\ Owners(f) = c + a + e + s + h
         /\ \E c, a, e, s, h \in Nat :
              /\ c = Count(tasks', Resuming(f)) /\ a = AboutTo(at', running', Resuming(f))
              /\ e = Expired(cbs', Resuming(f)) /\ h = WaitedFor(waiter', f)
              /\ s = Cardinality({<<"sleep", f>>} \intersect DOMAIN timers')
              /\ Owners(f)' = c + a + e + s + h
<1>. DEFINE c1 == Count(tasks', Resuming(f))
            a1 == AboutTo(at', running', Resuming(f))
            e1 == Expired(cbs', Resuming(f))
            s1 == Cardinality({<<"sleep", f>>} \intersect DOMAIN timers')
            h1 == WaitedFor(waiter', f)
            c0 == Count(tasks, Resuming(f))
            a0 == AboutTo(at, running, Resuming(f))
            e0 == Expired(cbs, Resuming(f))
            s0 == Cardinality({<<"sleep", f>>} \intersect DOMAIN timers)
            h0 == WaitedFor(waiter, f)
<1>1. c0 \in Nat /\ a0 \in Nat /\ e0 \in Nat /\ s0 \in Nat /\ h0 \in Nat BY OwnersNat
<1>2. c1 \in Nat
  <2>1. PICK s : s = tasks' OBVIOUS
  <2>2. s \in Seq(Task) BY <2>1 DEF TasksGood
  <2>3. Count(s, Resuming(f)) \in Nat BY <2>2, CountFinite
  <2>. QED BY <2>1, <2>3
<1>3. a1 \in Nat BY AboutToNat
<1>4. e1 \in Nat
  <2>1. PICK c : c = cbs' OBVIOUS
  <2>2. \A w \in Worker : c[w] \in Seq(Task) BY <2>1 DEF CallbacksGood
  <2>3. Expired(c, Resuming(f)) \in Nat BY <2>2, CallbacksFinite
  <2>. QED BY <2>1, <2>3
<1>5. s1 \in Nat
  <2>1. PICK D : D = DOMAIN timers' OBVIOUS
  <2>2. Cardinality({<<"sleep", f>>} \intersect D) = (IF <<"sleep", f>> \in D THEN 1 ELSE 0)
    BY Asleep
  <2>3. Cardinality({<<"sleep", f>>} \intersect D) \in Nat BY <2>2
  <2>. QED BY <2>1, <2>3
<1>6. h1 \in Nat
  <2>1. {p \in Fd \X Event : waiter'[p[1]][p[2]] = f} \in SUBSET (Fd \X Event) OBVIOUS
  <2>. QED BY <2>1, EventsFinite DEF WaitedFor
<1>7. Owners(f) = c0 + a0 + e0 + s0 + h0 BY DEF Owners
<1>8. Owners(f)' = c1 + a1 + e1 + s1 + h1 BY DEF Owners, Resuming, Resumes
<1>9. \E c, a, e, s, h \in Nat : /\ c = c0 /\ a = a0 /\ e = e0 /\ h = h0 /\ s = s0
                                /\ Owners(f) = c + a + e + s + h
  <2>. HIDE DEF c0, a0, e0, s0, h0
  <2>. QED BY <1>1, <1>7
<1>10. \E c, a, e, s, h \in Nat : /\ c = c1 /\ a = a1 /\ e = e1 /\ h = h1 /\ s = s1
                                 /\ Owners(f)' = c + a + e + s + h
  <2>. HIDE DEF c1, a1, e1, s1, h1
  <2>. QED BY <1>2, <1>3, <1>4, <1>5, <1>6, <1>8
<1>. QED BY <1>9, <1>10

\* Registered events that become tasks wake the same fibers.
LEMMA OwnersTriggered ==
  ASSUME TasksGood, CallbacksGood, TasksGood', CallbacksGood', NEW f,
         DOMAIN timers' = DOMAIN timers, cbs' = cbs,
         AboutTo(at', running', Resuming(f)) = AboutTo(at, running, Resuming(f)),
         Count(tasks', Resuming(f)) + WaitedFor(waiter', f)
           = Count(tasks, Resuming(f)) + WaitedFor(waiter, f)
  PROVE  Owners(f)' = Owners(f)
<1>0. PICK c0, a0, e0, s0, h0 \in Nat :
        /\ c0 = Count(tasks, Resuming(f)) /\ a0 = AboutTo(at, running, Resuming(f))
        /\ e0 = Expired(cbs, Resuming(f)) /\ h0 = WaitedFor(waiter, f)
        /\ s0 = Cardinality({<<"sleep", f>>} \intersect DOMAIN timers)
        /\ Owners(f) = c0 + a0 + e0 + s0 + h0
  BY OwnersParts
<1>1. PICK c1, a1, e1, s1, h1 \in Nat :
        /\ c1 = Count(tasks', Resuming(f)) /\ a1 = AboutTo(at', running', Resuming(f))
        /\ e1 = Expired(cbs', Resuming(f)) /\ h1 = WaitedFor(waiter', f)
        /\ s1 = Cardinality({<<"sleep", f>>} \intersect DOMAIN timers')
        /\ Owners(f)' = c1 + a1 + e1 + s1 + h1
  BY OwnersParts
<1>2. a1 = a0 /\ e1 = e0 /\ c1 + h1 = c0 + h0 BY <1>0, <1>1
<1>3. s1 = s0
  <2>1. PICK D, E : D = DOMAIN timers /\ E = DOMAIN timers' OBVIOUS
  <2>2. Cardinality({<<"sleep", f>>} \intersect D) = Cardinality({<<"sleep", f>>} \intersect E)
    BY <2>1
  <2>. QED BY <1>0, <1>1, <2>1, <2>2
<1>4. PICK o, p : o = Owners(f) /\ p = Owners(f)' OBVIOUS
<1>5. o = c0 + a0 + e0 + s0 + h0 /\ p = c1 + a1 + e1 + s1 + h1 BY <1>0, <1>1, <1>4
<1>6. o = p BY <1>2, <1>3, <1>5
<1>. QED BY <1>4, <1>6

\* The callbacks become tasks.
LEMMA PushExpiredKeeps ==
  ASSUME FiberInv, NEW w \in Worker, PushExpired(w), UNCHANGED <<fiberVars, fdVars>>
  PROVE  FiberInv'
<1>1. PICK s : s = cbs[w] OBVIOUS
<1>2. /\ at[w] = "push" /\ at' = [at EXCEPT ![w] = "handle"]
      /\ tasks' = tasks \o s /\ cbs' = [cbs EXCEPT ![w] = <<>>]
      /\ UNCHANGED <<isStopped, active, idling, running, reported, timeLeft, idleDone,
                     timerVars, eventVars, state, panicked>>
  BY <1>1 DEF PushExpired, Pushed, Goto
<1>3. s \in Seq(Task) /\ \A i \in DOMAIN s : GoodTask(s[i]) /\ s[i].fn # "body"
  <2>1. \A i \in DOMAIN s : Callback(s[i]) BY <1>1 DEF FiberInv, CallbacksGood
  <2>. QED BY <1>1, <2>1 DEF FiberInv, CallbacksGood, Callback
<1>4. /\ TasksGood'
      /\ \A S : Count(tasks, S)' = Count(tasks, S) + Count(s, S)
      /\ \A x : (\A i \in DOMAIN tasks : tasks[i] # x) /\ (\A i \in DOMAIN s : s[i] # x)
                  => (\A i \in DOMAIN tasks' : tasks'[i] # x)
  BY <1>2, <1>3, PushedTasks DEF FiberInv
<1>5. PICK x \in Place : x = "handle" BY DEF Place
<1>6. /\ RunningGood' /\ \A S : AboutTo(at', running', S) = AboutTo(at, running, S)
      /\ UNCHANGED <<state, pc>> => FibersGood'
      /\ \A v \in Worker : v # w => at'[v] = at[v]
      /\ at'[w] = x
  BY <1>2, <1>5, QuietMove
<1>7. FibersGood' BY <1>2, <1>6 DEF fiberVars
<1>8. WorkersCount'
  <2>1. idling' = idling + InIdle(x) - InIdle(at[w])
    BY <1>2, <1>5, CountersTyped DEF InIdle
  <2>2. at' = [at EXCEPT ![w] = x] /\ active' = active BY <1>2, <1>5
  <2>. QED BY <1>2, <1>5, <2>1, <2>2, IdlingCounts
<1>9. /\ \A v \in Worker : v # w => cbs'[v] = cbs[v]
      /\ cbs'[w] = <<>> /\ cbs' \in [Worker -> Seq(Task)]
  BY <1>2 DEF FiberInv, CallbacksGood
<1>10. CallbacksGood'
  <2>1. \A i \in DOMAIN cbs'[w] : Callback(cbs'[w][i])
    <3>1. DOMAIN cbs'[w] = {} BY <1>9
    <3>. QED BY <3>1
  <2>. QED BY <1>2, <1>6, <1>9, <2>1 DEF FiberInv, CallbacksGood
<1>11. TimersGood' /\ EventsGood' /\ ReportsGood' /\ CallsGood' /\ CallsApart' /\
     WaitersCall' /\ TimersCall' /\ PendingCounts' /\ RestTyped'
  BY <1>2 DEF FiberInv, TimersGood, EventsGood, ReportsGood, CallsGood, CallsApart,
       WaitersCall, TimersCall, PendingCounts, RestTyped, schedVars, workerVars,
       timerVars, eventVars, runtimeVars, fiberVars, fdVars
<1>12. TimeoutsCall'
  <2>1. ASSUME NEW f \in Fiber, call[f] \notin IoCall
        PROVE  /\ \A i \in DOMAIN tasks' : tasks'[i] # TaskOf("timeout", f)
               /\ \A v \in Worker : /\ running'[v] # TaskOf("timeout", f)
                                    /\ \A i \in DOMAIN cbs'[v] : cbs'[v][i] # TaskOf("timeout", f)
    <3>1. /\ \A i \in DOMAIN tasks : tasks[i] # TaskOf("timeout", f)
          /\ \A v \in Worker : /\ running[v] # TaskOf("timeout", f)
                               /\ \A i \in DOMAIN cbs[v] : cbs[v][i] # TaskOf("timeout", f)
      BY <2>1 DEF FiberInv, TimeoutsCall
    <3>2. \A i \in DOMAIN s : s[i] # TaskOf("timeout", f) BY <1>1, <3>1
    <3>3. \A i \in DOMAIN tasks' : tasks'[i] # TaskOf("timeout", f) BY <1>4, <3>1, <3>2
    <3>. QED BY <1>2, <1>9, <3>1, <3>3
  <2>. QED BY <2>1 DEF TimeoutsCall, fiberVars
<1>13. StartsOnce'
  <2>1. \A f \in Fiber : Count(tasks', StartOf(f)) = Count(tasks, StartOf(f))
    <3>1. \A f \in Fiber : Count(s, StartOf(f)) = 0 BY <1>3, CountNone DEF StartOf
    <3>2. \A f \in Fiber : Count(tasks, StartOf(f)) \in Nat BY OwnersNat DEF FiberInv
    <3>. QED BY <1>4, <3>1, <3>2
  <2>. QED BY <1>6, <2>1 DEF FiberInv, StartsOnce, StartOf, fiberVars
<1>14. WokenOnce'
  <2>1. ASSUME NEW f \in Fiber PROVE Owners(f)' = Owners(f)
    <3>1. Expired(cbs', Resuming(f)) + Count(s, Resuming(f)) = Expired(cbs, Resuming(f))
      <4>1. PICK c, d : c = cbs /\ d = cbs' OBVIOUS
      <4>2. (\A v \in Worker : c[v] \in Seq(Task) /\ d[v] \in Seq(Task))
            /\ \A v \in Worker : v # w => c[v] = d[v]
        BY <1>9, <4>1 DEF FiberInv, CallbacksGood
      <4>3. Expired(c, Resuming(f)) + Count(d[w], Resuming(f))
              = Expired(d, Resuming(f)) + Count(c[w], Resuming(f))
        BY <4>2, CallbacksMove
      <4>4. d[w] = <<>> /\ Count(<<>>, Resuming(f)) = 0 BY <1>9, <4>1, CountNone
      <4>5. c[w] = s BY <1>1, <4>1
      <4>6. Expired(c, Resuming(f)) \in Nat /\ Expired(d, Resuming(f)) \in Nat
        BY <4>2, CallbacksFinite
      <4>. QED BY <4>1, <4>3, <4>4, <4>5, <4>6
    <3>2. Count(tasks', Resuming(f)) = Count(tasks, Resuming(f)) + Count(s, Resuming(f))
      BY <1>4
    <3>3. AboutTo(at', running', Resuming(f)) = AboutTo(at, running, Resuming(f))
          /\ WaitedFor(waiter', f) = WaitedFor(waiter, f)
          /\ DOMAIN timers' = DOMAIN timers
      BY <1>2, <1>6 DEF timerVars, eventVars
    <3>4. Count(s, Resuming(f)) \in Nat BY <1>3, CountFinite
    <3>5. Expired(cbs, Resuming(f)) \in Nat
          /\ Cardinality({<<"sleep", f>>} \intersect DOMAIN timers) \in Nat
          /\ Count(tasks, Resuming(f)) \in Nat /\ AboutTo(at, running, Resuming(f)) \in Nat
          /\ WaitedFor(waiter, f) \in Nat
      BY OwnersNat DEF FiberInv
    <3>6. Expired(cbs', Resuming(f)) \in Nat
      <4>1. PICK d : d = cbs' OBVIOUS
      <4>2. \A v \in Worker : d[v] \in Seq(Task) BY <1>9, <4>1
      <4>3. Expired(d, Resuming(f)) \in Nat BY <4>2, CallbacksFinite
      <4>. QED BY <4>1, <4>3
    <3>. QED BY <3>1, <3>2, <3>3, <3>4, <3>5, <3>6 DEF Owners, Resuming, Resumes
  <2>. QED BY <1>2, <2>1 DEF FiberInv, WokenOnce, fiberVars
<1>. QED BY <1>4, <1>6, <1>7, <1>8, <1>10, <1>11, <1>12, <1>13, <1>14 DEF FiberInv

\* What is left of what epoll_wait returned.
LEMMA TailReported ==
  ASSUME FiberInv, NEW w \in Worker, reported[w] # <<>>,
         reported' = [reported EXCEPT ![w] = Tail(@)]
  PROVE  ReportsGood' /\ Head(reported[w]) \in Reported
<1>1. reported[w] \in Seq(Reported) BY DEF FiberInv, ReportsGood
<1>2. Tail(reported[w]) \in Seq(Reported) /\ Head(reported[w]) \in Reported BY <1>1
<1>. QED BY <1>2 DEF FiberInv, ReportsGood

\* The pipe is emptied.
LEMMA DrainKeeps ==
  ASSUME FiberInv, NEW w \in Worker, Drain(w), UNCHANGED <<fiberVars, fdVars>>
  PROVE  FiberInv'
<1>1. ReportsGood' BY TailReported DEF Drain
<1>2. TasksGood' /\ RunningGood' /\ CallbacksGood' /\ TimersGood' /\ EventsGood' /\
     FibersGood' /\ CallsGood'
  BY DEF FiberInv, TasksGood, RunningGood, CallbacksGood, TimersGood, EventsGood,
       FibersGood, Runs, On, CallsGood, Drain, schedVars, workerVars, timerVars,
       eventVars, runtimeVars, fiberVars, fdVars
<1>3. CallsApart' /\ WaitersCall' /\ TimersCall' /\ TimeoutsCall' /\ PendingCounts' /\
     WorkersCount' /\ RestTyped'
  BY DEF FiberInv, CallsApart, WaitersCall, TimersCall, TimeoutsCall, PendingCounts,
       WorkersCount, RestTyped, Drain, schedVars, workerVars, timerVars, eventVars,
       runtimeVars, fiberVars, fdVars
<1>4. StartsOnce'
  BY DEF FiberInv, StartsOnce, Drain, schedVars, workerVars, timerVars, eventVars,
       runtimeVars, fiberVars, fdVars
<1>5. WokenOnce'
  BY DEF FiberInv, WokenOnce, Owners, Drain, schedVars, workerVars, timerVars,
       eventVars, runtimeVars, fiberVars, fdVars
<1>. QED BY <1>1, <1>2, <1>3, <1>4, <1>5 DEF FiberInv

\* The events of a descriptor wake the fibers that wait for them.
LEMMA HandleKeeps ==
  ASSUME FiberInv, NEW w \in Worker, Handle(w, open), UNCHANGED <<fiberVars, fdVars>>
  PROVE  FiberInv'
<1>1. PICK fd, real : fd = Head(reported[w]).fd /\ real = Head(reported[w]).events
  OBVIOUS
<1>2. ReportsGood' /\ fd \in Fd /\ real \in SUBSET Event
  <2>1. ReportsGood' /\ Head(reported[w]) \in Reported BY TailReported DEF Handle
  <2>. QED BY <1>1, <2>1 DEF Handle, Reported
<1>3. UNCHANGED <<isStopped, active, idling, at, running, cbs, timeLeft, idleDone,
                  timerVars, state>>
  BY DEF Handle
<1>4. RunningGood' /\ CallbacksGood' /\ FibersGood' /\ WorkersCount'
  BY <1>3 DEF FiberInv, RunningGood, CallbacksGood, FibersGood, Runs, On, WorkersCount, fiberVars
<1>5. TimersGood' /\ CallsGood' /\ CallsApart' /\ TimersCall'
  BY <1>3 DEF FiberInv, TimersGood, CallsGood, CallsApart, TimersCall, schedVars,
       workerVars, timerVars, eventVars, runtimeVars, fiberVars, fdVars
<1>6. RestTyped' BY <1>3 DEF FiberInv, RestTyped, Handle, Panic, fdVars
<1>7. CASE UNCHANGED <<tasks, eventVars>>
  <2>1. TasksGood' /\ EventsGood' /\ WaitersCall' /\ TimeoutsCall' /\ PendingCounts'
    BY <1>3, <1>7 DEF FiberInv, TasksGood, EventsGood, WaitersCall, TimeoutsCall,
         PendingCounts, schedVars, workerVars, timerVars, eventVars, runtimeVars,
         fiberVars, fdVars
  <2>2. StartsOnce'
    BY <1>3, <1>7 DEF FiberInv, StartsOnce, schedVars, workerVars, timerVars, eventVars,
         runtimeVars, fiberVars, fdVars
  <2>3. WokenOnce'
    BY <1>3, <1>7 DEF FiberInv, WokenOnce, Owners, schedVars, workerVars, timerVars,
         eventVars, runtimeVars, fiberVars, fdVars
  <2>. QED BY <1>2, <1>4, <1>5, <1>6, <2>1, <2>2, <2>3 DEF FiberInv
<1>8. CASE real \subseteq events[fd] /\ Triggered(fd, real)
  <2>1. /\ TasksGood' /\ EventsGood' /\ PendingCounts'
        /\ \A f \in Fiber :
             /\ Count(tasks, Resuming(f))' + WaitedFor(waiter, f)'
                  = Count(tasks, Resuming(f)) + WaitedFor(waiter, f)
             /\ Count(tasks, StartOf(f))' = Count(tasks, StartOf(f))
             /\ (\A i \in DOMAIN tasks : tasks[i] # TaskOf("timeout", f))
                  => (\A i \in DOMAIN tasks' : tasks'[i] # TaskOf("timeout", f))
        /\ \A g \in Fd, e \in Event : waiter'[g][e] # None => waiter'[g][e] = waiter[g][e]
    BY <1>2, <1>8, TriggeredMoves DEF FiberInv
  <2>2. WaitersCall' BY <2>1 DEF FiberInv, WaitersCall, fiberVars
  <2>3. TimeoutsCall' BY <1>3, <2>1 DEF FiberInv, TimeoutsCall, fiberVars
  <2>4. StartsOnce' BY <1>3, <2>1 DEF FiberInv, StartsOnce, StartOf, fiberVars
  <2>5. WokenOnce'
    <3>1. ASSUME NEW f \in Fiber PROVE Owners(f)' = Owners(f)
      <4>1. AboutTo(at', running', Resuming(f)) = AboutTo(at, running, Resuming(f))
            /\ DOMAIN timers' = DOMAIN timers /\ cbs' = cbs
        BY <1>3 DEF timerVars
      <4>2. Count(tasks', Resuming(f)) + WaitedFor(waiter', f)
              = Count(tasks, Resuming(f)) + WaitedFor(waiter, f)
        BY <2>1 DEF Resuming, Resumes
      <4>. QED BY <1>4, <2>1, <4>1, <4>2, OwnersTriggered DEF FiberInv
    <3>. QED BY <1>3, <3>1 DEF FiberInv, WokenOnce, fiberVars
  <2>. QED BY <1>2, <1>4, <1>5, <1>6, <2>1, <2>2, <2>3, <2>4, <2>5 DEF FiberInv
<1>. QED BY <1>1, <1>7, <1>8 DEF Handle

-----------------------------------------------------------------------------
(* The rest of the program, and time                                       *)

\* A step that moves no fiber: it may change the program's timer and what is armed.
LEMMA OutsideKeeps ==
  ASSUME FiberInv, TimersGood', EventsGood', RestTyped',
         \A f \in Fiber : /\ <<"sleep", f>> \in DOMAIN timers' <=> <<"sleep", f>> \in DOMAIN timers
                          /\ <<"io", f>> \in DOMAIN timers' => <<"io", f>> \in DOMAIN timers,
         UNCHANGED <<tasks, active, idling, at, running, cbs, reported, events, waiter,
                     pending, state, fiberVars>>
  PROVE  FiberInv'
<1>1. TasksGood' /\ RunningGood' /\ CallbacksGood' /\ ReportsGood'
  BY DEF FiberInv, TasksGood, RunningGood, CallbacksGood, ReportsGood, schedVars,
       workerVars, timerVars, eventVars, runtimeVars, fiberVars, fdVars
<1>2. FibersGood' /\ CallsGood' /\ CallsApart' /\ WaitersCall'
  BY DEF FiberInv, FibersGood, Runs, On, CallsGood, CallsApart, WaitersCall, schedVars,
       workerVars, timerVars, eventVars, runtimeVars, fiberVars, fdVars
<1>3. TimeoutsCall' /\ PendingCounts' /\ WorkersCount'
  BY DEF FiberInv, TimeoutsCall, PendingCounts, WorkersCount, schedVars, workerVars,
       timerVars, eventVars, runtimeVars, fiberVars, fdVars
<1>4. TimersCall' BY DEF FiberInv, TimersCall, fiberVars
<1>5. StartsOnce'
  BY DEF FiberInv, StartsOnce, schedVars, workerVars, timerVars, eventVars, runtimeVars,
       fiberVars, fdVars
<1>6. WokenOnce'
  <2>1. ASSUME NEW f \in Fiber PROVE Owners(f)' = Owners(f)
    <3>1. {<<"sleep", f>>} \intersect DOMAIN timers' = {<<"sleep", f>>} \intersect DOMAIN timers
      OBVIOUS
    <3>. QED BY <3>1 DEF Owners
  <2>. QED BY <2>1 DEF FiberInv, WokenOnce, fiberVars
<1>. QED BY <1>1, <1>2, <1>3, <1>4, <1>5, <1>6 DEF FiberInv

\* A unit of time passes.
LEMMA TimeKeeps ==
  ASSUME FiberInv, Time
  PROVE  FiberInv'
<1>1. /\ timers' = [i \in DOMAIN timers |->
                      [timers[i] EXCEPT !.left = IF @ = 0 THEN 0 ELSE @ - 1]]
      /\ timeLeft' = [w \in Worker |->
                        IF at[w] = "wait" /\ timeLeft[w] \notin {None, 0}
                        THEN timeLeft[w] - 1 ELSE timeLeft[w]]
      /\ UNCHANGED <<schedVars, at, running, cbs, reported, idleDone, tickled,
                     eventVars, state, panicked, fiberVars, fdVars>>
  BY DEF Time, Tick
<1>2. TimersGood'
  <2>1. ASSUME NEW i \in DOMAIN timers
        PROVE  /\ timers'[i] \in Timer /\ timers'[i].left <= timers'[i].ms
               /\ timers'[i].cb = timers[i].cb /\ timers'[i].recurring = timers[i].recurring
    <3>1. PICK t \in Timer : t = timers[i] /\ t.left <= t.ms BY DEF FiberInv, TimersGood
    <3>2. timers'[i] = [t EXCEPT !.left = IF @ = 0 THEN 0 ELSE @ - 1] BY <1>1, <3>1
    <3>3. t.left \in 0 .. MaxDelay /\ t.ms \in 0 .. MaxDelay /\ MaxDelay \in Nat
      BY RuntimeAssumption DEF Timer, Delay
    <3>4. PICK d : d = IF t.left = 0 THEN 0 ELSE t.left - 1 OBVIOUS
    <3>5. d \in 0 .. MaxDelay /\ d <= t.ms BY <3>1, <3>3, <3>4
    <3>6. timers'[i] = [t EXCEPT !.left = d] BY <3>2, <3>4
    <3>. QED BY <3>1, <3>5, <3>6 DEF Timer, Delay
  <2>. QED BY <1>1, <2>1 DEF FiberInv, TimersGood
<1>3. RestTyped'
  <2>1. ASSUME NEW w \in Worker PROVE timeLeft'[w] \in 0 .. MaxDelay + MaxWait \union {None}
    <3>1. PICK d \in 0 .. MaxDelay + MaxWait \union {None} : d = timeLeft[w]
      BY DEF FiberInv, RestTyped
    <3>2. timeLeft'[w] = (IF at[w] = "wait" /\ d \notin {None, 0} THEN d - 1 ELSE d)
      BY <1>1, <3>1
    <3>. QED BY <3>2, RuntimeAssumption
  <2>2. timeLeft' \in [Worker -> 0 .. MaxDelay + MaxWait \union {None}] BY <1>1, <2>1
  <2>. QED BY <1>1, <2>2 DEF FiberInv, RestTyped, schedVars, fdVars
<1>4. EventsGood' BY <1>1 DEF FiberInv, EventsGood, eventVars
<1>5. DOMAIN timers' = DOMAIN timers BY <1>1
<1>6. UNCHANGED <<tasks, active, idling, at, running, cbs, reported, events, waiter,
                  pending, state, fiberVars>>
  BY <1>1 DEF schedVars, eventVars
<1>. QED BY <1>2, <1>3, <1>4, <1>5, <1>6, OutsideKeeps

\* stop is called, and a peer does something.
LEMMA StopCalledKeeps ==
  ASSUME FiberInv, StopCalled
  PROVE  FiberInv'
<1>1. TimersGood' /\ EventsGood' /\ RestTyped'
  BY DEF FiberInv, TimersGood, EventsGood, RestTyped, StopCalled, Stop, schedVars,
       workerVars, timerVars, eventVars, runtimeVars, fiberVars, fdVars
<1>2. /\ DOMAIN timers' = DOMAIN timers
      /\ UNCHANGED <<tasks, active, idling, at, running, cbs, reported, events, waiter,
                     pending, state, fiberVars>>
  BY DEF StopCalled, Stop, workerVars, timerVars, eventVars
<1>. QED BY <1>1, <1>2, OutsideKeeps

\* A descriptor becomes ready: epoll may have an event of it to report.
LEMMA ArriveKeeps ==
  ASSUME FiberInv, Arrive
  PROVE  FiberInv'
<1>1. TimersGood' /\ RestTyped'
  BY DEF FiberInv, TimersGood, RestTyped, Arrive, schedVars, workerVars, timerVars,
       eventVars, runtimeVars, fiberVars, fdVars
<1>2. /\ DOMAIN timers' = DOMAIN timers
      /\ UNCHANGED <<tasks, active, idling, at, running, cbs, reported, events, waiter,
                     pending, state, fiberVars>>
  BY DEF Arrive, schedVars, workerVars, timerVars
<1>3. EventsGood' BY <1>2 DEF FiberInv, EventsGood, Arrive
<1>. QED BY <1>1, <1>2, <1>3, OutsideKeeps

\* The program's timer is set, ...
LEMMA AddTimerKeeps ==
  ASSUME FiberInv, AddTimer
  PROVE  FiberInv'
<1>1. PICK t \in UserTimers : Inserted(User, NewTimer(t.ms, t.recurring, TaskOf("user", None)))
  BY DEF AddTimer
<1>2. t \in [ms : Delay, recurring : BOOLEAN] BY HookAssumption
<1>3. PICK timer : timer = NewTimer(t.ms, t.recurring, TaskOf("user", None)) OBVIOUS
<1>4. timer \in Timer /\ timer.left <= timer.ms /\ timer.cb = CallbackOf(User)
  <2>1. TaskOf("user", None) \in Task BY TaskOfGood DEF GoodTask
  <2>2. t.ms \in Delay /\ t.recurring \in BOOLEAN BY <1>2
  <2>3. t.ms <= t.ms BY <2>2, RuntimeAssumption DEF Delay
  <2>4. CallbackOf(User) = TaskOf("user", None) BY DEF CallbackOf, User
  <2>. QED BY <1>3, <2>1, <2>2, <2>3, <2>4 DEF NewTimer, Timer
<1>5. TimersGood' /\ DOMAIN timers' = DOMAIN timers \union {User}
  <2>1. User \in TimerNames BY DEF TimerNames
  <2>2. Inserted(User, timer) BY <1>1, <1>3
  <2>. QED BY <1>4, <2>1, <2>2, InsertedMoves DEF FiberInv
<1>6. EventsGood' /\ RestTyped'
  BY DEF FiberInv, EventsGood, RestTyped, AddTimer, Outside, schedVars, workerVars,
       timerVars, eventVars, runtimeVars, fiberVars, fdVars
<1>7. UNCHANGED <<tasks, active, idling, at, running, cbs, reported, events, waiter,
                     pending, state, fiberVars>>
  BY DEF AddTimer, Outside, workerVars, eventVars, fiberVars
<1>8. \A f \in Fiber : User # <<"sleep", f>> /\ User # <<"io", f>> BY Distinct
<1>. QED BY <1>5, <1>6, <1>7, <1>8, OutsideKeeps

\* ... cancelled, refreshed or reset.
LEMMA ChangeTimerKeeps ==
  ASSUME FiberInv, ChangeTimer
  PROVE  FiberInv'
<1>1. User \in DOMAIN timers BY DEF ChangeTimer
<1>2. PICK t : t = timers[User] OBVIOUS
<1>3. t \in Timer /\ t.left <= t.ms /\ t.cb = CallbackOf(User)
  BY <1>1, <1>2 DEF FiberInv, TimersGood
<1>4. t.left \in 0 .. MaxDelay /\ t.ms \in 0 .. MaxDelay /\ MaxDelay \in Nat
  BY <1>3, RuntimeAssumption DEF Timer, Delay
<1>5. TimersGood' /\ DOMAIN timers' \in {DOMAIN timers, DOMAIN timers \ {User}}
  <2>1. CASE Cancelled(User)
    <3>1. PICK u : u = User OBVIOUS
    <3>. QED BY <2>1, CancelledMoves DEF FiberInv
  <2>2. CASE timers' = With(User, [t EXCEPT !.left = t.ms])
    <3>1. PICK u : u = [t EXCEPT !.left = t.ms] OBVIOUS
    <3>2. u \in Timer /\ u.left <= u.ms /\ u.cb = t.cb /\ u.recurring = t.recurring
      BY <1>3, <1>4, <3>1 DEF Timer
    <3>3. DOMAIN timers' = DOMAIN timers
          /\ \A j \in DOMAIN timers : timers'[j] = IF j = User THEN u ELSE timers[j]
      BY <1>1, <2>2, <3>1 DEF With
    <3>. QED BY <1>3, <3>2, <3>3 DEF FiberInv, TimersGood
  <2>3. CASE \E ms \in {u.ms : u \in UserTimers}, from_now \in BOOLEAN :
               /\ ms /= t.ms \/ from_now
               /\ LET left == IF from_now THEN ms ELSE t.left - t.ms + ms IN
                  Inserted(User, [t EXCEPT !.ms = ms, !.left = IF left < 0 THEN 0 ELSE left])
    <3>1. PICK ms \in {u.ms : u \in UserTimers}, from_now \in BOOLEAN :
               LET left == IF from_now THEN ms ELSE t.left - t.ms + ms IN
                  Inserted(User, [t EXCEPT !.ms = ms, !.left = IF left < 0 THEN 0 ELSE left])
      BY <2>3
    <3>2. ms \in 0 .. MaxDelay BY <3>1, HookAssumption DEF Delay
    <3>3. PICK left : left = IF from_now THEN ms ELSE t.left - t.ms + ms OBVIOUS
    <3>4. PICK d : d = IF left < 0 THEN 0 ELSE left OBVIOUS
    <3>5. d \in 0 .. MaxDelay /\ d <= ms BY <1>3, <1>4, <3>2, <3>3, <3>4
    <3>6. PICK u : u = [t EXCEPT !.ms = ms, !.left = d] OBVIOUS
    <3>7. u \in Timer /\ u.left <= u.ms /\ u.cb = CallbackOf(User)
      BY <1>3, <3>2, <3>5, <3>6 DEF Timer, Delay
    <3>8. Inserted(User, u) BY <3>1, <3>3, <3>4, <3>6
    <3>9. User \in TimerNames BY DEF TimerNames
    <3>10. TimersGood' /\ DOMAIN timers' = DOMAIN timers \union {User}
      BY <3>7, <3>8, <3>9, InsertedMoves DEF FiberInv
    <3>. QED BY <1>1, <3>10
  <2>. QED BY <1>2, <2>1, <2>2, <2>3 DEF ChangeTimer
<1>6. EventsGood' /\ RestTyped'
  BY DEF FiberInv, EventsGood, RestTyped, ChangeTimer, Outside, schedVars, workerVars,
       timerVars, eventVars, runtimeVars, fiberVars, fdVars
<1>7. UNCHANGED <<tasks, active, idling, at, running, cbs, reported, events, waiter,
                     pending, state, fiberVars>>
  BY DEF ChangeTimer, Outside, workerVars, eventVars, fiberVars
<1>8. \A f \in Fiber : User # <<"sleep", f>> /\ User # <<"io", f>> BY Distinct
<1>. QED BY <1>5, <1>6, <1>7, <1>8, OutsideKeeps

\* A new fiber is among the tasks.
LEMMA ScheduleKeeps ==
  ASSUME FiberInv, Schedule
  PROVE  FiberInv'
<1>1. PICK f \in Fiber, w \in Target :
        /\ pc[f] = "none" /\ Pushed(<<[TaskOf("body", f) EXCEPT !.thread = w]>>)
        /\ pc' = [pc EXCEPT ![f] = "queued"]
  BY DEF Schedule, Next_
<1>2. PICK t : t = [TaskOf("body", f) EXCEPT !.thread = w] OBVIOUS
<1>3. GoodTask(t) /\ t.fn = "body" /\ t.fiber = f /\ t \in Task
  <2>1. w \in Worker \union {None} BY HookAssumption
  <2>. QED BY <1>2, <2>1 DEF GoodTask, Task, TaskOf, Fn
<1>4. PICK ts : ts = <<t>> OBVIOUS
<1>5. ts \in Seq(Task) /\ DOMAIN ts = {1} /\ ts[1] = t BY <1>3, <1>4
<1>6. tasks' = tasks \o ts BY <1>1, <1>2, <1>4 DEF Pushed
<1>7. UNCHANGED <<isStopped, active, idling, timerVars, workerVars, eventVars, state,
                  panicked, call, cancelled, calls, fdVars>>
  BY DEF Schedule, Outside
<1>8. /\ TasksGood'
      /\ \A S : Count(tasks, S)' = Count(tasks, S) + Count(ts, S)
      /\ \A x : (\A i \in DOMAIN tasks : tasks[i] # x) /\ (\A i \in DOMAIN ts : ts[i] # x)
                  => (\A i \in DOMAIN tasks' : tasks'[i] # x)
  BY <1>3, <1>5, <1>6, PushedTasks DEF FiberInv
<1>9. \A g \in Fiber : pc'[g] = (IF g = f THEN "queued" ELSE pc[g])
  BY <1>1 DEF FiberInv, FibersGood
<1>10. FibersGood'
  <2>1. \A v \in Worker, g \in Fiber : Runs(v, g)' <=> Runs(v, g) BY <1>7 DEF Runs, On, workerVars
  <2>. QED BY <1>1, <1>7, <2>1 DEF FiberInv, FibersGood
<1>11. CallsGood' BY <1>1, <1>7, <1>9 DEF FiberInv, CallsGood
<1>12. TimersCall' BY <1>1, <1>7, <1>9 DEF FiberInv, TimersCall, timerVars
<1>13. TimeoutsCall'
  <2>1. \A g \in Fiber : \A i \in DOMAIN ts : ts[i] # TaskOf("timeout", g)
    BY <1>3, <1>5, TaskOfGood
  <2>. QED BY <1>7, <1>8, <2>1 DEF FiberInv, TimeoutsCall, workerVars
<1>14. RunningGood' /\ CallbacksGood' /\ TimersGood' /\ EventsGood' /\ ReportsGood'
       /\ CallsApart' /\ WaitersCall' /\ PendingCounts' /\ WorkersCount' /\ RestTyped'
  BY <1>7 DEF FiberInv, RunningGood, CallbacksGood, TimersGood, EventsGood, ReportsGood,
       CallsApart, WaitersCall, PendingCounts, WorkersCount, RestTyped, workerVars,
       timerVars, eventVars, fdVars
<1>15. ASSUME NEW g \in Fiber
       PROVE  Count(ts, Resuming(g)) = 0 /\ Count(ts, StartOf(g)) = (IF g = f THEN 1 ELSE 0)
  <2>1. t \notin Resuming(g) BY <1>3 DEF Resuming, Resumes
  <2>2. t \in StartOf(g) <=> g = f BY <1>3 DEF StartOf
  <2>3. Count(ts, Resuming(g)) = 0 BY <1>5, <2>1, CountNone
  <2>4. CASE g = f
    <3>1. 1 \in DOMAIN ts /\ \A i \in DOMAIN ts : ts[i] \in StartOf(g) <=> i = 1
      BY <1>5, <2>2, <2>4
    <3>2. Count(ts, StartOf(g)) = 1 BY <3>1, CountOne
    <3>. QED BY <2>3, <2>4, <3>2
  <2>5. CASE g # f
    <3>1. Count(ts, StartOf(g)) = 0 BY <1>5, <2>2, <2>5, CountNone
    <3>. QED BY <2>3, <2>5, <3>1
  <2>. QED BY <2>4, <2>5
<1>16. StartsOnce'
  <2>1. ASSUME NEW g \in Fiber
        PROVE  Count(tasks', StartOf(g)) + AboutTo(at', running', StartOf(g))
                 = IF pc'[g] = "queued" THEN 1 ELSE 0
    <3>1. PICK c, d, a \in Nat : /\ c = Count(tasks, StartOf(g)) /\ a = AboutTo(at, running, StartOf(g))
                                 /\ d = IF g = f THEN 1 ELSE 0
      BY OwnersNat DEF FiberInv
    <3>2. Count(tasks', StartOf(g)) = c + d /\ AboutTo(at', running', StartOf(g)) = a
      BY <1>7, <1>8, <1>15, <3>1 DEF StartOf, workerVars
    <3>3. c + a = IF pc[g] = "queued" THEN 1 ELSE 0 BY <3>1 DEF FiberInv, StartsOnce
    <3>4. (c + d) + a = IF pc'[g] = "queued" THEN 1 ELSE 0 BY <1>1, <1>9, <3>1, <3>3
    <3>. QED BY <3>2, <3>4
  <2>. QED BY <2>1 DEF StartsOnce, StartOf
<1>17. WokenOnce'
  <2>1. ASSUME NEW g \in Fiber PROVE Owners(g)' = Owners(g)
    <3>1. PICK c \in Nat : c = Count(tasks, Resuming(g)) BY OwnersNat DEF FiberInv
    <3>2. Count(tasks', Resuming(g)) = Count(tasks, Resuming(g))
      <4>1. Count(tasks', Resuming(g)) = Count(tasks, Resuming(g)) + Count(ts, Resuming(g))
        BY <1>8 DEF Resuming, Resumes
      <4>2. Count(tasks', Resuming(g)) = c + 0 BY <1>15, <3>1, <4>1
      <4>. QED BY <3>1, <4>2
    <3>3. UNCHANGED <<at, running, cbs, timers, waiter>> BY <1>7 DEF workerVars, timerVars, eventVars
    <3>. QED BY <3>2, <3>3 DEF Owners, Resuming, Resumes
  <2>2. \A g \in Fiber : pc'[g] = "yield" <=> pc[g] = "yield" BY <1>1, <1>9
  <2>. QED BY <1>7, <2>1, <2>2 DEF FiberInv, WokenOnce
<1>. QED BY <1>8, <1>10, <1>11, <1>12, <1>13, <1>14, <1>16, <1>17 DEF FiberInv

-----------------------------------------------------------------------------
(* The calls of a fiber                                                    *)

\* A fiber goes on, and what wakes it, and others, stays as it is.
LEMMA FiberGoesOn ==
  ASSUME FiberInv, NEW f \in Fiber, state[f] = "RUNNING", pc[f] # "yield",
         NEW x \in {"run", "try", "arm", "add", "close"}, pc' = [pc EXCEPT ![f] = x],
         TimersGood', CallsGood', CallsApart', WaitersCall', TimersCall', TimeoutsCall',
         RestTyped', DOMAIN timers' \ {<<"io", f>>} = DOMAIN timers \ {<<"io", f>>},
         UNCHANGED <<tasks, active, idling, at, running, cbs, reported, eventVars, state>>
  PROVE  FiberInv'
<1>1. TasksGood' /\ RunningGood' /\ CallbacksGood' /\ EventsGood' /\ ReportsGood' /\
     PendingCounts' /\ WorkersCount'
  BY DEF FiberInv, TasksGood, RunningGood, CallbacksGood, EventsGood, ReportsGood,
       PendingCounts, WorkersCount, schedVars, workerVars, timerVars, eventVars,
       runtimeVars, fiberVars, fdVars
<1>2. pc[f] \notin {"none", "queued", "switch"} BY DEF FiberInv, FibersGood
<1>3. FibersGood'
  <2>1. \A v \in Worker, g \in Fiber : Runs(v, g)' <=> Runs(v, g) BY DEF Runs, On
  <2>. QED BY <1>2, <2>1 DEF FiberInv, FibersGood
<1>4. StartsOnce'
  <2>1. \A g \in Fiber : pc'[g] = "queued" <=> pc[g] = "queued" BY <1>2 DEF FiberInv, FibersGood
  <2>. QED BY <2>1 DEF FiberInv, StartsOnce
<1>5. WokenOnce'
  <2>1. \A g \in Fiber : pc'[g] = "yield" <=> pc[g] = "yield" BY DEF FiberInv, FibersGood
  <2>2. ASSUME NEW g \in Fiber PROVE Owners(g)' = Owners(g)
    <3>1. <<"sleep", g>> # <<"io", f>> BY Distinct
    <3>2. {<<"sleep", g>>} \intersect DOMAIN timers' = {<<"sleep", g>>} \intersect DOMAIN timers
      BY <3>1
    <3>. QED BY <3>2 DEF Owners, eventVars
  <2>. QED BY <2>1, <2>2 DEF FiberInv, WokenOnce
<1>. QED BY <1>1, <1>3, <1>4, <1>5 DEF FiberInv

\* A fiber that begins a call.
LEMMA BeginsRuns ==
  ASSUME FiberInv, NEW w \in Worker, Begins(w, On(w))
  PROVE  /\ On(w) \in Fiber /\ Runs(w, On(w))
         /\ state[On(w)] = "RUNNING" /\ pc[On(w)] = "run" /\ call[On(w)] = NoCall
         /\ call[On(w)] \notin IoCall /\ calls' \in [Fiber -> Nat]
<1>1. at[w] = "fiber" /\ pc[On(w)] = "run" BY DEF Begins, Runs
<1>2. On(w) \in Fiber /\ Runs(w, On(w)) /\ state[On(w)] = "RUNNING" BY <1>1, RunsOne
<1>3. call[On(w)] = NoCall BY <1>1, <1>2 DEF FiberInv, CallsGood
<1>4. NoCall \notin IoCall BY Distinct DEF NoCall, IoCall
<1>5. calls' \in [Fiber -> Nat] BY <1>2 DEF FiberInv, CallsGood, Begins
<1>. QED BY <1>1, <1>2, <1>3, <1>4, <1>5

\* Calls that are over at once.
LEMMA AtOnce ==
  ASSUME FiberInv, NEW w \in Worker, Begins(w, On(w)), RestTyped',
         UNCHANGED <<runtimeVars, pc, call, cancelled>>
  PROVE  FiberInv'
<1>1. PICK f \in Fiber : f = On(w) /\ state[f] = "RUNNING" /\ pc[f] = "run"
  BY BeginsRuns
<1>2. pc' = [pc EXCEPT ![f] = "run"] BY <1>1 DEF FiberInv, FibersGood
<1>3. UNCHANGED <<tasks, active, idling, at, running, cbs, reported, timers, eventVars, state>>
  BY DEF runtimeVars, schedVars, workerVars, timerVars
<1>4. CallsGood' BY BeginsRuns, <1>3 DEF FiberInv, CallsGood
<1>5. TimersGood' /\ CallsApart' /\ WaitersCall' /\ TimersCall' /\ TimeoutsCall'
  BY <1>3 DEF FiberInv, TimersGood, CallsApart, WaitersCall, TimersCall, TimeoutsCall, eventVars
<1>. QED BY <1>1, <1>2, <1>3, <1>4, <1>5, FiberGoesOn

\* socket
LEMMA SocketKeeps ==
  ASSUME FiberInv, NEW w \in Worker, Socket(w)
  PROVE  FiberInv'
<1>1. Begins(w, On(w)) /\ UNCHANGED <<runtimeVars, pc, call, cancelled>> BY DEF Socket
<1>2. PICK fd \in Fd : ctx' = [ctx EXCEPT ![fd] = FdCtx] BY DEF Socket
<1>3. FdCtx \in [userNonblock : BOOLEAN,
                 timeout : [Event -> Delay \union {None}]]
  BY DEF FdCtx
<1>4. RestTyped'
  BY <1>1, <1>2, <1>3 DEF FiberInv, RestTyped, runtimeVars, schedVars, workerVars
<1>. QED BY <1>1, <1>4, AtOnce

\* setsockopt, fcntl
LEMMA ConfigureKeeps ==
  ASSUME FiberInv, NEW w \in Worker, Configure(w)
  PROVE  FiberInv'
<1>1. Begins(w, On(w)) /\ UNCHANGED <<runtimeVars, pc, call, cancelled>> BY DEF Configure
<1>2. PICK fd \in Fd, s \in Settings :
        /\ ctx[fd] /= None
        /\ ctx' = IF s.event = None
                  THEN [ctx EXCEPT ![fd].userNonblock = s.nonblock]
                  ELSE [ctx EXCEPT ![fd].timeout[s.event] = s.timeout]
  BY DEF Configure
<1>. DEFINE Ctx == [userNonblock : BOOLEAN,
                    timeout : [Event -> Delay \union {None}]]
<1>3. PICK c \in Ctx : c = ctx[fd] BY <1>2 DEF FiberInv, RestTyped
<1>4. ctx' \in [Fd -> {None} \union Ctx]
  <2>1. CASE s.event = None
    <3>1. s.nonblock \in BOOLEAN BY <2>1, HookAssumption, Distinct
    <3>2. [c EXCEPT !.userNonblock = s.nonblock] \in Ctx BY <3>1
    <3>3. ctx' = [ctx EXCEPT ![fd] = [c EXCEPT !.userNonblock = s.nonblock]]
      BY <1>2, <1>3, <2>1
    <3>. QED BY <3>2, <3>3 DEF FiberInv, RestTyped
  <2>2. CASE s.event # None
    <3>1. s.event \in Event /\ s.timeout \in Delay \union {None} BY <2>2, HookAssumption
    <3>2. [c EXCEPT !.timeout[s.event] = s.timeout] \in Ctx BY <3>1
    <3>3. ctx' = [ctx EXCEPT ![fd] = [c EXCEPT !.timeout[s.event] = s.timeout]]
      BY <1>2, <1>3, <2>2
    <3>. QED BY <3>2, <3>3 DEF FiberInv, RestTyped
  <2>. QED BY <2>1, <2>2
<1>5. RestTyped' BY <1>1, <1>4 DEF FiberInv, RestTyped, runtimeVars, schedVars, workerVars
<1>. QED BY <1>1, <1>5, AtOnce

\* A call that may wait.
LEMMA CallBegins ==
  ASSUME FiberInv, NEW w \in Worker, Begins(w, On(w)), NEW c \in IoCall,
         call' = [call EXCEPT ![On(w)] = c], \A g \in Using(c.fd) : call[g].event # c.event,
         NEW x \in {"try", "arm"}, pc' = [pc EXCEPT ![On(w)] = x],
         UNCHANGED <<runtimeVars, cancelled, fdVars>>
  PROVE  FiberInv'
<1>1. PICK f \in Fiber : f = On(w) BY BeginsRuns
<1>2. state[f] = "RUNNING" /\ pc[f] = "run" /\ call[f] \notin IoCall /\ calls' \in [Fiber -> Nat]
  BY <1>1, BeginsRuns
<1>3. pc' = [pc EXCEPT ![f] = x] /\ call' = [call EXCEPT ![f] = c] BY <1>1
<1>4. UNCHANGED <<tasks, isStopped, active, idling, at, running, cbs, reported, timeLeft,
                  idleDone, timers, eventVars, state, panicked, cancelled, ctx>>
  BY DEF runtimeVars, schedVars, workerVars, timerVars, fdVars
<1>5. CallsGood'
  <2>1. \A g \in Fiber : /\ call'[g] = IF g = f THEN c ELSE call[g]
                         /\ pc'[g] = IF g = f THEN x ELSE pc[g]
    BY <1>3 DEF FiberInv, CallsGood, FibersGood
  <2>2. call' \in [Fiber -> IoCall \union ClosingCall \union {NoCall}]
    BY <1>3 DEF FiberInv, CallsGood
  <2>. QED BY <1>2, <1>4, <2>1, <2>2 DEF FiberInv, CallsGood
<1>6. CallsApart'
  <2>1. \A g \in Fiber : g # f => ~(call[g] \in IoCall /\ call[g].fd = c.fd /\ call[g].event = c.event)
    BY DEF Using
  <2>2. \A g \in Fiber : call'[g] = IF g = f THEN c ELSE call[g]
    BY <1>3 DEF FiberInv, CallsGood
  <2>. QED BY <2>1, <2>2 DEF FiberInv, CallsApart
<1>7. WaitersCall'
  <2>1. \A fd \in Fd, e \in Event : waiter[fd][e] # f
    BY <1>2, Distinct DEF FiberInv, WaitersCall
  <2>. QED BY <1>3, <1>4, <2>1 DEF FiberInv, WaitersCall, CallsGood, EventsGood, eventVars
<1>8. TimersCall'
  BY <1>2, <1>3, <1>4 DEF FiberInv, TimersCall, CallsGood, FibersGood
<1>9. TimeoutsCall'
  BY <1>3, <1>4 DEF FiberInv, TimeoutsCall, CallsGood
<1>10. TimersGood' /\ RestTyped' BY <1>4 DEF FiberInv, TimersGood, RestTyped
<1>. QED BY <1>2, <1>3, <1>4, <1>5, <1>6, <1>7, <1>8, <1>9, <1>10, FiberGoesOn

\* do_io and connect_with_timeout begin.
LEMMA IoKeeps ==
  ASSUME FiberInv, NEW w \in Worker, Io(w)
  PROVE  FiberInv'
<1>1. Begins(w, On(w)) /\ UNCHANGED <<runtimeVars, cancelled, fdVars>> BY DEF Io
<1>2. PICK fd \in Fd, e \in Event :
       /\ \A g \in Using(fd) : call[g].event /= e
       /\ \/ /\ Blocking(fd)
             /\ call' = [call EXCEPT ![On(w)] =
                  [fd |-> fd, event |-> e, timeout |-> ctx[fd].timeout[e],
                   retries |-> TRUE]]
             /\ Next_(On(w), "try")
          \/ /\ ~Blocking(fd)
             /\ UNCHANGED <<call, pc>>
  BY DEF Io
<1>3. CASE Blocking(fd) /\ call' = [call EXCEPT ![On(w)] =
                          [fd |-> fd, event |-> e, timeout |-> ctx[fd].timeout[e],
                           retries |-> TRUE]]
             /\ Next_(On(w), "try")
  <2>1. PICK c : c = [fd |-> fd, event |-> e, timeout |-> ctx[fd].timeout[e], retries |-> TRUE]
    OBVIOUS
  <2>2. c \in IoCall /\ c.fd = fd /\ c.event = e
    BY <1>3, <2>1 DEF FiberInv, RestTyped, Blocking, IoCall
  <2>3. PICK x \in {"try", "arm"} : x = "try" OBVIOUS
  <2>. QED BY <1>1, <1>2, <1>3, <2>1, <2>2, <2>3, CallBegins DEF Next_
<1>4. CASE UNCHANGED <<call, pc>>
  <2>1. RestTyped'
    BY <1>1 DEF FiberInv, RestTyped, runtimeVars, schedVars, workerVars, fdVars
  <2>. QED BY <1>1, <1>4, <2>1, AtOnce
<1>. QED BY <1>2, <1>3, <1>4

\* connect
LEMMA ConnectKeeps ==
  ASSUME FiberInv, NEW w \in Worker, Connect(w)
  PROVE  FiberInv'
<1>1. Begins(w, On(w)) /\ UNCHANGED <<runtimeVars, cancelled, fdVars>> /\ Next_(On(w), "arm")
  BY DEF Connect
<1>2. PICK fd \in Fd :
       /\ \A g \in Using(fd) : call[g].event /= WRITE
       /\ call' = [call EXCEPT ![On(w)] =
            [fd |-> fd, event |-> WRITE, timeout |-> ConnectTimeout, retries |-> FALSE]]
  BY DEF Connect
<1>3. PICK c : c = [fd |-> fd, event |-> WRITE, timeout |-> ConnectTimeout, retries |-> FALSE]
  OBVIOUS
<1>4. c \in IoCall /\ c.fd = fd /\ c.event = WRITE
  BY <1>3, HookAssumption DEF IoCall, Event
<1>5. PICK x \in {"try", "arm"} : x = "arm" OBVIOUS
<1>. QED BY <1>1, <1>2, <1>3, <1>4, <1>5, CallBegins DEF Next_

\* A fiber in a call.
LEMMA InCall ==
  ASSUME FiberInv, NEW w \in Worker, at[w] = "fiber", pc[On(w)] \in {"try", "arm", "add", "woken", "close"}
  PROVE  /\ On(w) \in Fiber /\ Runs(w, On(w)) /\ state[On(w)] = "RUNNING"
         /\ pc[On(w)] # "close" => call[On(w)] \in IoCall
<1>1. On(w) \in Fiber /\ Runs(w, On(w)) /\ state[On(w)] = "RUNNING" BY RunsOne
<1>. QED BY <1>1 DEF FiberInv, CallsGood

\* A call goes on, with a timer that may end.
LEMMA CallGoesOn ==
  ASSUME FiberInv, NEW f \in Fiber, state[f] = "RUNNING", pc[f] \in {"try", "arm", "woken"},
         call[f] \in IoCall, NEW x \in {"try", "arm", "add"}, pc' = [pc EXCEPT ![f] = x],
         TimersGood', DOMAIN timers' \subseteq DOMAIN timers \union {<<"io", f>>},
         DOMAIN timers \subseteq DOMAIN timers' \union {<<"io", f>>},
         <<"io", f>> \in DOMAIN timers' => x = "add",
         UNCHANGED <<tasks, isStopped, active, idling, workerVars, eventVars, state,
                     panicked, call, cancelled, calls, ctx>>
  PROVE  FiberInv'
<1>1. CallsApart' /\ WaitersCall' /\ TimeoutsCall' /\ RestTyped'
  BY DEF FiberInv, CallsApart, WaitersCall, TimeoutsCall, RestTyped, schedVars,
       workerVars, timerVars, eventVars, runtimeVars, fiberVars, fdVars
<1>2. CallsGood' BY DEF FiberInv, CallsGood, FibersGood
<1>3. TimersCall'
  <2>1. ASSUME NEW g \in Fiber, <<"io", g>> \in DOMAIN timers'
        PROVE  call'[g] \in IoCall /\ pc'[g] \in {"add", "yield", "switch", "woken"}
    <3>1. CASE g = f BY <2>1, <3>1 DEF FiberInv, FibersGood
    <3>2. CASE g # f
      <4>1. <<"io", g>> # <<"io", f>> BY <3>2, Distinct
      <4>2. <<"io", g>> \in DOMAIN timers BY <2>1, <4>1
      <4>. QED BY <3>2, <4>2 DEF FiberInv, TimersCall, FibersGood
    <3>. QED BY <3>1, <3>2
  <2>. QED BY <2>1 DEF TimersCall
<1>4. DOMAIN timers' \ {<<"io", f>>} = DOMAIN timers \ {<<"io", f>>} OBVIOUS
<1>5. UNCHANGED <<tasks, active, idling, at, running, cbs, reported, eventVars, state>>
  BY DEF workerVars
<1>. QED BY <1>1, <1>2, <1>3, <1>4, <1>5, FiberGoesOn

\* The function itself is tried.
LEMMA TryKeeps ==
  ASSUME FiberInv, NEW w \in Worker, Try(w)
  PROVE  FiberInv'
<1>1. PICK f \in Fiber : f = On(w) /\ Runs(w, f) /\ state[f] = "RUNNING" /\ pc[f] = "try"
                         /\ call[f] \in IoCall
  BY InCall DEF Try, Runs
<1>2. UNCHANGED <<isStopped, active, idling, pipe, at, reported, timeLeft, idleDone,
                  timerVars, eventVars, state, panicked, calls, ctx, open>>
  BY DEF Try
<1>3. TimersGood' /\ DOMAIN timers' = DOMAIN timers /\ <<"io", f>> \notin DOMAIN timers
  BY <1>1, <1>2 DEF FiberInv, TimersGood, TimersCall, timerVars
<1>4. CASE Over(w, f)
  <2>1. DOMAIN timers' = DOMAIN timers \ {<<"io", f>>} BY <1>3
  <2>. QED BY <1>1, <1>2, <1>3, <1>4, <2>1, OverMoves
<1>5. CASE /\ Next_(f, "arm")
           /\ UNCHANGED <<tasks, cbs, running, call, cancelled, ready>>
  <2>1. PICK x \in {"try", "arm", "add"} : x = "arm" OBVIOUS
  <2>2. pc' = [pc EXCEPT ![f] = x] BY <1>5, <2>1 DEF Next_
  <2>3. UNCHANGED workerVars BY <1>2, <1>5 DEF workerVars
  <2>. QED BY <1>1, <1>2, <1>3, <1>5, <2>1, <2>2, <2>3, CallGoesOn
<1>. QED BY <1>1, <1>4, <1>5 DEF Try

\* The timer of a call.
LEMMA ArmKeeps ==
  ASSUME FiberInv, NEW w \in Worker, Arm(w)
  PROVE  FiberInv'
<1>1. PICK f \in Fiber : f = On(w) /\ Runs(w, f) /\ state[f] = "RUNNING" /\ pc[f] = "arm"
                         /\ call[f] \in IoCall
  BY InCall DEF Arm, Runs
<1>2. UNCHANGED <<tasks, isStopped, active, idling, workerVars, eventVars, state,
                  panicked, call, cancelled, calls, ctx>>
  BY DEF Arm, fdVars
<1>3. pc' = [pc EXCEPT ![f] = "add"] BY <1>1 DEF Arm, Next_
<1>4. PICK x \in {"try", "arm", "add"} : x = "add" OBVIOUS
<1>5. CASE call[f].timeout /= None
           /\ Inserted(<<"io", f>>, NewTimer(call[f].timeout, FALSE, TaskOf("timeout", f)))
  <2>1. PICK ms : ms = call[f].timeout OBVIOUS
  <2>2. ms \in Delay BY <1>1, <1>5, <2>1 DEF IoCall
  <2>3. PICK timer : timer = NewTimer(ms, FALSE, TaskOf("timeout", f)) OBVIOUS
  <2>4. PICK i : i = <<"io", f>> OBVIOUS
  <2>5. timer \in Timer /\ timer.left <= timer.ms /\ timer.cb = CallbackOf(i) /\ ~timer.recurring
    <3>1. TaskOf("timeout", f) \in Task BY TaskOfGood DEF GoodTask
    <3>2. ms <= ms BY <2>2, RuntimeAssumption DEF Delay
    <3>3. CallbackOf(i) = TaskOf("timeout", f) BY <2>4 DEF CallbackOf
    <3>. QED BY <2>2, <2>3, <3>1, <3>2, <3>3 DEF NewTimer, Timer
  <2>6. i \in TimerNames BY <2>4 DEF TimerNames
  <2>7. Inserted(i, timer) BY <1>5, <2>1, <2>3, <2>4
  <2>8. TimersGood' /\ DOMAIN timers' = DOMAIN timers \union {i}
    BY <2>5, <2>6, <2>7, InsertedMoves DEF FiberInv
  <2>. QED BY <1>1, <1>2, <1>3, <1>4, <2>4, <2>8, CallGoesOn
<1>6. CASE UNCHANGED <<timerVars, pipe>>
  <2>1. TimersGood' /\ DOMAIN timers' = DOMAIN timers BY <1>6 DEF FiberInv, TimersGood, timerVars
  <2>. QED BY <1>1, <1>2, <1>3, <1>4, <2>1, CallGoesOn
<1>. QED BY <1>1, <1>5, <1>6 DEF Arm

\* After the yield of a call.
LEMMA WokenKeeps ==
  ASSUME FiberInv, NEW w \in Worker, Woken(w)
  PROVE  FiberInv'
<1>1. PICK f \in Fiber : f = On(w) /\ Runs(w, f) /\ state[f] = "RUNNING" /\ pc[f] = "woken"
                         /\ call[f] \in IoCall
  BY InCall DEF Woken, Runs
<1>2. UNCHANGED <<isStopped, active, idling, pipe, at, reported, timeLeft, idleDone,
                  tickled, eventVars, state, panicked, calls, ctx>>
  BY DEF Woken, fdVars
<1>3. PICK i : i = <<"io", f>> OBVIOUS
<1>4. TimersGood' /\ DOMAIN timers' = DOMAIN timers \ {i}
  <2>1. Cancelled(i) BY <1>1, <1>3 DEF Woken
  <2>. QED BY <2>1, CancelledMoves DEF FiberInv
<1>5. CASE Over(w, f) BY <1>1, <1>2, <1>3, <1>4, <1>5, OverMoves
<1>6. CASE Next_(f, "try") /\ UNCHANGED <<tasks, cbs, running, call, cancelled>>
  <2>1. PICK x \in {"try", "arm", "add"} : x = "try" OBVIOUS
  <2>2. pc' = [pc EXCEPT ![f] = x] BY <1>6, <2>1 DEF Next_
  <2>3. UNCHANGED workerVars BY <1>2, <1>6 DEF workerVars
  <2>. QED BY <1>1, <1>2, <1>3, <1>4, <1>6, <2>1, <2>2, <2>3, CallGoesOn
<1>. QED BY <1>1, <1>5, <1>6 DEF Woken

\* close_f
LEMMA CloseFdKeeps ==
  ASSUME FiberInv, NEW w \in Worker, CloseFd(w)
  PROVE  FiberInv'
<1>1. PICK f \in Fiber : f = On(w) /\ Runs(w, f) /\ state[f] = "RUNNING" /\ pc[f] = "close"
  BY InCall DEF CloseFd, Runs
<1>2. UNCHANGED <<runtimeVars, cancelled, calls, ctx>> BY DEF CloseFd
<1>3. pc' = [pc EXCEPT ![f] = "run"] /\ call' = [call EXCEPT ![f] = NoCall]
  BY <1>1 DEF CloseFd, Next_
<1>4. NoCall \notin IoCall /\ call[f] \notin IoCall
  BY <1>1, Distinct DEF FiberInv, CallsGood, NoCall, IoCall, ClosingCall
<1>5. UNCHANGED <<tasks, isStopped, active, idling, at, running, cbs, reported, timeLeft,
                  idleDone, timers, eventVars, state, panicked>>
  BY <1>2 DEF runtimeVars, schedVars, workerVars, timerVars
<1>6. CallsGood' BY <1>2, <1>3 DEF FiberInv, CallsGood, FibersGood
<1>7. CallsApart' BY <1>3, <1>4 DEF FiberInv, CallsApart, CallsGood
<1>8. WaitersCall'
  <2>1. \A fd \in Fd, e \in Event : waiter[fd][e] # f
    BY <1>4, Distinct DEF FiberInv, WaitersCall
  <2>. QED BY <1>3, <1>5, <2>1 DEF FiberInv, WaitersCall, CallsGood, EventsGood, eventVars
<1>9. TimersCall' BY <1>1, <1>3, <1>5 DEF FiberInv, TimersCall, CallsGood, FibersGood
<1>10. TimeoutsCall' BY <1>3, <1>4, <1>5 DEF FiberInv, TimeoutsCall, CallsGood
<1>11. TimersGood' /\ RestTyped' BY <1>2, <1>5 DEF FiberInv, TimersGood, RestTyped
<1>. QED BY <1>1, <1>3, <1>5, <1>6, <1>7, <1>8, <1>9, <1>10, <1>11, FiberGoesOn

\* The sum of fiber f grows by one of its parts.
LEMMA OwnersGrow ==
  ASSUME TasksGood, CallbacksGood, TasksGood', CallbacksGood', NEW f, NEW d \in {0, 1},
         UNCHANGED <<tasks, at, running, cbs>>,
         \/ /\ waiter' = waiter
            /\ Cardinality({<<"sleep", f>>} \intersect DOMAIN timers')
                 = Cardinality({<<"sleep", f>>} \intersect DOMAIN timers) + d
         \/ /\ DOMAIN timers' = DOMAIN timers
            /\ WaitedFor(waiter', f) = WaitedFor(waiter, f) + d
  PROVE  Owners(f)' = Owners(f) + d
<1>0. PICK c0, a0, e0, s0, h0 \in Nat :
        /\ c0 = Count(tasks, Resuming(f)) /\ a0 = AboutTo(at, running, Resuming(f))
        /\ e0 = Expired(cbs, Resuming(f)) /\ h0 = WaitedFor(waiter, f)
        /\ s0 = Cardinality({<<"sleep", f>>} \intersect DOMAIN timers)
        /\ Owners(f) = c0 + a0 + e0 + s0 + h0
  BY OwnersParts
<1>1. PICK c1, a1, e1, s1, h1 \in Nat :
        /\ c1 = Count(tasks', Resuming(f)) /\ a1 = AboutTo(at', running', Resuming(f))
        /\ e1 = Expired(cbs', Resuming(f)) /\ h1 = WaitedFor(waiter', f)
        /\ s1 = Cardinality({<<"sleep", f>>} \intersect DOMAIN timers')
        /\ Owners(f)' = c1 + a1 + e1 + s1 + h1
  BY OwnersParts
<1>2. c1 = c0 /\ a1 = a0 /\ e1 = e0 BY <1>0, <1>1
<1>3. s1 + h1 = s0 + h0 + d
  <2>1. PICK who, whom, D, E : who = waiter /\ whom = waiter' /\ D = DOMAIN timers /\ E = DOMAIN timers'
    OBVIOUS
  <2>2. CASE /\ whom = who
             /\ Cardinality({<<"sleep", f>>} \intersect E) = Cardinality({<<"sleep", f>>} \intersect D) + d
    <3>1. s1 = s0 + d /\ h1 = h0 BY <1>0, <1>1, <2>1, <2>2
    <3>. QED BY <3>1
  <2>3. CASE E = D /\ WaitedFor(whom, f) = WaitedFor(who, f) + d
    <3>1. s1 = s0 /\ h1 = h0 + d BY <1>0, <1>1, <2>1, <2>3
    <3>. QED BY <3>1
  <2>. QED BY <2>1, <2>2, <2>3
<1>4. PICK o, p : o = Owners(f) /\ p = Owners(f)' OBVIOUS
<1>5. o = c0 + a0 + e0 + s0 + h0 /\ p = c1 + a1 + e1 + s1 + h1 BY <1>0, <1>1, <1>4
<1>6. p = o + d BY <1>2, <1>3, <1>5
<1>. QED BY <1>4, <1>6

\* sleep: the timer is the one thing that will wake the fiber.
LEMMA SleepKeeps ==
  ASSUME FiberInv, NEW w \in Worker, Sleep(w)
  PROVE  FiberInv'
<1>0. Begins(w, On(w)) BY DEF Sleep
<1>1. PICK f \in Fiber : /\ f = On(w) /\ state[f] = "RUNNING" /\ pc[f] = "run"
                         /\ call[f] = NoCall /\ calls' \in [Fiber -> Nat]
  BY <1>0, BeginsRuns
<1>2. UNCHANGED <<tasks, isStopped, active, idling, workerVars, eventVars, state,
                 panicked, call, cancelled, fdVars>>
  BY DEF Sleep
<1>3. pc' = [pc EXCEPT ![f] = "yield"] BY <1>1 DEF Sleep, Next_
<1>4. PICK i : i = <<"sleep", f>> OBVIOUS
<1>5. TimersGood' /\ DOMAIN timers' = DOMAIN timers \union {i}
  <2>1. PICK ms \in Timeouts : Inserted(<<"sleep", f>>, NewTimer(ms, FALSE, TaskOf("wake", f)))
    BY <1>1 DEF Sleep
  <2>2. ms \in Delay BY HookAssumption
  <2>3. PICK timer : timer = NewTimer(ms, FALSE, TaskOf("wake", f)) OBVIOUS
  <2>5. timer \in Timer /\ timer.left <= timer.ms /\ timer.cb = CallbackOf(i) /\ ~timer.recurring
    <3>1. TaskOf("wake", f) \in Task BY TaskOfGood DEF GoodTask
    <3>2. ms <= ms BY <2>2, RuntimeAssumption DEF Delay
    <3>3. CallbackOf(i) = TaskOf("wake", f) BY <1>4 DEF CallbackOf
    <3>. QED BY <2>2, <2>3, <3>1, <3>2, <3>3 DEF NewTimer, Timer
  <2>6. i \in TimerNames BY <1>4 DEF TimerNames
  <2>7. Inserted(i, timer) BY <1>4, <2>1, <2>3
  <2>. QED BY <2>5, <2>6, <2>7, InsertedMoves DEF FiberInv
<1>6. <<"sleep", f>> \notin DOMAIN timers BY <1>1, RunsFree
<1>7. TasksGood' /\ RunningGood' /\ CallbacksGood' /\ EventsGood' /\ ReportsGood'
  BY <1>2 DEF FiberInv, TasksGood, RunningGood, CallbacksGood, EventsGood, ReportsGood,
       schedVars, workerVars, timerVars, eventVars, runtimeVars, fiberVars, fdVars
<1>8. CallsApart' /\ WaitersCall' /\ TimeoutsCall' /\ PendingCounts' /\ WorkersCount' /\
     RestTyped'
  BY <1>2 DEF FiberInv, CallsApart, WaitersCall, TimeoutsCall, PendingCounts,
       WorkersCount, RestTyped, schedVars, workerVars, timerVars, eventVars,
       runtimeVars, fiberVars, fdVars
<1>9. FibersGood'
  <2>1. \A v \in Worker, g \in Fiber : Runs(v, g)' <=> Runs(v, g) BY <1>2 DEF Runs, On, workerVars
  <2>. QED BY <1>1, <1>2, <1>3, <2>1 DEF FiberInv, FibersGood
<1>10. CallsGood' BY <1>1, <1>2, <1>3 DEF FiberInv, CallsGood, FibersGood
<1>11. TimersCall'
  <2>1. \A g \in Fiber : <<"io", g>> # i BY <1>1, <1>4, Distinct
  <2>. QED BY <1>1, <1>2, <1>3, <1>5, <2>1 DEF FiberInv, TimersCall, FibersGood
<1>12. StartsOnce'
  <2>1. \A g \in Fiber : pc'[g] = "queued" <=> pc[g] = "queued"
    BY <1>1, <1>3 DEF FiberInv, FibersGood
  <2>. QED BY <1>2, <2>1 DEF FiberInv, StartsOnce, workerVars
<1>13. WokenOnce'
  <2>1. ASSUME NEW g \in Fiber PROVE Owners(g)' = Owners(g) + (IF g = f THEN 1 ELSE 0)
    <3>1. PICK d \in {0, 1} : d = IF g = f THEN 1 ELSE 0 OBVIOUS
    <3>2. PICK D, E : D = DOMAIN timers /\ E = DOMAIN timers' OBVIOUS
    <3>3. Cardinality({<<"sleep", g>>} \intersect E) = Cardinality({<<"sleep", g>>} \intersect D) + d
      <4>1. Cardinality({<<"sleep", g>>} \intersect D) = (IF <<"sleep", g>> \in D THEN 1 ELSE 0)
            /\ Cardinality({<<"sleep", g>>} \intersect E) = (IF <<"sleep", g>> \in E THEN 1 ELSE 0)
        BY Asleep
      <4>2. g = f <=> <<"sleep", g>> = i BY <1>4, Distinct
      <4>. QED BY <1>5, <1>6, <3>1, <3>2, <4>1, <4>2
    <3>4. UNCHANGED <<tasks, at, running, cbs, waiter>> BY <1>2 DEF workerVars, eventVars
    <3>5. Owners(g)' = Owners(g) + d BY <1>7, <3>2, <3>3, <3>4, OwnersGrow DEF FiberInv
    <3>. QED BY <3>1, <3>5
  <2>2. \A g \in Fiber : pc'[g] = (IF g = f THEN "yield" ELSE pc[g])
    BY <1>3 DEF FiberInv, FibersGood
  <2>3. ASSUME NEW g \in Fiber
        PROVE  Owners(g)' = IF state'[g] = "READY" \/ pc'[g] = "yield" THEN 1 ELSE 0
    <3>1. PICK o, p : o = Owners(g) /\ p = Owners(g)' OBVIOUS
    <3>2. o = IF state[g] = "READY" \/ pc[g] = "yield" THEN 1 ELSE 0
      BY <3>1 DEF FiberInv, WokenOnce
    <3>3. p = o + (IF g = f THEN 1 ELSE 0) BY <2>1, <3>1
    <3>4. p = IF state'[g] = "READY" \/ pc'[g] = "yield" THEN 1 ELSE 0
      BY <1>1, <1>2, <2>2, <3>2, <3>3
    <3>. QED BY <3>1, <3>4
  <2>. QED BY <2>3 DEF WokenOnce
<1>. QED BY <1>5, <1>7, <1>8, <1>9, <1>10, <1>11, <1>12, <1>13 DEF FiberInv

\* addEvent registers the fiber: the event is the one thing that will wake it.
LEMMA RegisteredKeeps ==
  ASSUME FiberInv, NEW w \in Worker, NEW f \in Fiber, state[f] = "RUNNING", pc[f] = "add",
         call[f] \in IoCall, call[f].event \notin events[call[f].fd],
         Registered(call[f].fd, call[f].event, f), pc' = [pc EXCEPT ![f] = "yield"],
         UNCHANGED <<tasks, isStopped, active, idling, workerVars, timers, state, panicked,
                     call, cancelled, calls, ctx>>
  PROVE  FiberInv'
<1>1. PICK fd \in Fd, e \in Event : fd = call[f].fd /\ e = call[f].event BY DEF IoCall
<1>2. /\ events' = [events EXCEPT ![fd] = @ \union {e}]
      /\ armed' = [armed EXCEPT ![fd] = events[fd] \union {e}]
      /\ waiter' = [waiter EXCEPT ![fd][e] = f] /\ pending' = pending + 1
      /\ e \notin events[fd]
  BY <1>1 DEF Registered
<1>3. /\ \A h \in Fd : events'[h] = (IF h = fd THEN events[h] \union {e} ELSE events[h])
      /\ \A h \in Fd, x \in Event : waiter'[h][x] = (IF h = fd /\ x = e THEN f ELSE waiter[h][x])
  <2>1. events \in [Fd -> SUBSET Event] /\ waiter \in [Fd -> [Event -> Fiber \union {None}]]
    BY DEF FiberInv, EventsGood
  <2>2. \A h \in Fd : events'[h] = (IF h = fd THEN events[h] \union {e} ELSE events[h])
    BY <1>2, <2>1
  <2>3. \A h \in Fd, x \in Event : waiter'[h][x] = (IF h = fd /\ x = e THEN f ELSE waiter[h][x])
    BY <1>2, <2>1
  <2>. QED BY <2>2, <2>3
<1>4. f # None BY Distinct
<1>5. EventsGood'
  <2>1. events' \in [Fd -> SUBSET Event] /\ armed' \in [Fd -> SUBSET Event]
    BY <1>2 DEF FiberInv, EventsGood
  <2>2. waiter' \in [Fd -> [Event -> Fiber \union {None}]] BY <1>2 DEF FiberInv, EventsGood
  <2>3. \A h \in Fd : armed'[h] \subseteq events'[h] BY <1>2, <1>3 DEF FiberInv, EventsGood
  <2>4. ASSUME NEW h \in Fd, NEW x \in Event
        PROVE  waiter'[h][x] = None <=> x \notin events'[h]
    <3>1. waiter[h][x] = None <=> x \notin events[h] BY DEF FiberInv, EventsGood
    <3>2. CASE h = fd /\ x = e BY <1>3, <1>4, <3>2
    <3>3. CASE ~(h = fd /\ x = e) BY <1>3, <3>1, <3>3
    <3>. QED BY <3>2, <3>3
  <2>. QED BY <2>1, <2>2, <2>3, <2>4 DEF EventsGood
<1>6. PendingCounts'
  <2>. DEFINE X == {p \in Fd \X Event : p[2] \in events[p[1]]}
              Y == {p \in Fd \X Event : p[2] \in events'[p[1]]}
  <2>1. Y = X \union {<<fd, e>>} /\ <<fd, e>> \notin X BY <1>2, <1>3
  <2>2. X \in SUBSET (Fd \X Event) OBVIOUS
  <2>3. IsFiniteSet(X) BY <2>2, EventsFinite
  <2>4. PICK x, y : x = X /\ y = Y OBVIOUS
  <2>5. y = x \union {<<fd, e>>} /\ <<fd, e>> \notin x /\ IsFiniteSet(x) BY <2>1, <2>3, <2>4
  <2>6. Cardinality(y) = Cardinality(x) + 1 BY <2>5, FS_AddElement
  <2>. QED BY <1>2, <2>4, <2>6 DEF FiberInv, PendingCounts
<1>7. TasksGood' /\ RunningGood' /\ CallbacksGood' /\ TimersGood' /\ ReportsGood' /\
     CallsApart' /\ TimeoutsCall' /\ WorkersCount' /\ RestTyped'
  BY DEF FiberInv, TasksGood, RunningGood, CallbacksGood, TimersGood, ReportsGood,
       CallsApart, TimeoutsCall, WorkersCount, RestTyped, schedVars, workerVars,
       timerVars, eventVars, runtimeVars, fiberVars, fdVars
<1>8. WaitersCall' BY <1>1, <1>3 DEF FiberInv, WaitersCall
<1>9. FibersGood'
  <2>1. \A v \in Worker, g \in Fiber : Runs(v, g)' <=> Runs(v, g) BY DEF Runs, On, workerVars
  <2>. QED BY <2>1 DEF FiberInv, FibersGood
<1>10. CallsGood' BY DEF FiberInv, CallsGood, FibersGood
<1>11. TimersCall' BY DEF FiberInv, TimersCall, FibersGood
<1>12. StartsOnce'
  <2>1. \A g \in Fiber : pc'[g] = "queued" <=> pc[g] = "queued" BY DEF FiberInv, FibersGood
  <2>. QED BY <2>1 DEF FiberInv, StartsOnce, workerVars
<1>13. WokenOnce'
  <2>1. ASSUME NEW g \in Fiber PROVE Owners(g)' = Owners(g) + (IF g = f THEN 1 ELSE 0)
    <3>1. PICK d \in {0, 1} : d = IF g = f THEN 1 ELSE 0 OBVIOUS
    <3>2. WaitedFor(waiter', g) = WaitedFor(waiter, g) + d
      <4>. DEFINE X == {p \in Fd \X Event : waiter[p[1]][p[2]] = g}
                  Y == {p \in Fd \X Event : waiter'[p[1]][p[2]] = g}
      <4>1. X \in SUBSET (Fd \X Event) OBVIOUS
      <4>2. IsFiniteSet(X) /\ Cardinality(X) \in Nat BY <4>1, EventsFinite
      <4>3. waiter[fd][e] = None BY <1>2 DEF FiberInv, EventsGood
      <4>4. <<fd, e>> \notin X BY <4>3, Distinct
      <4>5. CASE g = f
        <5>1. Y = X \union {<<fd, e>>} BY <1>3, <4>5
        <5>2. PICK x, y : x = X /\ y = Y OBVIOUS
        <5>3. y = x \union {<<fd, e>>} /\ <<fd, e>> \notin x /\ IsFiniteSet(x)
          BY <4>2, <4>4, <5>1, <5>2
        <5>4. Cardinality(y) = Cardinality(x) + 1 BY <5>3, FS_AddElement
        <5>. QED BY <3>1, <4>5, <5>2, <5>4 DEF WaitedFor
      <4>6. CASE g # f
        <5>1. Y = X BY <1>3, <4>4, <4>6
        <5>2. WaitedFor(waiter', g) = Cardinality(X) /\ WaitedFor(waiter, g) = Cardinality(X)
          BY <5>1 DEF WaitedFor
        <5>3. PICK n \in Nat : n = Cardinality(X) BY <4>2
        <5>4. d = 0 BY <3>1, <4>6
        <5>. HIDE DEF X, Y
        <5>. QED BY <5>2, <5>3, <5>4
      <4>. QED BY <4>5, <4>6
    <3>3. UNCHANGED <<tasks, at, running, cbs>> /\ DOMAIN timers' = DOMAIN timers BY DEF workerVars
    <3>4. Owners(g)' = Owners(g) + d BY <1>7, <3>2, <3>3, OwnersGrow DEF FiberInv
    <3>. QED BY <3>1, <3>4
  <2>2. \A g \in Fiber : pc'[g] = (IF g = f THEN "yield" ELSE pc[g])
    BY DEF FiberInv, FibersGood
  <2>3. ASSUME NEW g \in Fiber
        PROVE  Owners(g)' = IF state'[g] = "READY" \/ pc'[g] = "yield" THEN 1 ELSE 0
    <3>1. PICK o, p : o = Owners(g) /\ p = Owners(g)' OBVIOUS
    <3>2. o = IF state[g] = "READY" \/ pc[g] = "yield" THEN 1 ELSE 0
      BY <3>1 DEF FiberInv, WokenOnce
    <3>3. p = o + (IF g = f THEN 1 ELSE 0) BY <2>1, <3>1
    <3>4. p = IF state'[g] = "READY" \/ pc'[g] = "yield" THEN 1 ELSE 0
      BY <2>2, <3>2, <3>3
    <3>. QED BY <3>1, <3>4
  <2>. QED BY <2>3 DEF WokenOnce
<1>. QED BY <1>5, <1>6, <1>7, <1>8, <1>9, <1>10, <1>11, <1>12, <1>13 DEF FiberInv

\* addEvent of a call
LEMMA AddKeeps ==
  ASSUME FiberInv, NEW w \in Worker, Add(w)
  PROVE  FiberInv'
<1>1. PICK f \in Fiber : f = On(w) /\ Runs(w, f) /\ state[f] = "RUNNING" /\ pc[f] = "add"
                         /\ call[f] \in IoCall
  BY InCall DEF Add, Runs
<1>2. UNCHANGED <<isStopped, active, idling, pipe, at, reported, timeLeft, idleDone,
                  tickled, state, fdVars>>
  BY DEF Add
<1>3. CASE Panic /\ UNCHANGED <<eventVars, timers, tasks, cbs, running, fiberVars>>
  <2>1. panicked' \in BOOLEAN BY <1>3 DEF Panic
  <2>2. UNCHANGED workerVars BY <1>2, <1>3 DEF workerVars
  <2>. QED BY <1>2, <1>3, <2>1, <2>2, PanicKeeps DEF fdVars
<1>4. CASE /\ call[f].event \notin events[call[f].fd]
           /\ Registered(call[f].fd, call[f].event, f)
           /\ Next_(f, "yield")
           /\ UNCHANGED <<timers, tasks, cbs, running, call, cancelled, calls, panicked>>
  <2>1. pc' = [pc EXCEPT ![f] = "yield"] BY <1>4 DEF Next_
  <2>2. UNCHANGED <<workerVars, ctx>> BY <1>2, <1>4 DEF workerVars, fdVars
  <2>. QED BY <1>1, <1>2, <1>4, <2>1, <2>2, RegisteredKeeps
<1>5. CASE /\ Cancelled(<<"io", f>>)
           /\ Over(w, f)
           /\ UNCHANGED <<eventVars, calls, panicked>>
  <2>1. PICK i : i = <<"io", f>> OBVIOUS
  <2>2. TimersGood' /\ DOMAIN timers' = DOMAIN timers \ {i}
    <3>1. Cancelled(i) BY <1>5, <2>1
    <3>. QED BY <3>1, CancelledMoves DEF FiberInv
  <2>3. UNCHANGED ctx BY <1>2 DEF fdVars
  <2>. QED BY <1>1, <1>2, <1>5, <2>1, <2>2, <2>3, OverMoves
<1>. QED BY <1>1, <1>3, <1>4, <1>5 DEF Add, Refused

-----------------------------------------------------------------------------
(* Fibers leave their workers and come back                                *)

\* yield: READY, and on its worker still
LEMMA YieldKeeps ==
  ASSUME FiberInv, NEW w \in Worker, Yield(w)
  PROVE  FiberInv'
<1>1. PICK f : f = On(w) /\ Runs(w, f) /\ pc[f] = "yield" BY DEF Yield
<1>2. f \in Fiber BY <1>1, RunsOne DEF Runs
<1>3. state' = [state EXCEPT ![f] = "READY"] /\ pc' = [pc EXCEPT ![f] = "switch"]
  BY <1>1 DEF Yield, Next_
<1>4. UNCHANGED <<schedVars, workerVars, timerVars, eventVars, panicked, call, cancelled,
                  calls, fdVars>>
  BY DEF Yield
<1>5. TasksGood' /\ RunningGood' /\ CallbacksGood' /\ TimersGood' /\ EventsGood' /\
     ReportsGood'
  BY <1>4 DEF FiberInv, TasksGood, RunningGood, CallbacksGood, TimersGood, EventsGood,
       ReportsGood, schedVars, workerVars, timerVars, eventVars, runtimeVars, fiberVars,
       fdVars
<1>6. CallsApart' /\ WaitersCall' /\ TimeoutsCall' /\ PendingCounts' /\ WorkersCount' /\
     RestTyped'
  BY <1>4 DEF FiberInv, CallsApart, WaitersCall, TimeoutsCall, PendingCounts,
       WorkersCount, RestTyped, schedVars, workerVars, timerVars, eventVars,
       runtimeVars, fiberVars, fdVars
<1>7. /\ \A g \in Fiber : state'[g] = IF g = f THEN "READY" ELSE state[g]
      /\ \A g \in Fiber : pc'[g] = IF g = f THEN "switch" ELSE pc[g]
  BY <1>3 DEF FiberInv, FibersGood
<1>8. FibersGood'
  <2>1. \A v \in Worker, g \in Fiber : Runs(v, g)' <=> Runs(v, g) BY <1>4 DEF Runs, On, workerVars
  <2>2. state' \in [Fiber -> {"READY", "RUNNING", "TERM"}]
        /\ pc' \in [Fiber -> {"none", "queued", "run", "try", "arm", "add", "yield", "switch",
                              "woken", "close"}]
    BY <1>3 DEF FiberInv, FibersGood
  <2>. QED BY <1>1, <1>2, <1>7, <2>1, <2>2 DEF FiberInv, FibersGood
<1>9. CallsGood' BY <1>1, <1>4, <1>7 DEF FiberInv, CallsGood
<1>10. TimersCall' BY <1>1, <1>4, <1>7 DEF FiberInv, TimersCall, timerVars
<1>11. StartsOnce'
  <2>1. \A g \in Fiber : pc'[g] = "queued" <=> pc[g] = "queued" BY <1>1, <1>7
  <2>. QED BY <1>4, <2>1 DEF FiberInv, StartsOnce, schedVars, workerVars
<1>12. WokenOnce'
  <2>1. \A g \in Fiber : Owners(g)' = Owners(g)
    BY <1>4 DEF Owners, schedVars, workerVars, timerVars, eventVars
  <2>2. \A g \in Fiber : (state'[g] = "READY" \/ pc'[g] = "yield")
                           <=> (state[g] = "READY" \/ pc[g] = "yield")
    BY <1>1, <1>7
  <2>. QED BY <2>1, <2>2 DEF FiberInv, WokenOnce
<1>. QED BY <1>5, <1>6, <1>8, <1>9, <1>10, <1>11, <1>12 DEF FiberInv

\* A fiber is resumed, or starts: the task that was to is gone.
LEMMA ResumeKeeps ==
  ASSUME FiberInv, NEW w \in Worker, Resume(w)
  PROVE  FiberInv'
<1>1. PICK f : f = On(w) /\ f = running[w].fiber BY DEF On
<1>2. at[w] = "resume" /\ running[w].fn \in {"fiber", "body"} BY DEF Resume
<1>3. UNCHANGED <<schedVars, running, cbs, reported, timeLeft, idleDone, timerVars,
                  eventVars, call, cancelled, calls, fdVars>>
  BY DEF Resume
<1>4. PICK t : t = running[w] OBVIOUS
<1>5. GoodTask(t) /\ t.fiber = f /\ f \in Fiber /\ t.fn \in {"fiber", "body"}
  BY <1>1, <1>2, <1>4 DEF FiberInv, RunningGood, GoodTask
<1>6. CASE Panic /\ UNCHANGED <<state, pc, at>>
  <2>1. panicked' \in BOOLEAN BY <1>6 DEF Panic
  <2>2. UNCHANGED <<tasks, isStopped, active, idling, workerVars, timers, eventVars, state,
                    fiberVars, ctx>>
    BY <1>3, <1>6 DEF schedVars, workerVars, timerVars, fiberVars, fdVars
  <2>. QED BY <2>1, <2>2, PanicKeeps
<1>7. CASE /\ t.fn = "body" \/ (state[f] = "READY" /\ pc[f] /= "switch")
           /\ state' = [state EXCEPT ![f] = "RUNNING"]
           /\ pc' = [pc EXCEPT ![f] = IF t.fn = "body" THEN "run" ELSE pc[f]]
           /\ at' = [at EXCEPT ![w] = "fiber"]
           /\ UNCHANGED panicked
  <2>1. (\A v \in Worker : v # w => at'[v] = at[v]) /\ at'[w] = "fiber"
    BY <1>7 DEF FiberInv, RunningGood
  <2>2. IF t.fn = "body" THEN pc[f] = "queued" /\ state[f] = "TERM"
                         ELSE state[f] = "READY" /\ pc[f] \in {"run", "woken"}
    <3>1. CASE t.fn = "body"
      <4>1. running[w] \in StartOf(f) BY <1>4, <1>5, <3>1 DEF StartOf, GoodTask
      <4>2. AboutTo(at, running, StartOf(f)) >= 1 BY <1>2, <4>1, AboutToNat
      <4>3. Count(tasks, StartOf(f)) \in Nat /\ AboutTo(at, running, StartOf(f)) \in Nat
        BY OwnersNat DEF FiberInv
      <4>4. Count(tasks, StartOf(f)) + AboutTo(at, running, StartOf(f))
              = IF pc[f] = "queued" THEN 1 ELSE 0
        BY <1>5 DEF FiberInv, StartsOnce
      <4>5. pc[f] = "queued" BY <4>2, <4>3, <4>4
      <4>. QED BY <1>5, <3>1, <4>5 DEF FiberInv, FibersGood
    <3>2. CASE t.fn # "body"
      BY <1>5, <1>7, <3>2 DEF FiberInv, FibersGood
    <3>. QED BY <3>1, <3>2
  <2>3. /\ \A g \in Fiber : state'[g] = IF g = f THEN "RUNNING" ELSE state[g]
        /\ \A g \in Fiber : pc'[g] = IF g = f THEN (IF t.fn = "body" THEN "run" ELSE pc[f]) ELSE pc[g]
    BY <1>7 DEF FiberInv, FibersGood
  <2>4. TasksGood' /\ TimersGood' /\ EventsGood' /\ ReportsGood' /\ CallsApart' /\
       WaitersCall'
    BY <1>3 DEF FiberInv, TasksGood, TimersGood, EventsGood, ReportsGood, CallsApart,
         WaitersCall, schedVars, workerVars, timerVars, eventVars, runtimeVars,
         fiberVars, fdVars
  <2>5. TimeoutsCall' /\ PendingCounts' /\ RestTyped'
    BY <1>3, <1>7 DEF FiberInv, TimeoutsCall, PendingCounts, RestTyped, schedVars,
         workerVars, timerVars, eventVars, runtimeVars, fiberVars, fdVars
  <2>6. RunningGood'
    <3>1. at' \in [Worker -> Place] BY <1>7 DEF FiberInv, RunningGood, Place
    <3>. QED BY <1>2, <1>3, <1>4, <1>5, <2>1, <3>1 DEF FiberInv, RunningGood
  <2>7. CallbacksGood' BY <1>2, <1>3, <2>1 DEF FiberInv, CallbacksGood
  <2>8. FibersGood'
    <3>1. \A v \in Worker, g \in Fiber : Runs(v, g)' <=> Runs(v, g) \/ (v = w /\ g = f)
      BY <1>1, <1>2, <1>3, <2>1 DEF Runs, On
    <3>2. \A v \in Worker : ~Runs(v, f) BY <1>5, <2>2 DEF FiberInv, FibersGood
    <3>3. state' \in [Fiber -> {"READY", "RUNNING", "TERM"}]
          /\ pc' \in [Fiber -> {"none", "queued", "run", "try", "arm", "add", "yield", "switch",
                                "woken", "close"}]
      BY <1>7, <1>5 DEF FiberInv, FibersGood
    <3>4. pc'[f] \in {"run", "woken"} BY <1>5, <2>2, <2>3
    <3>5. ASSUME NEW g \in Fiber
          PROVE  /\ pc'[g] \in {"none", "queued"} <=> state'[g] = "TERM"
                 /\ pc'[g] \in {"try", "arm", "add", "yield", "close"} => state'[g] = "RUNNING"
                 /\ pc'[g] = "switch" => state'[g] = "READY"
                 /\ (state'[g] = "RUNNING" \/ pc'[g] = "switch") <=> \E v \in Worker : Runs(v, g)'
      <4>1. CASE g = f BY <2>3, <3>1, <3>4, <4>1
      <4>2. CASE g # f BY <2>3, <3>1, <4>2 DEF FiberInv, FibersGood
      <4>. QED BY <4>1, <4>2
    <3>6. \A g \in Fiber : \A u, v \in Worker : Runs(u, g)' /\ Runs(v, g)' => u = v
      BY <3>1, <3>2 DEF FiberInv, FibersGood
    <3>. QED BY <3>3, <3>5, <3>6 DEF FibersGood
  <2>9. CallsGood' BY <1>3, <2>2, <2>3 DEF FiberInv, CallsGood
  <2>10. TimersCall' BY <1>3, <2>2, <2>3 DEF FiberInv, TimersCall, timerVars
  <2>11. WorkersCount'
    <3>1. \A v \in Worker : /\ at'[v] \in {"resume", "fiber"} <=> at[v] \in {"resume", "fiber"}
                            /\ at'[v] \in {"look", "check", "ask", "wait", "expire", "push", "handle"}
                                 <=> at[v] \in {"look", "check", "ask", "wait", "expire", "push", "handle"}
      BY <1>2, <2>1
    <3>2. active' = active /\ idling' = idling BY <1>3 DEF schedVars
    <3>3. /\ {v \in Worker : at'[v] \in {"resume", "fiber"}}
               = {v \in Worker : at[v] \in {"resume", "fiber"}}
          /\ {v \in Worker : at'[v] \in {"look", "check", "ask", "wait", "expire", "push", "handle"}}
               = {v \in Worker : at[v] \in {"look", "check", "ask", "wait", "expire", "push", "handle"}}
      BY <3>1
    <3>. QED BY <3>2, <3>3 DEF FiberInv, WorkersCount
  <2>12. ASSUME NEW S
         PROVE  /\ AboutTo(at', running', S) \in Nat /\ AboutTo(at, running, S) \in Nat
                /\ AboutTo(at, running, S) = AboutTo(at', running', S) + (IF t \in S THEN 1 ELSE 0)
    <3>1. \A v \in Worker : v # w => at'[v] = at[v] /\ running'[v] = running[v] BY <1>3, <2>1
    <3>2. /\ AboutTo(at', running', S) \in Nat /\ AboutTo(at, running, S) \in Nat
          /\ AboutTo(at, running, S) + AtOne(at', running', w, S)
               = AboutTo(at', running', S) + AtOne(at, running, w, S)
      BY <3>1, AboutToOther
    <3>3. AtOne(at, running, w, S) = (IF t \in S THEN 1 ELSE 0) /\ AtOne(at', running', w, S) = 0
      BY <1>2, <1>4, <2>1 DEF AtOne
    <3>4. PICK m, n \in Nat : m = AboutTo(at, running, S) /\ n = AboutTo(at', running', S)
      BY <3>2
    <3>5. m + 0 = n + (IF t \in S THEN 1 ELSE 0) BY <3>2, <3>3, <3>4
    <3>. QED BY <3>4, <3>5
  <2>13. StartsOnce'
    <3>1. ASSUME NEW g \in Fiber
          PROVE  Count(tasks', StartOf(g)) + AboutTo(at', running', StartOf(g))
                   = IF pc'[g] = "queued" THEN 1 ELSE 0
      <4>1. PICK c, a, b \in Nat : /\ c = Count(tasks, StartOf(g))
                                   /\ a = AboutTo(at, running, StartOf(g))
                                   /\ b = AboutTo(at', running', StartOf(g))
        BY <2>12, OwnersNat DEF FiberInv
      <4>2. Count(tasks', StartOf(g)) = c BY <1>3, <4>1 DEF schedVars
      <4>3. c + a = IF pc[g] = "queued" THEN 1 ELSE 0 BY <4>1 DEF FiberInv, StartsOnce
      <4>4. t \in StartOf(g) <=> t.fn = "body" /\ g = f BY <1>5 DEF StartOf, GoodTask
      <4>5. a = b + (IF t.fn = "body" /\ g = f THEN 1 ELSE 0) BY <2>12, <4>1, <4>4
      <4>6. c + b = IF pc'[g] = "queued" THEN 1 ELSE 0 BY <2>2, <2>3, <4>3, <4>5
      <4>. QED BY <4>1, <4>2, <4>6
    <3>. QED BY <3>1 DEF StartsOnce, StartOf
  <2>14. WokenOnce'
    <3>1. ASSUME NEW g \in Fiber
          PROVE  Owners(g)' = IF state'[g] = "READY" \/ pc'[g] = "yield" THEN 1 ELSE 0
      <4>1. PICK a, b \in Nat : /\ a = AboutTo(at, running, Resuming(g))
                                /\ b = AboutTo(at', running', Resuming(g))
        BY <2>12
      <4>2. PICK c, e, s, h \in Nat :
              /\ c = Count(tasks, Resuming(g)) /\ e = Expired(cbs, Resuming(g))
              /\ s = Cardinality({<<"sleep", g>>} \intersect DOMAIN timers)
              /\ h = WaitedFor(waiter, g)
        BY OwnersNat DEF FiberInv
      <4>3. Owners(g) = c + a + e + s + h BY <4>1, <4>2 DEF Owners
      <4>4. Owners(g)' = c + b + e + s + h
        <5>1. tasks' = tasks /\ cbs' = cbs /\ timers' = timers /\ waiter' = waiter
          BY <1>3 DEF schedVars, timerVars, eventVars
        <5>2. Owners(g)' = Count(tasks, Resuming(g)) + AboutTo(at', running', Resuming(g))
                + Expired(cbs, Resuming(g)) + Cardinality({<<"sleep", g>>} \intersect DOMAIN timers)
                + WaitedFor(waiter, g)
          BY <5>1 DEF Owners, Resuming, Resumes
        <5>. QED BY <4>1, <4>2, <5>2
      <4>5. PICK o, p : o = Owners(g) /\ p = Owners(g)' OBVIOUS
      <4>6. o = IF state[g] = "READY" \/ pc[g] = "yield" THEN 1 ELSE 0
        BY <4>5 DEF FiberInv, WokenOnce
      <4>7. t \in Resuming(g) <=> t.fn = "fiber" /\ g = f
        BY <1>5 DEF Resuming, Resumes, GoodTask
      <4>8. a = b + (IF t.fn = "fiber" /\ g = f THEN 1 ELSE 0) BY <2>12, <4>1, <4>7
      <4>9. o = c + a + e + s + h /\ p = c + b + e + s + h BY <4>3, <4>4, <4>5
      <4>10. p = o - (IF t.fn = "fiber" /\ g = f THEN 1 ELSE 0) BY <4>8, <4>9
      <4>11. p = IF state'[g] = "READY" \/ pc'[g] = "yield" THEN 1 ELSE 0
        BY <1>5, <2>2, <2>3, <4>6, <4>10
      <4>. QED BY <4>5, <4>11
    <3>. QED BY <3>1 DEF WokenOnce
  <2>. QED BY <2>4, <2>5, <2>6, <2>7, <2>8, <2>9, <2>10, <2>11, <2>13, <2>14 DEF FiberInv
<1>. QED BY <1>1, <1>4, <1>6, <1>7 DEF Resume, Goto, Next_

\* A worker leaves its fiber, which has yielded or returned.
LEMMA LeavesKeeps ==
  ASSUME FiberInv, NEW w \in Worker, NEW f \in Fiber, f = On(w), Runs(w, f), Finished(w),
         NEW x \in {"none", "run", "woken"}, NEW y \in {"TERM", "READY"},
         pc' = [pc EXCEPT ![f] = x], state' = [state EXCEPT ![f] = y],
         IF x = "none" THEN y = "TERM" /\ pc[f] = "run" ELSE y = "READY" /\ pc[f] = "switch",
         x = "run" => call[f] = NoCall, x = "woken" => call[f] \in IoCall,
         calls' \in [Fiber -> Nat],
         UNCHANGED <<tasks, isStopped, idling, cbs, reported, timeLeft, idleDone,
                     timerVars, eventVars, panicked, call, cancelled, fdVars>>
  PROVE  FiberInv'
<1>1. at[w] \in {"resume", "fiber"} /\ at[w] = "fiber" BY DEF Runs
<1>2. /\ RunningGood' /\ WorkersCount'
      /\ \A S : AboutTo(at, running, S) = AboutTo(at', running', S) + AtOne(at, running, w, S)
      /\ \A S : AboutTo(at', running', S) \in Nat /\ AboutTo(at, running, S) \in Nat
      /\ \A v \in Worker : v # w => at'[v] = at[v] /\ running'[v] = running[v]
      /\ at'[w] = "take" /\ running'[w] = NoTask
  BY <1>1, FinishedMove
<1>3. ASSUME NEW S PROVE AboutTo(at', running', S) = AboutTo(at, running, S)
  <2>1. PICK a, b \in Nat : a = AboutTo(at, running, S) /\ b = AboutTo(at', running', S)
    BY <1>2
  <2>2. AtOne(at, running, w, S) = 0 BY <1>1 DEF AtOne
  <2>3. a = b + 0 BY <1>2, <2>1, <2>2
  <2>. QED BY <2>1, <2>3
<1>4. /\ \A g \in Fiber : state'[g] = IF g = f THEN y ELSE state[g]
      /\ \A g \in Fiber : pc'[g] = IF g = f THEN x ELSE pc[g]
  BY DEF FiberInv, FibersGood
<1>5. TasksGood' /\ TimersGood' /\ EventsGood' /\ ReportsGood' /\ CallsApart' /\
     WaitersCall' /\ PendingCounts' /\ RestTyped'
  BY DEF FiberInv, TasksGood, TimersGood, EventsGood, ReportsGood, CallsApart,
       WaitersCall, PendingCounts, RestTyped, schedVars, workerVars, timerVars,
       eventVars, runtimeVars, fiberVars, fdVars
<1>6. CallbacksGood' BY <1>1, <1>2 DEF FiberInv, CallbacksGood
<1>7. FibersGood'
  <2>1. \A v \in Worker, g \in Fiber : Runs(v, g)' <=> Runs(v, g) /\ v # w
    BY <1>2 DEF Runs, On
  <2>2. \A v \in Worker : Runs(v, f) => v = w BY DEF FiberInv, FibersGood
  <2>3. \A g \in Fiber : g # f => ~Runs(w, g) BY DEF Runs
  <2>4. state' \in [Fiber -> {"READY", "RUNNING", "TERM"}]
        /\ pc' \in [Fiber -> {"none", "queued", "run", "try", "arm", "add", "yield", "switch",
                              "woken", "close"}]
    BY DEF FiberInv, FibersGood
  <2>5. ASSUME NEW g \in Fiber
        PROVE  /\ pc'[g] \in {"none", "queued"} <=> state'[g] = "TERM"
               /\ pc'[g] \in {"try", "arm", "add", "yield", "close"} => state'[g] = "RUNNING"
               /\ pc'[g] = "switch" => state'[g] = "READY"
               /\ (state'[g] = "RUNNING" \/ pc'[g] = "switch") <=> \E v \in Worker : Runs(v, g)'
    <3>1. CASE g = f BY <1>4, <2>1, <2>2, <3>1
    <3>2. CASE g # f
      <4>1. (\E v \in Worker : Runs(v, g)') <=> (\E v \in Worker : Runs(v, g))
        BY <2>1, <2>3, <3>2
      <4>. QED BY <1>4, <3>2, <4>1 DEF FiberInv, FibersGood
    <3>. QED BY <3>1, <3>2
  <2>6. \A g \in Fiber : \A u, v \in Worker : Runs(u, g)' /\ Runs(v, g)' => u = v
    BY <2>1 DEF FiberInv, FibersGood
  <2>. QED BY <2>4, <2>5, <2>6 DEF FibersGood
<1>8. CallsGood' BY <1>4 DEF FiberInv, CallsGood
<1>9. TimersCall'
  <2>1. NoCall \notin IoCall BY Distinct DEF NoCall, IoCall
  <2>. QED BY <1>4, <2>1 DEF FiberInv, TimersCall, timerVars
<1>10. TimeoutsCall'
  <2>1. \A g \in Fiber : NoTask # TaskOf("timeout", g) BY DEF NoTask, TaskOf
  <2>. QED BY <1>2, <2>1 DEF FiberInv, TimeoutsCall
<1>11. StartsOnce'
  <2>1. \A g \in Fiber : pc'[g] = "queued" <=> pc[g] = "queued" BY <1>4
  <2>. QED BY <1>3, <2>1 DEF FiberInv, StartsOnce, StartOf
<1>12. WokenOnce'
  <2>1. ASSUME NEW g \in Fiber PROVE Owners(g)' = Owners(g)
    <3>1. AboutTo(at', running', Resuming(g)) = AboutTo(at, running, Resuming(g)) BY <1>3
    <3>. QED BY <3>1 DEF Owners, Resuming, Resumes, timerVars, eventVars
  <2>2. \A g \in Fiber : (state'[g] = "READY" \/ pc'[g] = "yield")
                           <=> (state[g] = "READY" \/ pc[g] = "yield")
    <3>1. state[f] = IF x = "none" THEN "RUNNING" ELSE "READY"
      <4>1. state[f] = "RUNNING" \/ pc[f] = "switch" BY DEF FiberInv, FibersGood
      <4>. QED BY <4>1 DEF FiberInv, FibersGood
    <3>. QED BY <1>4, <3>1
  <2>. QED BY <2>1, <2>2 DEF FiberInv, WokenOnce
<1>. QED BY <1>2, <1>5, <1>6, <1>7, <1>8, <1>9, <1>10, <1>11, <1>12 DEF FiberInv

\* The worker is back in run.
LEMMA SwitchKeeps ==
  ASSUME FiberInv, NEW w \in Worker, Switch(w)
  PROVE  FiberInv'
<1>1. PICK f : f = On(w) /\ Runs(w, f) /\ pc[f] = "switch" BY DEF Switch
<1>2. f \in Fiber BY <1>1, RunsOne DEF Runs
<1>3. state' = state /\ state[f] = "READY" BY <1>1, <1>2 DEF Switch, FiberInv, FibersGood
<1>4. PICK y \in {"TERM", "READY"} : y = "READY" OBVIOUS
<1>5. state' = [state EXCEPT ![f] = y] BY <1>2, <1>3, <1>4 DEF FiberInv, FibersGood
<1>6. call[f] \in IoCall \union {NoCall} BY <1>1, <1>2 DEF FiberInv, CallsGood
<1>7. PICK x \in {"none", "run", "woken"} : x = IF call[f] = NoCall THEN "run" ELSE "woken"
  OBVIOUS
<1>8. pc' = [pc EXCEPT ![f] = x] BY <1>1, <1>7 DEF Switch, Next_
<1>9. calls' \in [Fiber -> Nat] BY DEF Switch, FiberInv, CallsGood
<1>10. Finished(w) /\ UNCHANGED <<tasks, isStopped, idling, cbs, reported, timeLeft, idleDone,
                     timerVars, eventVars, panicked, call, cancelled, fdVars>>
  BY DEF Switch
<1>. QED BY <1>1, <1>2, <1>4, <1>5, <1>6, <1>7, <1>8, <1>9, <1>10, LeavesKeeps

\* The body has returned.
LEMMA ReturnKeeps ==
  ASSUME FiberInv, NEW w \in Worker, Return(w)
  PROVE  FiberInv'
<1>1. PICK f : f = On(w) /\ Runs(w, f) /\ pc[f] = "run" BY DEF Return
<1>2. f \in Fiber BY <1>1, RunsOne DEF Runs
<1>3. PICK x \in {"none", "run", "woken"} : x = "none" OBVIOUS
<1>4. PICK y \in {"TERM", "READY"} : y = "TERM" OBVIOUS
<1>5. pc' = [pc EXCEPT ![f] = x] /\ state' = [state EXCEPT ![f] = y]
  BY <1>1, <1>3, <1>4 DEF Return, Next_
<1>6. calls' \in [Fiber -> Nat] BY DEF Return, FiberInv, CallsGood
<1>7. Finished(w) /\ UNCHANGED <<tasks, isStopped, idling, cbs, reported, timeLeft, idleDone,
                     timerVars, eventVars, panicked, call, cancelled, fdVars>>
  BY DEF Return
<1>. QED BY <1>1, <1>2, <1>3, <1>4, <1>5, <1>6, <1>7, LeavesKeeps

-----------------------------------------------------------------------------
(* Callbacks and close                                                     *)

\* A callback is over: what it pushed or took out of the events takes its place.
LEMMA CallbackKeeps ==
  ASSUME FiberInv, NEW w \in Worker, at[w] = "resume", running[w].fn \notin {"fiber", "body"},
         CallbackOver(w), TasksGood', EventsGood', PendingCounts', CallsGood',
         \A g \in Fd, e \in Event : waiter'[g][e] # None => waiter'[g][e] = waiter[g][e],
         \A f \in Fiber :
           /\ Count(tasks', StartOf(f)) = Count(tasks, StartOf(f))
           /\ Count(tasks', Resuming(f)) + WaitedFor(waiter', f)
                = Count(tasks, Resuming(f)) + WaitedFor(waiter, f)
                  + (IF running[w] \in Resuming(f) THEN 1 ELSE 0)
           /\ (\A i \in DOMAIN tasks : tasks[i] # TaskOf("timeout", f))
                => (\A i \in DOMAIN tasks' : tasks'[i] # TaskOf("timeout", f)),
         UNCHANGED <<isStopped, idling, timerVars, state, panicked, pc, call, fdVars>>
  PROVE  FiberInv'
<1>1. Finished(w) /\ UNCHANGED <<cbs, reported, timeLeft, idleDone>> BY DEF CallbackOver
<1>2. /\ RunningGood' /\ WorkersCount'
      /\ \A S : AboutTo(at, running, S) = AboutTo(at', running', S) + AtOne(at, running, w, S)
      /\ \A S : AboutTo(at', running', S) \in Nat /\ AboutTo(at, running, S) \in Nat
      /\ \A v \in Worker : v # w => at'[v] = at[v] /\ running'[v] = running[v]
      /\ at'[w] = "take" /\ running'[w] = NoTask
  BY <1>1, FinishedMove
<1>3. CallbacksGood' BY <1>1, <1>2 DEF FiberInv, CallbacksGood
<1>4. FibersGood'
  <2>1. \A v \in Worker, g \in Fiber : Runs(v, g)' <=> Runs(v, g) BY <1>2 DEF Runs, On
  <2>. QED BY <2>1 DEF FiberInv, FibersGood
<1>5. TimersGood' /\ ReportsGood' /\ CallsApart' /\ TimersCall' /\ RestTyped'
  BY <1>1 DEF FiberInv, TimersGood, ReportsGood, CallsApart, TimersCall, RestTyped,
       schedVars, workerVars, timerVars, eventVars, runtimeVars, fiberVars, fdVars
<1>6. WaitersCall' BY DEF FiberInv, WaitersCall
<1>7. TimeoutsCall'
  <2>1. \A g \in Fiber : NoTask # TaskOf("timeout", g) BY DEF NoTask, TaskOf
  <2>2. ASSUME NEW g \in Fiber, call[g] \notin IoCall
        PROVE  \A v \in Worker : /\ running'[v] # TaskOf("timeout", g)
                                 /\ \A i \in DOMAIN cbs'[v] : cbs'[v][i] # TaskOf("timeout", g)
    BY <1>1, <1>2, <2>1, <2>2 DEF FiberInv, TimeoutsCall
  <2>3. ASSUME NEW g \in Fiber, call[g] \notin IoCall
        PROVE  \A i \in DOMAIN tasks' : tasks'[i] # TaskOf("timeout", g)
    BY <2>3 DEF FiberInv, TimeoutsCall
  <2>. QED BY <2>2, <2>3 DEF TimeoutsCall
<1>8. StartsOnce'
  <2>1. ASSUME NEW g \in Fiber
        PROVE  AboutTo(at', running', StartOf(g)) = AboutTo(at, running, StartOf(g))
    <3>1. AtOne(at, running, w, StartOf(g)) = 0 BY DEF AtOne, StartOf
    <3>2. PICK m, n \in Nat : /\ m = AboutTo(at, running, StartOf(g))
                              /\ n = AboutTo(at', running', StartOf(g))
      BY <1>2
    <3>3. m = n + 0 BY <1>2, <3>1, <3>2
    <3>. QED BY <3>2, <3>3
  <2>. QED BY <2>1 DEF FiberInv, StartsOnce, StartOf
<1>9. WokenOnce'
  <2>1. ASSUME NEW f \in Fiber PROVE Owners(f)' = Owners(f)
    <3>0. PICK c0, a0, e0, s0, h0 \in Nat :
            /\ c0 = Count(tasks, Resuming(f)) /\ a0 = AboutTo(at, running, Resuming(f))
            /\ e0 = Expired(cbs, Resuming(f)) /\ h0 = WaitedFor(waiter, f)
            /\ s0 = Cardinality({<<"sleep", f>>} \intersect DOMAIN timers)
            /\ Owners(f) = c0 + a0 + e0 + s0 + h0
      BY <1>3, OwnersParts DEF FiberInv
    <3>1. PICK c1, a1, e1, s1, h1 \in Nat :
            /\ c1 = Count(tasks', Resuming(f)) /\ a1 = AboutTo(at', running', Resuming(f))
            /\ e1 = Expired(cbs', Resuming(f)) /\ h1 = WaitedFor(waiter', f)
            /\ s1 = Cardinality({<<"sleep", f>>} \intersect DOMAIN timers')
            /\ Owners(f)' = c1 + a1 + e1 + s1 + h1
      BY <1>3, OwnersParts DEF FiberInv
    <3>2. PICK d \in {0, 1} : d = IF running[w] \in Resuming(f) THEN 1 ELSE 0 OBVIOUS
    <3>3. c1 + h1 = c0 + h0 + d BY <3>0, <3>1, <3>2
    <3>4. AtOne(at, running, w, Resuming(f)) = d BY <3>2 DEF AtOne
    <3>5. a0 = a1 + d BY <1>2, <3>0, <3>1, <3>4
    <3>6. e1 = e0 BY <1>1, <3>0, <3>1
    <3>7. s1 = s0 BY <3>0, <3>1 DEF timerVars
    <3>8. PICK o, p : o = Owners(f) /\ p = Owners(f)' OBVIOUS
    <3>9. o = c0 + a0 + e0 + s0 + h0 /\ p = c1 + a1 + e1 + s1 + h1 BY <3>0, <3>1, <3>8
    <3>10. o = p BY <3>3, <3>5, <3>6, <3>7, <3>9
    <3>. QED BY <3>8, <3>10
  <2>. QED BY <2>1 DEF FiberInv, WokenOnce
<1>. QED BY <1>2, <1>3, <1>4, <1>5, <1>6, <1>7, <1>8, <1>9 DEF FiberInv

\* A callback of the program
LEMMA UserCallbackKeeps ==
  ASSUME FiberInv, NEW w \in Worker, UserCallback(w)
  PROVE  FiberInv'
<1>1. /\ at[w] = "resume" /\ running[w].fn = "user" /\ CallbackOver(w)
      /\ UNCHANGED <<tasks, isStopped, idling, timerVars, eventVars, state, panicked,
                     fiberVars, fdVars>>
  BY DEF UserCallback
<1>2. TasksGood' /\ EventsGood' /\ PendingCounts' /\ CallsGood'
  BY <1>1 DEF FiberInv, TasksGood, EventsGood, PendingCounts, CallsGood, eventVars, fiberVars
<1>3. ASSUME NEW f \in Fiber
      PROVE  /\ Count(tasks', StartOf(f)) = Count(tasks, StartOf(f))
             /\ Count(tasks', Resuming(f)) + WaitedFor(waiter', f)
                  = Count(tasks, Resuming(f)) + WaitedFor(waiter, f)
                    + (IF running[w] \in Resuming(f) THEN 1 ELSE 0)
  <2>1. running[w] \notin Resuming(f) BY <1>1 DEF Resuming, Resumes
  <2>2. tasks' = tasks /\ waiter' = waiter BY <1>1 DEF eventVars
  <2>3. PICK c, h \in Nat : c = Count(tasks, Resuming(f)) /\ h = WaitedFor(waiter, f)
    BY OwnersNat DEF FiberInv
  <2>. QED BY <2>1, <2>2, <2>3
<1>4. UNCHANGED <<isStopped, idling, timerVars, state, panicked, pc, call, fdVars>>
      /\ waiter' = waiter /\ tasks' = tasks
  BY <1>1 DEF fiberVars, eventVars
<1>5. running[w].fn \notin {"fiber", "body"} BY <1>1
<1>. QED BY <1>1, <1>2, <1>3, <1>4, <1>5, CallbackKeeps

\* The end of a sleep
LEMMA WakeKeeps ==
  ASSUME FiberInv, NEW w \in Worker, Wake(w)
  PROVE  FiberInv'
<1>1. /\ at[w] = "resume" /\ running[w].fn = "wake" /\ CallbackOver(w)
      /\ UNCHANGED <<isStopped, idling, timerVars, eventVars, state, panicked, fiberVars, fdVars>>
  BY DEF Wake
<1>2. PICK f, t : f = On(w) /\ t = running[w] OBVIOUS
<1>3. GoodTask(t) /\ t \in Task /\ t.fn = "wake" /\ t.fiber = f /\ f \in Fiber
  BY <1>1, <1>2 DEF FiberInv, RunningGood, GoodTask, On
<1>4. PICK n, ts : n = TaskOf("fiber", f) /\ ts = <<n>> OBVIOUS
<1>5. GoodTask(n) /\ n \in Task /\ n.fn = "fiber" /\ n.fiber = f
  BY <1>3, <1>4, TaskOfGood DEF GoodTask
<1>6. ts \in Seq(Task) /\ DOMAIN ts = {1} /\ ts[1] = n BY <1>4, <1>5
<1>7. tasks' = tasks \o ts BY <1>2, <1>4 DEF Wake, Pushed
<1>8. /\ TasksGood'
      /\ \A S : Count(tasks, S)' = Count(tasks, S) + Count(ts, S)
      /\ \A x : (\A i \in DOMAIN tasks : tasks[i] # x) /\ (\A i \in DOMAIN ts : ts[i] # x)
                  => (\A i \in DOMAIN tasks' : tasks'[i] # x)
  BY <1>5, <1>6, <1>7, PushedTasks DEF FiberInv
<1>9. EventsGood' /\ PendingCounts' /\ CallsGood'
  BY <1>1 DEF FiberInv, EventsGood, PendingCounts, CallsGood, eventVars, fiberVars
<1>10. ASSUME NEW g \in Fiber
       PROVE  /\ Count(tasks', StartOf(g)) = Count(tasks, StartOf(g))
              /\ Count(tasks', Resuming(g)) + WaitedFor(waiter', g)
                   = Count(tasks, Resuming(g)) + WaitedFor(waiter, g)
                     + (IF running[w] \in Resuming(g) THEN 1 ELSE 0)
              /\ (\A i \in DOMAIN tasks : tasks[i] # TaskOf("timeout", g))
                   => (\A i \in DOMAIN tasks' : tasks'[i] # TaskOf("timeout", g))
  <2>1. n \notin StartOf(g) /\ n # TaskOf("timeout", g) BY <1>3, <1>5, TaskOfGood DEF StartOf
  <2>2. Count(ts, StartOf(g)) = 0 BY <1>6, <2>1, CountNone
  <2>3. /\ n \in Resuming(g) <=> g = f
        /\ running[w] \in Resuming(g) <=> g = f
    BY <1>2, <1>3, <1>5 DEF Resuming, Resumes
  <2>4. PICK d \in {0, 1} : d = IF g = f THEN 1 ELSE 0 OBVIOUS
  <2>5. Count(ts, Resuming(g)) = d
    <3>1. CASE g = f
      <4>1. 1 \in DOMAIN ts /\ \A i \in DOMAIN ts : ts[i] \in Resuming(g) <=> i = 1
        BY <1>6, <2>3, <3>1
      <4>2. Count(ts, Resuming(g)) = 1 BY <4>1, CountOne
      <4>. QED BY <2>4, <3>1, <4>2
    <3>2. CASE g # f
      <4>1. Count(ts, Resuming(g)) = 0 BY <1>6, <2>3, <3>2, CountNone
      <4>. QED BY <2>4, <3>2, <4>1
    <3>. QED BY <3>1, <3>2
  <2>6. PICK c, h, s \in Nat : /\ c = Count(tasks, Resuming(g)) /\ h = WaitedFor(waiter, g)
                               /\ s = Count(tasks, StartOf(g))
    BY OwnersNat DEF FiberInv
  <2>7. Count(tasks', Resuming(g)) = c + d BY <1>8, <2>5, <2>6 DEF Resuming, Resumes
  <2>8. Count(tasks', StartOf(g)) = s + 0 BY <1>8, <2>2, <2>6 DEF StartOf
  <2>9. WaitedFor(waiter', g) = h BY <1>1, <2>6 DEF eventVars
  <2>10. d = IF running[w] \in Resuming(g) THEN 1 ELSE 0 BY <2>3, <2>4
  <2>11. (c + d) + h = c + h + d OBVIOUS
  <2>12. Count(tasks', Resuming(g)) + WaitedFor(waiter', g)
           = Count(tasks, Resuming(g)) + WaitedFor(waiter, g)
             + (IF running[w] \in Resuming(g) THEN 1 ELSE 0)
    BY <2>6, <2>7, <2>9, <2>10, <2>11
  <2>13. Count(tasks', StartOf(g)) = Count(tasks, StartOf(g)) BY <2>6, <2>8
  <2>14. (\A i \in DOMAIN tasks : tasks[i] # TaskOf("timeout", g))
           => (\A i \in DOMAIN tasks' : tasks'[i] # TaskOf("timeout", g))
    BY <1>6, <1>8, <2>1
  <2>. QED BY <2>12, <2>13, <2>14
<1>11. UNCHANGED <<isStopped, idling, timerVars, state, panicked, pc, call, fdVars>>
       /\ waiter' = waiter
  BY <1>1 DEF fiberVars, eventVars
<1>12. running[w].fn \notin {"fiber", "body"} BY <1>1
<1>. QED BY <1>1, <1>8, <1>9, <1>10, <1>11, <1>12, CallbackKeeps

\* The timeout of a call: the call is not over, as its timeout would be dead.
LEMMA TimeoutKeeps ==
  ASSUME FiberInv, NEW w \in Worker, Timeout(w)
  PROVE  FiberInv'
<1>1. /\ at[w] = "resume" /\ running[w].fn = "timeout" /\ CallbackOver(w)
      /\ UNCHANGED <<isStopped, idling, timerVars, state, panicked, pc, call, calls, fdVars>>
  BY DEF Timeout
<1>2. PICK f, t : f = On(w) /\ t = running[w] OBVIOUS
<1>3. GoodTask(t) /\ t \in Task /\ t.fn = "timeout" /\ t.fiber = f /\ f \in Fiber /\ t.thread = None
  BY <1>1, <1>2 DEF FiberInv, RunningGood, GoodTask, On
<1>4. t = TaskOf("timeout", f) BY <1>3 DEF Task, TaskOf
<1>5. call[f] \in IoCall BY <1>2, <1>3, <1>4 DEF FiberInv, TimeoutsCall
<1>6. CallsGood'
  <2>1. cancelled' \in [Fiber -> BOOLEAN]
    BY <1>2, <1>3 DEF Timeout, FiberInv, CallsGood
  <2>. QED BY <1>1, <2>1 DEF FiberInv, CallsGood
<1>7. running[w].fn \notin {"fiber", "body"} BY <1>1
<1>8. \A g \in Fiber : running[w] \notin Resuming(g) BY <1>1 DEF Resuming, Resumes
<1>9. CASE UNCHANGED <<tasks, pipe, eventVars>>
  <2>1. TasksGood' /\ EventsGood' /\ PendingCounts'
    BY <1>9 DEF FiberInv, TasksGood, EventsGood, PendingCounts, eventVars
  <2>2. ASSUME NEW g \in Fiber
        PROVE  /\ Count(tasks', StartOf(g)) = Count(tasks, StartOf(g))
               /\ Count(tasks', Resuming(g)) + WaitedFor(waiter', g)
                    = Count(tasks, Resuming(g)) + WaitedFor(waiter, g)
                      + (IF running[w] \in Resuming(g) THEN 1 ELSE 0)
    <3>1. tasks' = tasks /\ waiter' = waiter BY <1>9 DEF eventVars
    <3>2. PICK c, h \in Nat : c = Count(tasks, Resuming(g)) /\ h = WaitedFor(waiter, g)
      BY OwnersNat DEF FiberInv
    <3>. QED BY <1>8, <3>1, <3>2
  <2>3. waiter' = waiter /\ tasks' = tasks BY <1>9 DEF eventVars
  <2>. QED BY <1>1, <1>6, <1>7, <2>1, <2>2, <2>3, CallbackKeeps
<1>10. CASE call[f].event \in events[call[f].fd] /\ Triggered(call[f].fd, {call[f].event})
  <2>1. PICK fd \in Fd, es \in SUBSET Event : fd = call[f].fd /\ es = {call[f].event}
    BY <1>5 DEF IoCall
  <2>2. es \subseteq events[fd] /\ Triggered(fd, es) BY <1>10, <2>1
  <2>3. /\ TasksGood' /\ EventsGood' /\ PendingCounts'
        /\ \A g \in Fiber :
             /\ Count(tasks, Resuming(g))' + WaitedFor(waiter, g)'
                  = Count(tasks, Resuming(g)) + WaitedFor(waiter, g)
             /\ Count(tasks, StartOf(g))' = Count(tasks, StartOf(g))
             /\ (\A i \in DOMAIN tasks : tasks[i] # TaskOf("timeout", g))
                  => (\A i \in DOMAIN tasks' : tasks'[i] # TaskOf("timeout", g))
        /\ \A g \in Fd, e \in Event : waiter'[g][e] # None => waiter'[g][e] = waiter[g][e]
    BY <2>2, TriggeredMoves DEF FiberInv
  <2>4. ASSUME NEW g \in Fiber
        PROVE  /\ Count(tasks', StartOf(g)) = Count(tasks, StartOf(g))
               /\ Count(tasks', Resuming(g)) + WaitedFor(waiter', g)
                    = Count(tasks, Resuming(g)) + WaitedFor(waiter, g)
                      + (IF running[w] \in Resuming(g) THEN 1 ELSE 0)
    <3>1. PICK c, h \in Nat : c = Count(tasks, Resuming(g)) /\ h = WaitedFor(waiter, g)
      BY OwnersNat DEF FiberInv
    <3>2. Count(tasks', Resuming(g)) + WaitedFor(waiter', g) = c + h
      BY <2>3, <3>1 DEF Resuming, Resumes
    <3>3. Count(tasks', StartOf(g)) = Count(tasks, StartOf(g)) BY <2>3 DEF StartOf
    <3>. QED BY <1>8, <3>1, <3>2, <3>3
  <2>. QED BY <1>1, <1>6, <1>7, <2>3, <2>4, CallbackKeeps
<1>. QED BY <1>2, <1>9, <1>10 DEF Timeout, Interrupt

\* cancelAll of a descriptor that is closed
LEMMA CloseKeeps ==
  ASSUME FiberInv, NEW w \in Worker, Close(w)
  PROVE  FiberInv'
<1>0. Begins(w, On(w)) BY DEF Close
<1>1. PICK f \in Fiber : /\ f = On(w) /\ state[f] = "RUNNING" /\ pc[f] = "run"
                         /\ call[f] = NoCall /\ call[f] \notin IoCall /\ calls' \in [Fiber -> Nat]
  BY <1>0, BeginsRuns
<1>2. UNCHANGED <<isStopped, active, idling, workerVars, timerVars, state, panicked, cancelled>>
  BY DEF Close
<1>3. PICK fd \in Fd : /\ Triggered(fd, events[fd]) /\ ctx' = [ctx EXCEPT ![fd] = None]
                       /\ call' = [call EXCEPT ![f] = [NoCall EXCEPT !.fd = fd]]
  BY <1>1 DEF Close
<1>4. pc' = [pc EXCEPT ![f] = "close"] BY <1>1 DEF Close, Next_
<1>5. PICK c \in ClosingCall : c = [NoCall EXCEPT !.fd = fd] BY DEF ClosingCall
<1>6. c \notin IoCall BY <1>5, Distinct DEF NoCall, IoCall
<1>7. /\ \A g \in Fiber : call'[g] = IF g = f THEN c ELSE call[g]
      /\ \A g \in Fiber : pc'[g] = IF g = f THEN "close" ELSE pc[g]
  BY <1>3, <1>4, <1>5 DEF FiberInv, CallsGood, FibersGood
<1>8. PICK es \in SUBSET Event : es = events[fd] BY DEF FiberInv, EventsGood
<1>9. /\ TasksGood' /\ EventsGood' /\ PendingCounts'
      /\ \A g \in Fiber :
           /\ Count(tasks, Resuming(g))' + WaitedFor(waiter, g)'
                = Count(tasks, Resuming(g)) + WaitedFor(waiter, g)
           /\ Count(tasks, StartOf(g))' = Count(tasks, StartOf(g))
           /\ (\A i \in DOMAIN tasks : tasks[i] # TaskOf("timeout", g))
                => (\A i \in DOMAIN tasks' : tasks'[i] # TaskOf("timeout", g))
      /\ \A g \in Fd, e \in Event : waiter'[g][e] # None => waiter'[g][e] = waiter[g][e]
  <2>1. es \subseteq events[fd] /\ Triggered(fd, es) BY <1>3, <1>8
  <2>. QED BY <2>1, TriggeredMoves DEF FiberInv
<1>10. RunningGood' /\ CallbacksGood' /\ TimersGood' /\ ReportsGood' /\ WorkersCount'
  BY <1>2 DEF FiberInv, RunningGood, CallbacksGood, TimersGood, ReportsGood,
       WorkersCount, schedVars, workerVars, timerVars, eventVars, runtimeVars,
       fiberVars, fdVars
<1>11. RestTyped' BY <1>2, <1>3 DEF FiberInv, RestTyped, workerVars
<1>12. FibersGood'
  <2>1. \A v \in Worker, g \in Fiber : Runs(v, g)' <=> Runs(v, g) BY <1>2 DEF Runs, On, workerVars
  <2>. QED BY <1>1, <1>2, <1>4, <2>1 DEF FiberInv, FibersGood
<1>13. CallsGood'
  <2>1. call' \in [Fiber -> IoCall \union ClosingCall \union {NoCall}]
    BY <1>3, <1>5 DEF FiberInv, CallsGood
  <2>. QED BY <1>1, <1>2, <1>7, <2>1 DEF FiberInv, CallsGood
<1>14. CallsApart' BY <1>6, <1>7 DEF FiberInv, CallsApart
<1>15. WaitersCall'
  <2>1. \A g \in Fd, e \in Event : waiter[g][e] # None => waiter[g][e] # f /\ waiter[g][e] \in Fiber
    BY <1>1 DEF FiberInv, WaitersCall, EventsGood
  <2>. QED BY <1>7, <1>9, <2>1 DEF FiberInv, WaitersCall
<1>16. TimersCall' BY <1>1, <1>2, <1>7 DEF FiberInv, TimersCall, timerVars
<1>17. TimeoutsCall'
  <2>1. \A g \in Fiber : call'[g] \notin IoCall => call[g] \notin IoCall BY <1>1, <1>7
  <2>2. running' = running /\ cbs' = cbs BY <1>2 DEF workerVars
  <2>3. ASSUME NEW g \in Fiber, call'[g] \notin IoCall
        PROVE  /\ \A i \in DOMAIN tasks' : tasks'[i] # TaskOf("timeout", g)
               /\ \A v \in Worker : /\ running'[v] # TaskOf("timeout", g)
                                    /\ \A i \in DOMAIN cbs'[v] : cbs'[v][i] # TaskOf("timeout", g)
    <3>1. /\ \A i \in DOMAIN tasks : tasks[i] # TaskOf("timeout", g)
          /\ \A v \in Worker : /\ running[v] # TaskOf("timeout", g)
                               /\ \A i \in DOMAIN cbs[v] : cbs[v][i] # TaskOf("timeout", g)
      BY <2>1, <2>3 DEF FiberInv, TimeoutsCall
    <3>. QED BY <1>9, <2>2, <3>1
  <2>. QED BY <2>3 DEF TimeoutsCall
<1>18. StartsOnce'
  <2>1. \A g \in Fiber : pc'[g] = "queued" <=> pc[g] = "queued" BY <1>1, <1>7
  <2>. QED BY <1>2, <1>9, <2>1 DEF FiberInv, StartsOnce, StartOf, workerVars
<1>19. WokenOnce'
  <2>1. ASSUME NEW g \in Fiber PROVE Owners(g)' = Owners(g)
    <3>1. AboutTo(at', running', Resuming(g)) = AboutTo(at, running, Resuming(g))
          /\ DOMAIN timers' = DOMAIN timers /\ cbs' = cbs
      BY <1>2 DEF timerVars, workerVars
    <3>2. Count(tasks', Resuming(g)) + WaitedFor(waiter', g)
            = Count(tasks, Resuming(g)) + WaitedFor(waiter, g)
      BY <1>9 DEF Resuming, Resumes
    <3>. QED BY <1>9, <1>10, <3>1, <3>2, OwnersTriggered DEF FiberInv
  <2>2. \A g \in Fiber : (pc'[g] = "yield" <=> pc[g] = "yield") /\ state'[g] = state[g]
    BY <1>1, <1>2, <1>7
  <2>. QED BY <2>1, <2>2 DEF FiberInv, WokenOnce
<1>. QED BY <1>9, <1>10, <1>11, <1>12, <1>13, <1>14, <1>15, <1>16, <1>17, <1>18, <1>19 DEF FiberInv

-----------------------------------------------------------------------------
(* The theorems, for any number of workers                                 *)

\* It holds to begin with.
LEMMA FiberInvInit == Init => FiberInv
<1>. SUFFICES ASSUME Init PROVE FiberInv
  OBVIOUS
<1>. USE DEF Init, RuntimeInit
<1>1. TasksGood /\ EventsGood /\ ReportsGood BY Distinct DEF TasksGood, EventsGood, ReportsGood
<1>2. RunningGood BY DEF RunningGood, Place, Tasks
<1>3. CallbacksGood BY DEF CallbacksGood
<1>4. TimersGood BY DEF TimersGood
<1>5. FibersGood BY DEF FibersGood, Runs
<1>6. CallsGood /\ CallsApart
  <2>1. NoCall \notin IoCall BY Distinct DEF NoCall, IoCall
  <2>. QED BY <2>1 DEF CallsGood, CallsApart
<1>7. WaitersCall /\ TimersCall BY DEF WaitersCall, TimersCall
<1>8. TimeoutsCall
  <2>1. \A f \in Fiber : NoTask # TaskOf("timeout", f) BY DEF NoTask, TaskOf
  <2>. QED BY <2>1 DEF TimeoutsCall
<1>9. RestTyped BY DEF RestTyped
<1>10. WorkersCount
  <2>1. /\ {w \in Worker : at[w] \in {"resume", "fiber"}} = {}
        /\ {w \in Worker : at[w] \in {"look", "check", "ask", "wait", "expire", "push", "handle"}} = {}
    OBVIOUS
  <2>. QED BY <2>1, FS_EmptySet DEF WorkersCount
<1>11. PendingCounts
  <2>1. {p \in Fd \X Event : p[2] \in events[p[1]]} = {} OBVIOUS
  <2>. QED BY <2>1, FS_EmptySet DEF PendingCounts
<1>12. ASSUME NEW S PROVE Count(tasks, S) = 0 /\ AboutTo(at, running, S) = 0 /\ Expired(cbs, S) = 0
  <2>1. Count(tasks, S) = 0
    <3>1. {i \in DOMAIN tasks : tasks[i] \in S} = {} OBVIOUS
    <3>. QED BY <3>1, FS_EmptySet DEF Count
  <2>2. AboutTo(at, running, S) = 0
    <3>1. {w \in Worker : at[w] = "resume" /\ running[w] \in S} = {} OBVIOUS
    <3>. QED BY <3>1, FS_EmptySet DEF AboutTo
  <2>3. Expired(cbs, S) = 0
    <3>1. CallbacksOf(cbs) = {} BY DEF CallbacksOf
    <3>2. {p \in CallbacksOf(cbs) : cbs[p[1]][p[2]] \in S} = {} BY <3>1
    <3>. QED BY <3>2, FS_EmptySet DEF Expired
  <2>. QED BY <2>1, <2>2, <2>3
<1>13. StartsOnce BY <1>12 DEF StartsOnce
<1>14. WokenOnce
  <2>1. ASSUME NEW f \in Fiber PROVE Owners(f) = 0
    <3>1. WaitedFor(waiter, f) = 0
      <4>1. {p \in Fd \X Event : waiter[p[1]][p[2]] = f} = {} BY Distinct
      <4>. QED BY <4>1, FS_EmptySet DEF WaitedFor
    <3>2. Cardinality({<<"sleep", f>>} \intersect DOMAIN timers) = 0
      <4>1. {<<"sleep", f>>} \intersect DOMAIN timers = {} OBVIOUS
      <4>. QED BY <4>1, FS_EmptySet
    <3>. QED BY <1>12, <3>1, <3>2 DEF Owners
  <2>. QED BY <2>1 DEF WokenOnce
<1>. QED BY <1>1, <1>2, <1>3, <1>4, <1>5, <1>6, <1>7, <1>8, <1>9, <1>10, <1>11, <1>13, <1>14
         DEF FiberInv

\* And after a step.
LEMMA FiberInvNext == FiberInv /\ [Next]_vars => FiberInv'
<1>. SUFFICES ASSUME FiberInv, [Next]_vars PROVE FiberInv'
  OBVIOUS
<1>1. ASSUME NEW w \in Worker, WorkerStep(w) PROVE FiberInv'
  <2>1. CASE RunStep(w)
    BY <2>1, TakeKeeps, NoTaskForMeKeeps, RestKeeps, LookKeeps, CheckKeeps, AskKeeps, WaitKeeps,
       ExpireKeeps, PushExpiredKeeps, DrainKeeps, HandleKeeps, HandledKeeps DEF RunStep
  <2>2. CASE FiberStep(w)
    BY <2>2, ResumeKeeps, YieldKeeps, SwitchKeeps, ReturnKeeps, SleepKeeps, SocketKeeps,
       ConfigureKeeps, IoKeeps, ConnectKeeps, TryKeeps, ArmKeeps, AddKeeps, WokenKeeps,
       CloseKeeps, CloseFdKeeps, WakeKeeps, TimeoutKeeps, UserCallbackKeeps DEF FiberStep
  <2>. QED BY <1>1, <2>1, <2>2 DEF WorkerStep
<1>2. CASE Time BY <1>2, TimeKeeps
<1>3. CASE Schedule \/ AddTimer \/ ChangeTimer \/ StopCalled \/ Arrive
  BY <1>3, ScheduleKeeps, AddTimerKeeps, ChangeTimerKeeps, StopCalledKeeps, ArriveKeeps
<1>4. CASE UNCHANGED vars
  <2>1. UNCHANGED <<tasks, isStopped, active, idling, workerVars, timers, eventVars, state,
                    fiberVars, ctx, panicked>>
    BY <1>4 DEF vars, runtimeVars, schedVars, timerVars, fdVars
  <2>2. panicked' \in BOOLEAN BY <2>1 DEF FiberInv, RestTyped
  <2>. QED BY <2>1, <2>2, PanicKeeps
<1>. QED BY <1>1, <1>2, <1>3, <1>4 DEF Next

\* The runtime keeps its invariant.
THEOREM FiberInvariant == Spec => []FiberInv
<1>. QED BY FiberInvInit, FiberInvNext, PTL DEF Spec

\* The sum of FiberProps is that of the invariant.
LEMMA SourcesAreOwners ==
  ASSUME FiberInv, NEW f \in Fiber
  PROVE  Sources(f) = Owners(f)
<1>1. \A i \in DOMAIN tasks : Resumes(tasks[i], f) <=> tasks[i] \in Resuming(f)
  BY DEF FiberInv, TasksGood, Resuming
<1>2. \A w \in Worker : at[w] = "resume" => (Resumes(running[w], f) <=> running[w] \in Resuming(f))
  BY DEF FiberInv, RunningGood, GoodTask, Resuming
<1>3. \A w \in Worker : \A i \in DOMAIN cbs[w] : Resumes(cbs[w][i], f) <=> cbs[w][i] \in Resuming(f)
  BY DEF FiberInv, CallbacksGood, Resuming
<1>4. {i \in DOMAIN tasks : Resumes(tasks[i], f)} = {i \in DOMAIN tasks : tasks[i] \in Resuming(f)}
  BY <1>1
<1>5. {w \in Worker : at[w] = "resume" /\ Resumes(running[w], f)}
        = {w \in Worker : at[w] = "resume" /\ running[w] \in Resuming(f)}
  BY <1>2
<1>6. {p \in Callbacks : Resumes(cbs[p[1]][p[2]], f)}
        = {p \in CallbacksOf(cbs) : cbs[p[1]][p[2]] \in Resuming(f)}
  <2>1. Callbacks = CallbacksOf(cbs) BY DEF Callbacks, CallbacksOf
  <2>2. \A p \in CallbacksOf(cbs) : p[1] \in Worker /\ p[2] \in DOMAIN cbs[p[1]] BY DEF CallbacksOf
  <2>. QED BY <1>3, <2>1, <2>2
<1>. QED BY <1>4, <1>5, <1>6 DEF Sources, Owners, Count, AboutTo, Expired, WaitedFor

\* A fiber that has yielded is going to be resumed by exactly one thing, and one
\* that runs by none: across a timeout that meets an answer (hook.cpp:113-154), a
\* close that meets an event (iomanager.cpp:186-221) and two workers that handle
\* what epoll reported (iomanager.cpp:289-339), no wake-up is lost or doubled.
THEOREM WakesOnce == Spec => []OneWakeUp
<1>1. FiberInv => OneWakeUp
  <2>. SUFFICES ASSUME FiberInv, NEW f \in Fiber
                PROVE  /\ state[f] = "READY" => Sources(f) = 1
                       /\ state[f] /= "READY" /\ pc[f] /= "yield" => Sources(f) = 0
    BY DEF OneWakeUp
  <2>. QED BY SourcesAreOwners DEF FiberInv, WokenOnce
<1>. QED BY <1>1, FiberInvariant, PTL

\* The counters an idle worker ends on, and tickle asks, are what they count:
\* pendingEventCnt_ the registered events, whoever took one out, activeThreadCnt_
\* and idleThreadCnt_ the workers in a task and in idle (scheduler.cpp:104-145,
\* iomanager.cpp:72-221).
THEOREM CountersAreRight == Spec => []CountsRight
<1>1. FiberInv => CountsRight
  <2>. SUFFICES ASSUME FiberInv PROVE CountsRight
    OBVIOUS
  <2>1. active \in 0 .. Cardinality(Worker) /\ idling \in 0 .. Cardinality(Worker)
    BY CountersTyped
  <2>2. TypeOK
    BY <2>1 DEF FiberInv, TasksGood, RunningGood, CallbacksGood, TimersGood, EventsGood,
         FibersGood, RestTyped, TypeOK, Place, Timer
  <2>. QED BY <2>2 DEF CountsRight, FiberInv
<1>. QED BY <1>1, FiberInvariant, PTL

-----------------------------------------------------------------------------
(* With one worker no CondPanic fails and nothing is left behind.          *)

\* What a fiber that is among the tasks, or about to be resumed, is doing.
LEMMA TaskIsReady ==
  ASSUME FiberInv, NEW f \in Fiber, NEW t \in Task, t.fn = "fiber", t.fiber = f,
         \/ \E i \in DOMAIN tasks : tasks[i] = t
         \/ \E w \in Worker : at[w] = "resume" /\ running[w] = t
  PROVE  state[f] = "READY" \/ \E w \in Worker : Runs(w, f)
<1>1. t \in Resuming(f) BY DEF Resuming, Resumes
<1>2. SUFFICES ASSUME state[f] # "READY", pc[f] # "yield" PROVE FALSE
  BY DEF FiberInv, FibersGood
<1>. QED BY <1>1, <1>2, RunsFree

\* What a worker that runs a fiber, or a callback, does not change.
LEMMA FiberStepQuiet ==
  ASSUME FiberInv, NEW w \in Worker, FiberStep(w)
  PROVE  /\ at[w] \in {"resume", "fiber"} /\ at'[w] \in {"resume", "fiber", "take"}
         /\ UNCHANGED <<reported, idleDone>>
         /\ panicked' = panicked \/ Resume(w) \/ Add(w)
<1>. DEFINE Quiet == /\ at[w] \in {"resume", "fiber"} /\ at'[w] \in {"resume", "fiber", "take"}
                     /\ UNCHANGED <<reported, idleDone>>
                     /\ panicked' = panicked \/ Resume(w) \/ Add(w)
<1>0. DOMAIN at = Worker BY DEF FiberInv, RunningGood
<1>1. CASE Resume(w) BY <1>0, <1>1 DEF Resume, Goto
<1>2. CASE Yield(w) \/ Sleep(w)
  BY <1>2 DEF Yield, Sleep, Begins, Runs, workerVars
<1>3. CASE Switch(w) \/ Return(w)
  BY <1>0, <1>3 DEF Switch, Return, Finished, Goto, Runs
<1>4. CASE Socket(w) \/ Configure(w) \/ Io(w) \/ Connect(w) \/ CloseFd(w)
  BY <1>4 DEF Socket, Configure, Io, Connect, CloseFd, Begins, Runs, runtimeVars, workerVars
<1>5. CASE Try(w) \/ Arm(w) BY <1>5 DEF Try, Arm, Runs, workerVars
<1>6. CASE Add(w) BY <1>6 DEF Add, Runs
<1>7. CASE Woken(w) \/ Close(w) BY <1>7 DEF Woken, Close, Begins, Runs, workerVars
<1>8. CASE Wake(w) \/ Timeout(w) \/ UserCallback(w)
  BY <1>0, <1>8 DEF Wake, Timeout, UserCallback, CallbackOver, Finished, Goto
<1>. QED BY <1>1, <1>2, <1>3, <1>4, <1>5, <1>6, <1>7, <1>8 DEF FiberStep

\* A fiber adds an event that nobody waits for.
LEMMA AddIsFirst ==
  ASSUME FiberInv, ~panicked, NEW w \in Worker, Add(w)
  PROVE  ~panicked'
<1>1. PICK f \in Fiber : f = On(w) /\ Runs(w, f) /\ state[f] = "RUNNING" /\ pc[f] = "add"
                         /\ call[f] \in IoCall
  BY InCall DEF Add, Runs
<1>2. PICK fd \in Fd, e \in Event : fd = call[f].fd /\ e = call[f].event BY <1>1 DEF IoCall
<1>3. ASSUME e \in events[fd] PROVE FALSE
  <2>1. waiter[fd][e] # None /\ waiter[fd][e] \in Fiber BY <1>3 DEF FiberInv, EventsGood
  <2>2. waiter[fd][e] = f BY <1>1, <1>2, <2>1 DEF FiberInv, WaitersCall, CallsApart
  <2>. QED BY <1>1, <2>2, RunsFree
<1>. QED BY <1>1, <1>2, <1>3 DEF Add

\* With one worker a fiber is off it when another is about to be resumed.
LEMMA ResumeIsOne ==
  ASSUME OneWorker, FiberInv, ~panicked, NEW w \in Worker, Resume(w)
  PROVE  ~panicked'
<1>1. PICK t, f : t = running[w] /\ f = On(w) OBVIOUS
<1>2. at[w] = "resume" /\ t.fn \in {"fiber", "body"} /\ t \in Task /\ t.fiber = f /\ f \in Fiber
  BY <1>1 DEF Resume, FiberInv, RunningGood, GoodTask, On
<1>3. \A v \in Worker : ~Runs(v, f) BY <1>2 DEF OneWorker, Runs
<1>4. t.fn = "fiber" => state[f] = "READY" BY <1>1, <1>2, <1>3, TaskIsReady
<1>5. pc[f] # "switch" BY <1>2, <1>3 DEF FiberInv, FibersGood
<1>. QED BY <1>1, <1>4, <1>5 DEF Resume

\* A fiber that yielded is in one of the places it is going to be resumed from.
LEMMA NobodyYielded ==
  ASSUME FiberInv, NEW f \in Fiber, state[f] = "READY", tasks = <<>>, pending = 0,
         DOMAIN timers \subseteq {User},
         \A w \in Worker : at[w] # "resume" /\ cbs[w] = <<>>
  PROVE  FALSE
<1>1. Count(tasks, Resuming(f)) = 0
  <2>1. \A i \in DOMAIN tasks : tasks[i] \notin Resuming(f) OBVIOUS
  <2>. QED BY <2>1, CountNone
<1>2. AboutTo(at, running, Resuming(f)) = 0
  <2>1. {w \in Worker : at[w] = "resume" /\ running[w] \in Resuming(f)} = {} OBVIOUS
  <2>. QED BY <2>1, FS_EmptySet DEF AboutTo
<1>3. Expired(cbs, Resuming(f)) = 0
  <2>1. CallbacksOf(cbs) = {} BY DEF CallbacksOf
  <2>2. {p \in CallbacksOf(cbs) : cbs[p[1]][p[2]] \in Resuming(f)} = {} BY <2>1
  <2>. QED BY <2>2, FS_EmptySet DEF Expired
<1>4. Cardinality({<<"sleep", f>>} \intersect DOMAIN timers) = 0
  <2>1. {<<"sleep", f>>} \intersect DOMAIN timers = {} BY Distinct
  <2>. QED BY <2>1, FS_EmptySet
<1>5. WaitedFor(waiter, f) = 0
  <2>. DEFINE X == {p \in Fd \X Event : p[2] \in events[p[1]]}
  <2>1. X \in SUBSET (Fd \X Event) OBVIOUS
  <2>2. IsFiniteSet(X) BY <2>1, EventsFinite
  <2>3. Cardinality(X) = 0 BY DEF FiberInv, PendingCounts
  <2>. HIDE DEF X
  <2>4. X = {} BY <2>2, <2>3, FS_EmptySet
  <2>5. \A fd \in Fd, e \in Event : e \notin events[fd]
    <3>1. ASSUME NEW fd \in Fd, NEW e \in Event, e \in events[fd] PROVE <<fd, e>> \in X
      BY <3>1 DEF X
    <3>. QED BY <2>4, <3>1
  <2>6. {p \in Fd \X Event : waiter[p[1]][p[2]] = f} = {}
    BY <2>5, Distinct DEF FiberInv, EventsGood
  <2>. QED BY <2>6, FS_EmptySet DEF WaitedFor
<1>6. Owners(f) = 0 BY <1>1, <1>2, <1>3, <1>4, <1>5 DEF Owners
<1>. QED BY <1>6 DEF FiberInv, WokenOnce

\* What the rest of the program does not change.
LEMMA QuietKeeps ==
  ASSUME OneWorkerInv, NEW w \in Worker, ~panicked',
         UNCHANGED <<at, reported, idleDone, events, pending>>,
         at[w] = "check" => timeLeft'[w] = timeLeft[w],
         DOMAIN timers' \subseteq DOMAIN timers \union {User},
         ~isStopped \/ UNCHANGED <<tasks, state, isStopped>>
  PROVE  ReportsOf(w)' /\ DoneOf(w)'
<1>1. ReportsOf(w) /\ DoneOf(w) BY DEF OneWorkerInv
<1>2. ReportsOf(w)' BY <1>1 DEF ReportsOf
<1>3. DoneOf(w)' BY <1>1 DEF DoneOf, NothingLeft
<1>. QED BY <1>2, <1>3

\* A worker that goes from one place to another outside epoll's, and is not done.
LEMMA MoveKeeps ==
  ASSUME OneWorkerInv, NEW w \in Worker,
         at[w] \notin {"expire", "push", "handle"}, at'[w] \notin {"check", "ask", "ended"},
         UNCHANGED <<reported, idleDone>>, ~idleDone[w]
  PROVE  ReportsOf(w)' /\ DoneOf(w)'
<1>1. ReportsOf(w) /\ DoneOf(w) BY DEF OneWorkerInv
<1>3. reported[w] = <<>> /\ DOMAIN reported[w] = {} BY <1>1 DEF ReportsOf
<1>4. ReportsOf(w)' BY <1>3 DEF ReportsOf
<1>5. DoneOf(w)' BY DEF DoneOf
<1>. QED BY <1>4, <1>5

\* The worker takes a task, so it is not done.
LEMMA TakeAlone ==
  ASSUME OneWorker, FiberInv, OneWorkerInv, NEW w \in Worker, Take(w)
  PROVE  ~panicked' /\ ReportsOf(w)' /\ DoneOf(w)'
<1>0. Mine(w) # {} /\ at[w] = "take" /\ UNCHANGED <<reported, idleDone>> BY DEF Take
<1>1. PICK k, task : k \in 1 .. Len(tasks) /\ k = FirstOf(Mine(w)) /\ task = tasks[k]
  BY <1>0, FirstOfMine DEF FiberInv
<1>2. k \in DOMAIN tasks /\ GoodTask(task) /\ tasks # <<>>
  <2>1. tasks \in Seq(Task) /\ DOMAIN tasks = 1 .. Len(tasks) BY DEF FiberInv, TasksGood
  <2>. QED BY <1>1, <2>1 DEF FiberInv, TasksGood
<1>3. ~idleDone[w] BY <1>2 DEF OneWorkerInv, DoneOf, NothingLeft
<1>4. task.fn = "fiber" => state[task.fiber] = "READY"
  <2>. SUFFICES ASSUME task.fn = "fiber" PROVE state[task.fiber] = "READY"
    OBVIOUS
  <2>1. task \in Task /\ task.fiber \in Fiber BY <1>2 DEF GoodTask
  <2>2. \A v \in Worker : ~Runs(v, task.fiber) BY <1>0 DEF OneWorker, Runs
  <2>. QED BY <1>1, <1>2, <2>1, <2>2, TaskIsReady
<1>5. ~panicked' /\ Goto(w, "resume")
  BY <1>1, <1>4 DEF Take, OneWorkerInv
<1>6. at'[w] = "resume" BY <1>5 DEF Goto, FiberInv, RunningGood
<1>7. ReportsOf(w)' /\ DoneOf(w)' BY <1>0, <1>3, <1>6, MoveKeeps
<1>. QED BY <1>5, <1>7

\* The worker has no task, and goes to rest, or ends when it is done.
LEMMA RestAlone ==
  ASSUME FiberInv, OneWorkerInv, NEW w \in Worker, NoTaskForMe(w) \/ Rest(w)
  PROVE  ~panicked' /\ ReportsOf(w)' /\ DoneOf(w)'
<1>1. ReportsOf(w) /\ DoneOf(w) /\ ~panicked BY DEF OneWorkerInv
<1>2. /\ at[w] \in {"take", "rest"} /\ at'[w] \in {"rest", "look", "ended"}
      /\ at'[w] = "ended" => idleDone[w]
      /\ idleDone[w] => at'[w] \in {"rest", "ended"}
      /\ UNCHANGED <<tasks, isStopped, reported, timeLeft, idleDone, timerVars, eventVars,
                     state, panicked>>
  BY DEF NoTaskForMe, Rest, Goto, FiberInv, RunningGood
<1>3. reported[w] = <<>> /\ DOMAIN reported[w] = {} BY <1>1, <1>2 DEF ReportsOf
<1>4. ReportsOf(w)' BY <1>2, <1>3 DEF ReportsOf
<1>5. DoneOf(w)' BY <1>1, <1>2 DEF DoneOf, NothingLeft, timerVars, eventVars
<1>. QED BY <1>1, <1>2, <1>4, <1>5

\* When getNextTimer has found none there is none but the program's until the look
\* at the counters.
LEMMA LookAlone ==
  ASSUME FiberInv, OneWorkerInv, NEW w \in Worker, Look(w)
  PROVE  ~panicked' /\ ReportsOf(w)' /\ DoneOf(w)'
<1>1. ReportsOf(w) /\ DoneOf(w) /\ ~panicked BY DEF OneWorkerInv
<1>2. /\ at[w] = "look" /\ at'[w] = "check" /\ timeLeft'[w] = LeastLeft(timers)
      /\ UNCHANGED <<reported, idleDone, timers, panicked>>
  BY DEF Look, Goto, FiberInv, RunningGood, RestTyped
<1>3. reported[w] = <<>> /\ DOMAIN reported[w] = {} BY <1>1, <1>2 DEF ReportsOf
<1>4. ReportsOf(w)' BY <1>2, <1>3 DEF ReportsOf
<1>5. timeLeft'[w] = None => DOMAIN timers = {} BY <1>2, LeastLeftTyped DEF FiberInv
<1>6. ~idleDone[w] BY <1>1, <1>2 DEF DoneOf
<1>7. DoneOf(w)' BY <1>2, <1>5, <1>6 DEF DoneOf
<1>. QED BY <1>1, <1>2, <1>4, <1>7

\* No timer and no pending event; what other threads do changes neither, but for the
\* program's own timer.
LEMMA CheckAlone ==
  ASSUME FiberInv, OneWorkerInv, NEW w \in Worker, Check(w)
  PROVE  ~panicked' /\ ReportsOf(w)' /\ DoneOf(w)'
<1>1. ReportsOf(w) /\ DoneOf(w) /\ ~panicked BY DEF OneWorkerInv
<1>2. /\ at[w] = "check" /\ at'[w] \in {"ask", "wait"}
      /\ at'[w] = "ask" => timeLeft[w] = None /\ pending = 0
      /\ UNCHANGED <<reported, timers, pending, panicked, idleDone>>
  BY DEF Check, Stoppable, Waits, Goto, timerVars, eventVars, FiberInv, RunningGood
<1>3. reported[w] = <<>> /\ DOMAIN reported[w] = {} BY <1>1, <1>2 DEF ReportsOf
<1>4. ReportsOf(w)' BY <1>2, <1>3 DEF ReportsOf
<1>5. DoneOf(w)' BY <1>1, <1>2 DEF DoneOf
<1>. QED BY <1>1, <1>2, <1>4, <1>5

\* stopping: the only worker is here, so nothing runs, and what has yielded would be
\* among what it looked at.
LEMMA AskAlone ==
  ASSUME OneWorker, FiberInv, OneWorkerInv, NEW w \in Worker, Ask(w)
  PROVE  ~panicked' /\ ReportsOf(w)' /\ DoneOf(w)'
<1>1. ReportsOf(w) /\ DoneOf(w) /\ ~panicked BY DEF OneWorkerInv
<1>2. /\ at[w] = "ask"
      /\ UNCHANGED <<tasks, isStopped, reported, timers, pending, state, panicked, cbs>>
  BY DEF Ask, timerVars, eventVars
<1>3. reported[w] = <<>> /\ DOMAIN reported[w] = {} BY <1>1, <1>2 DEF ReportsOf
<1>4. ReportsOf(w)' BY <1>2, <1>3 DEF ReportsOf
<1>5. ~idleDone[w] BY <1>1, <1>2 DEF DoneOf
<1>6. CASE /\ Stopping
           /\ idleDone' = [idleDone EXCEPT ![w] = TRUE]
           /\ Goto(w, "take")
  <2>1. at'[w] = "take" BY <1>6 DEF Goto, FiberInv, RunningGood
  <2>2. tasks = <<>> /\ pending = 0 /\ isStopped /\ DOMAIN timers \subseteq {User}
    BY <1>1, <1>2, <1>6 DEF Stopping, DoneOf
  <2>3. ASSUME NEW f \in Fiber PROVE state[f] = "TERM"
    <3>1. \A v \in Worker : v = w BY DEF OneWorker
    <3>2. \A v \in Worker : at[v] # "resume" /\ cbs[v] = <<>>
      BY <1>2, <3>1 DEF FiberInv, CallbacksGood
    <3>3. state[f] # "READY" BY <2>2, <3>2, NobodyYielded
    <3>4. state[f] # "RUNNING" BY <1>2, <3>1 DEF FiberInv, FibersGood, Runs
    <3>. QED BY <3>3, <3>4 DEF FiberInv, FibersGood
  <2>4. NothingLeft' BY <1>2, <2>2, <2>3 DEF NothingLeft
  <2>5. DoneOf(w)' BY <1>2, <2>1, <2>2, <2>4 DEF DoneOf
  <2>. QED BY <1>1, <1>2, <1>4, <2>5
<1>7. CASE Waits(w) /\ UNCHANGED idleDone
  <2>1. at'[w] = "wait" BY <1>7 DEF Waits, Goto, FiberInv, RunningGood
  <2>2. DoneOf(w)' BY <1>5, <1>7, <2>1 DEF DoneOf
  <2>. QED BY <1>1, <1>2, <1>4, <2>2
<1>. QED BY <1>6, <1>7 DEF Ask

\* epoll reports registered events, those of a descriptor in one entry.
LEMMA WaitAlone ==
  ASSUME FiberInv, OneWorkerInv, NEW w \in Worker, Wait(w, ready)
  PROVE  ~panicked' /\ ReportsOf(w)' /\ DoneOf(w)'
<1>1. ReportsOf(w) /\ DoneOf(w) /\ ~panicked BY DEF OneWorkerInv
<1>2. /\ at[w] = "wait" /\ at'[w] = "expire"
      /\ UNCHANGED <<idleDone, events, panicked>>
  BY DEF Wait, Goto, FiberInv, RunningGood
<1>3. DoneOf(w)' BY <1>1, <1>2 DEF DoneOf
<1>4. ReportsOf(w)'
  <2>. DEFINE due == {fd \in Fd : armed[fd] \intersect ready[fd] /= {}}
              all == due \union {None : p \in {pipe} \ {FALSE}}
              R(order) == [i \in DOMAIN order |->
                [fd |-> order[i],
                 events |-> IF order[i] = None THEN {}
                            ELSE armed[order[i]] \intersect ready[order[i]]]]
  <2>1. PICK order \in SetToSeqs(all) : reported' = [reported EXCEPT ![w] = R(order)]
    BY DEF Wait
  <2>2. PICK n : n = Cardinality(all) OBVIOUS
  <2>3. order \in [1 .. n -> all] /\ \A i, j \in 1 .. n : i # j => order[i] # order[j]
    BY <2>2 DEF SetToSeqs
  <2>4. all \subseteq Fd \union {None} OBVIOUS
  <2>. HIDE DEF all
  <2>5. DOMAIN R(order) = DOMAIN order /\ DOMAIN order = 1 .. n BY <2>3
  <2>6. \A i \in 1 .. n :
          /\ R(order)[i].fd = order[i]
          /\ order[i] # None => R(order)[i].events \subseteq events[order[i]]
    <3>1. \A fd \in Fd : armed[fd] \subseteq events[fd] BY DEF FiberInv, EventsGood
    <3>2. \A i \in 1 .. n : order[i] \in Fd \union {None} BY <2>3, <2>4
    <3>. QED BY <2>5, <3>1, <3>2
  <2>. HIDE DEF R
  <2>7. reported'[w] = R(order) BY <2>1 DEF FiberInv, ReportsGood
  <2>. QED BY <1>2, <2>3, <2>5, <2>6, <2>7 DEF ReportsOf
<1>. QED BY <1>1, <1>2, <1>3, <1>4

\* What expired goes to the list.
LEMMA ExpireAlone ==
  ASSUME FiberInv, OneWorkerInv, NEW w \in Worker, Expire(w) \/ PushExpired(w)
  PROVE  ~panicked' /\ ReportsOf(w)' /\ DoneOf(w)'
<1>1. ReportsOf(w) /\ DoneOf(w) /\ ~panicked BY DEF OneWorkerInv
<1>2. /\ at[w] \in {"expire", "push"} /\ at'[w] \in {"push", "handle"}
      /\ UNCHANGED <<reported, idleDone, events, panicked>>
  BY DEF Expire, PushExpired, Goto, FiberInv, RunningGood, eventVars
<1>3. DoneOf(w)' BY <1>1, <1>2 DEF DoneOf
<1>4. ReportsOf(w)' BY <1>1, <1>2 DEF ReportsOf
<1>. QED BY <1>1, <1>2, <1>3, <1>4

\* The rest of what epoll_wait returned is about the other descriptors.
LEMMA RestReported ==
  ASSUME FiberInv, OneWorkerInv, NEW w \in Worker, reported[w] # <<>>,
         reported' = [reported EXCEPT ![w] = Tail(@)], UNCHANGED at,
         \A fd \in Fd : fd # Head(reported[w]).fd => events'[fd] = events[fd]
  PROVE  ReportsOf(w)'
<1>1. ReportsOf(w) BY DEF OneWorkerInv
<1>2. PICK s : s = reported[w] OBVIOUS
<1>3. s \in Seq(Reported) /\ s # <<>> /\ reported'[w] = Tail(s)
  BY <1>2 DEF FiberInv, ReportsGood
<1>4. at[w] \in {"expire", "push", "handle"} BY <1>1 DEF ReportsOf
<1>5. ASSUME NEW i \in DOMAIN Tail(s), Tail(s)[i].fd # None
      PROVE  /\ Tail(s)[i].events \subseteq events'[Tail(s)[i].fd]
             /\ \A j \in DOMAIN Tail(s) : Tail(s)[j].fd = Tail(s)[i].fd => i = j
  <2>1. /\ Len(s) \in Nat /\ Len(s) > 0 /\ DOMAIN s = 1 .. Len(s)
        /\ DOMAIN Tail(s) = 1 .. Len(s) - 1 /\ Head(s) = s[1]
        /\ \A j \in 1 .. Len(s) - 1 : Tail(s)[j] = s[j + 1]
    BY <1>3
  <2>2. PICK k : k = i + 1 OBVIOUS
  <2>3. k \in DOMAIN s /\ k # 1 /\ Tail(s)[i] = s[k] /\ 1 \in DOMAIN s BY <2>1, <2>2
  <2>4. /\ s[k].fd # None /\ s[k].events \subseteq events[s[k].fd]
        /\ \A j \in DOMAIN s : s[j].fd = s[k].fd => k = j
    BY <1>1, <1>2, <1>5, <2>3 DEF ReportsOf
  <2>5. s[k].fd \in Fd /\ s[k].fd # Head(s).fd
    <3>1. s[k] \in Reported BY <1>3, <2>1, <2>3
    <3>2. s[1].fd # s[k].fd BY <2>3, <2>4
    <3>. QED BY <2>1, <2>4, <3>1, <3>2 DEF Reported
  <2>6. events'[s[k].fd] = events[s[k].fd] BY <1>2, <2>5
  <2>7. ASSUME NEW j \in DOMAIN Tail(s), Tail(s)[j].fd = Tail(s)[i].fd PROVE i = j
    <3>1. j + 1 \in DOMAIN s /\ Tail(s)[j] = s[j + 1] BY <2>1
    <3>2. k = j + 1 BY <2>3, <2>4, <2>7, <3>1
    <3>. QED BY <2>1, <2>2, <3>2
  <2>. QED BY <2>3, <2>4, <2>6, <2>7
<1>6. at'[w] \in {"expire", "push", "handle"} BY <1>4
<1>7. \A i \in DOMAIN reported'[w] : reported'[w][i].fd # None =>
        /\ reported'[w][i].events \subseteq events'[reported'[w][i].fd]
        /\ \A j \in DOMAIN reported'[w] : reported'[w][j].fd = reported'[w][i].fd => i = j
  <2>1. PICK t : t = Tail(s) OBVIOUS
  <2>2. reported'[w] = t BY <1>3, <2>1
  <2>3. \A i \in DOMAIN t : t[i].fd # None =>
          /\ t[i].events \subseteq events'[t[i].fd]
          /\ \A j \in DOMAIN t : t[j].fd = t[i].fd => i = j
    BY <1>5, <2>1
  <2>. QED BY <2>2, <2>3
<1>. QED BY <1>6, <1>7 DEF ReportsOf

\* What was registered still is, so triggerEvent finds it.
LEMMA HandleAlone ==
  ASSUME FiberInv, OneWorkerInv, NEW w \in Worker, Drain(w) \/ Handle(w, open)
  PROVE  ~panicked' /\ ReportsOf(w)' /\ DoneOf(w)'
<1>1. ReportsOf(w) /\ DoneOf(w) /\ ~panicked BY DEF OneWorkerInv
<1>2. /\ at[w] = "handle" /\ reported[w] # <<>>
      /\ reported' = [reported EXCEPT ![w] = Tail(@)]
      /\ UNCHANGED <<at, idleDone>>
  BY DEF Drain, Handle
<1>3. DoneOf(w)' BY <1>1, <1>2 DEF DoneOf
<1>4. CASE Drain(w)
  <2>1. UNCHANGED <<events, panicked>> BY <1>4 DEF Drain, eventVars
  <2>. QED BY <1>1, <1>2, <1>3, <2>1, RestReported
<1>5. CASE Handle(w, open)
  <2>1. PICK fd, real : fd = Head(reported[w]).fd /\ real = Head(reported[w]).events
    OBVIOUS
  <2>2. fd \in Fd /\ real \in SUBSET Event
    <3>1. Head(reported[w]) \in Reported BY <1>2, TailReported
    <3>. QED BY <1>5, <2>1, <3>1 DEF Handle, Reported
  <2>3. real \subseteq events[fd]
    <3>1. PICK s : s = reported[w] OBVIOUS
    <3>2. s \in Seq(Reported) /\ s # <<>> BY <1>2, <3>1 DEF FiberInv, ReportsGood
    <3>3. 1 \in DOMAIN s /\ Head(s) = s[1] BY <3>2
    <3>. QED BY <1>1, <2>1, <2>2, <3>1, <3>3, Distinct DEF ReportsOf
  <2>4. UNCHANGED panicked /\ (UNCHANGED events \/ Triggered(fd, real))
    BY <1>5, <2>1, <2>3 DEF Handle, eventVars
  <2>5. \A g \in Fd : g # fd => events'[g] = events[g]
    BY <2>2, <2>3, <2>4, TriggeredMoves DEF FiberInv
  <2>. QED BY <1>1, <1>2, <1>3, <2>1, <2>4, <2>5, RestReported
<1>. QED BY <1>4, <1>5

\* idle yields to run.
LEMMA HandledAlone ==
  ASSUME FiberInv, OneWorkerInv, NEW w \in Worker, Handled(w)
  PROVE  ~panicked' /\ ReportsOf(w)' /\ DoneOf(w)'
<1>1. ReportsOf(w) /\ DoneOf(w) /\ ~panicked BY DEF OneWorkerInv
<1>2. /\ at[w] = "handle" /\ at'[w] = "take" /\ reported'[w] = <<>>
      /\ UNCHANGED <<idleDone, panicked>>
  BY DEF Handled, Goto, FiberInv, RunningGood
<1>3. DoneOf(w)' BY <1>1, <1>2 DEF DoneOf
<1>4. DOMAIN reported'[w] = {} BY <1>2
<1>5. ReportsOf(w)' BY <1>2, <1>4 DEF ReportsOf
<1>. QED BY <1>1, <1>2, <1>3, <1>5

\* A worker that runs a fiber is not done.
LEMMA FiberAlone ==
  ASSUME OneWorker, FiberInv, OneWorkerInv, NEW w \in Worker, FiberStep(w)
  PROVE  ~panicked' /\ ReportsOf(w)' /\ DoneOf(w)'
<1>1. ReportsOf(w) /\ DoneOf(w) /\ ~panicked BY DEF OneWorkerInv
<1>2. /\ at[w] \in {"resume", "fiber"} /\ at'[w] \in {"resume", "fiber", "take"}
      /\ UNCHANGED <<reported, idleDone>>
      /\ panicked' = panicked \/ Resume(w) \/ Add(w)
  BY FiberStepQuiet
<1>3. ~panicked' BY <1>1, <1>2, AddIsFirst, ResumeIsOne
<1>4. ~idleDone[w] BY <1>1, <1>2 DEF DoneOf
<1>5. ReportsOf(w)' /\ DoneOf(w)' BY <1>2, <1>4, MoveKeeps
<1>. QED BY <1>3, <1>5

\* The other threads of the program.
LEMMA OthersAlone ==
  ASSUME FiberInv, OneWorkerInv, NEW w \in Worker,
         Time \/ Schedule \/ AddTimer \/ ChangeTimer \/ StopCalled \/ Arrive
  PROVE  ~panicked' /\ ReportsOf(w)' /\ DoneOf(w)'
<1>0. ~panicked BY DEF OneWorkerInv
<1>1. CASE Time
  <2>1. /\ UNCHANGED <<at, reported, idleDone, events, panicked, tasks, pending, state, isStopped>>
        /\ DOMAIN timers' = DOMAIN timers
        /\ at[w] = "check" => timeLeft'[w] = timeLeft[w]
    BY <1>1 DEF Time, Tick, schedVars, eventVars
  <2>. QED BY <1>0, <2>1, QuietKeeps
<1>2. CASE Schedule
  <2>1. /\ UNCHANGED <<at, reported, idleDone, events, pending, panicked, timeLeft, timers>>
        /\ ~isStopped
    BY <1>2 DEF Schedule, Outside, workerVars, eventVars, timerVars
  <2>. QED BY <1>0, <2>1, QuietKeeps
<1>3. CASE AddTimer \/ ChangeTimer
  <2>1. /\ UNCHANGED <<at, reported, idleDone, events, pending, panicked, timeLeft>>
        /\ ~isStopped
    BY <1>3 DEF AddTimer, ChangeTimer, Outside, workerVars, eventVars
  <2>2. DOMAIN timers' \subseteq DOMAIN timers \union {User}
    BY <1>3 DEF AddTimer, ChangeTimer, Inserted, Cancelled, With, Without
  <2>. QED BY <1>0, <2>1, <2>2, QuietKeeps
<1>4. CASE StopCalled
  <2>1. /\ UNCHANGED <<at, reported, idleDone, events, pending, panicked, timeLeft, timers>>
        /\ ~isStopped
    BY <1>4 DEF StopCalled, Stop, workerVars, eventVars, timerVars
  <2>. QED BY <1>0, <2>1, QuietKeeps
<1>5. CASE Arrive
  <2>1. UNCHANGED <<at, reported, idleDone, events, panicked, timeLeft, timers, tasks, pending,
                    state, isStopped>>
    BY <1>5 DEF Arrive, schedVars, workerVars, timerVars
  <2>. QED BY <1>0, <2>1, QuietKeeps
<1>. QED BY <1>1, <1>2, <1>3, <1>4, <1>5

\* With one worker the runtime keeps this too.
LEMMA OneWorkerInvNext ==
  ASSUME OneWorker, FiberInv, OneWorkerInv, [Next]_vars
  PROVE  OneWorkerInv'
<1>1. ASSUME NEW w \in Worker PROVE ~panicked' /\ ReportsOf(w)' /\ DoneOf(w)'
  <2>1. ASSUME NEW v \in Worker, WorkerStep(v) PROVE ~panicked' /\ ReportsOf(w)' /\ DoneOf(w)'
    <3>1. v = w BY DEF OneWorker
    <3>2. RunStep(w) \/ FiberStep(w) BY <2>1, <3>1 DEF WorkerStep
    <3>3. CASE RunStep(w)
      BY <3>3, TakeAlone, RestAlone, LookAlone, CheckAlone, AskAlone, WaitAlone, ExpireAlone, HandleAlone,
         HandledAlone DEF RunStep
    <3>. QED BY <3>2, <3>3, FiberAlone
  <2>2. CASE UNCHANGED vars
    <3>1. UNCHANGED <<at, reported, idleDone, events, panicked, timeLeft, timers, tasks, pending,
                      state, isStopped>>
      BY <2>2 DEF vars, runtimeVars, schedVars, workerVars, timerVars, eventVars
    <3>. QED BY <3>1, QuietKeeps DEF OneWorkerInv
  <2>. QED BY <2>1, <2>2, OthersAlone DEF Next
<1>. QED BY <1>1, RuntimeAssumption DEF OneWorkerInv

\* It holds to begin with.
LEMMA OneWorkerInvInit == Init => OneWorkerInv
BY DEF Init, RuntimeInit, OneWorkerInv, ReportsOf, DoneOf

\* With one worker no CondPanic of the runtime fails (fiber.cpp:70, scheduler.cpp:104,
\* iomanager.cpp:24 and 89): a task's fiber is READY and off the worker, an event is
\* added once, and nobody takes out what epoll reported before idle triggers it.
THEOREM NothingPanics == OneWorker => (Spec => []NoPanic)
<1>. SUFFICES ASSUME OneWorker PROVE Spec => []NoPanic
  OBVIOUS
<1>1. FiberInv /\ OneWorkerInv /\ [Next]_vars => OneWorkerInv' BY OneWorkerInvNext
<1>2. OneWorkerInv => NoPanic BY DEF OneWorkerInv, NoPanic
<1>. QED BY <1>1, <1>2, OneWorkerInvInit, FiberInvariant, PTL DEF Spec

\* With one worker, stop returns with nothing left behind (scheduler.hpp:87): what
\* idle's stopping (iomanager.cpp:357) reads, first the timers and then the counters,
\* nobody but the worker itself can change in between.
THEOREM StopLeavesNothing == OneWorker => (Spec => []StopDrains)
<1>. SUFFICES ASSUME OneWorker PROVE Spec => []StopDrains
  OBVIOUS
<1>1. FiberInv /\ OneWorkerInv /\ [Next]_vars => OneWorkerInv' BY OneWorkerInvNext
<1>2. OneWorkerInv => StopDrains
  <2>. SUFFICES ASSUME OneWorkerInv, Ended PROVE NothingLeft
    BY DEF StopDrains, NothingLeft
  <2>1. PICK w \in Worker : TRUE BY RuntimeAssumption
  <2>. QED BY <2>1 DEF OneWorkerInv, DoneOf, Ended
<1>. QED BY <1>1, <1>2, OneWorkerInvInit, FiberInvariant, PTL DEF Spec

=============================================================================
