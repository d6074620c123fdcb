------------------------------ MODULE KvProofs ------------------------------
(***************************************************************************)
(* Proofs about the key-value service: the types of its variables; that no *)
(* handler's queue is deleted by another; that what a clerk is told was    *)
(* done is in the log, and what it reads is not old; and that no server's  *)
(* skip list loses a write.                                                *)
(***************************************************************************)
EXTENDS KvProps, TLAPS

\* What the clerks and the network hold.
ClerkTypes ==
    /\ m_requestId \in [Client -> Nat]
    /\ m_recentLeaderId \in [Client -> Server]
    /\ calling \in [Client -> Calls \cup {Idle}]
    /\ chosenBefore \in [Client -> Nat]
    /\ calls \subseteq Calls

\* The queues of a server, by index.
Queues(q) == /\ DOMAIN q \subseteq Nat
             /\ \A i \in DOMAIN q : q[i] \in Seq(Ops)
             /\ q = [i \in DOMAIN q |-> q[i]]

ServerTypes ==
    /\ m_skipList \in [Server -> [Keys -> Ops \cup {NoValue}]]
    /\ m_lastRequestId \in [Server -> [{Uuid(c) : c \in Client} -> Nat]]
    /\ waitApplyCh = [s \in Server |-> waitApplyCh[s]]
    /\ \A s \in Server : Queues(waitApplyCh[s])
    /\ applying \in [Server -> {"pop", "execute", "send"}]
    /\ applied \in [Server -> Nat]
    /\ \A s \in Server : applying[s] # "pop" => applied[s] < Len(chosen)

RaftTypes ==
    /\ chosen \in Seq(Ops)
    /\ started \subseteq [index : Nat, op : Ops]
    /\ logEnd \in [Server -> Nat]

HandlerTypes == handlers \subseteq Handlers

KvTypes == ClerkTypes /\ ServerTypes /\ RaftTypes /\ HandlerTypes

\* A handler waits on an index that its server's Start returned to it alone.
Waits ==
    /\ \A h \in handlers : h.index \in 1..logEnd[h.call.server]
    /\ \A h, g \in handlers :
            h.call.server = g.call.server /\ h.index = g.index => h = g
    /\ WaitersHaveQueues

KvInv == KvTypes /\ Waits

\* The ring closes.
LEMMA NextServerInRing == \A s \in Server : NextServer(s) \in Server
  BY SizeAssumption DEF Server, NextServer

\* A clerk has a name of type Nat.
LEMMA UuidType == \A c \in Client : Uuid(c) \in Nat
  BY ClientAssumption DEF Uuid

\* A call that is made is of its type.
LEMMA CallTypes ==
    ASSUME ClerkTypes, NEW c \in Client, NEW op \in Ops, NEW s \in Server,
           NEW attempt \in Nat, NEW others, others \subseteq Calls,
           Call(c, op, s, attempt, others)
    PROVE  calling' \in [Client -> Calls \cup {Idle}] /\ calls' \subseteq Calls
  BY DEF Call, ClerkTypes, Calls

\* So is the one a clerk makes when it asks again.
LEMMA RetryTypes ==
    ASSUME ClerkTypes, NEW c \in Client, calling[c] # Idle,
           NEW s \in Server, NEW others, others \subseteq Calls,
           Retry(c, s, others)
    PROVE  calling' \in [Client -> Calls \cup {Idle}] /\ calls' \subseteq Calls
<1>1. calling[c].op \in Ops /\ calling[c].attempt + 1 \in Nat
  BY DEF ClerkTypes, Calls
<1> QED
  BY <1>1, CallTypes DEF Retry

\* Whatever a call is answered, the clerks keep their types.
LEMMA AnswerTypes ==
    ASSUME ClerkTypes, NEW call \in Calls, NEW err,
           NEW others, others \subseteq Calls, Answer(call, err, others)
    PROVE  ClerkTypes'
<1> DEFINE c == call.op.clerk
<1>1. c \in Client /\ call.server \in Server /\ call # Idle
  BY DEF Calls, Ops, Idle
<1>2. CASE calling[c] # call /\ calls' = others /\ UNCHANGED clerkVars
  BY <1>2 DEF ClerkTypes, clerkVars
<1>3. CASE /\ calling[c] = call
           /\ Retry(c, NextServer(call.server), others)
           /\ UNCHANGED <<m_requestId, m_recentLeaderId, chosenBefore>>
  <2>1. NextServer(call.server) \in Server
    BY <1>1, NextServerInRing
  <2> QED
    BY <1>1, <1>3, <2>1, RetryTypes DEF ClerkTypes
<1>4. CASE /\ calling[c] = call
           /\ calling' = [calling EXCEPT ![c].attempt = 0]
           /\ m_recentLeaderId' = IF err = "OK"
                THEN [m_recentLeaderId EXCEPT ![c] = Remembered(call)]
                ELSE m_recentLeaderId
           /\ calls' = others
           /\ UNCHANGED <<m_requestId, chosenBefore>>
  <2>1. [call EXCEPT !.attempt = 0] \in Calls
    BY DEF Calls
  <2>2. calling' = [calling EXCEPT ![c] = [call EXCEPT !.attempt = 0]]
    BY <1>1, <1>4 DEF ClerkTypes
  <2> QED
    BY <1>1, <1>4, <2>1, <2>2 DEF ClerkTypes, Remembered
<1> QED
  BY <1>2, <1>3, <1>4 DEF Answer

-----------------------------------------------------------------------------
(* The clerk *)

\* A clerk's request keeps the invariant.
LEMMA RequestInv ==
    ASSUME KvInv, NEW c \in Client, NEW kind \in {"Get", "Put", "Append"},
           NEW key \in Keys, Request(c, kind, key)
    PROVE  KvInv'
<1> DEFINE op == [clerk |-> c, client |-> Uuid(c),
                  request |-> m_requestId[c] + 1, kind |-> kind, key |-> key]
<1>1. op \in Ops /\ m_requestId[c] + 1 \in Nat /\ m_recentLeaderId[c] \in Server
  BY UuidType DEF KvInv, KvTypes, ClerkTypes, Ops
<1>2. Call(c, op, m_recentLeaderId[c], 1, calls)
  BY DEF Request
<1> HIDE DEF op
<1>3. calling' \in [Client -> Calls \cup {Idle}] /\ calls' \subseteq Calls
  BY <1>1, <1>2, CallTypes DEF KvInv, KvTypes, ClerkTypes
<1>4. Len(chosen) \in Nat
  BY DEF KvInv, KvTypes, RaftTypes
<1>5. ClerkTypes'
  BY <1>1, <1>3, <1>4 DEF KvInv, KvTypes, ClerkTypes, Request
<1> QED
  BY <1>5 DEF KvInv, KvTypes, Waits, WaitersHaveQueues, ServerTypes, Queues,
     RaftTypes, HandlerTypes, Request, stateVars, applyVars, raftVars

\* So does a call that fails.
LEMMA CallFailsInv ==
    ASSUME KvInv, NEW c \in Client, CallFails(c)
    PROVE  KvInv'
<1>1. calling[c] # Idle /\ calling[c].server \in Server
  BY DEF KvInv, KvTypes, ClerkTypes, CallFails, NoCall, Idle, Calls
<1>2. \E s \in Server : Retry(c, s, calls)
  BY <1>1, NextServerInRing DEF CallFails
<1>3. ClerkTypes'
  BY <1>1, <1>2, RetryTypes DEF KvInv, KvTypes, ClerkTypes, CallFails
<1> QED
  BY <1>3 DEF KvInv, KvTypes, Waits, WaitersHaveQueues, ServerTypes, Queues,
     RaftTypes, HandlerTypes, CallFails, stateVars, applyVars, raftVars

-----------------------------------------------------------------------------
(* The handlers *)

\* A server's next index is larger than those its handlers wait on.
LEMMA HandleInv ==
    ASSUME KvInv, NEW call \in calls, Handle(call)
    PROVE  KvInv'
<1>1. call \in Calls /\ call.server \in Server
  BY DEF KvInv, KvTypes, ClerkTypes, Calls
<1>2. CASE StartRefused(call)
  <2>1. ClerkTypes'
    BY <1>1, <1>2, AnswerTypes DEF KvInv, KvTypes, ClerkTypes, StartRefused
  <2> QED
    BY <1>2, <2>1 DEF KvInv, KvTypes, Waits, WaitersHaveQueues, ServerTypes,
       Queues, RaftTypes, HandlerTypes, StartRefused, Handle, stateVars,
       applyVars, raftVars
<1>3. CASE StartAccepted(call)
  <2> DEFINE s == call.server
  <2>1. PICK e \in LogEnds(s) :
            /\ logEnd' = [logEnd EXCEPT ![s] = e + 1]
            /\ started' = started \cup {[index |-> e + 1, op |-> call.op]}
            /\ handlers' = handlers \cup
                    {[call |-> call, index |-> e + 1, at |-> "started",
                      err |-> "none"]}
            /\ calls' = calls \ {call}
            /\ UNCHANGED <<clerkVars, chosen>>
    BY <1>3 DEF StartAccepted
  <2>2. e \in Nat /\ e >= logEnd[s] /\ logEnd \in [Server -> Nat]
    BY <1>1 DEF LogEnds, KvInv, KvTypes, RaftTypes
  <2> DEFINE new == [call |-> call, index |-> e + 1, at |-> "started",
                     err |-> "none"]
  <2>3. new \in Handlers /\ call.op \in Ops
    BY <1>1, <2>2 DEF Handlers, Calls
  <2>4. UNCHANGED <<stateVars, waitApplyCh, applyVars>>
    BY DEF Handle
  <2>5. KvTypes'
    <3>1. ClerkTypes'
      BY <2>1 DEF KvInv, KvTypes, ClerkTypes, clerkVars
    <3>2. ServerTypes'
      BY <2>1, <2>4 DEF KvInv, KvTypes, ServerTypes, Queues, stateVars, applyVars
    <3>3. RaftTypes'
      BY <1>1, <2>1, <2>2, <2>3 DEF KvInv, KvTypes, RaftTypes
    <3>4. HandlerTypes'
      BY <2>1, <2>3 DEF KvInv, KvTypes, HandlerTypes
    <3> QED
      BY <3>1, <3>2, <3>3, <3>4 DEF KvTypes
  <2>6. /\ new.index = e + 1 /\ new.call.server = s /\ new.at = "started"
        /\ handlers' = handlers \cup {new}
    BY <2>1
  <2>7. \A h \in handlers :
            /\ h.index \in 1..logEnd[h.call.server]
            /\ h.call.server \in Server
            /\ h.call.server = s => h.index < e + 1
    BY <2>2 DEF KvInv, Waits, KvTypes, HandlerTypes, Handlers, Calls
  <2> HIDE DEF new
  <2>8. \A h \in handlers' : h.index \in 1..logEnd'[h.call.server]
    BY <1>1, <2>1, <2>2, <2>6, <2>7
  <2>9. \A h, g \in handlers' :
            h.call.server = g.call.server /\ h.index = g.index => h = g
    BY <2>2, <2>6, <2>7 DEF KvInv, Waits
  <2>10. WaitersHaveQueues'
    BY <2>4, <2>6 DEF KvInv, Waits, WaitersHaveQueues
  <2> QED
    BY <2>5, <2>8, <2>9, <2>10 DEF KvInv, Waits
<1> QED
  BY <1>2, <1>3 DEF Handle

\* A handler that goes on keeps its index.
LEMMA StepKeepsWaits ==
    ASSUME KvInv, NEW h \in handlers, NEW next \in Handlers, Step(h, next),
           next.call = h.call, next.index = h.index,
           next.at = "waiting" =>
               h.index \in DOMAIN waitApplyCh'[h.call.server],
           \A g \in handlers : g.at = "waiting" =>
               g.index \in DOMAIN waitApplyCh'[g.call.server],
           UNCHANGED logEnd
    PROVE  HandlerTypes' /\ Waits'
<1>1. handlers' = (handlers \ {h}) \cup {next}
  BY DEF Step
<1>2. HandlerTypes'
  BY <1>1 DEF KvInv, KvTypes, HandlerTypes
<1>3. /\ \A g \in handlers' : g.index \in 1..logEnd'[g.call.server]
      /\ \A f, g \in handlers' :
            f.call.server = g.call.server /\ f.index = g.index => f = g
  BY <1>1 DEF KvInv, Waits
<1>4. WaitersHaveQueues'
  BY <1>1 DEF WaitersHaveQueues
<1> QED
  BY <1>2, <1>3, <1>4 DEF Waits

\* What is known of a handler.
LEMMA HandlerFacts ==
    ASSUME KvInv, NEW h \in handlers
    PROVE  /\ h \in Handlers /\ h.call \in Calls /\ h.call.server \in Server
           /\ h.call.op \in Ops /\ h.index \in Nat
           /\ Queues(waitApplyCh[h.call.server])
           /\ waitApplyCh = [s \in Server |-> waitApplyCh[s]]
           /\ h.at = "waiting" => h.index \in DOMAIN waitApplyCh[h.call.server]
  BY DEF KvInv, KvTypes, HandlerTypes, ServerTypes, Handlers, Calls, Waits,
     WaitersHaveQueues

\* The invariant, when only handlers and queues of one server have changed.
LEMMA QueuesChanged ==
    ASSUME KvInv, NEW s \in Server, NEW q, Queues(q),
           waitApplyCh' = [waitApplyCh EXCEPT ![s] = q],
           HandlerTypes', Waits',
           UNCHANGED <<clerkVars, calls, stateVars, applyVars, raftVars>>
    PROVE  KvInv'
  BY DEF KvInv, KvTypes, ClerkTypes, ServerTypes, RaftTypes, clerkVars,
     stateVars, applyVars, raftVars, Queues

\* A handler makes its queue.
LEMMA AwaitCommandInv ==
    ASSUME KvInv, NEW h \in handlers, AwaitCommand(h)
    PROVE  KvInv'
<1> DEFINE s == h.call.server
           q == [i \in DOMAIN waitApplyCh[s] \cup {h.index} |->
                    IF i \in DOMAIN waitApplyCh[s] THEN waitApplyCh[s][i]
                                                   ELSE <<>>]
<1>1. Queues(q)
  <2>1. Queues(waitApplyCh[s]) /\ h.index \in Nat /\ <<>> \in Seq(Ops)
    BY HandlerFacts
  <2> QED
    BY <2>1 DEF Queues
<1> DEFINE next == [h EXCEPT !.at = "waiting"]
<1>2. waitApplyCh' = [waitApplyCh EXCEPT ![s] = q] /\ Step(h, next)
  BY DEF AwaitCommand
<1>3. next \in Handlers /\ next.call = h.call /\ next.index = h.index
  BY HandlerFacts DEF Handlers
<1>4. /\ h.index \in DOMAIN waitApplyCh'[s]
      /\ \A g \in handlers : g.at = "waiting" =>
            g.index \in DOMAIN waitApplyCh'[g.call.server]
  BY <1>2, HandlerFacts
<1>5. HandlerTypes' /\ Waits'
  BY <1>2, <1>3, <1>4, StepKeepsWaits DEF AwaitCommand, raftVars
<1> HIDE DEF q
<1> QED
  BY <1>1, <1>2, <1>5, HandlerFacts, QueuesChanged DEF AwaitCommand

\* A queue is replaced by another, for an index that has one.
LEMMA QueueReplaced ==
    ASSUME KvInv, NEW s \in Server, NEW i \in DOMAIN waitApplyCh[s],
           NEW queue \in Seq(Ops),
           waitApplyCh' = [waitApplyCh EXCEPT ![s][i] = queue]
    PROVE  \E q : /\ Queues(q)
                  /\ waitApplyCh' = [waitApplyCh EXCEPT ![s] = q]
                  /\ DOMAIN q = DOMAIN waitApplyCh[s]
<1>1. Queues(waitApplyCh[s])
  BY DEF KvInv, KvTypes, ServerTypes
<1>2. Queues([waitApplyCh[s] EXCEPT ![i] = queue])
  BY <1>1 DEF Queues
<1>3. DOMAIN [waitApplyCh[s] EXCEPT ![i] = queue] = DOMAIN waitApplyCh[s]
  OBVIOUS
<1> QED
  BY <1>2, <1>3

\* A handler takes a command from its queue.
LEMMA PopCommandInv ==
    ASSUME KvInv, NEW h \in handlers, PopCommand(h)
    PROVE  KvInv'
<1> DEFINE s == h.call.server
<1>1. /\ h.index \in DOMAIN waitApplyCh[s] /\ s \in Server
      /\ Tail(waitApplyCh[s][h.index]) \in Seq(Ops)
  <2>1. /\ h.index \in DOMAIN waitApplyCh[s] /\ s \in Server
        /\ waitApplyCh[s][h.index] \in Seq(Ops)
    BY HandlerFacts DEF PopCommand, Queues
  <2> QED
    BY <2>1 DEF PopCommand
<1>2. PICK q : /\ Queues(q)
               /\ waitApplyCh' = [waitApplyCh EXCEPT ![s] = q]
               /\ DOMAIN q = DOMAIN waitApplyCh[s]
  BY <1>1, QueueReplaced DEF PopCommand
<1>3. PICK next \in {[h EXCEPT !.at = "read"],
                     [h EXCEPT !.at = "erase", !.err = "OK"],
                     [h EXCEPT !.at = "erase", !.err = "ErrWrongLeader"]} :
            Step(h, next)
  BY DEF PopCommand
<1>4. /\ next \in Handlers /\ next.call = h.call /\ next.index = h.index
      /\ next.at # "waiting"
  BY HandlerFacts DEF Handlers
<1>5. \A g \in handlers : g.at = "waiting" =>
            g.index \in DOMAIN waitApplyCh'[g.call.server]
  BY <1>1, <1>2, HandlerFacts
<1>6. HandlerTypes' /\ Waits'
  BY <1>3, <1>4, <1>5, StepKeepsWaits DEF PopCommand, raftVars
<1> QED
  BY <1>1, <1>2, <1>6, QueuesChanged DEF PopCommand

\* A handler stops waiting.
LEMMA TimeOutInv ==
    ASSUME KvInv, NEW h \in handlers, TimeOut(h)
    PROVE  KvInv'
<1>1. PICK next \in {[h EXCEPT !.at = "read"],
                     [h EXCEPT !.at = "erase", !.err = "OK"],
                     [h EXCEPT !.at = "erase", !.err = "ErrWrongLeader"]} :
            Step(h, next)
  BY DEF TimeOut
<1>2. /\ next \in Handlers /\ next.call = h.call /\ next.index = h.index
      /\ next.at # "waiting"
  BY HandlerFacts DEF Handlers
<1>3. \A g \in handlers : g.at = "waiting" =>
            g.index \in DOMAIN waitApplyCh'[g.call.server]
  BY HandlerFacts DEF TimeOut
<1>4. HandlerTypes' /\ Waits'
  BY <1>1, <1>2, <1>3, StepKeepsWaits DEF TimeOut, raftVars
<1>5. ClerkTypes' /\ ServerTypes' /\ RaftTypes'
  <2>1. UNCHANGED <<clerkVars, calls, stateVars, waitApplyCh, applyVars,
                    raftVars>>
    BY DEF TimeOut
  <2> QED
    BY <2>1 DEF KvInv, KvTypes, ClerkTypes, ServerTypes, RaftTypes, Queues,
       clerkVars, stateVars, applyVars, raftVars
<1> QED
  BY <1>4, <1>5 DEF KvInv, KvTypes

\* A Get's handler reads, and writes the table of request ids.
LEMMA ExecuteGetInv ==
    ASSUME KvInv, NEW h \in handlers, ExecuteGet(h)
    PROVE  KvInv'
<1>1. PICK next \in {[h EXCEPT !.at = "erase", !.err = "ErrNoKey"],
                     [h EXCEPT !.at = "erase", !.err = "OK"]} : Step(h, next)
  BY DEF ExecuteGet
<1>2. /\ next \in Handlers /\ next.call = h.call /\ next.index = h.index
      /\ next.at # "waiting"
  BY HandlerFacts DEF Handlers
<1>3. \A g \in handlers : g.at = "waiting" =>
            g.index \in DOMAIN waitApplyCh'[g.call.server]
  BY HandlerFacts DEF ExecuteGet
<1>4. HandlerTypes' /\ Waits'
  BY <1>1, <1>2, <1>3, StepKeepsWaits DEF ExecuteGet, raftVars
<1>5. m_lastRequestId' \in [Server -> [{Uuid(c) : c \in Client} -> Nat]]
  <2>1. h.call.server \in Server /\ h.call.op.request \in Nat
    BY HandlerFacts DEF Ops
  <2>2. m_lastRequestId \in [Server -> [{Uuid(c) : c \in Client} -> Nat]]
    BY DEF KvInv, KvTypes, ServerTypes
  <2> QED
    BY <2>1, <2>2 DEF ExecuteGet
<1>6. ClerkTypes' /\ ServerTypes' /\ RaftTypes'
  <2>1. UNCHANGED <<clerkVars, calls, m_skipList, waitApplyCh, applyVars,
                    raftVars>>
    BY DEF ExecuteGet
  <2> QED
    BY <1>5, <2>1 DEF KvInv, KvTypes, ClerkTypes, ServerTypes, RaftTypes,
       Queues, clerkVars, applyVars, raftVars
<1> QED
  BY <1>4, <1>6 DEF KvInv, KvTypes

\* A handler that ends deletes the queue nobody else waits on.
LEMMA ReplyInv ==
    ASSUME KvInv, NEW h \in handlers, Reply(h)
    PROVE  KvInv'
<1> DEFINE s == h.call.server
           q == [i \in DOMAIN waitApplyCh[s] \ {h.index} |-> waitApplyCh[s][i]]
<1>1. Queues(q) /\ s \in Server
  BY HandlerFacts DEF Queues
<1>2. /\ handlers' = handlers \ {h}
      /\ waitApplyCh' = [waitApplyCh EXCEPT ![s] = q]
      /\ UNCHANGED <<stateVars, applyVars, raftVars>>
  BY DEF Reply
<1>3. ClerkTypes'
  BY HandlerFacts, AnswerTypes DEF Reply, KvInv, KvTypes, ClerkTypes
<1>4. \A g \in handlers' : g.at = "waiting" =>
            g.index \in DOMAIN waitApplyCh'[g.call.server]
  <2> SUFFICES ASSUME NEW g \in handlers', g.at = "waiting"
               PROVE  g.index \in DOMAIN waitApplyCh'[g.call.server]
    OBVIOUS
  <2>1. /\ g \in handlers /\ g # h /\ g.call.server \in Server
        /\ g.index \in DOMAIN waitApplyCh[g.call.server]
    BY <1>2, HandlerFacts
  <2>2. CASE g.call.server = s
    BY <1>1, <1>2, <2>1, <2>2, HandlerFacts DEF KvInv, Waits
  <2>3. CASE g.call.server # s
    BY <1>2, <2>1, <2>3, HandlerFacts
  <2> QED
    BY <2>2, <2>3
<1>5. HandlerTypes' /\ Waits'
  BY <1>2, <1>4 DEF KvInv, KvTypes, HandlerTypes, Waits, WaitersHaveQueues,
     raftVars
<1> HIDE DEF q
<1>6. ServerTypes' /\ RaftTypes'
  BY <1>1, <1>2 DEF KvInv, KvTypes, ServerTypes, RaftTypes, Queues, stateVars,
     applyVars, raftVars
<1> QED
  BY <1>3, <1>5, <1>6 DEF KvInv, KvTypes

-----------------------------------------------------------------------------
(* The apply loop *)

\* What a server is at was chosen.
LEMMA CurrentType ==
    ASSUME KvInv, NEW s \in Server, applied[s] < Len(chosen)
    PROVE  Current(s) \in Ops
<1>1. applied[s] + 1 \in 1..Len(chosen) /\ chosen \in Seq(Ops)
  BY DEF KvInv, KvTypes, ServerTypes, RaftTypes
<1> QED
  BY <1>1 DEF Current

\* The handlers go on waiting, when none of them moves and no queue goes.
LEMMA HandlersStay ==
    ASSUME KvInv, UNCHANGED handlers, UNCHANGED raftVars,
           \A h \in handlers : h.at = "waiting" =>
               h.index \in DOMAIN waitApplyCh'[h.call.server]
    PROVE  HandlerTypes' /\ Waits'
  BY DEF KvInv, KvTypes, HandlerTypes, Waits, WaitersHaveQueues, raftVars

\* A command is taken.
LEMMA TakeCommandInv ==
    ASSUME KvInv, NEW s \in Server, TakeCommand(s)
    PROVE  KvInv'
<1>1. HandlerTypes' /\ Waits'
  BY HandlersStay, HandlerFacts DEF TakeCommand
<1>2. PICK at \in {"execute", "send"} :
            applying' = [applying EXCEPT ![s] = at]
  BY DEF TakeCommand
<1>3. /\ applied[s] < Len(chosen)
      /\ UNCHANGED <<clerkVars, calls, stateVars, waitApplyCh, applied, raftVars>>
  BY DEF TakeCommand
<1>4. ServerTypes'
  BY <1>2, <1>3 DEF KvInv, KvTypes, ServerTypes, Queues, stateVars, raftVars
<1> QED
  BY <1>1, <1>3, <1>4 DEF KvInv, KvTypes, ClerkTypes, RaftTypes, clerkVars,
     raftVars

\* It is executed.
LEMMA ExecutePutInv ==
    ASSUME KvInv, NEW s \in Server, ExecutePut(s)
    PROVE  KvInv'
<1>1. HandlerTypes' /\ Waits'
  BY HandlersStay, HandlerFacts DEF ExecutePut
<1> DEFINE op == Current(s)
<1>2. op \in Ops /\ op.request \in Nat /\ applied[s] < Len(chosen)
  BY CurrentType DEF ExecutePut, KvInv, KvTypes, ServerTypes, Ops
<1>3. /\ applying' = [applying EXCEPT ![s] = "send"]
      /\ m_skipList' = [m_skipList EXCEPT ![s][op.key] = op]
      /\ m_lastRequestId' = [m_lastRequestId EXCEPT ![s][op.client] = op.request]
      /\ UNCHANGED <<clerkVars, calls, waitApplyCh, applied, raftVars>>
  BY DEF ExecutePut
<1> HIDE DEF op
<1>4. /\ m_skipList' \in [Server -> [Keys -> Ops \cup {NoValue}]]
      /\ m_lastRequestId' \in [Server -> [{Uuid(c) : c \in Client} -> Nat]]
  BY <1>2, <1>3 DEF KvInv, KvTypes, ServerTypes
<1>5. ServerTypes'
  BY <1>2, <1>3, <1>4 DEF KvInv, KvTypes, ServerTypes, Queues, raftVars
<1> QED
  BY <1>1, <1>3, <1>5 DEF KvInv, KvTypes, ClerkTypes, RaftTypes, clerkVars,
     raftVars

\* It is handed to whoever waits on its index.
LEMMA SendMessageInv ==
    ASSUME KvInv, NEW s \in Server, SendMessage(s)
    PROVE  KvInv'
<1> DEFINE i == applied[s] + 1
<1>1. Current(s) \in Ops /\ applied[s] < Len(chosen)
  BY CurrentType DEF SendMessage, KvInv, KvTypes, ServerTypes
<1>2. \E q : /\ Queues(q)
             /\ waitApplyCh' = [waitApplyCh EXCEPT ![s] = q]
             /\ DOMAIN q = DOMAIN waitApplyCh[s]
  <2>1. CASE i \in DOMAIN waitApplyCh[s]
    <3>1. Append(waitApplyCh[s][i], Current(s)) \in Seq(Ops)
      BY <1>1, <2>1 DEF KvInv, KvTypes, ServerTypes, Queues
    <3>2. waitApplyCh' = [waitApplyCh EXCEPT ![s][i] =
                            Append(waitApplyCh[s][i], Current(s))]
      BY <2>1 DEF SendMessage
    <3> QED
      BY <2>1, <3>1, <3>2, QueueReplaced
  <2>2. CASE i \notin DOMAIN waitApplyCh[s]
    <3>1. waitApplyCh' = waitApplyCh
      BY <2>2 DEF SendMessage
    <3>2. waitApplyCh' = [waitApplyCh EXCEPT ![s] = waitApplyCh[s]]
      BY <3>1 DEF KvInv, KvTypes, ServerTypes
    <3> QED
      BY <3>2 DEF KvInv, KvTypes, ServerTypes
  <2> QED
    BY <2>1, <2>2
<1>3. PICK q : /\ Queues(q)
               /\ waitApplyCh' = [waitApplyCh EXCEPT ![s] = q]
               /\ DOMAIN q = DOMAIN waitApplyCh[s]
  BY <1>2
<1>4. \A h \in handlers : h.at = "waiting" =>
            h.index \in DOMAIN waitApplyCh'[h.call.server]
  BY <1>3, HandlerFacts
<1>5. HandlerTypes' /\ Waits'
  BY <1>4, HandlersStay DEF SendMessage
<1>6. /\ applying' = [applying EXCEPT ![s] = "pop"]
      /\ applied' = [applied EXCEPT ![s] = applied[s] + 1]
      /\ UNCHANGED <<clerkVars, calls, stateVars, raftVars>>
  BY DEF SendMessage
<1>7. ServerTypes'
  <2>1. /\ waitApplyCh' = [p \in Server |-> waitApplyCh'[p]]
        /\ \A p \in Server : Queues(waitApplyCh'[p])
    BY <1>3 DEF KvInv, KvTypes, ServerTypes
  <2>2. /\ applying' \in [Server -> {"pop", "execute", "send"}]
        /\ applied' \in [Server -> Nat] /\ chosen' = chosen
        /\ \A p \in Server : applying'[p] # "pop" => applied'[p] < Len(chosen)
    BY <1>6 DEF KvInv, KvTypes, ServerTypes, raftVars
  <2> QED
    BY <1>6, <2>1, <2>2 DEF KvInv, KvTypes, ServerTypes, Queues, stateVars
<1> QED
  BY <1>5, <1>6, <1>7 DEF KvInv, KvTypes, ClerkTypes, RaftTypes, clerkVars,
     raftVars

\* Raft decides an index.
LEMMA ChooseInv ==
    ASSUME KvInv, NEW e \in started, Choose(e)
    PROVE  KvInv'
<1>1. chosen' \in Seq(Ops) /\ Len(chosen') = Len(chosen) + 1
  BY DEF Choose, KvInv, KvTypes, RaftTypes
<1>2. UNCHANGED <<started, logEnd, clerkVars, calls, handlers, stateVars,
                  waitApplyCh, applyVars>>
  BY DEF Choose
<1>3. ServerTypes'
  <2>1. \A s \in Server : applying[s] # "pop" => applied[s] < Len(chosen')
    BY <1>1 DEF KvInv, KvTypes, ServerTypes, RaftTypes
  <2> QED
    BY <1>2, <2>1 DEF KvInv, KvTypes, ServerTypes, Queues, stateVars, applyVars
<1> QED
  BY <1>1, <1>2, <1>3 DEF KvInv, KvTypes, ClerkTypes, RaftTypes, HandlerTypes,
     Waits, WaitersHaveQueues, clerkVars

-----------------------------------------------------------------------------
(* The service *)

\* It starts with nothing made.
LEMMA KvInitInv == KvInit => KvInv
<1> SUFFICES ASSUME KvInit PROVE KvInv
  OBVIOUS
<1>1. 0 \in Server
  BY SizeAssumption DEF Server
<1>2. ClerkTypes
  BY <1>1 DEF KvInit, ClerkTypes
<1>3. \A s \in Server : Queues(waitApplyCh[s])
  BY DEF KvInit, Queues
<1>4. ServerTypes
  BY <1>3 DEF KvInit, ServerTypes
<1> QED
  BY <1>2, <1>4 DEF KvInit, KvInv, KvTypes, RaftTypes, HandlerTypes, Waits,
     WaitersHaveQueues

\* Every step keeps the invariant.
LEMMA KvStepInv == KvInv /\ [KvNext]_kvVars => KvInv'
<1> SUFFICES ASSUME KvInv, [KvNext]_kvVars PROVE KvInv'
  OBVIOUS
<1>1. CASE UNCHANGED kvVars
  BY <1>1 DEF kvVars, clerkVars, stateVars, applyVars, raftVars, KvInv, KvTypes,
     ClerkTypes, ServerTypes, RaftTypes, HandlerTypes, Queues, Waits,
     WaitersHaveQueues
<1>2. CASE KvNext
  BY <1>2, RequestInv, CallFailsInv, HandleInv, AwaitCommandInv, PopCommandInv,
     TimeOutInv, ExecuteGetInv, ReplyInv, TakeCommandInv, ExecutePutInv,
     SendMessageInv, ChooseInv DEF KvNext
<1> QED
  BY <1>1, <1>2

\* Every variable of the service keeps the type of the member it stands for,
\* and a clerk only ever calls a server of its ring (clerk.h, kvServer.h).
THEOREM KvTypeCorrect == KvSpec => []KvTypeOK
<1>1. KvInv => KvTypeOK
  BY DEF KvInv, KvTypes, ClerkTypes, ServerTypes, RaftTypes, HandlerTypes,
     Queues, KvTypeOK
<1> QED
  BY <1>1, KvInitInv, KvStepInv, PTL DEF KvSpec

\* No handler's queue is deleted while it waits, although Get and PutAppend
\* erase waitApplyCh[raftIndex] whoever waits on it: Start never gives an index
\* to two handlers of a server.
THEOREM QueuesAreKept == KvSpec => []WaitersHaveQueues
<1>1. KvInv => WaitersHaveQueues
  BY DEF KvInv, Waits
<1> QED
  BY <1>1, KvInitInv, KvStepInv, PTL DEF KvSpec
-----------------------------------------------------------------------------
(* The requests of the clerks, wherever they are, and what the log has of  *)
(* them.                                                                   *)

\* No two clerks draw the same m_clientId: they are of one process.
UuidsDiffer == \A c, d \in Client : Uuid(c) = Uuid(d) => c = d

\* The requests that clerks, calls, handlers and Raft have.
Known ==
    {calling[c].op : c \in {d \in Client : calling[d] # Idle}}
    \cup {call.op : call \in calls} \cup {h.call.op : h \in handlers}
    \cup {e.op : e \in started} \cup {chosen[i] : i \in 1..Len(chosen)}

\* Each is one its clerk has made.
KnownFits ==
    \A op \in Known :
        /\ op \in Ops /\ op.client = Uuid(op.clerk)
        /\ op.request \in 1..m_requestId[op.clerk]

\* A clerk and its request id name one request.
KnownOnce ==
    \A a, b \in Known : a.clerk = b.clerk /\ a.request = b.request => a = b

\* A clerk remembers its last request.
ClerksKnow ==
    \A c \in Client :
        /\ m_requestId[c] <= MaxRequests[c]
        /\ m_requestId[c] = 0 <=> calling[c] = Idle
        /\ m_requestId[c] > 0 => /\ calling[c].op.clerk = c
                                 /\ calling[c].op.request = m_requestId[c]

KnownInv == KnownFits /\ KnownOnce /\ ClerksKnow

\* The command at index i is the request r of clerk c.
IsRequest(i, c, r) == chosen[i].clerk = c /\ chosen[i].request = r

\* A clerk's request is chosen after it began, when all before it are chosen,
\* and the log has a clerk's requests in their order.
LogInv ==
    /\ \A c \in Client : chosenBefore[c] <= Len(chosen)
    /\ \A s \in Server : applied[s] <= Len(chosen)
    /\ \A c \in Client : \A i \in 1..Len(chosen) :
            IsRequest(i, c, m_requestId[c]) => i > chosenBefore[c]
    /\ \A c \in Client : \A r \in 1..(m_requestId[c] - 1) :
            \E i \in 1..Len(chosen) : IsRequest(i, c, r)
    /\ \A i \in 1..Len(chosen) : \A r \in 1..(chosen[i].request - 1) :
            \E j \in 1..(i - 1) : IsRequest(j, chosen[i].clerk, r)

\* The last request of clerk c is chosen, and executed at s or about to be.
Reached(s, c) ==
    \E i \in 1..Len(chosen) :
        i <= applied[s] + 1 /\ IsRequest(i, c, m_requestId[c])

\* Nothing is recorded of a clerk that it has not asked for, and its last
\* request only when it is reached.
RecordedReached ==
    \A s \in Server, c \in Client :
        /\ m_lastRequestId[s][Uuid(c)] <= m_requestId[c]
        /\ m_requestId[c] > 0 /\ m_lastRequestId[s][Uuid(c)] = m_requestId[c]
            => Reached(s, c)

\* Only Gets read, and what a handler answers is reached.
Answering(h) == h.at = "read" \/ (h.at = "erase" /\ h.err \in {"OK", "ErrNoKey"})

AnsweredReached ==
    \A h \in handlers :
        /\ h.at = "read" => h.call.op.kind = "Get"
        /\ Answering(h) /\ h.call.op.request = m_requestId[h.call.op.clerk]
            => Reached(h.call.server, h.call.op.clerk)

\* The queue of an index has what was chosen at it.
QueuesHoldLog ==
    \A s \in Server : \A i \in DOMAIN waitApplyCh[s] :
        \A k \in 1..Len(waitApplyCh[s][i]) :
            /\ i <= applied[s] /\ i \in 1..Len(chosen)
            /\ waitApplyCh[s][i][k] = chosen[i]

\* A clerk that is answered finds its request chosen.
DoneIsChosen ==
    \A c \in Client : NoCall(c) /\ m_requestId[c] > 0 =>
        \E i \in 1..Len(chosen) : IsRequest(i, c, m_requestId[c])

AnswerInv ==
    RecordedReached /\ AnsweredReached /\ QueuesHoldLog /\ DoneIsChosen

ClientInv == KvInv /\ KnownInv /\ LogInv /\ AnswerInv

-----------------------------------------------------------------------------
(* What a step leaves alone.                                               *)

\* No clerk turns to another request.
OpsKept ==
    /\ m_requestId' = m_requestId
    /\ \A c \in Client :
        /\ calling'[c] = Idle <=> calling[c] = Idle
        /\ calling[c] # Idle => calling'[c].op = calling[c].op

\* A step that brings no request keeps what is known of the others.
LEMMA KnownKept ==
    ASSUME KnownInv, OpsKept, Known' \subseteq Known
    PROVE  KnownInv'
<1>1. KnownFits'
  BY DEF KnownInv, KnownFits, OpsKept
<1>2. KnownOnce'
  BY DEF KnownInv, KnownOnce
<1>3. ClerksKnow'
  <2> SUFFICES ASSUME NEW c \in Client
               PROVE  /\ m_requestId[c] <= MaxRequests[c]
                      /\ m_requestId[c] = 0 <=> calling'[c] = Idle
                      /\ m_requestId[c] > 0 =>
                            /\ calling'[c].op.clerk = c
                            /\ calling'[c].op.request = m_requestId[c]
    BY DEF ClerksKnow, OpsKept
  <2>1. /\ m_requestId[c] <= MaxRequests[c]
        /\ m_requestId[c] = 0 <=> calling[c] = Idle
        /\ m_requestId[c] > 0 => /\ calling[c].op.clerk = c
                                 /\ calling[c].op.request = m_requestId[c]
    BY DEF KnownInv, ClerksKnow
  <2>2. m_requestId[c] > 0 => m_requestId[c] # 0
    OBVIOUS
  <2> QED
    BY <2>1, <2>2 DEF OpsKept
<1> QED
  BY <1>1, <1>2, <1>3 DEF KnownInv

\* Nor does one that moves none of the five places requests are in.
LEMMA KnownSame ==
    ASSUME OpsKept,
           {call.op : call \in calls'} \subseteq Known,
           {h.call.op : h \in handlers'} \subseteq Known,
           {e.op : e \in started'} \subseteq Known,
           {chosen'[i] : i \in 1..Len(chosen')} \subseteq Known
    PROVE  Known' \subseteq Known
<1>1. {calling'[c].op : c \in {d \in Client : calling'[d] # Idle}}
        = {calling[c].op : c \in {d \in Client : calling[d] # Idle}}
  BY DEF OpsKept
<1>2. {calling[c].op : c \in {d \in Client : calling[d] # Idle}} \subseteq Known
  BY DEF Known
<1> QED
  BY <1>1, <1>2 DEF Known

\* The places, one by one.
LEMMA KnownPlaces ==
    /\ \A c \in Client : calling[c] # Idle => calling[c].op \in Known
    /\ \A call \in calls : call.op \in Known
    /\ \A h \in handlers : h.call.op \in Known
    /\ \A e \in started : e.op \in Known
    /\ \A i \in 1..Len(chosen) : chosen[i] \in Known
  BY DEF Known

\* The log, when nothing is chosen or asked for.
LEMMA LogKept ==
    ASSUME LogInv, UNCHANGED <<chosen, chosenBefore, m_requestId>>,
           \A s \in Server : applied'[s] <= Len(chosen)
    PROVE  LogInv'
  BY DEF LogInv, IsRequest

\* What is known of a clerk's variables, and of the sizes.
LEMMA ClientTypes ==
    ASSUME KvInv
    PROVE  /\ m_requestId \in [Client -> Nat] /\ chosenBefore \in [Client -> Nat]
           /\ calling \in [Client -> Calls \cup {Idle}] /\ calls \subseteq Calls
           /\ applied \in [Server -> Nat] /\ chosen \in Seq(Ops) /\ Len(chosen) \in Nat
           /\ m_lastRequestId \in [Server -> [{Uuid(c) : c \in Client} -> Nat]]
           /\ handlers \subseteq Handlers
           /\ \A i \in 1..Len(chosen) : chosen[i] \in Ops
<1>1. /\ m_requestId \in [Client -> Nat] /\ chosenBefore \in [Client -> Nat]
      /\ calling \in [Client -> Calls \cup {Idle}] /\ calls \subseteq Calls
  BY DEF KvInv, KvTypes, ClerkTypes
<1>2. /\ applied \in [Server -> Nat]
      /\ m_lastRequestId \in [Server -> [{Uuid(c) : c \in Client} -> Nat]]
  BY DEF KvInv, KvTypes, ServerTypes
<1>3. chosen \in Seq(Ops)
  BY DEF KvInv, KvTypes, RaftTypes
<1>4. handlers \subseteq Handlers
  BY DEF KvInv, KvTypes, HandlerTypes
<1>5. Len(chosen) \in Nat /\ \A i \in 1..Len(chosen) : chosen[i] \in Ops
  BY <1>3
<1> QED
  BY <1>1, <1>2, <1>3, <1>4, <1>5, Zenon

\* A request that is reached stays so.
LEMMA ReachedKept ==
    ASSUME KvInv, NEW s \in Server, NEW c \in Client, Reached(s, c),
           UNCHANGED <<m_requestId, chosen>>,
           applied'[s] \in Nat, applied'[s] >= applied[s]
    PROVE  Reached(s, c)'
<1>1. PICK i \in 1..Len(chosen) :
            i <= applied[s] + 1 /\ IsRequest(i, c, m_requestId[c])
  BY DEF Reached
<1>2. i <= applied'[s] + 1 /\ IsRequest(i, c, m_requestId[c])'
  BY <1>1, ClientTypes DEF IsRequest
<1> QED
  BY <1>2 DEF Reached

\* What is recorded stays reached, when only a server's applied grows.
LEMMA RecordedKept ==
    ASSUME KvInv, RecordedReached,
           UNCHANGED <<m_lastRequestId, m_requestId, chosen>>,
           \A s \in Server : applied'[s] \in Nat /\ applied'[s] >= applied[s]
    PROVE  RecordedReached'
  BY ReachedKept DEF RecordedReached

\* So does what the handlers answer, of whom none goes on.
LEMMA AnsweredKept ==
    ASSUME KvInv, AnsweredReached, handlers' \subseteq handlers,
           UNCHANGED <<m_requestId, chosen>>,
           \A s \in Server : applied'[s] \in Nat /\ applied'[s] >= applied[s]
    PROVE  AnsweredReached'
<1> SUFFICES ASSUME NEW h \in handlers'
             PROVE  /\ h.at = "read" => h.call.op.kind = "Get"
                    /\ Answering(h) /\ h.call.op.request = m_requestId[h.call.op.clerk]
                        => Reached(h.call.server, h.call.op.clerk)'
  BY DEF AnsweredReached, Answering
<1>1. h \in handlers /\ h.call.server \in Server /\ h.call.op.clerk \in Client
  BY HandlerFacts DEF Ops
<1> QED
  BY <1>1, ReachedKept DEF AnsweredReached

\* Whoever is answered by now has been answered before.
LEMMA DoneKept ==
    ASSUME DoneIsChosen, UNCHANGED <<m_requestId, chosen>>,
           \A c \in Client : NoCall(c)' => NoCall(c)
    PROVE  DoneIsChosen'
  BY DEF DoneIsChosen, IsRequest

\* The request of a handler.
LEMMA HandlerRequest ==
    ASSUME ClientInv, NEW h \in handlers
    PROVE  /\ h.call.op \in Known /\ h.call.op \in Ops /\ h.call.server \in Server
           /\ h.call.op.clerk \in Client /\ h.call.op.request \in Nat
           /\ h.call.op.client = Uuid(h.call.op.clerk)
           /\ h.call.op.request \in 1..m_requestId[h.call.op.clerk]
           /\ m_requestId[h.call.op.clerk] \in Nat
<1>1. h.call.op \in Known
  BY KnownPlaces
<1>2. KvInv
  BY DEF ClientInv
<1>3. h.call.op \in Ops /\ h.call.server \in Server
  BY <1>2, HandlerFacts
<1> QED
  BY <1>1, <1>2, <1>3, ClientTypes DEF ClientInv, KnownInv, KnownFits, Ops

\* A handler that goes on with the same call, and answers what is reached.
LEMMA HandlerGoesOn ==
    ASSUME ClientInv, NEW h \in handlers, NEW next, Step(h, next),
           next.call = h.call,
           UNCHANGED <<clerkVars, calls, applied, raftVars>>,
           next.at = "read" => h.call.op.kind = "Get",
           Answering(next) /\ h.call.op.request = m_requestId[h.call.op.clerk]
               => Reached(h.call.server, h.call.op.clerk)
    PROVE  KnownInv' /\ LogInv' /\ AnsweredReached' /\ DoneIsChosen'
<1> USE DEF ClientInv
<1>1. /\ m_requestId' = m_requestId /\ calling' = calling /\ calls' = calls
      /\ chosenBefore' = chosenBefore /\ chosen' = chosen /\ started' = started
      /\ applied' = applied /\ handlers' = (handlers \ {h}) \cup {next}
  BY DEF clerkVars, raftVars, Step
<1>2. KnownInv'
  <2>1. OpsKept
    BY <1>1 DEF OpsKept
  <2>2. {g.call.op : g \in handlers'} \subseteq Known
    BY <1>1, KnownPlaces
  <2>3. /\ {call.op : call \in calls'} \subseteq Known
        /\ {e.op : e \in started'} \subseteq Known
        /\ {chosen'[i] : i \in 1..Len(chosen')} \subseteq Known
    BY <1>1, KnownPlaces
  <2> QED
    BY <2>1, <2>2, <2>3, KnownSame, KnownKept
<1>3. LogInv'
  BY <1>1, LogKept DEF LogInv
<1>4. AnsweredReached'
  <2> SUFFICES ASSUME NEW g \in handlers'
               PROVE  /\ g.at = "read" => g.call.op.kind = "Get"
                      /\ Answering(g) /\ g.call.op.request = m_requestId[g.call.op.clerk]
                          => Reached(g.call.server, g.call.op.clerk)'
    BY <1>1 DEF AnsweredReached, Answering
  <2>1. g.call.server \in Server /\ g.call.op.clerk \in Client
    BY <1>1, HandlerRequest
  <2>2. /\ g.at = "read" => g.call.op.kind = "Get"
        /\ Answering(g) /\ g.call.op.request = m_requestId[g.call.op.clerk]
            => Reached(g.call.server, g.call.op.clerk)
    BY <1>1 DEF AnswerInv, AnsweredReached
  <2> QED
    BY <1>1, <2>1, <2>2 DEF Reached, IsRequest
<1>5. DoneIsChosen'
  BY <1>1 DEF AnswerInv, DoneIsChosen, NoCall, IsRequest
<1> QED
  BY <1>2, <1>3, <1>4, <1>5

-----------------------------------------------------------------------------
(* The clerks' steps.                                                      *)

\* A clerk that asks again asks for the same.
LEMMA RetryEffects ==
    ASSUME ClientInv, NEW c \in Client, calling[c] # Idle, NEW s, NEW others,
           Retry(c, s, others), UNCHANGED m_requestId,
           {call.op : call \in others} \subseteq Known
    PROVE  /\ OpsKept /\ {call.op : call \in calls'} \subseteq Known
           /\ \A d \in Client : NoCall(d)' => NoCall(d)
<1> DEFINE new == [op |-> calling[c].op, server |-> s,
                   attempt |-> calling[c].attempt + 1]
<1>1. calling' = [calling EXCEPT ![c] = new] /\ calls' = others \cup {new}
  BY DEF Retry, Call
<1>2. /\ calling \in [Client -> Calls \cup {Idle}] /\ calling[c] \in Calls
      /\ calling[c].attempt \in Nat
  BY ClientTypes DEF ClientInv, Calls
<1>3. new.op = calling[c].op /\ new.attempt # 0 /\ new # Idle
  BY <1>2 DEF Idle
<1> HIDE DEF new
<1>4. OpsKept
  BY <1>1, <1>2, <1>3 DEF OpsKept
<1>5. {call.op : call \in calls'} \subseteq Known
  BY <1>1, <1>3, KnownPlaces
<1>6. \A d \in Client : NoCall(d)' => NoCall(d)
  BY <1>1, <1>2, <1>3 DEF NoCall
<1> QED
  BY <1>4, <1>5, <1>6

\* A clerk that is answered keeps its request, and waits no longer only when
\* the answer is to its last call and says so.
LEMMA AnswerEffects ==
    ASSUME ClientInv, NEW call \in Calls, NEW err, NEW others,
           Answer(call, err, others), {x.op : x \in others} \subseteq Known
    PROVE  /\ OpsKept /\ chosenBefore' = chosenBefore
           /\ {x.op : x \in calls'} \subseteq Known
           /\ \A d \in Client : NoCall(d)' =>
                NoCall(d) \/ /\ err \in {"OK", "ErrNoKey"}
                             /\ d = call.op.clerk /\ calling[d] = call
<1> DEFINE c == call.op.clerk
<1>1. c \in Client /\ call # Idle /\ calling \in [Client -> Calls \cup {Idle}]
  <2>1. c \in Client /\ call # Idle
    BY DEF Calls, Ops, Idle
  <2>2. calling \in [Client -> Calls \cup {Idle}]
    BY ClientTypes DEF ClientInv
  <2> QED
    BY <2>1, <2>2
<1>2. CASE calling[c] # call /\ calls' = others /\ UNCHANGED clerkVars
  BY <1>2 DEF OpsKept, clerkVars, NoCall
<1>3. CASE /\ calling[c] = call
           /\ Retry(c, NextServer(call.server), others)
           /\ UNCHANGED <<m_requestId, m_recentLeaderId, chosenBefore>>
  BY <1>1, <1>3, RetryEffects
<1>4. CASE /\ calling[c] = call /\ err \in {"OK", "ErrNoKey"}
           /\ calling' = [calling EXCEPT ![c].attempt = 0]
           /\ calls' = others
           /\ UNCHANGED <<m_requestId, chosenBefore>>
  <2> DEFINE new == [call EXCEPT !.attempt = 0]
  <2>1. new \in Calls /\ new.op = call.op /\ new # Idle
    BY DEF Calls, Idle
  <2>2. calling' = [calling EXCEPT ![c] = new]
    BY <1>1, <1>4
  <2> HIDE DEF new
  <2>3. OpsKept
    BY <1>1, <1>4, <2>1, <2>2 DEF OpsKept
  <2>4. \A d \in Client : NoCall(d)' => NoCall(d) \/ d = c
    BY <1>1, <2>2 DEF NoCall
  <2> QED
    BY <1>4, <2>3, <2>4
<1> QED
  BY <1>2, <1>3, <1>4 DEF Answer

\* A call fails, and the clerk makes another.
LEMMA CallFailsClient ==
    ASSUME ClientInv, NEW c \in Client, CallFails(c)
    PROVE  KnownInv' /\ LogInv' /\ AnswerInv'
<1> USE DEF ClientInv
<1>1. /\ UNCHANGED <<m_requestId, chosenBefore, handlers, applied, chosen, started>>
      /\ UNCHANGED <<m_lastRequestId, waitApplyCh>>
  BY DEF CallFails, stateVars, applyVars, raftVars
<1>2. calling[c] # Idle
  BY DEF CallFails, NoCall, Idle
<1>3. {call.op : call \in calls} \subseteq Known
  BY KnownPlaces
<1>4. PICK s : Retry(c, s, calls)
  BY DEF CallFails
<1>5. /\ OpsKept /\ {call.op : call \in calls'} \subseteq Known
      /\ \A d \in Client : NoCall(d)' => NoCall(d)
  BY <1>1, <1>2, <1>3, <1>4, RetryEffects
<1>6. KnownInv'
  BY <1>1, <1>5, KnownPlaces, KnownSame, KnownKept
<1>7. \A p \in Server : applied'[p] \in Nat /\ applied'[p] >= applied[p]
                            /\ applied'[p] <= Len(chosen)
  BY <1>1, ClientTypes DEF LogInv
<1>8. LogInv'
  BY <1>1, <1>7, LogKept
<1>9. RecordedReached' /\ AnsweredReached' /\ DoneIsChosen'
  BY <1>1, <1>5, <1>7, RecordedKept, AnsweredKept, DoneKept DEF AnswerInv
<1>10. QueuesHoldLog'
  BY <1>1 DEF AnswerInv, QueuesHoldLog
<1> QED
  BY <1>6, <1>8, <1>9, <1>10 DEF AnswerInv

\* A clerk asks for something new: all it asked for before is chosen, and
\* nothing is known of the new request.
LEMMA RequestClient ==
    ASSUME ClientInv, NEW c \in Client, NEW kind \in {"Get", "Put", "Append"},
           NEW key \in Keys, Request(c, kind, key)
    PROVE  KnownInv' /\ LogInv' /\ AnswerInv'
<1> USE DEF ClientInv
<1> DEFINE r == m_requestId[c] + 1
           op == [clerk |-> c, client |-> Uuid(c), request |-> r,
                  kind |-> kind, key |-> key]
           new == [op |-> op, server |-> m_recentLeaderId[c], attempt |-> 1]
<1>1. /\ calling' = [calling EXCEPT ![c] = new] /\ calls' = calls \cup {new}
      /\ m_requestId' = [m_requestId EXCEPT ![c] = r]
      /\ chosenBefore' = [chosenBefore EXCEPT ![c] = Len(chosen)]
      /\ NoCall(c) /\ m_requestId[c] < MaxRequests[c]
  BY DEF Request, Call
<1>2. UNCHANGED <<handlers, m_lastRequestId, waitApplyCh, applied, chosen, started>>
  BY DEF Request, stateVars, applyVars, raftVars
<1>3. /\ m_requestId \in [Client -> Nat] /\ chosenBefore \in [Client -> Nat]
      /\ calling \in [Client -> Calls \cup {Idle}]
      /\ applied \in [Server -> Nat] /\ Len(chosen) \in Nat
      /\ MaxRequests \in [Client -> Nat]
  BY ClientTypes, KvBoundAssumption
<1>4. r \in Nat /\ r > m_requestId[c] /\ r > 0 /\ r <= MaxRequests[c]
  BY <1>1, <1>3
<1>5. /\ op \in Ops /\ op.clerk = c /\ op.client = Uuid(c) /\ op.request = r
      /\ op.kind = kind
  BY <1>4, UuidType DEF Ops
<1>6. new.op = op /\ new # Idle /\ new.attempt # 0
  BY DEF Idle
<1> HIDE DEF op, new, r
<1>7. Known' \subseteq Known \cup {op}
  <2>1. {calling'[d].op : d \in {e \in Client : calling'[e] # Idle}}
            \subseteq Known \cup {op}
    BY <1>1, <1>3, <1>6, KnownPlaces
  <2>2. {call.op : call \in calls'} \subseteq Known \cup {op}
    BY <1>1, <1>6, KnownPlaces
  <2>3. /\ {h.call.op : h \in handlers'} \subseteq Known
        /\ {e.op : e \in started'} \subseteq Known
        /\ {chosen'[i] : i \in 1..Len(chosen')} \subseteq Known
    BY <1>2, KnownPlaces
  <2> QED
    BY <2>1, <2>2, <2>3 DEF Known
<1>8. \A a \in Known : /\ a \in Ops /\ a.request \in Nat
                       /\ a.clerk = c => a.request < r
  <2> SUFFICES ASSUME NEW a \in Known
               PROVE  /\ a \in Ops /\ a.request \in Nat
                      /\ a.clerk = c => a.request < r
    OBVIOUS
  <2>1. a \in Ops /\ a.request \in 1..m_requestId[a.clerk] /\ a.clerk \in Client
    BY DEF KnownInv, KnownFits, Ops
  <2> QED
    BY <1>3, <1>4, <2>1
<1>9. KnownInv'
  <2>1. KnownFits'
    <3> SUFFICES ASSUME NEW a \in Known'
                 PROVE  /\ a \in Ops /\ a.client = Uuid(a.clerk)
                        /\ a.request \in 1..m_requestId'[a.clerk]
      BY DEF KnownFits
    <3>1. CASE a = op
      BY <1>1, <1>3, <1>4, <1>5, <3>1
    <3>2. CASE a \in Known
      <4>1. /\ a \in Ops /\ a.client = Uuid(a.clerk)
            /\ a.request \in 1..m_requestId[a.clerk] /\ a.clerk \in Client
        BY <3>2 DEF KnownInv, KnownFits, Ops
      <4>2. a.request \in 1..m_requestId'[a.clerk]
        BY <1>1, <1>3, <1>4, <4>1
      <4> QED
        BY <4>1, <4>2
    <3> QED
      BY <1>7, <3>1, <3>2
  <2>2. KnownOnce'
    <3> SUFFICES ASSUME NEW a \in Known \cup {op}, NEW b \in Known \cup {op},
                        a.clerk = b.clerk, a.request = b.request
                 PROVE  a = b
      BY <1>7 DEF KnownOnce
    <3>1. CASE a \in Known /\ b \in Known
      BY <3>1 DEF KnownInv, KnownOnce
    <3>2. CASE (a = op) # (b = op)
      BY <1>4, <1>5, <1>8, <3>2
    <3> QED
      BY <3>1, <3>2
  <2>3. ClerksKnow'
    <3> SUFFICES ASSUME NEW d \in Client
                 PROVE  /\ m_requestId'[d] <= MaxRequests[d]
                        /\ m_requestId'[d] = 0 <=> calling'[d] = Idle
                        /\ m_requestId'[d] > 0 =>
                                /\ calling'[d].op.clerk = d
                                /\ calling'[d].op.request = m_requestId'[d]
      BY DEF ClerksKnow
    <3>1. CASE d = c
      BY <1>1, <1>3, <1>4, <1>5, <1>6, <3>1
    <3>2. CASE d # c
      BY <1>1, <1>3, <3>2 DEF KnownInv, ClerksKnow
    <3> QED
      BY <3>1, <3>2
  <2> QED
    BY <2>1, <2>2, <2>3 DEF KnownInv
<1>10. \A i \in 1..Len(chosen) : chosen[i].clerk = c => chosen[i].request < r
  BY <1>8, KnownPlaces
<1>11. \A q \in 1..(r - 1) : \E i \in 1..Len(chosen) : IsRequest(i, c, q)
  <2> SUFFICES ASSUME NEW q \in 1..(r - 1)
               PROVE  \E i \in 1..Len(chosen) : IsRequest(i, c, q)
    OBVIOUS
  <2>1. q \in 1..(m_requestId[c] - 1) \/ (q = m_requestId[c] /\ m_requestId[c] > 0)
    BY <1>3 DEF r
  <2>2. CASE q \in 1..(m_requestId[c] - 1)
    BY <2>2 DEF LogInv
  <2>3. CASE q = m_requestId[c] /\ m_requestId[c] > 0
    BY <1>1, <2>3 DEF AnswerInv, DoneIsChosen
  <2> QED
    BY <2>1, <2>2, <2>3
<1>12. LogInv'
  <2>1. /\ \A d \in Client : chosenBefore'[d] <= Len(chosen)
        /\ \A s \in Server : applied[s] <= Len(chosen)
    BY <1>1, <1>3 DEF LogInv
  <2>2. ASSUME NEW d \in Client, NEW i \in 1..Len(chosen),
               IsRequest(i, d, m_requestId'[d])
        PROVE  i > chosenBefore'[d]
    <3>1. d # c
      BY <1>1, <1>3, <1>4, <1>10, <2>2 DEF IsRequest
    <3> QED
      BY <1>1, <1>3, <2>2, <3>1 DEF LogInv
  <2>3. \A d \in Client : \A q \in 1..(m_requestId'[d] - 1) :
            \E i \in 1..Len(chosen) : IsRequest(i, d, q)
    BY <1>1, <1>3, <1>11 DEF LogInv
  <2> QED
    BY <1>2, <2>1, <2>2, <2>3 DEF LogInv, IsRequest
<1>13. RecordedReached'
  <2> SUFFICES ASSUME NEW s \in Server, NEW d \in Client
               PROVE  /\ m_lastRequestId[s][Uuid(d)] <= m_requestId'[d]
                      /\ m_requestId'[d] > 0
                         /\ m_lastRequestId[s][Uuid(d)] = m_requestId'[d]
                            => Reached(s, d)'
    BY <1>2 DEF RecordedReached
  <2>1. /\ m_lastRequestId[s][Uuid(d)] \in Nat
        /\ m_lastRequestId[s][Uuid(d)] <= m_requestId[d]
    BY ClientTypes DEF AnswerInv, RecordedReached
  <2>2. CASE d = c
    BY <1>1, <1>3, <1>4, <2>1, <2>2
  <2>3. CASE d # c
    <3>1. m_requestId'[d] = m_requestId[d]
      BY <1>1, <1>3, <2>3
    <3>2. Reached(s, d) => Reached(s, d)'
      BY <1>2, <3>1 DEF Reached, IsRequest
    <3> QED
      BY <2>1, <3>1, <3>2 DEF AnswerInv, RecordedReached
  <2> QED
    BY <2>2, <2>3
<1>14. AnsweredReached'
  <2> SUFFICES ASSUME NEW h \in handlers
               PROVE  /\ h.at = "read" => h.call.op.kind = "Get"
                      /\ Answering(h) /\ h.call.op.request = m_requestId'[h.call.op.clerk]
                            => Reached(h.call.server, h.call.op.clerk)'
    BY <1>2 DEF AnsweredReached, Answering
  <2> DEFINE d == h.call.op.clerk
  <2>1. /\ h.call.op \in Known /\ d \in Client /\ h.call.op.request \in Nat
    BY HandlerRequest
  <2>2. CASE d = c
    BY <1>1, <1>3, <1>4, <1>8, <2>1, <2>2 DEF AnswerInv, AnsweredReached
  <2>3. CASE d # c
    <3>1. m_requestId'[d] = m_requestId[d]
      BY <1>1, <1>3, <2>1, <2>3
    <3>2. Reached(h.call.server, d) => Reached(h.call.server, d)'
      BY <1>2, <3>1 DEF Reached, IsRequest
    <3> QED
      BY <3>1, <3>2 DEF AnswerInv, AnsweredReached
  <2> QED
    BY <2>2, <2>3
<1>15. QueuesHoldLog'
  BY <1>2 DEF AnswerInv, QueuesHoldLog
<1>16. DoneIsChosen'
  <2> SUFFICES ASSUME NEW d \in Client, NoCall(d)', m_requestId'[d] > 0
               PROVE  \E i \in 1..Len(chosen) : IsRequest(i, d, m_requestId'[d])
    BY <1>2 DEF DoneIsChosen, IsRequest
  <2>1. d # c
    BY <1>1, <1>3, <1>6 DEF NoCall
  <2> QED
    BY <1>1, <1>3, <2>1 DEF AnswerInv, DoneIsChosen, NoCall
<1> QED
  BY <1>9, <1>12, <1>13, <1>14, <1>15, <1>16 DEF AnswerInv

-----------------------------------------------------------------------------
(* The handlers' steps.                                                    *)

\* A request is refused, or waits for its index.
LEMMA HandleClient ==
    ASSUME ClientInv, NEW call \in calls, Handle(call)
    PROVE  KnownInv' /\ LogInv' /\ AnswerInv'
<1> USE DEF ClientInv
<1>1. /\ UNCHANGED <<m_lastRequestId, waitApplyCh, applied>>
      /\ call \in Calls /\ call.op \in Known
      /\ applied \in [Server -> Nat]
      /\ {x.op : x \in calls \ {call}} \subseteq Known
  BY ClientTypes, KnownPlaces DEF Handle, stateVars, applyVars
<1>2. \A s \in Server : applied'[s] \in Nat /\ applied'[s] >= applied[s]
                            /\ applied'[s] <= Len(chosen)
  BY <1>1 DEF LogInv
<1>3. CASE StartRefused(call)
  <2>1. /\ OpsKept /\ chosenBefore' = chosenBefore
        /\ {x.op : x \in calls'} \subseteq Known
        /\ \A d \in Client : NoCall(d)' => NoCall(d)
    <3>1. Answer(call, "ErrWrongLeader", calls \ {call})
      BY <1>3 DEF StartRefused
    <3>2. "ErrWrongLeader" \notin {"OK", "ErrNoKey"}
      OBVIOUS
    <3> QED
      BY <1>1, <3>1, <3>2, AnswerEffects
  <2>2. UNCHANGED <<handlers, chosen, started>> /\ m_requestId' = m_requestId
    BY <1>3, <2>1 DEF StartRefused, raftVars, OpsKept
  <2>3. KnownInv'
    BY <2>1, <2>2, KnownPlaces, KnownSame, KnownKept
  <2>4. LogInv'
    BY <1>2, <2>1, <2>2, LogKept
  <2>5. RecordedReached' /\ AnsweredReached' /\ DoneIsChosen'
    BY <1>1, <1>2, <2>1, <2>2, RecordedKept, AnsweredKept, DoneKept DEF AnswerInv
  <2>6. QueuesHoldLog'
    BY <1>1, <2>2 DEF AnswerInv, QueuesHoldLog
  <2> QED
    BY <2>3, <2>4, <2>5, <2>6 DEF AnswerInv
<1>4. CASE StartAccepted(call)
  <2>1. PICK e \in LogEnds(call.server) :
            /\ started' = started \cup {[index |-> e + 1, op |-> call.op]}
            /\ handlers' = handlers \cup
                    {[call |-> call, index |-> e + 1, at |-> "started",
                      err |-> "none"]}
            /\ calls' = calls \ {call}
            /\ UNCHANGED <<clerkVars, chosen>>
    BY <1>4 DEF StartAccepted
  <2> DEFINE new == [call |-> call, index |-> e + 1, at |-> "started",
                     err |-> "none"]
  <2>2. /\ new.call = call /\ ~Answering(new) /\ new.at # "read"
        /\ handlers' = handlers \cup {new}
    BY <2>1 DEF Answering
  <2> HIDE DEF new
  <2>3. /\ m_requestId' = m_requestId /\ calling' = calling
        /\ chosenBefore' = chosenBefore /\ chosen' = chosen
    BY <2>1 DEF clerkVars
  <2>4. OpsKept
    BY <2>3 DEF OpsKept
  <2>5. KnownInv'
    <3>1. {h.call.op : h \in handlers'} \subseteq Known
      BY <1>1, <2>2, KnownPlaces
    <3>2. {e2.op : e2 \in started'} \subseteq Known
      BY <1>1, <2>1, KnownPlaces
    <3>3. /\ {x.op : x \in calls'} \subseteq Known
          /\ {chosen'[i] : i \in 1..Len(chosen')} \subseteq Known
      BY <1>1, <2>1, <2>3, KnownPlaces
    <3> QED
      BY <2>4, <3>1, <3>2, <3>3, KnownSame, KnownKept
  <2>6. LogInv'
    BY <1>2, <2>3, LogKept
  <2>7. RecordedReached' /\ DoneIsChosen'
    BY <1>1, <1>2, <2>3, RecordedKept, DoneKept DEF AnswerInv, NoCall
  <2>8. AnsweredReached'
    BY <1>1, <2>2, <2>3 DEF AnswerInv, AnsweredReached, Answering, Reached, IsRequest
  <2>9. QueuesHoldLog'
    BY <1>1, <2>3 DEF AnswerInv, QueuesHoldLog
  <2> QED
    BY <2>5, <2>6, <2>7, <2>8, <2>9 DEF AnswerInv
<1> QED
  BY <1>3, <1>4 DEF Handle

\* A queue that is made is empty.
LEMMA AwaitCommandClient ==
    ASSUME ClientInv, NEW h \in handlers, AwaitCommand(h)
    PROVE  KnownInv' /\ LogInv' /\ AnswerInv'
<1> USE DEF ClientInv
<1> DEFINE s == h.call.server
           next == [h EXCEPT !.at = "waiting"]
           q == [i \in DOMAIN waitApplyCh[s] \cup {h.index} |->
                    IF i \in DOMAIN waitApplyCh[s] THEN waitApplyCh[s][i]
                                                   ELSE <<>>]
<1>1. /\ Step(h, next) /\ waitApplyCh' = [waitApplyCh EXCEPT ![s] = q]
      /\ UNCHANGED <<clerkVars, calls, applied, raftVars>>
      /\ UNCHANGED <<m_lastRequestId, m_requestId, chosen, applied>>
  BY DEF AwaitCommand, clerkVars, raftVars, applyVars, stateVars
<1>2. next.call = h.call /\ next.at # "read" /\ ~Answering(next)
  BY HandlerFacts DEF Handlers, Answering
<1>3. KnownInv' /\ LogInv' /\ AnsweredReached' /\ DoneIsChosen'
  BY <1>1, <1>2, HandlerGoesOn
<1>4. RecordedReached'
  BY <1>1, ClientTypes, RecordedKept DEF AnswerInv
<1>5. QueuesHoldLog'
  <2>1. waitApplyCh = [p \in Server |-> waitApplyCh[p]] /\ s \in Server
    BY HandlerFacts
  <2>2. \A i \in DOMAIN q : \A k \in 1..Len(q[i]) :
            i \in DOMAIN waitApplyCh[s] /\ q[i] = waitApplyCh[s][i]
    OBVIOUS
  <2> HIDE DEF q
  <2>3. \A p \in Server : waitApplyCh'[p] = IF p = s THEN q ELSE waitApplyCh[p]
    BY <1>1, <2>1
  <2> QED
    BY <1>1, <2>2, <2>3 DEF AnswerInv, QueuesHoldLog
<1> QED
  BY <1>3, <1>4, <1>5 DEF AnswerInv

\* A queue of which a command is taken.
LEMMA PoppedQueue ==
    ASSUME NEW q \in Seq(Ops), q # <<>>
    PROVE  /\ Len(q) \in Nat /\ Len(q) >= 1 /\ Head(q) = q[1]
           /\ Len(Tail(q)) = Len(q) - 1
           /\ \A k \in 1..Len(Tail(q)) : k + 1 \in 1..Len(q) /\ Tail(q)[k] = q[k + 1]
  OBVIOUS

\* A handler that finds its own command finds it chosen, at an index that its
\* server has executed.
LEMMA PopCommandClient ==
    ASSUME UuidsDiffer, ClientInv, NEW h \in handlers, PopCommand(h)
    PROVE  KnownInv' /\ LogInv' /\ AnswerInv'
<1> USE DEF ClientInv
<1> DEFINE s == h.call.server
           c == h.call.op.clerk
           queue == waitApplyCh[s][h.index]
<1>1. /\ queue # <<>> /\ h.at = "waiting"
      /\ waitApplyCh' = [waitApplyCh EXCEPT ![s][h.index] = Tail(queue)]
      /\ UNCHANGED <<clerkVars, calls, applied, raftVars>>
      /\ UNCHANGED <<m_lastRequestId, m_requestId, chosen, applied>>
  BY DEF PopCommand, clerkVars, raftVars, applyVars, stateVars
<1>2. /\ waitApplyCh = [p \in Server |-> waitApplyCh[p]] /\ s \in Server
      /\ h.index \in DOMAIN waitApplyCh[s] /\ queue \in Seq(Ops)
      /\ waitApplyCh[s] = [i \in DOMAIN waitApplyCh[s] |-> waitApplyCh[s][i]]
  BY <1>1, HandlerFacts DEF Queues
<1>3. /\ h.index <= applied[s] /\ h.index \in 1..Len(chosen)
      /\ Head(queue) = chosen[h.index]
  <2>1. 1 \in 1..Len(queue) /\ Head(queue) = queue[1]
    BY <1>1, <1>2, PoppedQueue
  <2> QED
    BY <1>2, <2>1 DEF AnswerInv, QueuesHoldLog
<1>4. Answers(h, Head(queue)) /\ h.call.op.request = m_requestId[c] => Reached(s, c)
  <2> SUFFICES ASSUME Answers(h, chosen[h.index]), h.call.op.request = m_requestId[c]
               PROVE  Reached(s, c)
    BY <1>3
  <2>1. chosen[h.index].client = Uuid(chosen[h.index].clerk)
    BY <1>3, KnownPlaces DEF KnownInv, KnownFits
  <2>2. chosen[h.index].clerk \in Client
    BY <1>3, ClientTypes DEF Ops
  <2>3. IsRequest(h.index, c, m_requestId[c])
    BY <2>1, <2>2, HandlerRequest DEF Answers, IsRequest, UuidsDiffer
  <2>4. h.index <= applied[s] + 1
    BY <1>2, <1>3, ClientTypes
  <2> QED
    BY <1>3, <2>3, <2>4 DEF Reached
<1>5. KnownInv' /\ LogInv' /\ AnsweredReached' /\ DoneIsChosen'
  <2>1. CASE Answers(h, Head(queue)) /\ h.call.op.kind = "Get"
                /\ Step(h, [h EXCEPT !.at = "read"])
    <3>1. [h EXCEPT !.at = "read"].call = h.call
      BY HandlerFacts DEF Handlers
    <3> QED
      BY <1>1, <1>4, <2>1, <3>1, HandlerGoesOn
  <2>2. CASE Answers(h, Head(queue)) /\ Writes(h.call.op)
                /\ Step(h, [h EXCEPT !.at = "erase", !.err = "OK"])
    <3> DEFINE next == [h EXCEPT !.at = "erase", !.err = "OK"]
    <3>1. next.call = h.call /\ next.at # "read"
      BY HandlerFacts DEF Handlers
    <3> QED
      BY <1>1, <1>4, <2>2, <3>1, HandlerGoesOn
  <2>3. CASE Step(h, [h EXCEPT !.at = "erase", !.err = "ErrWrongLeader"])
    <3> DEFINE next == [h EXCEPT !.at = "erase", !.err = "ErrWrongLeader"]
    <3>1. next.call = h.call /\ next.at # "read" /\ ~Answering(next)
      BY HandlerFacts DEF Handlers, Answering
    <3> QED
      BY <1>1, <2>3, <3>1, HandlerGoesOn
  <2> QED
    BY <2>1, <2>2, <2>3 DEF PopCommand
<1>6. RecordedReached'
  BY <1>1, ClientTypes, RecordedKept DEF AnswerInv
<1>7. QueuesHoldLog'
  <2> SUFFICES ASSUME NEW p \in Server, NEW i \in DOMAIN waitApplyCh'[p],
                      NEW k \in 1..Len(waitApplyCh'[p][i])
               PROVE  /\ i <= applied[p] /\ i \in 1..Len(chosen)
                      /\ waitApplyCh'[p][i][k] = chosen[i]
    BY <1>1 DEF QueuesHoldLog
  <2>1. CASE p = s /\ i = h.index
    <3>1. waitApplyCh'[p][i] = Tail(queue)
      BY <1>1, <1>2, <2>1
    <3>2. \A j \in 1..Len(Tail(queue)) :
                j + 1 \in 1..Len(queue) /\ Tail(queue)[j] = queue[j + 1]
      BY <1>1, <1>2, PoppedQueue
    <3>3. k + 1 \in 1..Len(queue) /\ waitApplyCh'[p][i][k] = queue[k + 1]
      BY <3>1, <3>2
    <3> QED
      BY <1>2, <2>1, <3>3 DEF AnswerInv, QueuesHoldLog
  <2>2. CASE ~(p = s /\ i = h.index)
    <3>1. i \in DOMAIN waitApplyCh[p] /\ waitApplyCh'[p][i] = waitApplyCh[p][i]
      BY <1>1, <1>2, <2>2
    <3> QED
      BY <3>1 DEF AnswerInv, QueuesHoldLog
  <2> QED
    BY <2>1, <2>2
<1> QED
  BY <1>5, <1>6, <1>7 DEF AnswerInv

\* A handler that trusts the table after it timed out trusts it rightly.
LEMMA TimeOutClient ==
    ASSUME ClientInv, NEW h \in handlers, TimeOut(h)
    PROVE  KnownInv' /\ LogInv' /\ AnswerInv'
<1> USE DEF ClientInv
<1> DEFINE s == h.call.server
           c == h.call.op.clerk
<1>1. /\ UNCHANGED <<clerkVars, calls, applied, raftVars>>
      /\ UNCHANGED <<m_lastRequestId, waitApplyCh, m_requestId, chosen, applied>>
  BY DEF TimeOut, clerkVars, raftVars, applyVars, stateVars
<1>2. ifRequestDuplicate(s, h.call.op) /\ h.call.op.request = m_requestId[c]
        => Reached(s, c)
  <2> SUFFICES ASSUME ifRequestDuplicate(s, h.call.op),
                      h.call.op.request = m_requestId[c]
               PROVE  Reached(s, c)
    OBVIOUS
  <2>1. /\ s \in Server /\ c \in Client /\ h.call.op.client = Uuid(c)
        /\ m_requestId[c] \in Nat /\ h.call.op.request \in 1..m_requestId[c]
    BY HandlerRequest
  <2>2. m_lastRequestId[s][Uuid(c)] \in Nat
    BY <2>1, ClientTypes
  <2>3. /\ m_lastRequestId[s][Uuid(c)] = m_requestId[c]
        /\ m_requestId[c] > 0
    BY <2>1, <2>2 DEF ifRequestDuplicate, AnswerInv, RecordedReached
  <2> QED
    BY <2>1, <2>3 DEF AnswerInv, RecordedReached
<1>3. KnownInv' /\ LogInv' /\ AnsweredReached' /\ DoneIsChosen'
  <2>1. CASE h.call.op.kind = "Get" /\ ifRequestDuplicate(s, h.call.op)
                /\ Step(h, [h EXCEPT !.at = "read"])
    <3>1. [h EXCEPT !.at = "read"].call = h.call
      BY HandlerFacts DEF Handlers
    <3> QED
      BY <1>1, <1>2, <2>1, <3>1, HandlerGoesOn
  <2>2. CASE ifRequestDuplicate(s, h.call.op)
                /\ Step(h, [h EXCEPT !.at = "erase", !.err = "OK"])
    <3> DEFINE next == [h EXCEPT !.at = "erase", !.err = "OK"]
    <3>1. next.call = h.call /\ next.at # "read"
      BY HandlerFacts DEF Handlers
    <3> QED
      BY <1>1, <1>2, <2>2, <3>1, HandlerGoesOn
  <2>3. CASE Step(h, [h EXCEPT !.at = "erase", !.err = "ErrWrongLeader"])
    <3> DEFINE next == [h EXCEPT !.at = "erase", !.err = "ErrWrongLeader"]
    <3>1. next.call = h.call /\ next.at # "read" /\ ~Answering(next)
      BY HandlerFacts DEF Handlers, Answering
    <3> QED
      BY <1>1, <2>3, <3>1, HandlerGoesOn
  <2> QED
    BY <2>1, <2>2, <2>3 DEF TimeOut, MayReadLate
<1>4. RecordedReached'
  BY <1>1, ClientTypes, RecordedKept DEF AnswerInv
<1>5. QueuesHoldLog'
  BY <1>1 DEF AnswerInv, QueuesHoldLog
<1> QED
  BY <1>3, <1>4, <1>5 DEF AnswerInv

\* What a step records of one clerk at one server leaves the others alone.
LEMMA RecordsReached ==
    ASSUME UuidsDiffer, ClientInv, NEW s \in Server, NEW c \in Client,
           NEW r \in 1..m_requestId[c],
           m_lastRequestId' = [m_lastRequestId EXCEPT ![s][Uuid(c)] = r],
           r = m_requestId[c] => Reached(s, c),
           UNCHANGED <<m_requestId, chosen, applied>>
    PROVE  RecordedReached'
<1> USE DEF ClientInv
<1>0. m_lastRequestId \in [Server -> [{Uuid(x) : x \in Client} -> Nat]]
  BY ClientTypes
<1>1. m_requestId[c] \in Nat /\ r \in Nat /\ r <= m_requestId[c]
  BY ClientTypes
<1> SUFFICES ASSUME NEW p \in Server, NEW d \in Client
             PROVE  /\ m_lastRequestId'[p][Uuid(d)] <= m_requestId[d]
                    /\ m_requestId[d] > 0
                       /\ m_lastRequestId'[p][Uuid(d)] = m_requestId[d]
                          => Reached(p, d)
  BY DEF RecordedReached, Reached, IsRequest
<1>2. CASE p = s /\ d = c
  <2>1. m_lastRequestId'[p][Uuid(d)] = r
    BY <1>0, <1>2
  <2> QED
    BY <1>1, <1>2, <2>1
<1>3. CASE ~(p = s /\ d = c)
  <2>1. p = s => Uuid(d) # Uuid(c)
    BY <1>3 DEF UuidsDiffer
  <2>2. m_lastRequestId'[p][Uuid(d)] = m_lastRequestId[p][Uuid(d)]
    BY <1>0, <2>1
  <2> QED
    BY <2>2 DEF AnswerInv, RecordedReached
<1> QED
  BY <1>2, <1>3

\* A Get's handler records the request that it reads for.
LEMMA ExecuteGetClient ==
    ASSUME UuidsDiffer, ClientInv, NEW h \in handlers, ExecuteGet(h)
    PROVE  KnownInv' /\ LogInv' /\ AnswerInv'
<1> USE DEF ClientInv
<1> DEFINE s == h.call.server
           c == h.call.op.clerk
<1>1. /\ UNCHANGED <<clerkVars, calls, applied, raftVars>>
      /\ UNCHANGED <<waitApplyCh, m_requestId, chosen, applied>>
      /\ h.at = "read"
      /\ m_lastRequestId' =
            [m_lastRequestId EXCEPT ![s][h.call.op.client] = h.call.op.request]
  BY DEF ExecuteGet, clerkVars, raftVars, applyVars, stateVars
<1>2. h.call.op.request = m_requestId[c] => Reached(s, c)
  BY <1>1 DEF AnswerInv, AnsweredReached, Answering
<1>3. PICK next \in {[h EXCEPT !.at = "erase", !.err = "ErrNoKey"],
                     [h EXCEPT !.at = "erase", !.err = "OK"]} : Step(h, next)
  BY DEF ExecuteGet
<1>4. next.call = h.call /\ next.at # "read"
  BY HandlerFacts DEF Handlers
<1>5. KnownInv' /\ LogInv' /\ AnsweredReached' /\ DoneIsChosen'
  BY <1>1, <1>2, <1>3, <1>4, HandlerGoesOn
<1>6. RecordedReached'
  <2>1. /\ s \in Server /\ c \in Client /\ h.call.op.client = Uuid(c)
        /\ h.call.op.request \in 1..m_requestId[c]
    BY HandlerRequest
  <2> QED
    BY <1>1, <1>2, <2>1, RecordsReached
<1>7. QueuesHoldLog'
  BY <1>1 DEF AnswerInv, QueuesHoldLog
<1> QED
  BY <1>5, <1>6, <1>7 DEF AnswerInv

\* A clerk that is answered is answered what is reached.
LEMMA ReplyClient ==
    ASSUME ClientInv, NEW h \in handlers, Reply(h)
    PROVE  KnownInv' /\ LogInv' /\ AnswerInv'
<1> USE DEF ClientInv
<1> DEFINE s == h.call.server
           c == h.call.op.clerk
           q == [i \in DOMAIN waitApplyCh[s] \ {h.index} |-> waitApplyCh[s][i]]
<1>1. /\ handlers' = handlers \ {h} /\ h.at = "erase"
      /\ waitApplyCh' = [waitApplyCh EXCEPT ![s] = q]
      /\ Answer(h.call, h.err, calls)
      /\ UNCHANGED <<m_lastRequestId, applied, chosen, started>>
  BY DEF Reply, stateVars, applyVars, raftVars
<1>2. {x.op : x \in calls} \subseteq Known /\ h.call.op \in Known /\ h.call \in Calls
  BY KnownPlaces, HandlerFacts
<1>3. /\ OpsKept /\ chosenBefore' = chosenBefore
      /\ {x.op : x \in calls'} \subseteq Known
      /\ \A d \in Client : NoCall(d)' =>
            NoCall(d) \/ (h.err \in {"OK", "ErrNoKey"} /\ d = c /\ calling[d] = h.call)
  BY <1>1, <1>2, AnswerEffects
<1>4. KnownInv'
  <2>1. /\ {g.call.op : g \in handlers'} \subseteq Known
        /\ {e.op : e \in started'} \subseteq Known
        /\ {chosen'[i] : i \in 1..Len(chosen')} \subseteq Known
    BY <1>1, KnownPlaces
  <2> QED
    BY <1>3, <2>1, KnownSame, KnownKept
<1>5. /\ m_requestId' = m_requestId
      /\ \A p \in Server : applied'[p] \in Nat /\ applied'[p] >= applied[p]
                              /\ applied'[p] <= Len(chosen)
  BY <1>1, <1>3, ClientTypes DEF LogInv, OpsKept
<1>6. LogInv'
  BY <1>1, <1>3, <1>5, LogKept
<1>7. RecordedReached' /\ AnsweredReached'
  BY <1>1, <1>5, RecordedKept, AnsweredKept DEF AnswerInv
<1>8. DoneIsChosen'
  <2> SUFFICES ASSUME NEW d \in Client, NoCall(d)', m_requestId[d] > 0
               PROVE  \E i \in 1..Len(chosen) : IsRequest(i, d, m_requestId[d])
    BY <1>1, <1>5 DEF DoneIsChosen, IsRequest
  <2>1. CASE NoCall(d)
    BY <2>1 DEF AnswerInv, DoneIsChosen
  <2>2. CASE h.err \in {"OK", "ErrNoKey"} /\ d = c /\ calling[d] = h.call
    <3>1. h.call.op.request = m_requestId[c]
      BY <2>2 DEF KnownInv, ClerksKnow
    <3>2. Reached(s, c)
      BY <1>1, <2>2, <3>1 DEF AnswerInv, AnsweredReached, Answering
    <3> QED
      BY <2>2, <3>2 DEF Reached
  <2> QED
    BY <1>3, <2>1, <2>2
<1>9. QueuesHoldLog'
  <2>1. waitApplyCh = [p \in Server |-> waitApplyCh[p]] /\ s \in Server
    BY HandlerFacts
  <2>2. \A i \in DOMAIN q : i \in DOMAIN waitApplyCh[s] /\ q[i] = waitApplyCh[s][i]
    OBVIOUS
  <2> HIDE DEF q
  <2>3. \A p \in Server : waitApplyCh'[p] = IF p = s THEN q ELSE waitApplyCh[p]
    BY <1>1, <2>1
  <2> QED
    BY <1>1, <2>2, <2>3 DEF AnswerInv, QueuesHoldLog
<1> QED
  BY <1>4, <1>6, <1>7, <1>8, <1>9 DEF AnswerInv

-----------------------------------------------------------------------------
(* The apply loop and Raft.                                                *)

\* A step of a server's loop brings no request, and answers none.
LEMMA LoopStep ==
    ASSUME ClientInv, UNCHANGED <<clerkVars, calls, handlers, raftVars>>,
           \A s \in Server : applied'[s] \in Nat /\ applied'[s] >= applied[s]
                                /\ applied'[s] <= Len(chosen)
    PROVE  KnownInv' /\ LogInv' /\ AnsweredReached' /\ DoneIsChosen'
<1> USE DEF ClientInv
<1>1. /\ m_requestId' = m_requestId /\ calling' = calling /\ calls' = calls
      /\ chosenBefore' = chosenBefore /\ chosen' = chosen /\ started' = started
      /\ handlers' = handlers
  BY DEF clerkVars, raftVars
<1>2. KnownInv'
  BY <1>1, KnownPlaces, KnownSame, KnownKept DEF OpsKept
<1>3. LogInv'
  BY <1>1, LogKept
<1>4. AnsweredReached' /\ DoneIsChosen'
  BY <1>1, AnsweredKept, DoneKept DEF AnswerInv, NoCall
<1> QED
  BY <1>2, <1>3, <1>4

\* Taking a command changes nothing of what is recorded.
LEMMA TakeCommandClient ==
    ASSUME ClientInv, NEW s \in Server, TakeCommand(s)
    PROVE  KnownInv' /\ LogInv' /\ AnswerInv'
<1> USE DEF ClientInv
<1>1. /\ UNCHANGED <<clerkVars, calls, handlers, raftVars>>
      /\ UNCHANGED <<m_lastRequestId, m_requestId, chosen, waitApplyCh, applied>>
  BY DEF TakeCommand, clerkVars, raftVars, stateVars
<1>2. \A p \in Server : applied'[p] \in Nat /\ applied'[p] >= applied[p]
                            /\ applied'[p] <= Len(chosen)
  BY <1>1, ClientTypes DEF LogInv
<1>3. RecordedReached' /\ QueuesHoldLog'
  BY <1>1, <1>2, RecordedKept DEF AnswerInv, QueuesHoldLog
<1> QED
  BY <1>1, <1>2, <1>3, LoopStep DEF AnswerInv

\* What a server is at was chosen for a clerk that asked for it.
LEMMA CurrentRequest ==
    ASSUME ClientInv, NEW s \in Server, applied[s] < Len(chosen)
    PROVE  /\ applied[s] + 1 \in 1..Len(chosen) /\ Current(s) \in Known
           /\ Current(s) \in Ops /\ Current(s).clerk \in Client
           /\ Current(s).client = Uuid(Current(s).clerk)
           /\ Current(s).request \in 1..m_requestId[Current(s).clerk]
           /\ Current(s).request = m_requestId[Current(s).clerk]
                => Reached(s, Current(s).clerk)
<1> USE DEF ClientInv
<1>1. applied[s] + 1 \in 1..Len(chosen) /\ applied[s] + 1 <= applied[s] + 1
  BY ClientTypes
<1>2. Current(s) \in Known /\ Current(s) = chosen[applied[s] + 1]
  BY <1>1, KnownPlaces DEF Current
<1>3. /\ Current(s) \in Ops /\ Current(s).clerk \in Client
      /\ Current(s).client = Uuid(Current(s).clerk)
      /\ Current(s).request \in 1..m_requestId[Current(s).clerk]
  BY <1>2 DEF KnownInv, KnownFits, Ops
<1> QED
  BY <1>1, <1>2, <1>3 DEF Reached, IsRequest

\* A put records the request that it executes.
LEMMA ExecutePutClient ==
    ASSUME UuidsDiffer, ClientInv, NEW s \in Server, ExecutePut(s)
    PROVE  KnownInv' /\ LogInv' /\ AnswerInv'
<1> USE DEF ClientInv
<1>1. /\ UNCHANGED <<clerkVars, calls, handlers, raftVars>>
      /\ UNCHANGED <<m_requestId, chosen, waitApplyCh, applied>>
      /\ m_lastRequestId' =
            [m_lastRequestId EXCEPT ![s][Current(s).client] = Current(s).request]
  BY DEF ExecutePut, clerkVars, raftVars
<1>2. \A p \in Server : applied'[p] \in Nat /\ applied'[p] >= applied[p]
                            /\ applied'[p] <= Len(chosen)
  BY <1>1, ClientTypes DEF LogInv
<1>3. applied[s] < Len(chosen)
  BY DEF ExecutePut, KvInv, KvTypes, ServerTypes
<1>4. RecordedReached'
  BY <1>1, <1>3, CurrentRequest, RecordsReached
<1>5. QueuesHoldLog'
  BY <1>1 DEF AnswerInv, QueuesHoldLog
<1> QED
  BY <1>1, <1>2, <1>4, <1>5, LoopStep DEF AnswerInv

\* What a handler is sent is what was chosen at its index.
LEMMA SendMessageClient ==
    ASSUME ClientInv, NEW s \in Server, SendMessage(s)
    PROVE  KnownInv' /\ LogInv' /\ AnswerInv'
<1> USE DEF ClientInv
<1> DEFINE n == applied[s] + 1
<1>1. /\ UNCHANGED <<clerkVars, calls, handlers, raftVars>>
      /\ UNCHANGED <<m_lastRequestId, m_requestId, chosen>>
      /\ applied' = [applied EXCEPT ![s] = n]
      /\ waitApplyCh' = IF n \in DOMAIN waitApplyCh[s]
            THEN [waitApplyCh EXCEPT ![s][n] = Append(@, Current(s))]
            ELSE waitApplyCh
  BY DEF SendMessage, clerkVars, raftVars, stateVars
<1>2. applied[s] < Len(chosen) /\ applied \in [Server -> Nat] /\ Len(chosen) \in Nat
  BY ClientTypes DEF SendMessage, KvInv, KvTypes, ServerTypes
<1>3. \A p \in Server : applied'[p] \in Nat /\ applied'[p] >= applied[p]
                            /\ applied'[p] <= Len(chosen)
  BY <1>1, <1>2 DEF LogInv
<1>4. RecordedReached'
  BY <1>1, <1>3, RecordedKept DEF AnswerInv
<1>5. QueuesHoldLog'
  <2> SUFFICES ASSUME NEW p \in Server, NEW i \in DOMAIN waitApplyCh'[p],
                      NEW k \in 1..Len(waitApplyCh'[p][i])
               PROVE  /\ i <= applied'[p] /\ i \in 1..Len(chosen)
                      /\ waitApplyCh'[p][i][k] = chosen[i]
    BY <1>1 DEF QueuesHoldLog
  <2>1. /\ waitApplyCh = [x \in Server |-> waitApplyCh[x]]
        /\ Queues(waitApplyCh[s])
    BY DEF KvInv, KvTypes, ServerTypes
  <2>2. ASSUME i \in DOMAIN waitApplyCh[p], k \in 1..Len(waitApplyCh[p][i]),
               waitApplyCh'[p][i][k] = waitApplyCh[p][i][k]
        PROVE  /\ i <= applied'[p] /\ i \in 1..Len(chosen)
               /\ waitApplyCh'[p][i][k] = chosen[i]
    <3>1. /\ i <= applied[p] /\ i \in 1..Len(chosen)
          /\ waitApplyCh[p][i][k] = chosen[i]
      BY <2>2 DEF AnswerInv, QueuesHoldLog
    <3> QED
      BY <1>2, <1>3, <2>2, <3>1
  <2>3. CASE p = s /\ i = n /\ n \in DOMAIN waitApplyCh[s]
    <3> DEFINE q == waitApplyCh[s][n]
    <3>1. q \in Seq(Ops) /\ waitApplyCh'[p][i] = Append(q, Current(s))
      BY <1>1, <2>1, <2>3 DEF Queues
    <3>2. Current(s) \in Ops /\ Current(s) = chosen[n] /\ n \in 1..Len(chosen)
      BY <1>2, CurrentRequest DEF Current
    <3> HIDE DEF q
    <3>3. \A j \in 1..Len(Append(q, Current(s))) :
            (j \in 1..Len(q) /\ Append(q, Current(s))[j] = q[j])
            \/ Append(q, Current(s))[j] = Current(s)
      BY <3>1, <3>2
    <3>4. \/ k \in 1..Len(q) /\ waitApplyCh'[p][i][k] = q[k]
          \/ waitApplyCh'[p][i][k] = chosen[n]
      BY <3>1, <3>2, <3>3
    <3>5. CASE k \in 1..Len(q) /\ waitApplyCh'[p][i][k] = q[k]
      BY <2>2, <2>3, <3>5 DEF q
    <3>6. CASE waitApplyCh'[p][i][k] = chosen[n]
      BY <1>1, <1>2, <2>3, <3>2, <3>6
    <3> QED
      BY <3>4, <3>5, <3>6
  <2>4. CASE ~(p = s /\ i = n /\ n \in DOMAIN waitApplyCh[s])
    <3>1. i \in DOMAIN waitApplyCh[p] /\ waitApplyCh'[p][i] = waitApplyCh[p][i]
      BY <1>1, <2>1, <2>4 DEF Queues
    <3> QED
      BY <2>2, <3>1
  <2> QED
    BY <2>3, <2>4
<1> QED
  BY <1>1, <1>3, <1>4, <1>5, LoopStep DEF AnswerInv

\* What is chosen was started for a clerk, after it asked.
LEMMA ChooseClient ==
    ASSUME ClientInv, NEW e \in started, Choose(e)
    PROVE  KnownInv' /\ LogInv' /\ AnswerInv'
<1> USE DEF ClientInv
<1> DEFINE n == Len(chosen) + 1
           c == e.op.clerk
<1>1. /\ chosen' = Append(chosen, e.op)
      /\ UNCHANGED <<started, m_requestId, calling, chosenBefore, calls, handlers,
                     m_lastRequestId, waitApplyCh, applied>>
  BY DEF Choose, clerkVars, stateVars, applyVars
<1>2. /\ e.op \in Known /\ e.op \in Ops /\ c \in Client
      /\ e.op.request \in 1..m_requestId[c] /\ m_requestId[c] \in Nat
      /\ e.op.request \in Nat
  <2>1. e.op \in Known
    BY KnownPlaces
  <2> QED
    BY <2>1, ClientTypes DEF KnownInv, KnownFits, Ops
<1>3. /\ Len(chosen) \in Nat /\ Len(chosen') = n /\ chosen'[n] = e.op
      /\ \A i \in 1..Len(chosen) : chosen'[i] = chosen[i]
      /\ \A i \in 1..n : i \in 1..Len(chosen) \/ i = n
      /\ \A i \in 1..Len(chosen) : i \in 1..n
      /\ n \in 1..n /\ 1..(n - 1) = 1..Len(chosen)
  <2>1. chosen \in Seq(Ops) /\ Len(chosen) \in Nat
    BY ClientTypes
  <2> QED
    BY <1>1, <1>2, <2>1
<1>4. KnownInv'
  <2>1. {chosen'[i] : i \in 1..Len(chosen')} \subseteq Known
    BY <1>2, <1>3, KnownPlaces
  <2>2. OpsKept
    BY <1>1 DEF OpsKept
  <2>3. /\ {call.op : call \in calls'} \subseteq Known
        /\ {h.call.op : h \in handlers'} \subseteq Known
        /\ {x.op : x \in started'} \subseteq Known
    BY <1>1, KnownPlaces
  <2> QED
    BY <2>1, <2>2, <2>3, KnownSame, KnownKept
<1> HIDE DEF n
<1>5. \A i \in 1..Len(chosen) : \A x, r : IsRequest(i, x, r) => IsRequest(i, x, r)'
  BY <1>3 DEF IsRequest
<1>6. LogInv'
  <2>1. /\ \A d \in Client : chosenBefore'[d] <= Len(chosen')
        /\ \A s \in Server : applied'[s] <= Len(chosen')
    BY <1>1, <1>3, ClientTypes DEF LogInv, n
  <2>2. ASSUME NEW d \in Client, NEW i \in 1..Len(chosen'),
               chosen'[i].clerk = d, chosen'[i].request = m_requestId[d]
        PROVE  i > chosenBefore[d]
    <3>1. CASE i = n
      BY <1>3, <3>1, ClientTypes DEF LogInv, n
    <3>2. CASE i \in 1..Len(chosen)
      BY <1>1, <1>3, <2>2, <3>2 DEF LogInv, IsRequest
    <3> QED
      BY <1>3, <3>1, <3>2
  <2>3. \A d \in Client : \A r \in 1..(m_requestId[d] - 1) :
            \E i \in 1..Len(chosen') : chosen'[i].clerk = d /\ chosen'[i].request = r
    <3> SUFFICES ASSUME NEW d \in Client, NEW r \in 1..(m_requestId[d] - 1)
                 PROVE  \E i \in 1..Len(chosen') :
                            chosen'[i].clerk = d /\ chosen'[i].request = r
      OBVIOUS
    <3>1. PICK i \in 1..Len(chosen) : IsRequest(i, d, r)
      BY DEF LogInv
    <3> QED
      BY <1>3, <3>1 DEF IsRequest
  <2>4. ASSUME NEW i \in 1..Len(chosen'), NEW r \in 1..(chosen'[i].request - 1)
        PROVE  \E j \in 1..(i - 1) :
                    chosen'[j].clerk = chosen'[i].clerk /\ chosen'[j].request = r
    <3>1. CASE i = n
      <4>1. r \in 1..(m_requestId[c] - 1)
        BY <1>2, <1>3, <2>4, <3>1
      <4>2. PICK j \in 1..Len(chosen) : IsRequest(j, c, r)
        BY <1>2, <4>1 DEF LogInv
      <4>3. j \in 1..(i - 1)
        BY <1>3, <3>1 DEF n
      <4> QED
        BY <1>3, <3>1, <4>2, <4>3 DEF IsRequest
    <3>2. CASE i \in 1..Len(chosen)
      <4>1. PICK j \in 1..(i - 1) : IsRequest(j, chosen[i].clerk, r)
        BY <1>3, <2>4, <3>2 DEF LogInv
      <4>2. j \in 1..Len(chosen)
        BY <1>3, <3>2, <4>1
      <4> QED
        BY <1>3, <3>2, <4>1, <4>2 DEF IsRequest
    <3> QED
      BY <1>3, <3>1, <3>2
  <2> QED
    BY <1>1, <2>1, <2>2, <2>3, <2>4 DEF LogInv, IsRequest
<1>7. \A s \in Server, d \in Client : Reached(s, d) => Reached(s, d)'
  BY <1>1, <1>3, <1>5 DEF Reached, IsRequest
<1>8. RecordedReached' /\ AnsweredReached'
  <2>1. RecordedReached'
    BY <1>1, <1>7 DEF AnswerInv, RecordedReached
  <2>2. \A h \in handlers : h.call.server \in Server /\ h.call.op.clerk \in Client
    BY HandlerRequest
  <2>3. AnsweredReached'
    BY <1>1, <1>7, <2>2 DEF AnswerInv, AnsweredReached, Answering
  <2> QED
    BY <2>1, <2>3
<1>9. QueuesHoldLog'
  BY <1>1, <1>3 DEF AnswerInv, QueuesHoldLog
<1>10. DoneIsChosen'
  BY <1>1, <1>3, <1>5 DEF AnswerInv, DoneIsChosen, NoCall
<1> QED
  BY <1>4, <1>6, <1>8, <1>9, <1>10 DEF AnswerInv

\* The client's invariant holds at first and is kept.
LEMMA ClientInitInv == KvInit => ClientInv
<1> SUFFICES ASSUME KvInit PROVE ClientInv
  OBVIOUS
<1>1. KvInv
  BY KvInitInv
<1>2. chosen = <<>> /\ Len(chosen) = 0 /\ calls = {} /\ handlers = {} /\ started = {}
  BY DEF KvInit
<1>3. /\ \A c \in Client : m_requestId[c] = 0 /\ calling[c] = Idle
                               /\ chosenBefore[c] = 0
      /\ \A s \in Server : applied[s] = 0 /\ DOMAIN waitApplyCh[s] = {}
      /\ \A s \in Server, c \in Client : m_lastRequestId[s][Uuid(c)] = 0
  BY DEF KvInit
<1>4. Known = {}
  BY <1>2, <1>3 DEF Known
<1>5. KnownInv
  BY <1>3, <1>4, KvBoundAssumption DEF KnownInv, KnownFits, KnownOnce, ClerksKnow
<1>6. LogInv
  BY <1>2, <1>3 DEF LogInv
<1>7. AnswerInv
  BY <1>2, <1>3 DEF AnswerInv, RecordedReached, AnsweredReached, QueuesHoldLog,
     DoneIsChosen
<1> QED
  BY <1>1, <1>5, <1>6, <1>7 DEF ClientInv

\* Every step keeps it.
LEMMA ClientStepInv ==
    UuidsDiffer /\ ClientInv /\ [KvNext]_kvVars => ClientInv'
<1> SUFFICES ASSUME UuidsDiffer, ClientInv, [KvNext]_kvVars PROVE ClientInv'
  OBVIOUS
<1>1. KvInv'
  BY KvStepInv DEF ClientInv
<1>2. KnownInv' /\ LogInv' /\ AnswerInv'
  <2>1. CASE UNCHANGED kvVars
    <3>1. /\ UNCHANGED <<m_requestId, calling, chosenBefore, calls, handlers>>
          /\ UNCHANGED <<m_lastRequestId, waitApplyCh, applied, chosen, started>>
      BY <2>1 DEF kvVars, clerkVars, stateVars, applyVars, raftVars
    <3>2. KnownInv'
      BY <3>1 DEF ClientInv, KnownInv, KnownFits, KnownOnce, ClerksKnow, Known
    <3>3. LogInv'
      BY <3>1 DEF ClientInv, LogInv, IsRequest
    <3>4. AnswerInv'
      BY <3>1 DEF ClientInv, AnswerInv, RecordedReached, AnsweredReached, Answering,
         QueuesHoldLog, DoneIsChosen, Reached, IsRequest, NoCall
    <3> QED
      BY <3>2, <3>3, <3>4
  <2>2. CASE KvNext
    BY <2>2, RequestClient, CallFailsClient, HandleClient, AwaitCommandClient,
       PopCommandClient, TimeOutClient, ExecuteGetClient, ReplyClient,
       TakeCommandClient, ExecutePutClient, SendMessageClient, ChooseClient
       DEF KvNext
  <2> QED
    BY <2>1, <2>2
<1> QED
  BY <1>1, <1>2 DEF ClientInv

\* A clerk that returns from Put or Append finds its command in the log:
\* PutAppend and Get answer OK or ErrNoKey for no other, also when they time out
\* and trust m_lastRequestId, if no two clerks drew one m_clientId.
THEOREM AcknowledgedWrites ==
    UuidsDiffer => (KvSpec => []AcknowledgedIsChosen)
<1> SUFFICES ASSUME UuidsDiffer PROVE KvSpec => []AcknowledgedIsChosen
  OBVIOUS
<1>1. ClientInv => AcknowledgedIsChosen
  <2> SUFFICES ASSUME ClientInv, NEW c \in Client, NoCall(c), m_requestId[c] > 0
               PROVE  \E i \in 1..Len(chosen) : chosen[i] = calling[c].op
    BY DEF AcknowledgedIsChosen
  <2>1. PICK i \in 1..Len(chosen) : IsRequest(i, c, m_requestId[c])
    BY DEF ClientInv, AnswerInv, DoneIsChosen
  <2>2. /\ calling[c] # Idle /\ calling[c].op.clerk = c
        /\ calling[c].op.request = m_requestId[c]
    BY ClientTypes DEF ClientInv, KnownInv, ClerksKnow
  <2>3. calling[c].op \in Known /\ chosen[i] \in Known
    BY <2>2, KnownPlaces
  <2> QED
    BY <2>1, <2>2, <2>3 DEF ClientInv, KnownInv, KnownOnce, IsRequest
<1>2. ClientInv /\ [KvNext]_kvVars => ClientInv'
  BY ClientStepInv
<1> QED
  BY <1>1, <1>2, ClientInitInv, PTL DEF KvSpec

\* A Get reads a state that has everything chosen before its clerk asked, also
\* when its handler timed out and reads because the request was executed, if no
\* two clerks drew one m_clientId.
THEOREM FreshReads == UuidsDiffer => (KvSpec => []ReadsSeeChosen)
<1> SUFFICES ASSUME UuidsDiffer PROVE KvSpec => []ReadsSeeChosen
  OBVIOUS
<1>1. ClientInv => ReadsSeeChosen
  <2> SUFFICES ASSUME ClientInv, NEW h \in handlers, h.at = "read",
                      h.call.op.request = m_requestId[h.call.op.clerk]
               PROVE  applied[h.call.server] >= chosenBefore[h.call.op.clerk]
    BY DEF ReadsSeeChosen
  <2> DEFINE s == h.call.server
             c == h.call.op.clerk
  <2>1. s \in Server /\ c \in Client
    BY HandlerRequest
  <2>2. Reached(s, c)
    BY DEF ClientInv, AnswerInv, AnsweredReached, Answering
  <2>3. PICK i \in 1..Len(chosen) :
            i <= applied[s] + 1 /\ IsRequest(i, c, m_requestId[c])
    BY <2>2 DEF Reached
  <2>4. i > chosenBefore[c]
    BY <2>1, <2>3 DEF ClientInv, LogInv
  <2>5. applied[s] \in Nat /\ chosenBefore[c] \in Nat /\ i \in Nat
    BY <2>1, <2>3, ClientTypes DEF ClientInv
  <2> QED
    BY <2>3, <2>4, <2>5
<1>2. ClientInv /\ [KvNext]_kvVars => ClientInv'
  BY ClientStepInv
<1> QED
  BY <1>1, <1>2, ClientInitInv, PTL DEF KvSpec

-----------------------------------------------------------------------------
(* The skip list: a write that is the first of its kind in the log is      *)
(* executed, whatever the handlers of Gets record in the table of request  *)
(* ids.  They may set it back, and a repeated write is executed again, but *)
(* only to a request that is in the log too.                               *)

\* What n commands make of key k, as the skip list of s has it.
Matches(s, k, n) ==
    \/ FirstWrites(n, k) = {} /\ m_skipList[s][k] = NoValue
    \/ \E i \in AllWrites(n, k) :
            /\ m_skipList[s][k] = chosen[i]
            /\ \A j \in FirstWrites(n, k) : j <= i
            /\ Repeats(i) => GetAmong(i - 1, chosen[i])

\* What the table has of a clerk is a request of its that the server has
\* executed.
TableInLog(s) ==
    \A c \in Client : m_lastRequestId[s][Uuid(c)] > 0 =>
        \E i \in 1..Shown(s) : IsRequest(i, c, m_lastRequestId[s][Uuid(c)])

\* The table covers the writes executed, unless a Get may have set it back.
TableCoversWrites(s) ==
    \A i \in 1..Shown(s) : Writes(chosen[i]) =>
        \/ chosen[i].request <= m_lastRequestId[s][chosen[i].client]
        \/ GetAmong(Shown(s), chosen[i])

\* What is about to be executed is new, or a Get has set the table back.
StillNew(s) ==
    applying[s] = "execute" =>
        /\ Writes(Current(s))
        /\ Repeats(applied[s] + 1) => GetAmong(applied[s], Current(s))

SkipOf(s) ==
    /\ TableInLog(s) /\ TableCoversWrites(s) /\ StillNew(s)
    /\ \A k \in Keys : Matches(s, k, Shown(s))

\* A handler that reads has a request that its server has executed.
ReadInLog(h) ==
    \E i \in 1..Shown(h.call.server) :
        IsRequest(i, h.call.op.clerk, h.call.op.request)

ReadsInLog == \A h \in handlers : h.at = "read" => ReadInLog(h)

SkipInv == (\A s \in Server : SkipOf(s)) /\ ReadsInLog

\* How much of the log the skip list shows.
LEMMA ShownInLog ==
    ASSUME ClientInv, NEW s \in Server
    PROVE  /\ Shown(s) \in Nat /\ Shown(s) <= Len(chosen) /\ Len(chosen) \in Nat
           /\ applied[s] \in Nat
           /\ \A i \in 1..Shown(s) : i \in 1..Len(chosen)
           /\ applying[s] \in {"pop", "execute", "send"}
           /\ applying[s] = "send" => Shown(s) = applied[s] + 1
           /\ applying[s] # "send" => Shown(s) = applied[s]
<1>1. /\ applied[s] \in Nat /\ Len(chosen) \in Nat /\ applied[s] <= Len(chosen)
      /\ applying[s] # "pop" => applied[s] < Len(chosen)
      /\ applying[s] \in {"pop", "execute", "send"}
  BY ClientTypes DEF ClientInv, KvInv, KvTypes, ServerTypes, LogInv
<1> QED
  BY <1>1 DEF Shown

\* The requests of the log.
LEMMA LogRequest ==
    ASSUME ClientInv, NEW i \in 1..Len(chosen)
    PROVE  /\ chosen[i] \in Known /\ chosen[i] \in Ops /\ chosen[i].clerk \in Client
           /\ chosen[i].client = Uuid(chosen[i].clerk) /\ chosen[i].request \in Nat
           /\ chosen[i].request >= 1 /\ chosen[i].key \in Keys
<1>1. chosen[i] \in Known
  BY KnownPlaces
<1>2. /\ chosen[i] \in Ops /\ chosen[i].client = Uuid(chosen[i].clerk)
      /\ chosen[i].request \in 1..m_requestId[chosen[i].clerk]
  BY <1>1 DEF ClientInv, KnownInv, KnownFits
<1>3. /\ chosen[i].clerk \in Client /\ chosen[i].request \in Nat
      /\ chosen[i].key \in Keys
  BY <1>2 DEF Ops
<1>4. m_requestId[chosen[i].clerk] \in Nat
  BY <1>3, ClientTypes DEF ClientInv
<1> QED
  BY <1>1, <1>2, <1>3, <1>4

\* A clerk's earlier requests are in the log before.
LEMMA EarlierRequest ==
    ASSUME ClientInv, NEW i \in 1..Len(chosen), NEW c, NEW r,
           r \in 1..chosen[i].request, c = chosen[i].clerk
    PROVE  \E j \in 1..i : IsRequest(j, c, r)
<1>1. i \in Nat /\ i \in 1..i /\ chosen[i].request \in Nat /\ r \in Nat
  BY LogRequest, ClientTypes DEF ClientInv
<1>2. CASE r = chosen[i].request
  BY <1>1, <1>2 DEF IsRequest
<1>3. CASE r # chosen[i].request
  <2>1. r \in 1..(chosen[i].request - 1)
    BY <1>1, <1>3
  <2>2. PICK j \in 1..(i - 1) : IsRequest(j, c, r)
    BY <2>1 DEF ClientInv, LogInv
  <2>3. j \in 1..i
    BY <1>1
  <2> QED
    BY <2>2, <2>3
<1> QED
  BY <1>2, <1>3

\* The same request is the same command.
LEMMA SameRequest ==
    ASSUME ClientInv, NEW i \in 1..Len(chosen), NEW j \in 1..Len(chosen),
           IsRequest(j, chosen[i].clerk, chosen[i].request)
    PROVE  chosen[j] = chosen[i]
  BY LogRequest DEF ClientInv, KnownInv, KnownOnce, IsRequest

\* What is known of n commands is the same in a longer log.
LEMMA WritesKept ==
    ASSUME NEW n \in Nat, \A i \in 1..n : chosen'[i] = chosen[i]
    PROVE  /\ \A k : /\ AllWrites(n, k)' = AllWrites(n, k)
                     /\ FirstWrites(n, k)' = FirstWrites(n, k)
           /\ \A i \in 1..n : Repeats(i)' <=> Repeats(i)
           /\ \A i \in 1..n, m \in 0..n :
                GetAmong(m, chosen[i])' <=> GetAmong(m, chosen[i])
<1>1. \A i \in 1..n : Repeats(i)' <=> Repeats(i)
  <2> SUFFICES ASSUME NEW i \in 1..n
               PROVE  (\E j \in 1..(i - 1) : chosen'[j] = chosen'[i])
                        <=> (\E j \in 1..(i - 1) : chosen[j] = chosen[i])
    BY DEF Repeats
  <2>1. \A j \in 1..(i - 1) : j \in 1..n
    OBVIOUS
  <2> QED
    BY <2>1
<1>2. \A k : AllWrites(n, k)' = AllWrites(n, k)
  BY DEF AllWrites, Writes
<1>3. \A k : FirstWrites(n, k)' = FirstWrites(n, k)
  <2>1. \A k : \A i \in AllWrites(n, k) : i \in 1..n
    BY DEF AllWrites
  <2> QED
    BY <1>1, <1>2, <2>1 DEF FirstWrites
<1>4. \A i \in 1..n, m \in 0..n : GetAmong(m, chosen[i])' <=> GetAmong(m, chosen[i])
  <2> SUFFICES ASSUME NEW i \in 1..n, NEW m \in 0..n
               PROVE  GetAmong(m, chosen[i])' <=> GetAmong(m, chosen[i])
    OBVIOUS
  <2>1. \A j \in 1..m : j \in 1..n
    OBVIOUS
  <2> QED
    BY <2>1 DEF GetAmong
<1> QED
  BY <1>1, <1>2, <1>3, <1>4

\* A Get among n commands is among more of them.
LEMMA GetStays ==
    ASSUME NEW m \in Nat, NEW n \in Nat, m <= n, NEW op, GetAmong(m, op)
    PROVE  GetAmong(n, op)
  BY DEF GetAmong

\* One command more.
LEMMA WritesNext ==
    ASSUME NEW n \in Nat, NEW k
    PROVE  LET W == {i \in {n + 1} : Writes(chosen[i]) /\ chosen[i].key = k} IN
           /\ AllWrites(n + 1, k) = AllWrites(n, k) \cup W
           /\ FirstWrites(n + 1, k) =
                FirstWrites(n, k) \cup {i \in W : ~Repeats(i)}
<1>1. 1..(n + 1) = 1..n \cup {n + 1}
  OBVIOUS
<1> QED
  BY <1>1 DEF AllWrites, FirstWrites

\* The table lets every new write pass, and a repeated one only if a Get of its
\* clerk came before.
LEMMA NewIsExecuted ==
    ASSUME UuidsDiffer, ClientInv, SkipInv, NEW s \in Server,
           applying[s] # "send", applied[s] < Len(chosen), Writes(Current(s))
    PROVE  /\ ifRequestDuplicate(s, Current(s)) => Repeats(applied[s] + 1)
           /\ ~ifRequestDuplicate(s, Current(s)) /\ Repeats(applied[s] + 1)
                => GetAmong(applied[s], Current(s))
<1> DEFINE n == applied[s] + 1
           op == Current(s)
           c == op.clerk
           t == m_lastRequestId[s][op.client]
<1>1. /\ n \in 1..Len(chosen) /\ op = chosen[n] /\ Shown(s) = n - 1 /\ n \in Nat
      /\ applied[s] = n - 1
      /\ op \in Known /\ c \in Client /\ op.client = Uuid(c)
      /\ op.request \in Nat /\ op.request >= 1
  <2>1. /\ n \in 1..Len(chosen) /\ n \in Nat /\ Shown(s) = n - 1
        /\ applied[s] = n - 1
    BY ShownInLog
  <2>2. op = chosen[n]
    BY DEF Current
  <2> HIDE DEF n, op
  <2> QED
    BY <2>1, <2>2, LogRequest
<1>2. t \in Nat
  BY <1>1, ClientTypes DEF ClientInv
<1>3. \A i \in 1..(n - 1) : i \in 1..Len(chosen)
  BY <1>1
<1>4. ifRequestDuplicate(s, op) <=> op.request <= t
  BY DEF ifRequestDuplicate
<1> HIDE DEF n, op, c, t
<1>5. ASSUME op.request <= t PROVE Repeats(n)
  <2>1. PICK i \in 1..(n - 1) : IsRequest(i, c, t)
    BY <1>1, <1>2, <1>5 DEF SkipInv, SkipOf, TableInLog, t
  <2>2. op.request \in 1..chosen[i].request /\ chosen[i].clerk = c
    BY <1>1, <1>2, <1>5, <2>1 DEF IsRequest
  <2>3. PICK j \in 1..i : IsRequest(j, c, op.request)
    BY <1>3, <2>2, EarlierRequest
  <2>4. j \in 1..(n - 1)
    BY <1>1
  <2>5. chosen[j] = op
    BY <1>1, <1>3, <2>3, <2>4, SameRequest DEF c
  <2> QED
    BY <1>1, <2>4, <2>5 DEF Repeats
<1>6. ASSUME ~(op.request <= t), Repeats(n) PROVE GetAmong(n - 1, op)
  <2>1. PICK j \in 1..(n - 1) : chosen[j] = op
    BY <1>1, <1>6 DEF Repeats
  <2>2. chosen[j].request <= t \/ GetAmong(n - 1, op)
    BY <1>1, <2>1 DEF SkipInv, SkipOf, TableCoversWrites, t, op
  <2> QED
    BY <1>6, <2>1, <2>2
<1>7. /\ ifRequestDuplicate(s, op) => Repeats(n)
      /\ ~ifRequestDuplicate(s, op) /\ Repeats(n) => GetAmong(applied[s], op)
  BY <1>1, <1>4, <1>5, <1>6
<1> QED
  BY <1>7 DEF n, op

\* A step that leaves the log and a server's state alone.
LEMMA SkipOfSame ==
    ASSUME SkipInv, NEW s \in Server, chosen' = chosen,
           m_skipList'[s] = m_skipList[s], m_lastRequestId'[s] = m_lastRequestId[s],
           applying'[s] = applying[s], applied'[s] = applied[s]
    PROVE  SkipOf(s)' /\ Shown(s)' = Shown(s)
<1>1. Shown(s)' = Shown(s)
  BY DEF Shown
<1>2. TableInLog(s)' /\ TableCoversWrites(s)'
  BY <1>1 DEF SkipInv, SkipOf, TableInLog, TableCoversWrites, IsRequest, GetAmong,
     Writes
<1>3. StillNew(s)'
  BY DEF SkipInv, SkipOf, StillNew, Current, Writes, Repeats, GetAmong
<1>4. \A k \in Keys : Matches(s, k, Shown(s))'
  BY <1>1 DEF SkipInv, SkipOf, Matches, AllWrites, FirstWrites, Writes, Repeats,
     GetAmong
<1> QED
  BY <1>1, <1>2, <1>3, <1>4 DEF SkipOf

\* A handler that has read before reads on when the skip lists show more.
LEMMA ReadStays ==
    ASSUME ClientInv, NEW h, h.call.server \in Server, ReadInLog(h),
           \A i \in 1..Shown(h.call.server) : chosen'[i] = chosen[i],
           Shown(h.call.server)' \in Nat,
           Shown(h.call.server)' >= Shown(h.call.server)
    PROVE  ReadInLog(h)'
<1> DEFINE m == Shown(h.call.server)
<1>1. m \in Nat /\ m' \in Nat /\ m' >= m
  BY ShownInLog
<1>2. PICK i \in 1..m : IsRequest(i, h.call.op.clerk, h.call.op.request)
  BY DEF ReadInLog
<1>3. IsRequest(i, h.call.op.clerk, h.call.op.request)'
  BY <1>2 DEF IsRequest
<1>4. i \in 1..m'
  <2> HIDE DEF m
  <2> QED
    BY <1>1
<1> QED
  BY <1>3, <1>4 DEF ReadInLog

\* A step that leaves the log and the servers' state alone, when whoever begins to
\* read may.
LEMMA SkipKept ==
    ASSUME ClientInv, SkipInv, UNCHANGED <<stateVars, applyVars, chosen>>,
           \A h \in handlers' : h.at = "read" => h \in handlers \/ ReadInLog(h)
    PROVE  SkipInv'
<1>1. UNCHANGED <<m_skipList, m_lastRequestId, applying, applied, chosen>>
  BY DEF stateVars, applyVars
<1>2. \A s \in Server : SkipOf(s)'
  BY <1>1, SkipOfSame
<1>3. ASSUME NEW h \in handlers', h.at = "read" PROVE ReadInLog(h)'
  <2>1. ReadInLog(h)
    BY <1>3 DEF SkipInv, ReadsInLog
  <2> QED
    BY <1>1, <2>1 DEF ReadInLog, IsRequest, Shown
<1> QED
  BY <1>2, <1>3 DEF SkipInv, ReadsInLog

\* A step of one server's loop, which shows no less than before.
LEMMA SkipOfOne ==
    ASSUME ClientInv, SkipInv, NEW s \in Server, UNCHANGED <<handlers, chosen>>,
           \A p \in Server \ {s} :
                /\ m_skipList'[p] = m_skipList[p]
                /\ m_lastRequestId'[p] = m_lastRequestId[p]
                /\ applying'[p] = applying[p] /\ applied'[p] = applied[p],
           SkipOf(s)', Shown(s)' \in Nat, Shown(s)' >= Shown(s)
    PROVE  SkipInv'
<1>1. \A p \in Server \ {s} : SkipOf(p)' /\ Shown(p)' = Shown(p)
  BY SkipOfSame
<1>2. ASSUME NEW h \in handlers', h.at = "read" PROVE ReadInLog(h)'
  <2>1. h \in handlers /\ ReadInLog(h) /\ h.call.server \in Server
    BY <1>2, HandlerRequest DEF SkipInv, ReadsInLog
  <2>2. \A p \in Server : Shown(p) \in Nat
    BY ShownInLog
  <2>3. /\ Shown(h.call.server)' \in Nat
        /\ Shown(h.call.server)' >= Shown(h.call.server)
    BY <1>1, <2>1, <2>2
  <2> QED
    BY <2>1, <2>3, ReadStays
<1> QED
  BY <1>1, <1>2 DEF SkipInv, ReadsInLog

\* A command is taken: it is shown at once when it changes nothing.
LEMMA TakeCommandSkip ==
    ASSUME UuidsDiffer, ClientInv, SkipInv, NEW s \in Server, TakeCommand(s)
    PROVE  SkipInv'
<1> DEFINE n == applied[s] + 1
<1>1. /\ m_skipList' = m_skipList /\ m_lastRequestId' = m_lastRequestId
      /\ applied' = applied /\ applying[s] = "pop" /\ applied[s] < Len(chosen)
      /\ UNCHANGED <<handlers, chosen>> /\ chosen' = chosen
      /\ applying \in [Server -> {"pop", "execute", "send"}]
      /\ applying' = [applying EXCEPT ![s] =
            IF ~ifRequestDuplicate(s, Current(s)) /\ Writes(Current(s))
            THEN "execute" ELSE "send"]
  BY DEF TakeCommand, raftVars, stateVars, ClientInv, KvInv, KvTypes, ServerTypes
<1>2. \A p \in Server \ {s} : applying'[p] = applying[p]
  BY <1>1
<1>3. /\ n \in 1..Len(chosen) /\ applied[s] \in Nat /\ Shown(s) = applied[s]
      /\ Current(s) = chosen[n] /\ n = applied[s] + 1
  BY <1>1, ShownInLog DEF Current
<1>4. CASE ~ifRequestDuplicate(s, Current(s)) /\ Writes(Current(s))
  <2>1. applying'[s] = "execute" /\ Shown(s)' = Shown(s)
    BY <1>1, <1>3, <1>4 DEF Shown
  <2>2. TableInLog(s)' /\ TableCoversWrites(s)'
    BY <1>1, <2>1 DEF SkipInv, SkipOf, TableInLog, TableCoversWrites, IsRequest,
       GetAmong, Writes
  <2>3. StillNew(s)'
    <3>1. Repeats(n) => GetAmong(applied[s], Current(s))
      BY <1>1, <1>4, NewIsExecuted
    <3> QED
      BY <1>1, <1>4, <3>1 DEF StillNew, Current, Repeats, GetAmong, Writes
  <2>4. \A k \in Keys : Matches(s, k, Shown(s))'
    BY <1>1, <2>1 DEF SkipInv, SkipOf, Matches, AllWrites, FirstWrites, Writes,
       Repeats, GetAmong
  <2>5. SkipOf(s)'
    BY <2>2, <2>3, <2>4 DEF SkipOf
  <2> QED
    BY <1>1, <1>2, <1>3, <2>1, <2>5, SkipOfOne
<1>5. CASE ifRequestDuplicate(s, Current(s)) \/ ~Writes(Current(s))
  <2>1. applying'[s] = "send" /\ Shown(s)' = n
    BY <1>1, <1>3, <1>5 DEF Shown
  <2>2. /\ \A i \in 1..n : i \in 1..Shown(s) \/ i = n
        /\ \A i \in 1..Shown(s) : i \in 1..n
        /\ n \in Nat /\ Shown(s) \in Nat /\ Shown(s) <= n
    BY <1>3
  <2>3. TableInLog(s)'
    BY <1>1, <2>1, <2>2 DEF SkipInv, SkipOf, TableInLog, IsRequest
  <2>4. TableCoversWrites(s)'
    <3> SUFFICES ASSUME NEW i \in 1..n, Writes(chosen[i])
                 PROVE  \/ chosen[i].request <= m_lastRequestId[s][chosen[i].client]
                        \/ GetAmong(n, chosen[i])
      BY <1>1, <2>1 DEF TableCoversWrites, GetAmong, Writes
    <3>1. CASE i \in 1..Shown(s)
      BY <2>2, <3>1, GetStays DEF SkipInv, SkipOf, TableCoversWrites
    <3>2. CASE i = n
      BY <1>3, <1>5, <3>2 DEF ifRequestDuplicate
    <3> QED
      BY <2>2, <3>1, <3>2
  <2>5. StillNew(s)'
    BY <2>1 DEF StillNew
  <2>6. \A k \in Keys : Matches(s, k, Shown(s))'
    <3> SUFFICES ASSUME NEW k \in Keys PROVE Matches(s, k, n)
      BY <1>1, <2>1 DEF Matches, AllWrites, FirstWrites, Writes, Repeats, GetAmong
    <3> DEFINE W == {i \in {applied[s] + 1} : Writes(chosen[i]) /\ chosen[i].key = k}
    <3>1. \A i \in W : Repeats(i)
      <4>1. Writes(Current(s)) => Repeats(n)
        BY <1>1, <1>5, NewIsExecuted
      <4> QED
        BY <1>3, <4>1
    <3>2. /\ AllWrites(n, k) = AllWrites(applied[s], k) \cup W
          /\ FirstWrites(n, k) = FirstWrites(applied[s], k)
      <4>1. /\ AllWrites(n, k) = AllWrites(applied[s], k) \cup W
            /\ FirstWrites(n, k) =
                    FirstWrites(applied[s], k) \cup {i \in W : ~Repeats(i)}
        BY <1>3, WritesNext
      <4> QED
        BY <3>1, <4>1
    <3>3. Matches(s, k, applied[s])
      BY <1>3 DEF SkipInv, SkipOf
    <3> QED
      BY <3>2, <3>3 DEF Matches
  <2>7. SkipOf(s)'
    BY <2>3, <2>4, <2>5, <2>6 DEF SkipOf
  <2> QED
    BY <1>1, <1>2, <2>1, <2>2, <2>7, SkipOfOne
<1> QED
  BY <1>4, <1>5

\* A write is executed: it is the last one of its key.
LEMMA ExecutePutSkip ==
    ASSUME UuidsDiffer, ClientInv, SkipInv, NEW s \in Server, ExecutePut(s)
    PROVE  SkipInv'
<1> DEFINE n == applied[s] + 1
           op == Current(s)
           c == op.clerk
<1>1. /\ applied' = applied /\ UNCHANGED <<handlers, chosen>> /\ chosen' = chosen
      /\ applying[s] = "execute" /\ applied[s] < Len(chosen)
      /\ applying' = [applying EXCEPT ![s] = "send"]
      /\ m_skipList' = [m_skipList EXCEPT ![s][op.key] = op]
      /\ m_lastRequestId' = [m_lastRequestId EXCEPT ![s][op.client] = op.request]
  BY DEF ExecutePut, raftVars, ClientInv, KvInv, KvTypes, ServerTypes
<1>2. /\ applying \in [Server -> {"pop", "execute", "send"}]
      /\ m_skipList \in [Server -> [Keys -> Ops \cup {NoValue}]]
      /\ m_lastRequestId \in [Server -> [{Uuid(x) : x \in Client} -> Nat]]
  BY DEF ClientInv, KvInv, KvTypes, ServerTypes
<1>3. \A p \in Server \ {s} : /\ m_skipList'[p] = m_skipList[p]
                              /\ m_lastRequestId'[p] = m_lastRequestId[p]
                              /\ applying'[p] = applying[p]
  BY <1>1, <1>2
<1>4. /\ n \in 1..Len(chosen) /\ applied[s] \in Nat /\ Shown(s) = applied[s]
      /\ op = chosen[n] /\ n \in 1..n /\ n = applied[s] + 1 /\ n \in Nat
  BY <1>1, ShownInLog DEF Current
<1>5. /\ op \in Known /\ c \in Client /\ op.client = Uuid(c) /\ op.request \in Nat
      /\ op.request >= 1 /\ op.key \in Keys
  <2>1. n \in 1..Len(chosen) /\ op = chosen[n]
    BY <1>4
  <2> HIDE DEF n, op
  <2> QED
    BY <2>1, LogRequest
<1>6. Writes(op) /\ (Repeats(n) => GetAmong(applied[s], op))
  BY <1>1 DEF SkipInv, SkipOf, StillNew
<1>7. applying'[s] = "send" /\ Shown(s)' = n
  BY <1>1, <1>2 DEF Shown
<1>8. /\ \A i \in 1..n : i \in 1..Shown(s) \/ i = n
      /\ \A i \in 1..Shown(s) : i \in 1..n /\ i \in 1..Len(chosen) /\ i <= n
      /\ Shown(s) \in Nat /\ Shown(s) <= n
  BY <1>4
<1>9. /\ m_lastRequestId'[s][Uuid(c)] = op.request
      /\ \A d \in Client : d # c =>
            m_lastRequestId'[s][Uuid(d)] = m_lastRequestId[s][Uuid(d)]
  BY <1>1, <1>2, <1>5 DEF UuidsDiffer
<1> HIDE DEF n, op, c
<1>10. TableInLog(s)'
  <2> SUFFICES ASSUME NEW d \in Client, m_lastRequestId'[s][Uuid(d)] > 0
               PROVE  \E i \in 1..n : IsRequest(i, d, m_lastRequestId'[s][Uuid(d)])
    BY <1>1, <1>7 DEF TableInLog, IsRequest
  <2>1. CASE d = c
    BY <1>4, <1>9, <2>1 DEF IsRequest, c
  <2>2. CASE d # c
    BY <1>8, <1>9, <2>2 DEF SkipInv, SkipOf, TableInLog
  <2> QED
    BY <2>1, <2>2
<1>11. TableCoversWrites(s)'
  <2> SUFFICES ASSUME NEW i \in 1..n, Writes(chosen[i])
               PROVE  \/ chosen[i].request <= m_lastRequestId'[s][chosen[i].client]
                      \/ GetAmong(n, chosen[i])
    BY <1>1, <1>7 DEF TableCoversWrites, GetAmong, Writes
  <2>1. CASE i = n
    BY <1>4, <1>5, <1>9, <2>1
  <2>2. CASE i \in 1..Shown(s) /\ chosen[i].clerk # c
    <3>1. chosen[i].clerk \in Client /\ chosen[i].client = Uuid(chosen[i].clerk)
      BY <1>8, <2>2, LogRequest
    <3>2. \/ chosen[i].request <= m_lastRequestId[s][chosen[i].client]
          \/ GetAmong(Shown(s), chosen[i])
      BY <2>2 DEF SkipInv, SkipOf, TableCoversWrites
    <3> QED
      BY <1>8, <1>9, <1>4, <2>2, <3>1, <3>2, GetStays
  <2>3. CASE i \in 1..Shown(s) /\ chosen[i].clerk = c
    <3>1. /\ i \in 1..Len(chosen) /\ chosen[i].client = Uuid(c)
          /\ chosen[i].request \in Nat
      BY <1>8, <2>3, LogRequest
    <3>2. CASE chosen[i].request <= op.request
      BY <1>9, <3>1, <3>2
    <3>3. CASE chosen[i].request > op.request
      <4>1. op.request \in 1..chosen[i].request
        BY <1>5, <3>1, <3>3
      <4>2. PICK j \in 1..i : IsRequest(j, c, op.request)
        BY <2>3, <3>1, <4>1, EarlierRequest
      <4>3. j \in 1..(n - 1) /\ j \in 1..Len(chosen)
        BY <1>4, <2>3, <4>2
      <4>4. chosen[j] = op
        BY <1>4, <4>2, <4>3, SameRequest DEF c
      <4>5. GetAmong(applied[s], op)
        BY <1>4, <1>6, <4>3, <4>4 DEF Repeats
      <4>6. PICK k \in 1..applied[s] :
                /\ chosen[k].kind = "Get" /\ chosen[k].clerk = op.clerk
                /\ chosen[k].request < op.request
        BY <4>5 DEF GetAmong
      <4>7. k \in 1..n /\ k \in 1..Len(chosen)
        BY <1>4
      <4>8. chosen[k].request \in Nat
        BY <4>7, LogRequest
      <4>9. chosen[k].request < chosen[i].request
        BY <1>5, <3>1, <3>3, <4>6, <4>8
      <4> QED
        BY <2>3, <4>6, <4>7, <4>9 DEF GetAmong, c
    <3> QED
      BY <1>5, <3>1, <3>2, <3>3
  <2> QED
    BY <1>8, <2>1, <2>2, <2>3
<1>12. StillNew(s)'
  BY <1>7 DEF StillNew
<1>13. \A k \in Keys : Matches(s, k, Shown(s))'
  <2>0. n' = n
    BY <1>1 DEF n
  <2> SUFFICES ASSUME NEW k \in Keys PROVE Matches(s, k, n)'
    BY <1>7, <2>0 DEF Matches, AllWrites, FirstWrites
  <2> DEFINE W == {i \in {applied[s] + 1} : Writes(chosen[i]) /\ chosen[i].key = k}
  <2>1. /\ AllWrites(n, k) = AllWrites(applied[s], k) \cup W
        /\ FirstWrites(n, k) = FirstWrites(applied[s], k) \cup {i \in W : ~Repeats(i)}
    BY <1>4, WritesNext
  <2>2. /\ AllWrites(n, k)' = AllWrites(n, k) /\ FirstWrites(n, k)' = FirstWrites(n, k)
        /\ \A i : Repeats(i)' <=> Repeats(i)
        /\ \A i, m : GetAmong(m, chosen[i])' <=> GetAmong(m, chosen[i])
    BY <1>1, <2>0 DEF AllWrites, FirstWrites, Writes, Repeats, GetAmong
  <2>3. CASE op.key = k
    <3>1. n \in AllWrites(n, k)
      BY <1>4, <1>6, <2>3 DEF AllWrites
    <3>2. \A j \in FirstWrites(n, k) : j <= n
      BY <1>4 DEF FirstWrites, AllWrites
    <3>3. m_skipList'[s][k] = op
      BY <1>1, <1>2, <2>3
    <3>4. Repeats(n) => GetAmong(n - 1, chosen[n])
      BY <1>4, <1>6
    <3> QED
      BY <1>1, <1>4, <2>0, <2>2, <3>1, <3>2, <3>3, <3>4 DEF Matches
  <2>4. CASE op.key # k
    <3>1. W = {}
      BY <1>4, <2>4
    <3>2. m_skipList'[s][k] = m_skipList[s][k]
      BY <1>1, <1>2, <2>4
    <3>3. Matches(s, k, applied[s])
      BY <1>4 DEF SkipInv, SkipOf
    <3>4. Matches(s, k, n)
      BY <2>1, <3>1, <3>3 DEF Matches
    <3> QED
      BY <1>1, <2>0, <2>2, <3>2, <3>4 DEF Matches
  <2> QED
    BY <2>3, <2>4
<1>14. SkipOf(s)'
  BY <1>10, <1>11, <1>12, <1>13 DEF SkipOf
<1> QED
  BY <1>1, <1>3, <1>7, <1>8, <1>4, <1>14, SkipOfOne

\* The loop goes on to the next command.
LEMMA SendMessageSkip ==
    ASSUME ClientInv, SkipInv, NEW s \in Server, SendMessage(s)
    PROVE  SkipInv'
<1>1. /\ m_skipList' = m_skipList /\ m_lastRequestId' = m_lastRequestId
      /\ UNCHANGED <<handlers, chosen>> /\ chosen' = chosen
      /\ applying[s] = "send" /\ applying' = [applying EXCEPT ![s] = "pop"]
      /\ applied' = [applied EXCEPT ![s] = applied[s] + 1]
      /\ applying \in [Server -> {"pop", "execute", "send"}]
      /\ applied \in [Server -> Nat]
  BY DEF SendMessage, raftVars, stateVars, ClientInv, KvInv, KvTypes, ServerTypes
<1>2. \A p \in Server \ {s} : applying'[p] = applying[p] /\ applied'[p] = applied[p]
  BY <1>1
<1>3. /\ Shown(s)' = Shown(s) /\ applying'[s] = "pop" /\ Shown(s)' \in Nat
      /\ Shown(s)' >= Shown(s)
  BY <1>1 DEF Shown
<1>4. TableInLog(s)' /\ TableCoversWrites(s)' /\ StillNew(s)'
  BY <1>1, <1>3 DEF SkipInv, SkipOf, TableInLog, TableCoversWrites, StillNew,
     IsRequest, GetAmong, Writes
<1>5. \A k \in Keys : Matches(s, k, Shown(s))'
  BY <1>1, <1>3 DEF SkipInv, SkipOf, Matches, AllWrites, FirstWrites, Writes,
     Repeats, GetAmong
<1>6. SkipOf(s)'
  BY <1>4, <1>5 DEF SkipOf
<1> QED
  BY <1>1, <1>2, <1>3, <1>6, SkipOfOne

\* A Get's handler sets the table back, if at all, to a Get before the writes that
\* are no longer covered.
LEMMA ExecuteGetSkip ==
    ASSUME UuidsDiffer, ClientInv, SkipInv, NEW h \in handlers, ExecuteGet(h)
    PROVE  SkipInv'
<1> DEFINE s == h.call.server
           op == h.call.op
           c == op.clerk
<1>1. /\ applied' = applied /\ chosen' = chosen /\ applying' = applying
      /\ m_skipList' = m_skipList /\ h.at = "read"
      /\ m_lastRequestId' = [m_lastRequestId EXCEPT ![s][op.client] = op.request]
  BY DEF ExecuteGet, raftVars, applyVars
<1>2. m_lastRequestId \in [Server -> [{Uuid(x) : x \in Client} -> Nat]]
  BY DEF ClientInv, KvInv, KvTypes, ServerTypes
<1>3. /\ op \in Known /\ c \in Client /\ op.client = Uuid(c) /\ op.kind = "Get"
      /\ s \in Server /\ op.request \in Nat
  BY <1>1, HandlerRequest DEF ClientInv, AnswerInv, AnsweredReached
<1>4. PICK g \in 1..Shown(s) : IsRequest(g, c, op.request)
  BY <1>1 DEF SkipInv, ReadsInLog, ReadInLog
<1>5. /\ m_lastRequestId'[s][Uuid(c)] = op.request
      /\ \A d \in Client : d # c =>
            m_lastRequestId'[s][Uuid(d)] = m_lastRequestId[s][Uuid(d)]
      /\ \A p \in Server \ {s} : m_lastRequestId'[p] = m_lastRequestId[p]
  BY <1>1, <1>2, <1>3 DEF UuidsDiffer
<1>6. \A p \in Server \ {s} : SkipOf(p)'
  BY <1>1, <1>5, SkipOfSame
<1>7. PICK next \in {[h EXCEPT !.at = "erase", !.err = "ErrNoKey"],
                     [h EXCEPT !.at = "erase", !.err = "OK"]} : Step(h, next)
  BY DEF ExecuteGet
<1>8. next.at # "read" /\ handlers' = (handlers \ {h}) \cup {next}
  BY <1>7, HandlerFacts DEF Handlers, Step, ClientInv
<1> HIDE DEF s, op, c
<1>9. /\ \A p \in Server : Shown(p)' = Shown(p)
      /\ \A i \in 1..Shown(s) : i \in 1..Len(chosen)
  BY <1>1, <1>3, ShownInLog DEF Shown
<1>10. TableInLog(s)'
  <2> SUFFICES ASSUME NEW d \in Client, m_lastRequestId'[s][Uuid(d)] > 0
               PROVE  \E i \in 1..Shown(s) : IsRequest(i, d, m_lastRequestId'[s][Uuid(d)])
    BY <1>1, <1>3, <1>9 DEF TableInLog, IsRequest
  <2>1. CASE d = c
    BY <1>4, <1>5, <2>1
  <2>2. CASE d # c
    BY <1>3, <1>5, <2>2 DEF SkipInv, SkipOf, TableInLog
  <2> QED
    BY <2>1, <2>2
<1>11. TableCoversWrites(s)'
  <2> SUFFICES ASSUME NEW i \in 1..Shown(s), Writes(chosen[i])
               PROVE  \/ chosen[i].request <= m_lastRequestId'[s][chosen[i].client]
                      \/ GetAmong(Shown(s), chosen[i])
    BY <1>1, <1>3, <1>9 DEF TableCoversWrites, GetAmong, Writes
  <2>1. /\ chosen[i].clerk \in Client /\ chosen[i].client = Uuid(chosen[i].clerk)
        /\ chosen[i].request \in Nat
    BY <1>9, LogRequest
  <2>2. CASE chosen[i].clerk # c
    BY <1>3, <1>5, <2>1, <2>2 DEF SkipInv, SkipOf, TableCoversWrites
  <2>3. CASE chosen[i].clerk = c
    <3>1. CASE chosen[i].request <= op.request
      BY <1>5, <2>1, <2>3, <3>1
    <3>2. CASE op.request < chosen[i].request
      <4>1. chosen[g].clerk = c /\ chosen[g].request = op.request
        BY <1>4 DEF IsRequest
      <4>2. chosen[g] \in Known
        BY <1>9, LogRequest
      <4>3. chosen[g] = op
        BY <1>3, <4>1, <4>2 DEF ClientInv, KnownInv, KnownOnce, c
      <4> QED
        BY <1>3, <2>3, <3>2, <4>1, <4>3 DEF GetAmong
    <3> QED
      BY <1>3, <2>1, <3>1, <3>2
  <2> QED
    BY <2>2, <2>3
<1>12. StillNew(s)'
  BY <1>1, <1>3 DEF SkipInv, SkipOf, StillNew, Current, Writes, Repeats, GetAmong
<1>13. \A k \in Keys : Matches(s, k, Shown(s))'
  BY <1>1, <1>3, <1>9 DEF SkipInv, SkipOf, Matches, AllWrites, FirstWrites, Writes,
     Repeats, GetAmong
<1>14. SkipOf(s)'
  BY <1>10, <1>11, <1>12, <1>13 DEF SkipOf
<1>15. ReadsInLog'
  <2> SUFFICES ASSUME NEW x \in handlers', x.at = "read" PROVE ReadInLog(x)'
    BY DEF ReadsInLog
  <2>1. x \in handlers
    BY <1>8
  <2>2. ReadInLog(x) /\ x.call.server \in Server
    BY <2>1, HandlerRequest DEF SkipInv, ReadsInLog
  <2> QED
    BY <1>1, <1>9, <2>2 DEF ReadInLog, IsRequest
<1> QED
  BY <1>6, <1>14, <1>15 DEF SkipInv

\* The other steps of the clerks and the handlers execute nothing; whoever goes on
\* to read finds its command executed.
LEMMA PopCommandSkip ==
    ASSUME UuidsDiffer, ClientInv, SkipInv, NEW h \in handlers, PopCommand(h)
    PROVE  SkipInv'
<1> DEFINE s == h.call.server
           c == h.call.op.clerk
           queue == waitApplyCh[s][h.index]
           next == [h EXCEPT !.at = "read"]
<1>1. /\ queue # <<>> /\ h.at = "waiting"
      /\ UNCHANGED <<stateVars, applyVars, chosen>>
  BY DEF PopCommand, raftVars
<1>2. h.index \in DOMAIN waitApplyCh[s] /\ queue \in Seq(Ops) /\ s \in Server
  BY <1>1, HandlerFacts DEF Queues, ClientInv
<1>3. /\ h.index <= applied[s] /\ h.index \in 1..Len(chosen)
      /\ Head(queue) = chosen[h.index]
  <2>1. 1 \in 1..Len(queue) /\ Head(queue) = queue[1]
    BY <1>1, <1>2, PoppedQueue
  <2> QED
    BY <1>2, <2>1 DEF ClientInv, AnswerInv, QueuesHoldLog
<1>4. Answers(h, Head(queue)) => ReadInLog(h)
  <2> SUFFICES ASSUME Answers(h, chosen[h.index]) PROVE ReadInLog(h)
    BY <1>3
  <2>1. IsRequest(h.index, c, h.call.op.request)
    BY <1>3, LogRequest, HandlerRequest DEF Answers, IsRequest, UuidsDiffer
  <2>2. h.index \in 1..Shown(s)
    BY <1>2, <1>3, ShownInLog
  <2> QED
    BY <2>1, <2>2 DEF ReadInLog
<1>5. next.call = h.call /\ (ReadInLog(h) => ReadInLog(next))
  BY HandlerFacts DEF ReadInLog, Handlers, ClientInv
<1>6. \A x \in handlers' : x.at = "read" => x \in handlers \/ ReadInLog(x)
  <2>1. \A x \in handlers' : x \in handlers \/ x.at # "read"
            \/ (x = next /\ Answers(h, Head(queue)))
    BY HandlerFacts DEF PopCommand, Step, Handlers, ClientInv
  <2> QED
    BY <1>4, <1>5, <2>1
<1> QED
  BY <1>1, <1>6, SkipKept

LEMMA TimeOutSkip ==
    ASSUME ClientInv, SkipInv, NEW h \in handlers, TimeOut(h)
    PROVE  SkipInv'
<1> DEFINE s == h.call.server
           c == h.call.op.clerk
           t == m_lastRequestId[s][Uuid(c)]
           next == [h EXCEPT !.at = "read"]
<1>1. UNCHANGED <<stateVars, applyVars, chosen>>
  BY DEF TimeOut, raftVars
<1>2. ifRequestDuplicate(s, h.call.op) => ReadInLog(h)
  <2> SUFFICES ASSUME ifRequestDuplicate(s, h.call.op) PROVE ReadInLog(h)
    OBVIOUS
  <2>1. /\ s \in Server /\ c \in Client /\ h.call.op.client = Uuid(c)
        /\ h.call.op.request \in Nat /\ h.call.op.request > 0
    BY HandlerRequest
  <2>2. t \in Nat
    BY <2>1, ClientTypes DEF ClientInv
  <2>3. h.call.op.request <= t /\ t > 0
    BY <2>1, <2>2 DEF ifRequestDuplicate
  <2>4. PICK i \in 1..Shown(s) : IsRequest(i, c, t)
    BY <2>1, <2>3 DEF SkipInv, SkipOf, TableInLog
  <2>5. i \in 1..Len(chosen) /\ Shown(s) \in Nat
    BY <2>1, ShownInLog
  <2>6. h.call.op.request \in 1..chosen[i].request /\ chosen[i].clerk = c
    BY <2>1, <2>2, <2>3, <2>4 DEF IsRequest
  <2>7. PICK j \in 1..i : IsRequest(j, c, h.call.op.request)
    BY <2>5, <2>6, EarlierRequest
  <2>8. j \in 1..Shown(s)
    BY <2>5
  <2> QED
    BY <2>7, <2>8 DEF ReadInLog
<1>3. next.call = h.call /\ (ReadInLog(h) => ReadInLog(next))
  BY HandlerFacts DEF ReadInLog, Handlers, ClientInv
<1>4. \A x \in handlers' : x.at = "read" => x \in handlers \/ ReadInLog(x)
  <2>1. \A x \in handlers' : x \in handlers \/ x.at # "read"
            \/ (x = next /\ ifRequestDuplicate(s, h.call.op))
    BY HandlerFacts DEF TimeOut, MayReadLate, Step, Handlers, ClientInv
  <2> QED
    BY <1>2, <1>3, <2>1
<1> QED
  BY <1>1, <1>4, SkipKept

\* The others neither execute nor read anything.
LEMMA OthersSkip ==
    ASSUME ClientInv, SkipInv,
           \/ \E c \in Client, k \in {"Get", "Put", "Append"}, key \in Keys :
                    Request(c, k, key)
           \/ \E c \in Client : CallFails(c)
           \/ \E call \in calls : Handle(call)
           \/ \E h \in handlers : AwaitCommand(h)
           \/ \E h \in handlers : Reply(h)
    PROVE  SkipInv'
<1>1. CASE \/ \E c \in Client, k \in {"Get", "Put", "Append"}, key \in Keys :
                    Request(c, k, key)
           \/ \E c \in Client : CallFails(c)
           \/ \E h \in handlers : Reply(h)
  <2>1. UNCHANGED <<stateVars, applyVars, chosen>> /\ handlers' \subseteq handlers
    BY <1>1 DEF Request, CallFails, Reply, raftVars
  <2> QED
    BY <2>1, SkipKept
<1>2. CASE \E call \in calls : Handle(call)
  <2>1. /\ UNCHANGED <<stateVars, applyVars, chosen>>
        /\ \A x \in handlers' : x.at = "read" => x \in handlers
    BY <1>2 DEF Handle, StartRefused, StartAccepted, raftVars
  <2> QED
    BY <2>1, SkipKept
<1>3. CASE \E h \in handlers : AwaitCommand(h)
  <2>1. PICK h \in handlers : AwaitCommand(h)
    BY <1>3
  <2>2. h \in Handlers
    BY HandlerFacts DEF ClientInv
  <2>3. /\ UNCHANGED <<stateVars, applyVars, chosen>>
        /\ \A x \in handlers' : x.at = "read" => x \in handlers
    BY <2>1, <2>2 DEF AwaitCommand, Step, raftVars, Handlers
  <2> QED
    BY <2>3, SkipKept
<1> QED
  BY <1>1, <1>2, <1>3

\* Something is chosen: the longer log shows the same where it was.
LEMMA ChooseSkip ==
    ASSUME ClientInv, SkipInv, NEW e \in started, Choose(e)
    PROVE  SkipInv'
<1>1. /\ chosen' = Append(chosen, e.op)
      /\ UNCHANGED <<m_skipList, m_lastRequestId, applying, applied, handlers>>
  BY DEF Choose, stateVars, applyVars
<1>2. \A i \in 1..Len(chosen) : chosen'[i] = chosen[i]
  <2>1. chosen \in Seq(Ops) /\ e.op \in Ops
    BY ClientTypes DEF ClientInv, KvInv, KvTypes, RaftTypes
  <2> QED
    BY <1>1, <2>1
<1>3. \A s \in Server : /\ Shown(s)' = Shown(s) /\ Shown(s) \in Nat
                        /\ \A i \in 1..Shown(s) : chosen'[i] = chosen[i]
  BY <1>1, <1>2, ShownInLog DEF Shown
<1>4. ASSUME NEW s \in Server PROVE SkipOf(s)'
  <2>1. PICK n \in Nat : /\ Shown(s) = n /\ Shown(s)' = n
                         /\ \A i \in 1..n : chosen'[i] = chosen[i]
    BY <1>3
  <2>2. /\ \A k : /\ AllWrites(n, k)' = AllWrites(n, k)
                  /\ FirstWrites(n, k)' = FirstWrites(n, k)
        /\ \A i \in 1..n : Repeats(i)' <=> Repeats(i)
        /\ \A i \in 1..n, m \in 0..n :
                GetAmong(m, chosen[i])' <=> GetAmong(m, chosen[i])
    BY <2>1, WritesKept
  <2>3. TableInLog(s)'
    <3>1. \A c \in Client : \A i \in 1..n :
            IsRequest(i, c, m_lastRequestId[s][Uuid(c)])
                => IsRequest(i, c, m_lastRequestId[s][Uuid(c)])'
      BY <1>1, <2>1 DEF IsRequest
    <3> QED
      BY <1>1, <2>1, <3>1 DEF SkipInv, SkipOf, TableInLog
  <2>4. TableCoversWrites(s)'
    <3> SUFFICES ASSUME NEW i \in 1..n, Writes(chosen[i])
                 PROVE  \/ chosen[i].request <= m_lastRequestId[s][chosen[i].client]
                        \/ GetAmong(n, chosen[i])'
      BY <1>1, <2>1 DEF TableCoversWrites, Writes, GetAmong
    <3>1. \/ chosen[i].request <= m_lastRequestId[s][chosen[i].client]
          \/ GetAmong(n, chosen[i])
      BY <2>1 DEF SkipInv, SkipOf, TableCoversWrites
    <3>2. n \in 0..n
      OBVIOUS
    <3> QED
      BY <2>2, <3>1, <3>2
  <2>5. StillNew(s)'
    <3> SUFFICES ASSUME applying[s] = "execute" PROVE StillNew(s)'
      BY <1>1 DEF StillNew
    <3>1. applied[s] < Len(chosen) /\ applied[s] \in Nat /\ Len(chosen) \in Nat
      BY ClientTypes DEF ClientInv, KvInv, KvTypes, ServerTypes
    <3>2. PICK l \in Nat : l = applied[s] /\ applied'[s] = l
      BY <1>1, <3>1
    <3>3. /\ \A i \in 1..(l + 1) : chosen'[i] = chosen[i]
          /\ l + 1 \in Nat /\ l + 1 \in 1..(l + 1) /\ l \in 0..(l + 1)
      BY <1>2, <3>1, <3>2
    <3>4. /\ Repeats(l + 1)' <=> Repeats(l + 1)
          /\ GetAmong(l, chosen[l + 1])' <=> GetAmong(l, chosen[l + 1])
      BY <3>3, WritesKept
    <3>5. Writes(chosen[l + 1]) /\ (Repeats(l + 1) => GetAmong(l, chosen[l + 1]))
      BY <3>2 DEF SkipInv, SkipOf, StillNew, Current
    <3>6. Writes(chosen[l + 1])'
      BY <3>3, <3>5 DEF Writes
    <3> QED
      BY <3>2, <3>4, <3>5, <3>6 DEF StillNew, Current
  <2>6. \A k \in Keys : Matches(s, k, Shown(s))'
    <3> SUFFICES ASSUME NEW k \in Keys PROVE Matches(s, k, n)'
      BY <2>1 DEF Matches
    <3>1. CASE FirstWrites(n, k) = {} /\ m_skipList[s][k] = NoValue
      BY <1>1, <2>2, <3>1 DEF Matches
    <3>2. CASE \E i \in AllWrites(n, k) :
                    /\ m_skipList[s][k] = chosen[i]
                    /\ \A j \in FirstWrites(n, k) : j <= i
                    /\ Repeats(i) => GetAmong(i - 1, chosen[i])
      <4>1. PICK i \in AllWrites(n, k) :
                    /\ m_skipList[s][k] = chosen[i]
                    /\ \A j \in FirstWrites(n, k) : j <= i
                    /\ Repeats(i) => GetAmong(i - 1, chosen[i])
        BY <3>2
      <4>2. i \in 1..n /\ i - 1 \in 0..n
        BY DEF AllWrites
      <4>3. Repeats(i)' => GetAmong(i - 1, chosen[i])'
        BY <2>2, <4>1, <4>2
      <4>4. m_skipList'[s][k] = chosen'[i]
        BY <1>1, <2>1, <4>1, <4>2
      <4> QED
        BY <2>2, <4>1, <4>3, <4>4 DEF Matches
    <3> QED
      BY <2>1, <3>1, <3>2 DEF SkipInv, SkipOf, Matches
  <2> QED
    BY <2>3, <2>4, <2>5, <2>6 DEF SkipOf
<1>5. ReadsInLog'
  BY <1>1, <1>3, HandlerRequest DEF SkipInv, ReadsInLog, ReadInLog, IsRequest
<1> QED
  BY <1>4, <1>5 DEF SkipInv

\* The invariant holds initially: nothing is executed.
LEMMA SkipInitInv == KvInit => SkipInv
<1> SUFFICES ASSUME KvInit PROVE SkipInv
  OBVIOUS
<1>1. ASSUME NEW s \in Server PROVE SkipOf(s)
  <2>1. /\ applying[s] = "pop" /\ applied[s] = 0
        /\ \A k \in Keys : m_skipList[s][k] = NoValue
        /\ \A c \in Client : m_lastRequestId[s][Uuid(c)] = 0
    BY DEF KvInit
  <2>2. Shown(s) = 0
    BY <2>1 DEF Shown
  <2>3. \A k \in Keys : FirstWrites(0, k) = {}
    BY DEF FirstWrites, AllWrites
  <2> QED
    BY <2>1, <2>2, <2>3 DEF SkipOf, TableInLog, TableCoversWrites, StillNew, Matches
<1>2. ReadsInLog
  BY DEF KvInit, ReadsInLog
<1> QED
  BY <1>1, <1>2 DEF SkipInv

\* Every step keeps it.
LEMMA SkipStepInv ==
    ASSUME UuidsDiffer, ClientInv, SkipInv, [KvNext]_kvVars
    PROVE  SkipInv'
<1>1. CASE UNCHANGED kvVars
  BY <1>1, SkipKept DEF kvVars, raftVars
<1>2. CASE KvNext
  <2>1. \/ \E c \in Client, k \in {"Get", "Put", "Append"}, key \in Keys :
                Request(c, k, key)
        \/ \E c \in Client : CallFails(c)
        \/ \E call \in calls : Handle(call)
        \/ \E h \in handlers : AwaitCommand(h)
        \/ \E h \in handlers : Reply(h)
        \/ \E h \in handlers : PopCommand(h) \/ TimeOut(h) \/ ExecuteGet(h)
        \/ \E s \in Server : TakeCommand(s) \/ ExecutePut(s) \/ SendMessage(s)
        \/ \E e \in started : Choose(e)
    BY <1>2 DEF KvNext
  <2>2. (\E h \in handlers : PopCommand(h) \/ TimeOut(h) \/ ExecuteGet(h)) => SkipInv'
    BY PopCommandSkip, TimeOutSkip, ExecuteGetSkip
  <2>3. (\E s \in Server : TakeCommand(s) \/ ExecutePut(s) \/ SendMessage(s))
            => SkipInv'
    BY TakeCommandSkip, ExecutePutSkip, SendMessageSkip
  <2>4. (\E e \in started : Choose(e)) => SkipInv'
    BY ChooseSkip
  <2> QED
    BY <2>1, <2>2, <2>3, <2>4, OthersSkip
<1> QED
  BY <1>1, <1>2

\* No Put is lost at any server, whatever the handlers of Gets write into the table
\* of request ids, and none is executed again unless its clerk had called Get
\* before, if no two clerks drew one m_clientId (GetCommandFromRaft trusts
\* m_lastRequestId, which ExecuteGetOpOnKVDB sets back when a handler reads late).
THEOREM WritesAreKept == UuidsDiffer => (KvSpec => []NoWriteIsLost)
<1> SUFFICES ASSUME UuidsDiffer PROVE KvSpec => []NoWriteIsLost
  OBVIOUS
<1> DEFINE Inv == ClientInv /\ SkipInv
<1>1. KvInit => Inv
  BY ClientInitInv, SkipInitInv
<1>2. Inv /\ [KvNext]_kvVars => Inv'
  BY ClientStepInv, SkipStepInv
<1>3. Inv => NoWriteIsLost
  BY DEF SkipInv, SkipOf, Matches, NoWriteIsLost
<1> HIDE DEF Inv
<1> QED
  BY <1>1, <1>2, <1>3, PTL DEF KvSpec
=============================================================================
