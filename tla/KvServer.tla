------------------------------ MODULE KvServer ------------------------------
(***************************************************************************)
(* The key-value service on top of Raft, src/raftCore/kvServer.cpp, and    *)
(* its client, src/raftClerk/clerk.cpp.                                    *)
(*                                                                         *)
(* A handler of Get or PutAppend is a thread of the RPC provider that      *)
(* takes and releases m_mtx several times: each stretch under the mutex,   *)
(* or without any, is one action.  ReadRaftApplyCommandLoop is a second    *)
(* kind of thread, one per server, that executes what Raft hands it, and   *)
(* a clerk is a third, which calls one server after the other until it is  *)
(* answered.  A call that fails leaves its request behind: it may still be *)
(* handled, while the clerk already asks another server.                   *)
(*                                                                         *)
(* Raft is here what it promises the service: the log of chosen entries    *)
(* grows one index at a time by what some server started at that index, a  *)
(* server that is elected has every chosen entry, and a server's log never *)
(* gets shorter, so that its Start never returns an index twice.  Who      *)
(* believes to lead is left open: Start may refuse or take a command at    *)
(* any server.  Snapshots are left out, and a server does not end.         *)
(***************************************************************************)
EXTENDS Integers, Sequences, FiniteSets

CONSTANTS
    N,              \* number of servers; clerks call 0, 1, .. N - 1 in a ring
    Client,         \* the clerks, each a thread that makes one request at a time
    Ordinal,        \* which of the clerks of its process each clerk is
    Keys,
    Readers,        \* the clerks that call Get
    Writers,        \* the clerks that call Put
    Appenders,      \* the clerks that call Append
    NoValue         \* of a key that the skip list does not have

(* Bounds of the exploration: each one only disables actions. *)
CONSTANTS
    MaxIndex,       \* no entry is started beyond this index
    MaxRequests,    \* how many requests each clerk makes
    MaxAttempts     \* how many calls each clerk makes for each of them

Server == 0..(N - 1)

ASSUME SizeAssumption == N \in Nat \ {0}
ASSUME ClientAssumption ==
    /\ Readers \subseteq Client /\ Writers \subseteq Client
    /\ Appenders \subseteq Client
    /\ Ordinal \in [Client -> Nat]
ASSUME KvBoundAssumption ==
    /\ MaxIndex \in Nat
    /\ MaxRequests \in [Client -> Nat]
    /\ \A c \in Client : MaxAttempts[c] \in [1..MaxRequests[c] -> Nat]

VARIABLES
    \* a clerk: m_requestId, m_recentLeaderId, and the call it waits for
    m_requestId, m_recentLeaderId, calling,
    calls,          \* requests no handler has taken yet
    \* a server
    handlers,       \* the threads of Get and PutAppend past a successful Start
    m_skipList, m_lastRequestId,
    waitApplyCh,    \* the queues, by index: what was pushed and not popped
    applying,       \* where GetCommandFromRaft stands
    applied,        \* how many commands it has finished
    \* Raft
    chosen,         \* the committed log
    started,        \* what Start has put at which index, chosen or not
    logEnd,         \* each server's last log index
    \* history
    chosenBefore    \* length of chosen when a clerk's request began

clerkVars == <<m_requestId, m_recentLeaderId, calling, chosenBefore>>
stateVars == <<m_skipList, m_lastRequestId>>
applyVars == <<applying, applied>>
raftVars  == <<chosen, started, logEnd>>
kvVars == <<clerkVars, calls, handlers, stateVars, waitApplyCh, applyVars,
            raftVars>>

-----------------------------------------------------------------------------
(* The clerk *)

\* A clerk that is not calling, before its first request; later its last call
\* stays there with no attempt.
Idle == [attempt |-> 0]

NoCall(c) == calling[c].attempt = 0

\* m_clientId, drawn from rand(), which no client program seeds: every process
\* draws the same sequence.
Uuid(c) == Ordinal[c]

\* The clerk turns to the next server.
NextServer(s) == (s + 1) % N

\* The clerk sends its request, in a call that has not been made before; what
\* is under way besides is others.
Call(c, op, s, attempt, others) ==
    LET call == [op |-> op, server |-> s, attempt |-> attempt] IN
    /\ attempt <= MaxAttempts[c][op.request]
    /\ calling' = [calling EXCEPT ![c] = call]
    /\ calls' = others \cup {call}

\* Put and Append.
Writes(op) == op.kind # "Get"

\* Get, Put or Append: a new request id, and a call to the server that last
\* answered.  The request stands for the value as well: each write has a value of
\* its own.
Request(c, kind, key) ==
    /\ NoCall(c)
    /\ m_requestId[c] < MaxRequests[c]
    /\ kind = "Get" => c \in Readers
    /\ kind = "Put" => c \in Writers
    /\ kind = "Append" => c \in Appenders
    /\ m_requestId' = [m_requestId EXCEPT ![c] = @ + 1]
    /\ Call(c, [clerk |-> c, client |-> Uuid(c),
                request |-> m_requestId[c] + 1, kind |-> kind, key |-> key],
            m_recentLeaderId[c], 1, calls)
    /\ chosenBefore' = [chosenBefore EXCEPT ![c] = Len(chosen)]
    /\ UNCHANGED <<m_recentLeaderId, handlers, stateVars, waitApplyCh,
                   applyVars, raftVars>>

\* The clerk asks again, for the same request id.
Retry(c, s, others) ==
    Call(c, calling[c].op, s, calling[c].attempt + 1, others)

\* The call failed: on to the next server; or its connection was closed, which
\* the channel takes for an empty reply: the same server again.  The request
\* stays where it is.
CallFails(c) ==
    /\ ~NoCall(c)
    /\ \/ Retry(c, NextServer(calling[c].server), calls)
       \/ Retry(c, calling[c].server, calls)
    /\ UNCHANGED <<m_requestId, m_recentLeaderId, chosenBefore, handlers,
                   stateVars, waitApplyCh, applyVars, raftVars>>

\* The server a clerk asks first the next time.
Remembered(call) == call.server

\* The answer to a call, if its clerk still waits for it.
Answer(call, err, others) ==
    LET c == call.op.clerk IN
    \/ /\ calling[c] # call
       /\ calls' = others
       /\ UNCHANGED clerkVars
    \/ /\ calling[c] = call /\ err = "ErrWrongLeader"
       /\ Retry(c, NextServer(call.server), others)
       /\ UNCHANGED <<m_requestId, m_recentLeaderId, chosenBefore>>
    \/ /\ calling[c] = call /\ err \in {"OK", "ErrNoKey"}
       /\ calling' = [calling EXCEPT ![c].attempt = 0]
       /\ m_recentLeaderId' = IF err = "OK"
            THEN [m_recentLeaderId EXCEPT ![c] = Remembered(call)]
            ELSE m_recentLeaderId
       /\ calls' = others
       /\ UNCHANGED <<m_requestId, chosenBefore>>

-----------------------------------------------------------------------------
(* The handlers of Get and PutAppend *)

\* A thread goes on to the record it is replaced by.
Step(h, next) == handlers' = (handlers \ {h}) \cup {next}

\* Not the leader.
StartRefused(call) ==
    /\ Answer(call, "ErrWrongLeader", calls \ {call})
    /\ UNCHANGED <<handlers, raftVars>>

\* Mutant of LogEnds: an election cuts what was not chosen.
LogEndsCut(s) == {Len(chosen)}

\* Where the log of a server may end when it leads: where it ended, and if it
\* was elected since, with all that is chosen and some of what was started.
LogEnds(s) ==
    {logEnd[s]} \cup {e \in Len(chosen)..MaxIndex :
                        e >= logEnd[s] /\ \E p \in Server : e <= logEnd[p]}

\* Raft's Start: the command is put at the end of the leader's log.
StartAccepted(call) ==
    LET s == call.server IN
    \E e \in LogEnds(s) :
        /\ e < MaxIndex
        /\ logEnd' = [logEnd EXCEPT ![s] = e + 1]
        /\ started' = started \cup {[index |-> e + 1, op |-> call.op]}
        /\ handlers' = handlers \cup
                {[call |-> call, index |-> e + 1, at |-> "started",
                  err |-> "none"]}
        /\ calls' = calls \ {call}
        /\ UNCHANGED <<clerkVars, chosen>>

\* A request reaches its handler.
Handle(call) ==
    /\ StartRefused(call) \/ StartAccepted(call)
    /\ UNCHANGED <<stateVars, waitApplyCh, applyVars>>

\* The queue of this index is made, unless it is there.
AwaitCommand(h) ==
    LET s == h.call.server IN
    /\ h.at = "started"
    /\ Step(h, [h EXCEPT !.at = "waiting"])
    /\ waitApplyCh' = [waitApplyCh EXCEPT ![s] =
            [i \in DOMAIN @ \cup {h.index} |->
                IF i \in DOMAIN @ THEN @[i] ELSE <<>>]]
    /\ UNCHANGED <<clerkVars, calls, stateVars, applyVars, raftVars>>

\* Mutant of Answers: whatever was committed at the index is taken for it.
AnswersAnything(h, op) == TRUE

\* The command committed at the handler's index is its own.
Answers(h, op) ==
    op.client = h.call.op.client /\ op.request = h.call.op.request

\* timeOutPop finds a command: an own Get goes on to read, all else is answered.
PopCommand(h) ==
    LET s == h.call.server
        queue == waitApplyCh[s][h.index] IN
    /\ h.at = "waiting"
    /\ queue # <<>>
    /\ waitApplyCh' = [waitApplyCh EXCEPT ![s][h.index] = Tail(queue)]
    /\ \/ /\ Answers(h, Head(queue)) /\ h.call.op.kind = "Get"
          /\ Step(h, [h EXCEPT !.at = "read"])
       \/ /\ Answers(h, Head(queue)) /\ Writes(h.call.op)
          /\ Step(h, [h EXCEPT !.at = "erase", !.err = "OK"])
       \/ /\ ~Answers(h, Head(queue))
          /\ Step(h, [h EXCEPT !.at = "erase", !.err = "ErrWrongLeader"])
    /\ UNCHANGED <<clerkVars, calls, stateVars, applyVars, raftVars>>

\* Mutant of ifRequestDuplicate: the last request itself is no duplicate.
ifRequestOlder(s, op) == op.request < m_lastRequestId[s][op.client]

\* The server has executed this request or a later one of the same clerk.
ifRequestDuplicate(s, op) == op.request <= m_lastRequestId[s][op.client]

\* Mutant of MayReadLate: it is enough to lead.
MayReadAsLeader(s, op) == TRUE

\* A Get that timed out may read if it was committed all the same, and the
\* server leads.
MayReadLate(s, op) == ifRequestDuplicate(s, op)

\* timeOutPop gives up, which it may do even when the command has just come.
TimeOut(h) ==
    LET s == h.call.server
        op == h.call.op IN
    /\ h.at = "waiting"
    /\ \/ /\ op.kind = "Get" /\ MayReadLate(s, op)
          /\ Step(h, [h EXCEPT !.at = "read"])
       \/ /\ Writes(op) /\ ifRequestDuplicate(s, op)
          /\ Step(h, [h EXCEPT !.at = "erase", !.err = "OK"])
       \/ /\ op.kind = "Get" \/ ~ifRequestDuplicate(s, op)
          /\ Step(h, [h EXCEPT !.at = "erase", !.err = "ErrWrongLeader"])
    /\ UNCHANGED <<clerkVars, calls, stateVars, waitApplyCh, applyVars,
                   raftVars>>

\* ExecuteGetOpOnKVDB: the value is read, and the request recorded.
ExecuteGet(h) ==
    LET s == h.call.server
        op == h.call.op IN
    /\ h.at = "read"
    /\ Step(h, [h EXCEPT !.at = "erase",
                 !.err = IF m_skipList[s][op.key] = NoValue THEN "ErrNoKey"
                                                            ELSE "OK"])
    /\ m_lastRequestId' = [m_lastRequestId EXCEPT ![s][op.client] = op.request]
    /\ UNCHANGED <<clerkVars, calls, m_skipList, waitApplyCh, applyVars,
                   raftVars>>

\* The queue is deleted, and the clerk answered.
Reply(h) ==
    LET s == h.call.server IN
    /\ h.at = "erase"
    /\ handlers' = handlers \ {h}
    /\ waitApplyCh' = [waitApplyCh EXCEPT ![s] =
            [i \in DOMAIN @ \ {h.index} |-> @[i]]]
    /\ Answer(h.call, h.err, calls)
    /\ UNCHANGED <<stateVars, applyVars, raftVars>>

-----------------------------------------------------------------------------
(* ReadRaftApplyCommandLoop *)

\* The command a server is at.
Current(s) == chosen[applied[s] + 1]

\* A command comes out of the apply channel; ifRequestDuplicate is asked, and
\* the mutex released.  Only what is no duplicate and no Get is executed.
TakeCommand(s) ==
    /\ applying[s] = "pop"
    /\ applied[s] < Len(chosen)
    /\ applying' = [applying EXCEPT ![s] =
            IF ~ifRequestDuplicate(s, Current(s)) /\ Writes(Current(s))
            THEN "execute" ELSE "send"]
    /\ UNCHANGED <<clerkVars, calls, handlers, stateVars, waitApplyCh, applied,
                   raftVars>>

\* ExecutePutOpOnKVDB or ExecuteAppendOpOnKVDB: both set the key's value, the
\* second one too.
ExecutePut(s) ==
    LET op == Current(s) IN
    /\ applying[s] = "execute"
    /\ applying' = [applying EXCEPT ![s] = "send"]
    /\ m_skipList' = [m_skipList EXCEPT ![s][op.key] = op]
    /\ m_lastRequestId' = [m_lastRequestId EXCEPT ![s][op.client] = op.request]
    /\ UNCHANGED <<clerkVars, calls, handlers, waitApplyCh, applied, raftVars>>

\* SendMessageToWaitChan: whoever waits on this index gets the command.
SendMessage(s) ==
    LET i == applied[s] + 1 IN
    /\ applying[s] = "send"
    /\ applying' = [applying EXCEPT ![s] = "pop"]
    /\ applied' = [applied EXCEPT ![s] = i]
    /\ waitApplyCh' = IF i \in DOMAIN waitApplyCh[s]
            THEN [waitApplyCh EXCEPT ![s][i] = Append(@, Current(s))]
            ELSE waitApplyCh
    /\ UNCHANGED <<clerkVars, calls, handlers, stateVars, raftVars>>

-----------------------------------------------------------------------------
(* What Raft promises *)

\* The next index is decided, for one of the commands started at it.
Choose(e) ==
    /\ e.index = Len(chosen) + 1
    /\ chosen' = Append(chosen, e.op)
    /\ UNCHANGED <<started, logEnd, clerkVars, calls, handlers, stateVars,
                   waitApplyCh, applyVars>>

-----------------------------------------------------------------------------
(* The specification *)

KvInit ==
    /\ m_requestId = [c \in Client |-> 0]
    /\ m_recentLeaderId = [c \in Client |-> 0]
    /\ calling = [c \in Client |-> Idle]
    /\ chosenBefore = [c \in Client |-> 0]
    /\ calls = {} /\ handlers = {}
    /\ m_skipList = [s \in Server |-> [k \in Keys |-> NoValue]]
    /\ m_lastRequestId =
            [s \in Server |-> [id \in {Uuid(c) : c \in Client} |-> 0]]
    /\ waitApplyCh = [s \in Server |-> <<>>]
    /\ applying = [s \in Server |-> "pop"]
    /\ applied = [s \in Server |-> 0]
    /\ chosen = <<>> /\ started = {}
    /\ logEnd = [s \in Server |-> 0]

KvNext ==
    \/ \E c \in Client, k \in {"Get", "Put", "Append"}, key \in Keys :
            Request(c, k, key)
    \/ \E c \in Client : CallFails(c)
    \/ \E call \in calls : Handle(call)
    \/ \E h \in handlers : AwaitCommand(h)
    \/ \E h \in handlers : PopCommand(h)
    \/ \E h \in handlers : TimeOut(h)
    \/ \E h \in handlers : ExecuteGet(h)
    \/ \E h \in handlers : Reply(h)
    \/ \E s \in Server : TakeCommand(s)
    \/ \E s \in Server : ExecutePut(s)
    \/ \E s \in Server : SendMessage(s)
    \/ \E e \in started : Choose(e)

KvSpec == KvInit /\ [][KvNext]_kvVars
=============================================================================
