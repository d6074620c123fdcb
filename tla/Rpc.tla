--------------------------------- MODULE Rpc ---------------------------------
\* The RPC framework: threads that call methods over the connection of their
\* channel (MprpcChannel), and the provider's loops that take requests from the
\* connections, run the handlers and answer (RpcProvider).
EXTENDS Wire

CONSTANTS
    Thread,       \* threads that call
    Channel,      \* channels, each to the one provider
    ChannelOf,    \* the channel each thread calls over
    ConnectNow,   \* the channels that connect when they are made
    Methods,      \* the methods each thread may call in the n-th call of all
    Offered,      \* the services the provider is told of before it runs, in order
    NumLoops,     \* the provider's IO threads (4 in the code)
    RecvBuffer,   \* what one recv takes, in fields (1024 bytes in the code)
    MaxCalls,     \* bound: calls begun
    MaxConns,     \* bound: connections ever made
    MaxCuts,      \* bound: requests that arrive in two pieces
    MaxStops,     \* bound: times a process ends
    None

ASSUME RpcAssumption ==
    /\ ChannelOf \in [Thread -> Channel]
    /\ ConnectNow \subseteq Channel
    /\ Offered \in Seq(DOMAIN Service)
    /\ NumLoops \in Nat \ {0} /\ RecvBuffer \in Nat \ {0}
    /\ {MaxCalls, MaxConns, MaxCuts, MaxStops} \subseteq Nat
    /\ \A t \in Thread, n \in 1..MaxCalls : Methods[t][n] \subseteq ServiceMethods
    /\ None \notin Nat \cup DOMAIN Service \cup ServiceMethods

VARIABLES
    m_clientFd,   \* per channel: the connection, None for -1
    tries,        \* per channel: the attempts its constructor has left
    crossed,      \* history: the channels whose connection may mix answers up
    pc,           \* per thread: where in CallMethod it is
    at,           \* per thread: the connection its recv waits on
    call,         \* per thread: the method and its arguments
    response,     \* per thread: the caller's response message
    m_failed,     \* per thread: its controller
    conns,        \* the connections: bytes under way and the two ends
    m_serviceMap, \* the provider's services
    running,      \* the provider is listening
    loops,        \* per IO thread: the request whose handler runs, None if none
    begun, cuts, stops, \* counters of the bounds
    handled,      \* history: the requests handled, with their answers
    muted         \* history: an answer had no bytes

channelVars == <<m_clientFd, tries, crossed>>
callerVars  == <<pc, at, call, response, m_failed>>
serverVars  == <<m_serviceMap, running, loops>>
history     == <<begun, cuts, stops, handled, muted>>
vars == <<channelVars, callerVars, conns, serverVars, history>>

Loop == 0..(NumLoops - 1)

-----------------------------------------------------------------------------
\* What the callers ask and what the handlers answer. A call has a number of
\* its own, and every field that is set holds it.

Stamped(type, n) ==
    [f \in DOMAIN Clear(type) |->
        CASE f = "Entries" -> <<[g \in Range(LogEntry) |-> n]>>
          [] f = "result"  -> <<Clear(ResultCode)>>
          [] f = "friends" -> <<n, n, n>>
          [] OTHER         -> n]

SetIn(type, fields, n) ==
    [f \in DOMAIN Clear(type) |-> (IF f \in fields THEN Stamped(type, n) ELSE Clear(type))[f]]

\* A heartbeat has no entries, and the server of number 0 sends a default.
Asked(method, n) ==
    LET type == Request(method)
    IN  {SetIn(type, Range(type) \ unset, n) : unset \in {{}, {"Entries", "LeaderId"}}}

\* The fields a handler sets on one of its paths only. An outdated snapshot is
\* answered with an empty message.
Optional(method) ==
    CASE method = "AppendEntries"   -> {"Success"}
      [] method = "RequestVote"     -> {"VoteGranted"}
      [] method = "InstallSnapshot" -> {"Term"}
      [] method = "Get"             -> {"Value"}
      [] OTHER                      -> {}

Answers(method, n) ==
    LET type == Response(method)
    IN  {SetIn(type, Range(type) \ unset, n) : unset \in SUBSET Optional(method)}

-----------------------------------------------------------------------------
\* The bytes of a request.

Header(method, args) ==
    [service_name |-> ServiceOf(method), method_name |-> method, args_size |-> Len(args)]

Least(a, b) == IF a < b THEN a ELSE b

\* header_size, header, arguments. No field of a header is empty but the size.
Packet(method, m) ==
    LET args   == SerializeToString(Request(method), m)
        h      == Header(method, args)
        header == <<<<1, h.service_name>>, <<2, h.method_name>>>>
                    \o FlatUnits(3, Present(h.args_size))
    IN  <<<<0, Len(header)>>>> \o header \o args

\* The header OnMessage finds in what it took from the buffer. Of a header that
\* was cut ReadString leaves what there is, and its result is not looked at. Bytes
\* that do not start with a size are the rest of a request that was cut: they
\* name no service.
HeaderIn(data) ==
    IF data[1][1] = 0 THEN SubSeq(data, 2, Least(data[1][2] + 1, Len(data))) ELSE <<>>

\* Mutant of ArgumentsIn: the result of reading them is not looked at either.
ArgumentsInUnchecked(data) == {SubSeq(data, Len(HeaderIn(data)) + 2, Len(data))}

\* The bytes of the arguments, which it drops when they are cut short.
ArgumentsIn(data) ==
    LET header == HeaderIn(data)
        rest   == SubSeq(data, Len(header) + 2, Len(data))
    IN  {SubSeq(rest, 1, size) : size \in {Latest(header, 3, 0)} \cap 0..Len(rest)}

\* The method, if the provider has it and its service.
MethodIn(header) ==
    {method \in {Latest(header, 2, None)} :
        LET service == Latest(header, 1, None)
        IN  service \in DOMAIN m_serviceMap /\ method \in m_serviceMap[service]}

\* The request: none, or one.
RequestIn(data) ==
    {[method |-> method, args |-> Parsed(Request(method), Clear(Request(method)), wire)] :
        method \in MethodIn(HeaderIn(data)), wire \in ArgumentsIn(data)}

-----------------------------------------------------------------------------
\* The channel.

\* The threads of a channel that are in a call.
InCall(ch) == {t \in Thread : ChannelOf[t] = ch /\ pc[t] # "idle"}

\* Two threads of a channel are in newConnect at once.
Racing(ch) == \E t, u \in InCall(ch) : t # u /\ pc[t] = "connect" /\ pc[u] = "connect"

\* A connection. History: whose it is, and whether threads raced to make it.
NewConn(ch) ==
    [up |-> <<>>, down |-> <<>>, client |-> TRUE, server |-> TRUE,
     loop |-> Len(conns) % NumLoops, channel |-> ch, raced |-> Racing(ch)]

\* newConnect: the connection is made if the provider listens. Its descriptor
\* replaces the one the channel has.
Connected(ch) ==
    /\ running /\ Len(conns) < MaxConns
    /\ conns' = Append(conns, NewConn(ch))
    /\ m_clientFd' = [m_clientFd EXCEPT ![ch] = Len(conns) + 1]
    /\ crossed' = IF \A t, u \in InCall(ch) : t = u THEN crossed \ {ch} ELSE crossed

Refused(ch) ==
    /\ ~running
    /\ m_clientFd' = [m_clientFd EXCEPT ![ch] = None]
    /\ UNCHANGED <<conns, crossed>>

\* The constructor: one attempt and up to three more.
MprpcChannel(ch) ==
    /\ tries[ch] > 0
    /\ \/ Connected(ch) /\ tries' = [tries EXCEPT ![ch] = 0]
       \/ Refused(ch) /\ tries' = [tries EXCEPT ![ch] = @ - 1]
    /\ UNCHANGED <<callerVars, serverVars, history>>

\* CallMethod begins: it reads the descriptor and serializes the request.
CallMethod(t, method, args) ==
    /\ pc[t] = "idle" /\ tries[ChannelOf[t]] = 0
    /\ begun' = begun + 1
    /\ call' = [call EXCEPT ![t] = [method |-> method, args |-> args]]
    /\ pc' = [pc EXCEPT ![t] = IF m_clientFd[ChannelOf[t]] = None THEN "connect" ELSE "send"]
    \* A controller and a response of the call's own, except in the example caller.
    /\ IF method = "GetFriendsList" /\ call[t] # None /\ call[t].method = method
       THEN UNCHANGED <<response, m_failed>>
       ELSE /\ response' = [response EXCEPT ![t] = Clear(Response(method))]
            /\ m_failed' = [m_failed EXCEPT ![t] = FALSE]
    \* No lock is taken: calls over one channel may overlap.
    /\ crossed' = IF InCall(ChannelOf[t]) = {} THEN crossed ELSE crossed \cup {ChannelOf[t]}
    /\ UNCHANGED <<m_clientFd, tries, at, conns, serverVars, cuts, stops, handled, muted>>

\* The call ends; a failure is left in the controller.
Return(t, fails) ==
    /\ pc' = [pc EXCEPT ![t] = "idle"]
    /\ at' = [at EXCEPT ![t] = None]
    /\ m_failed' = [m_failed EXCEPT ![t] = @ \/ fails]
    /\ UNCHANGED call

Connect(t) ==
    /\ pc[t] = "connect"
    /\ \/ /\ pc' = [pc EXCEPT ![t] = "send"]
          /\ Connected(ChannelOf[t])
          /\ UNCHANGED <<at, call, response, m_failed>>
       \/ /\ Return(t, TRUE)
          /\ Refused(ChannelOf[t])
          /\ UNCHANGED response
    /\ UNCHANGED <<tries, serverVars, history>>

\* Mutant of CloseFd: the descriptor is forgotten and not closed.
CloseFdForgets(ch) == m_clientFd' = [m_clientFd EXCEPT ![ch] = None] /\ UNCHANGED conns

\* close(m_clientFd) and m_clientFd = -1, whichever connection that is by now.
CloseFd(ch) ==
    /\ m_clientFd' = [m_clientFd EXCEPT ![ch] = None]
    /\ conns' = IF m_clientFd[ch] = None THEN conns
                ELSE [conns EXCEPT ![m_clientFd[ch]].client = FALSE]

\* A peer that is gone may still let one send succeed; the bytes are lost.
Sent(t, c) ==
    /\ conns[c].client
    /\ pc' = [pc EXCEPT ![t] = "recv"]
    /\ conns' = IF conns[c].server
                THEN [conns EXCEPT ![c].up = @ \o Packet(call[t].method, call[t].args)]
                ELSE conns
    /\ UNCHANGED m_clientFd

SendFailed(t, c) ==
    /\ c # None => ~conns[c].server \/ ~conns[c].client
    /\ pc' = [pc EXCEPT ![t] = "connect"]
    /\ CloseFd(ChannelOf[t])

Send(t) ==
    /\ pc[t] = "send"
    /\ LET c == m_clientFd[ChannelOf[t]]
       IN  \/ c # None /\ Sent(t, c)
           \/ SendFailed(t, c)
    /\ UNCHANGED <<tries, crossed, at, call, response, m_failed, serverVars, history>>

\* Mutant of RecvFailed: the call is tried again, like one whose send failed.
RecvFailedRetries(t) ==
    /\ pc' = [pc EXCEPT ![t] = "connect"] /\ at' = [at EXCEPT ![t] = None]
    /\ CloseFd(ChannelOf[t]) /\ UNCHANGED <<call, response, m_failed, crossed>>

RecvFailed(t) == Return(t, TRUE) /\ CloseFd(ChannelOf[t]) /\ UNCHANGED <<response, crossed>>

\* recv reads the descriptor again, then waits on that connection.
Recv(t) ==
    /\ pc[t] = "recv"
    /\ LET c == m_clientFd[ChannelOf[t]]
       IN  IF c = None THEN RecvFailed(t)
           ELSE /\ at' = [at EXCEPT ![t] = c]
                /\ pc' = [pc EXCEPT ![t] = "wait"]
                /\ UNCHANGED <<m_clientFd, crossed, call, response, m_failed, conns>>
    /\ UNCHANGED <<tries, serverVars, history>>

\* One recv takes what has arrived, at most a buffer of it, and parses it.
TakeAnswer(t, c) ==
    LET size == Least(Len(conns[c].down), RecvBuffer)
    IN  /\ Return(t, FALSE)
        /\ conns' = [conns EXCEPT ![c].down = SubSeq(@, size + 1, Len(@))]
        /\ response' = [response EXCEPT ![t] =
                            Parsed(Response(call[t].method), @, SubSeq(conns[c].down, 1, size))]
        /\ crossed' = IF Len(conns[c].down) > RecvBuffer THEN crossed \cup {ChannelOf[t]} ELSE crossed
        /\ UNCHANGED m_clientFd

\* Mutant of Received: a connection the peer has closed is waited on.
ReceivedNeedsBytes(t) ==
    /\ pc[t] = "wait" /\ conns[at[t]].down # <<>>
    /\ TakeAnswer(t, at[t])
    /\ UNCHANGED <<tries, serverVars, history>>

\* A closed connection is read as no bytes, which parse as an empty answer,
\* and stays the channel's; a reset one fails the call.
Received(t) ==
    /\ pc[t] = "wait"
    /\ LET c == at[t]
       IN  \/ /\ conns[c].down # <<>> \/ ~conns[c].server
              /\ TakeAnswer(t, c)
           \/ ~conns[c].server /\ RecvFailed(t)
    /\ UNCHANGED <<tries, serverVars, history>>

-----------------------------------------------------------------------------
\* The provider.

NotifyService(n) ==
    /\ ~running /\ DOMAIN m_serviceMap = Range(SubSeq(Offered, 1, n - 1))
    /\ m_serviceMap' = [s \in Range(SubSeq(Offered, 1, n)) |-> DOMAIN Service[s]]
    /\ UNCHANGED <<channelVars, callerVars, conns, running, loops, history>>

Run ==
    /\ ~running /\ DOMAIN m_serviceMap = Range(Offered)
    /\ running' = TRUE
    /\ UNCHANGED <<channelVars, callerVars, conns, m_serviceMap, loops, history>>

\* The read callback of an idle loop: everything that has arrived leaves the
\* buffer, and the first request in it is handled on the loop's own thread.
OnMessage(c, data) ==
    LET l    == conns[c].loop
        rest == SubSeq(conns[c].up, Len(data) + 1, Len(conns[c].up))
    IN  /\ conns[c].server /\ loops[l] = None
        /\ rest # <<>> => cuts < MaxCuts
        /\ cuts' = IF rest = <<>> THEN cuts ELSE cuts + 1
        /\ conns' = [conns EXCEPT ![c].up = rest]
        /\ \/ \E r \in RequestIn(data) : loops' = [loops EXCEPT ![l] = [conn |-> c, request |-> r]]
           \/ RequestIn(data) = {} /\ UNCHANGED loops
        /\ UNCHANGED <<channelVars, callerVars, m_serviceMap, running, begun, stops,
                       handled, muted>>

\* An answer without bytes sends nothing, and the connection stays open.
SendRpcResponse(c, wire) ==
    /\ conns' = IF conns[c].server /\ conns[c].client
                THEN [conns EXCEPT ![c].down = @ \o wire]
                ELSE conns
    /\ muted' = (muted \/ wire = <<>>)

\* The number of the call a request comes from; one without arguments tells none.
Number(r) ==
    LET numbers == {r.args[f] : f \in DOMAIN r.args \ Many} \ {0}
    IN  IF numbers = {} THEN MaxCalls + 1 ELSE CHOOSE n \in numbers : TRUE

\* The handler of a request ends and answers.
Handler(l) ==
    /\ loops[l] # None
    /\ loops' = [loops EXCEPT ![l] = None]
    /\ LET r == loops[l].request
       IN  \E reply \in Answers(r.method, Number(r)) :
              /\ SendRpcResponse(loops[l].conn, SerializeToString(Response(r.method), reply))
              /\ handled' = Append(handled, [method |-> r.method, args |-> r.args, reply |-> reply])
    /\ UNCHANGED <<channelVars, callerVars, m_serviceMap, running, begun, cuts, stops>>

\* The client has closed and everything it sent is read.
OnConnection(c) ==
    /\ conns[c].server /\ ~conns[c].client /\ conns[c].up = <<>>
    /\ loops[conns[c].loop] = None
    /\ conns' = [conns EXCEPT ![c].server = FALSE]
    /\ UNCHANGED <<channelVars, callerVars, serverVars, history>>

\* The provider's process ends, with its connections and the handlers under way.
Stop ==
    /\ running /\ stops < MaxStops
    /\ stops' = stops + 1
    /\ running' = FALSE /\ m_serviceMap' = [s \in {} |-> {}]
    /\ loops' = [l \in Loop |-> None]
    /\ conns' = [c \in DOMAIN conns |-> [conns[c] EXCEPT !.server = FALSE, !.up = <<>>]]
    /\ UNCHANGED <<channelVars, callerVars, begun, cuts, handled, muted>>

\* A caller's process ends in the middle of a call and is started again; its
\* request stays under way.
CallerEnds(ch) ==
    LET mine == {t \in Thread : ChannelOf[t] = ch}
    IN  /\ stops < MaxStops /\ \E t \in mine : pc[t] # "idle"
        /\ stops' = stops + 1
        /\ m_clientFd' = [m_clientFd EXCEPT ![ch] = None]
        /\ conns' = [c \in DOMAIN conns |->
                        [conns[c] EXCEPT !.client = @ /\ conns[c].channel # ch]]
        /\ tries' = [tries EXCEPT ![ch] = IF ch \in ConnectNow THEN 4 ELSE 0]
        /\ pc' = [t \in Thread |-> IF t \in mine THEN "idle" ELSE pc[t]]
        /\ at' = [t \in Thread |-> IF t \in mine THEN None ELSE at[t]]
        /\ call' = [t \in Thread |-> IF t \in mine THEN None ELSE call[t]]
        /\ UNCHANGED <<crossed, response, m_failed, serverVars, begun, cuts, handled, muted>>

-----------------------------------------------------------------------------

Init ==
    /\ m_clientFd = [ch \in Channel |-> None]
    /\ tries = [ch \in Channel |-> IF ch \in ConnectNow THEN 4 ELSE 0]
    /\ crossed = {}
    /\ pc = [t \in Thread |-> "idle"]
    /\ at = [t \in Thread |-> None]
    /\ call = [t \in Thread |-> None]
    /\ response = [t \in Thread |-> Clear(<<>>)]
    /\ m_failed = [t \in Thread |-> FALSE]
    /\ conns = <<>>
    /\ m_serviceMap = [s \in {} |-> {}]
    /\ running = FALSE
    /\ loops = [l \in Loop |-> None]
    /\ begun = 0 /\ cuts = 0 /\ stops = 0
    /\ handled = <<>>
    /\ muted = FALSE

Caller(t) ==
    \/ Connect(t)
    \/ Send(t)
    \/ Recv(t)
    \/ Received(t)

Arrives(c) == \E data \in Prefixes(conns[c].up) \ {<<>>} : OnMessage(c, data)

Next ==
    \/ \E ch \in Channel : MprpcChannel(ch)
    \/ \E t \in Thread, n \in 1..MaxCalls : \E method \in Methods[t][n] : \E args \in Asked(method, n) :
          begun = n - 1 /\ CallMethod(t, method, args)
    \/ \E t \in Thread : Caller(t)
    \/ \E n \in DOMAIN Offered : NotifyService(n)
    \/ Run
    \/ \E c \in DOMAIN conns : Arrives(c)
    \/ \E l \in Loop : Handler(l)
    \/ \E c \in DOMAIN conns : OnConnection(c)
    \/ Stop
    \/ \E ch \in Channel : CallerEnds(ch)

Spec == Init /\ [][Next]_vars

\* Threads are scheduled, what is sent arrives, and handlers end: those that
\* wait do so up to a time limit.
Fairness ==
    /\ \A t \in Thread : WF_vars(Caller(t))
    /\ \A l \in Loop : WF_vars(\E c \in DOMAIN conns : conns[c].loop = l /\ Arrives(c))
    /\ \A l \in Loop : WF_vars(Handler(l))

FairSpec == Spec /\ Fairness
=============================================================================
