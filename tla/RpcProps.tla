------------------------------ MODULE RpcProps ------------------------------
\* What the RPC framework promises its callers and its handlers.
EXTENDS Rpc

\* Type invariant of the framework: connections, callers and the provider.
TypeOK ==
    /\ m_clientFd \in [Channel -> DOMAIN conns \cup {None}]
    /\ tries \in [Channel -> 0..4] /\ crossed \subseteq Channel
    /\ pc \in [Thread -> {"idle", "connect", "send", "recv", "wait"}]
    /\ at \in [Thread -> DOMAIN conns \cup {None}]
    /\ \A t \in Thread : pc[t] = "wait" <=> at[t] # None
    /\ m_failed \in [Thread -> BOOLEAN]
    /\ Len(conns) <= MaxConns
    /\ \A c \in DOMAIN conns :
          /\ conns[c].loop \in Loop /\ conns[c].channel \in Channel
          /\ {conns[c].client, conns[c].server, conns[c].raced} \subseteq BOOLEAN
          /\ \A i \in DOMAIN conns[c].down : conns[c].down[i][1] \in 1..5
    /\ DOMAIN m_serviceMap \subseteq Range(Offered)
    /\ running => DOMAIN m_serviceMap = Range(Offered)
    /\ \A l \in Loop : loops[l] # None => running /\ loops[l].conn \in DOMAIN conns
    /\ begun <= MaxCalls /\ cuts <= MaxCuts /\ stops <= MaxStops

\* The arguments of a request whose header was cut before their size.
NoArguments(r) == r.args = Clear(Request(r.method))

\* Whatever TCP makes of the bytes, a handler gets a caller's arguments whole,
\* or, when the header was cut before args_size, none of them: a request that
\* was cut anywhere else is dropped (rpcprovider.cpp:214-234).
WholeOrNothing ==
    \A l \in Loop :
        LET r == loops[l].request
        IN  loops[l] # None =>
                \/ \E n \in 1..begun : r.args \in Asked(r.method, n)
                \/ cuts > 0 /\ NoArguments(r)

\* No call is handled twice, over any number of reconnections: CallMethod sends
\* again only what was not sent (mprpcchannel.cpp:117-136).
AtMostOnce ==
    \A i, j \in DOMAIN handled :
        i < j /\ handled[i].method = handled[j].method /\ handled[i].args = handled[j].args
            => NoArguments(handled[i])

\* The answer thread t has is the one its own request was given, or, over a
\* connection the provider had closed, an empty one.
HasAnswer(t) ==
    \/ response[t] = Clear(Response(call[t].method)) /\ stops > 0
    \/ \E h \in Range(handled) :
          /\ h.method = call[t].method /\ h.reply = response[t]
          /\ h.args = call[t].args \/ NoArguments(h)

\* A call that ends well has its own answer, whichever threads share the channel,
\* unless another call over its connection overlapped with a call there, or an
\* answer there was longer than one recv (mprpcchannel.cpp:41-166). A connection
\* that one thread alone makes is free of both.
OwnAnswer ==
    [][\A t \in Thread :
        /\ pc[t] = "wait" /\ pc'[t] = "idle" /\ call'[t] # None /\ ~m_failed'[t]
        /\ ChannelOf[t] \notin crossed'
        => HasAnswer(t)']_vars

\* mprpcchannel.h:37 says that every call has a connection of its own: the answer
\* a call ends with is its own, whichever threads share its channel.
EveryAnswerIsOwn ==
    \A t \in Thread : pc[t] = "idle" /\ call[t] # None /\ ~m_failed[t] => HasAnswer(t)

\* No connection is lost: one that is open at the caller's end is its channel's, so
\* every descriptor is in use or closed, unless two threads of the channel were in
\* newConnect when it was made (mprpcchannel.cpp:48, 124, 145, 207).
NoConnectionLost ==
    \A c \in DOMAIN conns :
        conns[c].client => m_clientFd[conns[c].channel] = c \/ conns[c].raced

\* Descriptors, connections and the threads that wait on them fit together
\* (mprpcchannel.cpp:48-166).
ConnectionsKept == TypeOK /\ NoConnectionLost

\* Every call ends, unless a request was cut, an answer had no bytes, or calls
\* crossed on the connection: the caller waits without a time limit
\* (mprpcchannel.cpp:143), and of two requests that arrive together the provider
\* handles the first only (rpcprovider.cpp:166-262).
CallsReturn ==
    \A t \in Thread :
        pc[t] # "idle" ~> pc[t] = "idle" \/ cuts > 0 \/ muted \/ ChannelOf[t] \in crossed

\* rpcprovider.cpp:317 says that the answer of a handler that has ended is sent
\* to the caller: every call ends, whatever its handler answered.
EveryCallReturns ==
    \A t \in Thread : pc[t] # "idle" ~> pc[t] = "idle"

\* A request that did not arrive whole is dropped, says rpcprovider.cpp:232:
\* no handler gets arguments that no caller sent.
CutRequestsAreDropped ==
    \A l \in Loop : loops[l] # None =>
        \E n \in 1..begun : loops[l].request.args \in Asked(loops[l].request.method, n)
=============================================================================
