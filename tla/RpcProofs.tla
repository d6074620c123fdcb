------------------------------ MODULE RpcProofs ------------------------------
(****************************************************************************)
(* The framework of Rpc.tla, for any threads, channels and bounds.          *)
(*                                                                          *)
(* Connections: a channel without a descriptor connects, and its threads    *)
(* close the descriptor they find.  Only where two of them are in           *)
(* newConnect together does one replace the other's, and the connection is  *)
(* marked as raced for.                                                     *)
(*                                                                          *)
(* Requests: no field but the first of a packet has number 0, so a loop     *)
(* finds a call's request from its first byte on or finds none.  The        *)
(* request of a call is in one place at a time: with its caller, on one     *)
(* connection, in one loop, or among those handled.                         *)
(*                                                                          *)
(* Answers: on a channel where no calls have overlapped since one thread    *)
(* made its connection alone, and no recv has left part of an answer,       *)
(* nothing is under way between two calls, and in a call at most its        *)
(* request, its handler or its answer, one after another.                   *)
(****************************************************************************)
EXTENDS RpcProps, FiniteSetTheorems, SequenceTheorems, NaturalsInduction,
        WellFoundedInduction, TLAPS

-----------------------------------------------------------------------------
(* The inductive invariant *)

\* A sequence of units of a message with at most five fields.
Units(wire) ==
    /\ wire \in Seq(Range(wire))
    /\ \A i \in DOMAIN wire : wire[i][1] \in 1..5

\* A connection.
GoodConn(x) ==
    /\ DOMAIN x = {"up", "down", "client", "server", "loop", "channel", "raced"}
    /\ x.loop \in Loop /\ x.channel \in Channel
    /\ {x.client, x.server, x.raced} \subseteq BOOLEAN
    /\ Units(x.down)

ConnsTyped ==
    /\ conns \in Seq(Range(conns))
    /\ Len(conns) <= MaxConns
    /\ \A c \in DOMAIN conns : GoodConn(conns[c])

CallersTyped ==
    /\ m_clientFd \in [Channel -> DOMAIN conns \cup {None}]
    /\ tries \in [Channel -> 0..4] /\ crossed \subseteq Channel
    /\ pc \in [Thread -> {"idle", "connect", "send", "recv", "wait"}]
    /\ at \in [Thread -> DOMAIN conns \cup {None}]
    /\ \A t \in Thread : pc[t] = "wait" <=> at[t] # None
    /\ m_failed \in [Thread -> BOOLEAN]
    /\ begun <= MaxCalls /\ cuts <= MaxCuts /\ stops <= MaxStops
    /\ begun \in Nat /\ cuts \in Nat /\ stops \in Nat

\* A handler runs for a method of a service the provider offers.
ServerTyped ==
    /\ running \in BOOLEAN
    /\ DOMAIN m_serviceMap \subseteq Range(Offered)
    /\ \A s \in DOMAIN m_serviceMap : m_serviceMap[s] = DOMAIN Service[s]
    /\ running => DOMAIN m_serviceMap = Range(Offered)
    /\ loops = [l \in Loop |-> loops[l]]
    /\ \A l \in Loop : loops[l] # None =>
          /\ running /\ loops[l].conn \in DOMAIN conns
          /\ \E s \in DOMAIN Service : loops[l].request.method \in DOMAIN Service[s]

\* A channel that is being made has no descriptor, and no thread calls over it
\* yet. A thread that is about to connect has none either, unless another thread
\* of the channel was in newConnect with it.
Connecting ==
    /\ \A ch \in Channel : tries[ch] # 0 =>
          /\ m_clientFd[ch] = None
          /\ \A t \in Thread : ChannelOf[t] = ch => pc[t] = "idle"
    /\ \A t \in Thread :
          LET c == m_clientFd[ChannelOf[t]]
          IN  pc[t] = "connect" /\ c # None => conns[c].raced

\* A channel's descriptor is of a connection it made.
Owned == \A ch \in Channel : m_clientFd[ch] # None => conns[m_clientFd[ch]].channel = ch

\* The provider has no end of a connection while it does not run.
Serving == \A c \in DOMAIN conns : conns[c].server => running

RpcInv ==
    /\ ConnsTyped /\ CallersTyped /\ ServerTyped
    /\ Connecting /\ Owned /\ NoConnectionLost /\ Serving

\* A connection stays whose it is.
SameOwners ==
    \A c \in DOMAIN conns :
        conns'[c].channel = conns[c].channel /\ conns'[c].raced = conns[c].raced

\* What every step owes the connections.
ConnsHold ==
    /\ ConnsTyped' /\ NoConnectionLost' /\ (running' = running => Serving')
    /\ Owned' /\ SameOwners

-----------------------------------------------------------------------------
(* Sequences of units *)

\* The parts of a function on 1..n are a sequence.
LEMMA FunctionIsSeq ==
    ASSUME NEW n \in Nat, NEW w, DOMAIN w = 1..n, w = [i \in DOMAIN w |-> w[i]]
    PROVE  w \in Seq(Range(w)) /\ Len(w) = n
<1>1. w \in [1..n -> Range(w)]
  BY DEF Range
<1>2. w \in Seq(Range(w))
  BY <1>1, SeqDef
<1>3. Len(w) \in Nat /\ DOMAIN w = 1..Len(w)
  BY <1>2
<1>4. Len(w) = n
  BY <1>3
<1> QED
  BY <1>2, <1>4

\* A sequence is one of its own elements.
LEMMA OfItsElements ==
    ASSUME NEW S, NEW w \in Seq(S)
    PROVE  w \in Seq(Range(w))
<1>1. /\ Len(w) \in Nat /\ DOMAIN w = 1..Len(w)
      /\ w = [i \in DOMAIN w |-> w[i]]
  OBVIOUS
<1> QED
  BY <1>1, FunctionIsSeq

\* Two messages after each other.
LEMMA UnitsConcat ==
    ASSUME NEW v, NEW w, Units(v), Units(w)
    PROVE  Units(v \o w)
<1> DEFINE S == Range(v) \cup Range(w)
<1>1. v \in Seq(S) /\ w \in Seq(S)
  <2>1. v \in Seq(Range(v)) /\ w \in Seq(Range(w))
    BY DEF Units
  <2> QED
    BY <2>1
<1>2. v \o w \in Seq(S)
  BY <1>1
<1>3. \A i \in DOMAIN (v \o w) : (v \o w)[i][1] \in 1..5
  <2> SUFFICES ASSUME NEW i \in DOMAIN (v \o w)
               PROVE  (v \o w)[i][1] \in 1..5
    OBVIOUS
  <2>1. /\ Len(v) \in Nat /\ Len(w) \in Nat
        /\ DOMAIN v = 1..Len(v) /\ DOMAIN w = 1..Len(w)
        /\ i \in 1..(Len(v) + Len(w))
    BY <1>1, <1>2
  <2>2. CASE i <= Len(v)
    <3>1. (v \o w)[i] = v[i] /\ i \in DOMAIN v
      BY <1>1, <2>1, <2>2
    <3> QED
      BY <3>1 DEF Units
  <2>3. CASE i > Len(v)
    <3>1. (v \o w)[i] = w[i - Len(v)] /\ i - Len(v) \in DOMAIN w
      BY <1>1, <2>1, <2>3
    <3> QED
      BY <3>1 DEF Units
  <2> QED
    BY <2>1, <2>2, <2>3
<1>4. v \o w \in Seq(Range(v \o w))
  BY <1>2, OfItsElements
<1> QED
  BY <1>3, <1>4 DEF Units

\* What is left when the first units have been taken.
LEMMA UnitsSuffix ==
    ASSUME NEW w, Units(w), NEW k \in Nat
    PROVE  Units(SubSeq(w, k + 1, Len(w)))
<1> DEFINE v == SubSeq(w, k + 1, Len(w))
<1>1. w \in Seq(Range(w))
  BY DEF Units
<1>2. /\ Len(w) \in Nat /\ DOMAIN w = 1..Len(w)
  BY <1>1
<1>3. /\ v \in Seq(Range(w))
      /\ \A i \in DOMAIN v : i + k \in DOMAIN w /\ v[i] = w[i + k]
  <2>1. \A i \in (k + 1)..Len(w) : w[i] \in Range(w)
    BY <1>2 DEF Range
  <2>2. /\ v \in Seq(Range(w))
        /\ Len(v) = IF k + 1 <= Len(w) THEN Len(w) - (k + 1) + 1 ELSE 0
        /\ \A i \in 1..(Len(w) - (k + 1) + 1) : v[i] = w[k + 1 + i - 1]
    BY <1>2, <2>1, SubSeqProperties
  <2> HIDE DEF v
  <2>3. DOMAIN v = 1..Len(v)
    BY <2>2
  <2>4. ASSUME NEW i \in DOMAIN v
        PROVE  i + k \in DOMAIN w /\ v[i] = w[i + k]
    <3> DEFINE n == Len(w)
    <3>1. n \in Nat /\ i \in 1..Len(v)
      BY <1>2, <2>3, <2>4
    <3>2. Len(v) = IF k + 1 <= n THEN n - (k + 1) + 1 ELSE 0
      BY <2>2
    <3> HIDE DEF n
    <3>3. i \in 1..(n - (k + 1) + 1) /\ i + k \in 1..n /\ k + 1 + i - 1 = i + k
      BY <3>1, <3>2
    <3>4. v[i] = w[k + 1 + i - 1]
      BY <2>2, <3>3 DEF n
    <3> QED
      BY <1>2, <3>3, <3>4 DEF n
  <2> QED
    BY <2>2, <2>4
<1>4. v \in Seq(Range(v))
  BY <1>3, OfItsElements
<1>5. \A i \in DOMAIN v : v[i][1] \in 1..5
  BY <1>3 DEF Units
<1> QED
  BY <1>4, <1>5 DEF Units

\* A message of no units, and the payloads of one field.
LEMMA UnitsOfField ==
    ASSUME NEW k \in 1..5, NEW n \in Nat, NEW payloads, DOMAIN payloads = 1..n
    PROVE  Units(FlatUnits(k, payloads))
<1> DEFINE w == FlatUnits(k, payloads)
<1>1. w = [i \in 1..n |-> <<k, payloads[i]>>]
  BY DEF FlatUnits
<1>2. w \in Seq(Range(w))
  BY <1>1, FunctionIsSeq
<1>3. \A i \in DOMAIN w : w[i][1] \in 1..5
  BY <1>1
<1> QED
  BY <1>2, <1>3 DEF Units

-----------------------------------------------------------------------------
(* What a message is on the wire *)

\* The parts of a message, field by field: at most four of them.
Parts(seqs) ==
    /\ Len(seqs) \in 1..4 /\ DOMAIN seqs = 1..Len(seqs)
    /\ \A i \in DOMAIN seqs : Units(seqs[i])

\* FlattenSeq puts the parts one after the other.
LEMMA FlattenedUnits ==
    ASSUME NEW seqs, Parts(seqs)
    PROVE  Units(FlattenSeq(seqs))
<1> DEFINE n == Len(seqs)
           Grows(f) == f = [i \in 1..n |-> IF i = 1 THEN seqs[i] ELSE f[i - 1] \o seqs[i]]
           flatten == CHOOSE f : Grows(f)
           two == seqs[1] \o seqs[2]
           three == two \o seqs[3]
           four == three \o seqs[4]
           g == [i \in 1..n |-> CASE i = 1 -> seqs[1] [] i = 2 -> two
                                  [] i = 3 -> three [] OTHER -> four]
<1>1. n \in 1..4 /\ \A i \in 1..n : Units(seqs[i])
  BY DEF Parts
<1>2. FlattenSeq(seqs) = flatten[n]
  BY <1>1 DEF FlattenSeq
<1> HIDE DEF n, two, three, four
<1>3. Grows(g)
  <2>1. \A i \in 1..n : i \in 1..4
    BY <1>1
  <2>2. ASSUME NEW i \in 1..n, i \in 1..4
        PROVE  g[i] = IF i = 1 THEN seqs[i] ELSE g[i - 1] \o seqs[i]
    <3>1. CASE i = 1
      BY <3>1
    <3>2. CASE i = 2
      <4>1. g[2] = two /\ g[1] = seqs[1] /\ i - 1 = 1
        BY <1>1, <3>2
      <4> QED
        BY <3>2, <4>1 DEF two
    <3>3. CASE i = 3
      <4>1. g[3] = three /\ g[2] = two /\ i - 1 = 2 /\ i # 1
        BY <1>1, <3>3
      <4>2. three = two \o seqs[3]
        BY DEF three
      <4>3. g[i] = three /\ g[i - 1] = two /\ seqs[i] = seqs[3]
        BY <3>3, <4>1
      <4> HIDE DEF g
      <4> QED
        BY <4>1, <4>2, <4>3
    <3>4. CASE i = 4
      <4>1. g[4] = four /\ g[3] = three /\ i - 1 = 3 /\ i # 1
        BY <1>1, <3>4
      <4>2. four = three \o seqs[4]
        BY DEF four
      <4>3. g[i] = four /\ g[i - 1] = three /\ seqs[i] = seqs[4]
        BY <3>4, <4>1
      <4> HIDE DEF g
      <4> QED
        BY <4>1, <4>2, <4>3
    <3> QED
      BY <2>2, <3>1, <3>2, <3>3, <3>4
  <2>3. \A i \in 1..n : g[i] = IF i = 1 THEN seqs[i] ELSE g[i - 1] \o seqs[i]
    BY <2>1, <2>2
  <2>4. g = [i \in 1..n |-> g[i]]
    OBVIOUS
  <2> HIDE DEF g
  <2> QED
    BY <2>3, <2>4
<1>4. Grows(flatten)
  BY <1>3
<1> HIDE DEF flatten
<1>5. \A i \in 1..n : flatten[i] = IF i = 1 THEN seqs[i] ELSE flatten[i - 1] \o seqs[i]
  BY <1>4
<1>6. Units(flatten[1])
  BY <1>1, <1>5
<1>7. n >= 2 => Units(flatten[2])
  <2> SUFFICES ASSUME n >= 2 PROVE Units(flatten[2])
    OBVIOUS
  <2>1. 2 \in 1..n /\ 2 - 1 = 1 /\ 2 # 1
    BY <1>1
  <2>2. flatten[2] = flatten[1] \o seqs[2] /\ Units(seqs[2])
    BY <1>1, <1>5, <2>1
  <2> QED
    BY <1>6, <2>2, UnitsConcat
<1>8. n >= 3 => Units(flatten[3])
  <2> SUFFICES ASSUME n >= 3 PROVE Units(flatten[3])
    OBVIOUS
  <2>1. 3 \in 1..n /\ 3 - 1 = 2 /\ 3 # 1
    BY <1>1
  <2>2. flatten[3] = flatten[2] \o seqs[3] /\ Units(seqs[3])
    BY <1>1, <1>5, <2>1
  <2> QED
    BY <1>1, <1>7, <2>2, UnitsConcat
<1>9. n >= 4 => Units(flatten[4])
  <2> SUFFICES ASSUME n >= 4 PROVE Units(flatten[4])
    OBVIOUS
  <2>1. 4 \in 1..n /\ 4 - 1 = 3 /\ 4 # 1
    BY <1>1
  <2>2. flatten[4] = flatten[3] \o seqs[4] /\ Units(seqs[4])
    BY <1>1, <1>5, <2>1
  <2> QED
    BY <1>1, <1>8, <2>2, UnitsConcat
<1> QED
  BY <1>1, <1>2, <1>6, <1>7, <1>8, <1>9

\* The types of the answers.
Replies ==
    {AppendEntriesReply, RequestVoteReply, InstallSnapshotResponse, GetReply,
     PutAppendReply, GetFriendsListResponse}

\* An answer has between one field and four.
LEMMA RepliesAreShort ==
    ASSUME NEW type \in Replies
    PROVE  /\ Len(type) \in 1..4 /\ DOMAIN type = 1..Len(type)
           /\ \A i \in DOMAIN type : type[i] \in Range(type) /\ type[i] # "Entries"
BY DEF Replies, Range, AppendEntriesReply, RequestVoteReply, InstallSnapshotResponse,
       GetReply, PutAppendReply, GetFriendsListResponse

\* A method of the provider answers with one of them.
LEMMA ResponseIsReply ==
    ASSUME NEW s \in DOMAIN Service, NEW method \in DOMAIN Service[s]
    PROVE  Response(method) \in Replies
<1>1. DOMAIN Service = {"raftRpc", "kvServerRpc", "FiendServiceRpc"}
  BY DEF Service
<1>2. \E u \in DOMAIN Service : method \in DOMAIN Service[u]
  OBVIOUS
<1>3. /\ ServiceOf(method) \in DOMAIN Service
      /\ method \in DOMAIN Service[ServiceOf(method)]
  BY <1>2 DEF ServiceOf
<1>4. \A u \in DOMAIN Service : \A m \in DOMAIN Service[u] : Service[u][m].reply \in Replies
  BY <1>1 DEF Service, raftRpc, kvServerRpc, FiendServiceRpc, Replies
<1> QED
  BY <1>3, <1>4 DEF Response

\* Every field of an answer that repeats, or is a message, holds a sequence.
LEMMA AnswerFields ==
    ASSUME NEW type \in Replies, NEW fields, NEW n, NEW f \in Range(type)
    PROVE  \E k \in Nat : DOMAIN Payloads(f, SetIn(type, fields, n)[f]) = 1..k
<1> DEFINE x == SetIn(type, fields, n)[f]
<1>1. f # "Entries"
  BY DEF Replies, Range, AppendEntriesReply, RequestVoteReply, InstallSnapshotResponse,
         GetReply, PutAppendReply, GetFriendsListResponse
<1>2. x = IF f \in fields THEN Stamped(type, n)[f] ELSE Clear(type)[f]
  BY DEF SetIn, Clear
<1>3. Clear(type)[f] = IF f \in Many THEN <<>> ELSE 0
  BY DEF Clear
<1>4. Stamped(type, n)[f] = CASE f = "result" -> <<Clear(ResultCode)>>
                              [] f = "friends" -> <<n, n, n>>
                              [] OTHER -> n
  BY <1>1 DEF Stamped, Clear
<1>5. f \in {"result", "friends"} => \E k \in Nat : DOMAIN x = 1..k
  <2> SUFFICES ASSUME f \in {"result", "friends"} PROVE \E k \in Nat : DOMAIN x = 1..k
    OBVIOUS
  <2>1. f \in Many
    BY DEF Many
  <2>2. x \in {<<>>, <<Clear(ResultCode)>>, <<n, n, n>>}
    BY <1>2, <1>3, <1>4, <2>1
  <2>3. DOMAIN x \in {1..0, 1..1, 1..3}
    BY <2>2
  <2> QED
    BY <2>3
<1> HIDE DEF x
<1>6. CASE f = "result"
  <2>1. DOMAIN Payloads(f, x) = DOMAIN x
    BY <1>6 DEF Payloads, Nested
  <2> QED
    BY <1>5, <1>6, <2>1 DEF x
<1>7. CASE f = "friends"
  <2>1. Payloads(f, x) = x
    BY <1>7 DEF Payloads, Nested, Many
  <2> QED
    BY <1>5, <1>7, <2>1 DEF x
<1>8. CASE f # "result" /\ f # "friends"
  <2>1. Payloads(f, x) = Present(x)
    BY <1>1, <1>8 DEF Payloads, Nested, Many
  <2>2. DOMAIN Present(x) \in {1..0, 1..1}
    BY DEF Present
  <2>3. DOMAIN Payloads(f, x) \in {1..0, 1..1}
    BY <2>1, <2>2
  <2> QED
    BY <2>3 DEF x
<1> QED
  BY <1>6, <1>7, <1>8

\* So an answer is a sequence of numbered units.
LEMMA AnswersAreUnits ==
    ASSUME NEW s \in DOMAIN Service, NEW method \in DOMAIN Service[s], NEW n,
           NEW reply \in Answers(method, n)
    PROVE  Units(SerializeToString(Response(method), reply))
<1> DEFINE type == Response(method)
           parts == [i \in DOMAIN type |-> FlatUnits(i, Payloads(type[i], reply[type[i]]))]
<1>1. type \in Replies
  BY ResponseIsReply
<1>2. PICK fields : reply = SetIn(type, fields, n)
  BY DEF Answers
<1>3. /\ Len(type) \in 1..4 /\ DOMAIN type = 1..Len(type)
      /\ \A i \in DOMAIN type : type[i] \in Range(type)
  BY <1>1, RepliesAreShort
<1>4. SerializeToString(type, reply) = FlattenSeq(parts)
  BY DEF SerializeToString
<1> HIDE DEF type
<1>5. ASSUME NEW i \in DOMAIN type
      PROVE  Units(FlatUnits(i, Payloads(type[i], reply[type[i]])))
  <2>1. PICK k \in Nat : DOMAIN Payloads(type[i], reply[type[i]]) = 1..k
    BY <1>1, <1>2, <1>3, AnswerFields
  <2>2. i \in 1..5
    BY <1>3
  <2> QED
    BY <2>1, <2>2, UnitsOfField
<1>6. /\ DOMAIN parts = 1..Len(type) /\ parts = [i \in DOMAIN parts |-> parts[i]]
      /\ \A i \in DOMAIN parts : Units(parts[i])
  BY <1>3, <1>5
<1> HIDE DEF parts
<1>7. Len(parts) = Len(type)
  BY <1>3, <1>6, FunctionIsSeq
<1>8. Parts(parts)
  BY <1>3, <1>6, <1>7 DEF Parts
<1> QED
  BY <1>4, <1>8, FlattenedUnits DEF type

-----------------------------------------------------------------------------
(* Connections are made, closed and used *)

\* The connections are a sequence.
LEMMA ConnsDomain ==
    ASSUME ConnsTyped
    PROVE  /\ Len(conns) \in Nat /\ DOMAIN conns = 1..Len(conns)
           /\ conns = [c \in DOMAIN conns |-> conns[c]]
BY DEF ConnsTyped

\* Each connection may change as long as it stays one.
LEMMA ConnsUpdated ==
    ASSUME ConnsTyped, NEW g, conns' = [c \in DOMAIN conns |-> g[c]],
           \A c \in DOMAIN conns : GoodConn(g[c])
    PROVE  ConnsTyped' /\ DOMAIN conns' = DOMAIN conns
<1>1. Len(conns) \in Nat /\ DOMAIN conns = 1..Len(conns)
  BY ConnsDomain
<1>2. DOMAIN conns' = DOMAIN conns /\ conns' = [c \in DOMAIN conns' |-> conns'[c]]
  OBVIOUS
<1>3. PICK d : d = conns'
  OBVIOUS
<1>4. d \in Seq(Range(d)) /\ Len(d) = Len(conns)
  BY <1>1, <1>2, <1>3, FunctionIsSeq
<1>5. \A c \in DOMAIN conns' : GoodConn(conns'[c])
  OBVIOUS
<1> QED
  BY <1>2, <1>3, <1>4, <1>5 DEF ConnsTyped

\* newConnect succeeds: the connection is the last one, and the channel's. The one
\* whose descriptor it replaces was raced for.
LEMMA NewConnKept ==
    ASSUME RpcInv, NEW ch \in Channel, Connected(ch),
           m_clientFd[ch] # None => conns[m_clientFd[ch]].raced
    PROVE  /\ ConnsHold
           /\ DOMAIN conns \subseteq DOMAIN conns'
           /\ m_clientFd' \in [Channel -> DOMAIN conns' \cup {None}]
           /\ m_clientFd'[ch] \in DOMAIN conns'
           /\ conns'[m_clientFd'[ch]].raced = Racing(ch)
           /\ \A other \in Channel \ {ch} : m_clientFd'[other] = m_clientFd[other]
           /\ crossed' \subseteq crossed
<1> DEFINE n == Len(conns)
<1>1. /\ n \in Nat /\ DOMAIN conns = 1..n /\ conns \in Seq(Range(conns)) /\ n < MaxConns
      /\ MaxConns \in Nat
  BY ConnsDomain, RpcAssumption DEF RpcInv, ConnsTyped, Connected
<1>2. GoodConn(NewConn(ch)) /\ NewConn(ch).channel = ch /\ NewConn(ch).raced = Racing(ch)
  <2>1. n % NumLoops \in Loop
    BY <1>1, RpcAssumption DEF Loop
  <2>2. Units(<<>>)
    BY DEF Units
  <2>3. Racing(ch) \in BOOLEAN
    BY Zenon DEF Racing
  <2> QED
    BY <2>1, <2>2, <2>3 DEF NewConn, GoodConn
<1>3. PICK d : d = conns'
  OBVIOUS
<1>4. PICK x : x = NewConn(ch)
  OBVIOUS
<1>5. d = Append(conns, x)
  BY <1>3, <1>4 DEF Connected
<1>6. /\ d \in Seq(Range(conns) \cup {x}) /\ Len(d) = n + 1 /\ DOMAIN d = 1..(n + 1)
      /\ \A c \in 1..n : d[c] = conns[c]
      /\ d[n + 1] = x
  BY <1>1, <1>5
<1>7. d \in Seq(Range(d))
  BY <1>6, OfItsElements
<1> HIDE DEF n
<1>8. ConnsTyped'
  <2>1. \A c \in DOMAIN d : GoodConn(d[c])
    BY <1>1, <1>2, <1>4, <1>6 DEF RpcInv, ConnsTyped
  <2> QED
    BY <1>1, <1>3, <1>6, <1>7, <2>1 DEF ConnsTyped
<1>9. m_clientFd' = [m_clientFd EXCEPT ![ch] = n + 1]
  BY DEF Connected, n
<1>10. m_clientFd \in [Channel -> DOMAIN conns \cup {None}]
  BY DEF RpcInv, CallersTyped
<1>11. m_clientFd'[ch] = n + 1 /\ \A other \in Channel \ {ch} : m_clientFd'[other] = m_clientFd[other]
  BY <1>9, <1>10
<1>12. NoConnectionLost'
  <2> SUFFICES ASSUME NEW c \in DOMAIN d, d[c].client, ~d[c].raced
               PROVE  m_clientFd'[d[c].channel] = c
    BY <1>3 DEF NoConnectionLost
  <2>1. CASE c = n + 1
    BY <1>2, <1>4, <1>6, <1>11, <2>1
  <2>2. CASE c \in 1..n
    <3>1. conns[c].channel \in Channel /\ m_clientFd[conns[c].channel] = c
      BY <1>1, <1>6, <2>2 DEF RpcInv, NoConnectionLost, ConnsTyped, GoodConn
    <3>2. conns[c].channel # ch
      BY <1>6, <2>2, <3>1, RpcAssumption
    <3> QED
      BY <1>6, <1>11, <2>2, <3>1, <3>2
  <2> QED
    BY <1>1, <1>6, <2>1, <2>2
<1>13. Owned'
  <2> SUFFICES ASSUME NEW other \in Channel, m_clientFd'[other] # None
               PROVE  d[m_clientFd'[other]].channel = other
    BY <1>3 DEF Owned
  <2>1. CASE other = ch
    BY <1>2, <1>4, <1>6, <1>11, <2>1
  <2>2. CASE other # ch
    BY <1>1, <1>6, <1>10, <1>11, <2>2 DEF RpcInv, Owned
  <2> QED
    BY <2>1, <2>2
<1>14. SameOwners
  BY <1>1, <1>3, <1>6 DEF SameOwners
<1>15. running' = running => Serving'
  BY DEF Connected, Serving
<1>16. crossed' \subseteq crossed
  BY DEF Connected
<1>17. ConnsHold
  BY <1>8, <1>12, <1>13, <1>14, <1>15 DEF ConnsHold
<1>18. n + 1 \in DOMAIN d /\ d[n + 1].raced = Racing(ch)
  BY <1>1, <1>2, <1>4, <1>6
<1> QED
  BY <1>1, <1>3, <1>6, <1>9, <1>10, <1>11, <1>16, <1>17, <1>18

\* newConnect is refused: the channel has no descriptor, and lost one only if it
\* was raced for.
LEMMA RefusedKept ==
    ASSUME RpcInv, NEW ch \in Channel, Refused(ch),
           m_clientFd[ch] # None => conns[m_clientFd[ch]].raced
    PROVE  /\ ConnsHold
           /\ DOMAIN conns' = DOMAIN conns
           /\ m_clientFd' \in [Channel -> DOMAIN conns' \cup {None}]
           /\ m_clientFd'[ch] = None
           /\ \A other \in Channel \ {ch} : m_clientFd'[other] = m_clientFd[other]
           /\ crossed' = crossed
<1>1. /\ m_clientFd \in [Channel -> DOMAIN conns \cup {None}]
      /\ m_clientFd' = [m_clientFd EXCEPT ![ch] = None]
      /\ conns' = conns /\ crossed' = crossed
  BY DEF RpcInv, CallersTyped, Refused
<1>2. ConnsTyped' /\ SameOwners /\ (running' = running => Serving')
  BY <1>1 DEF RpcInv, ConnsTyped, SameOwners, Serving
<1>3. Owned'
  BY <1>1 DEF RpcInv, Owned
<1>4. NoConnectionLost'
  <2> SUFFICES ASSUME NEW c \in DOMAIN conns, conns[c].client, ~conns[c].raced
               PROVE  m_clientFd'[conns[c].channel] = c
    BY <1>1 DEF NoConnectionLost
  <2>1. conns[c].channel \in Channel /\ m_clientFd[conns[c].channel] = c
    BY DEF RpcInv, NoConnectionLost, ConnsTyped, GoodConn
  <2>2. c \in Nat
    BY ConnsDomain DEF RpcInv
  <2>3. conns[c].channel # ch
    BY <2>1, <2>2, RpcAssumption
  <2> QED
    BY <1>1, <2>1, <2>3
<1> QED
  BY <1>1, <1>2, <1>3, <1>4 DEF ConnsHold

\* close: the channel's own connection loses its client end, no other does.
LEMMA CloseFdKept ==
    ASSUME RpcInv, NEW ch \in Channel, CloseFd(ch)
    PROVE  /\ ConnsHold
           /\ DOMAIN conns' = DOMAIN conns
           /\ m_clientFd' \in [Channel -> DOMAIN conns' \cup {None}]
           /\ m_clientFd'[ch] = None
           /\ \A other \in Channel \ {ch} : m_clientFd'[other] = m_clientFd[other]
<1> DEFINE old == m_clientFd[ch]
<1>1. /\ m_clientFd \in [Channel -> DOMAIN conns \cup {None}]
      /\ m_clientFd' = [m_clientFd EXCEPT ![ch] = None]
      /\ old \in DOMAIN conns \cup {None}
  BY DEF RpcInv, CallersTyped, CloseFd
<1>2. ConnsTyped /\ NoConnectionLost /\ \A c \in DOMAIN conns : GoodConn(conns[c])
  BY DEF RpcInv, ConnsTyped
<1>3. CASE old = None
  <2>1. conns' = conns
    BY <1>3 DEF CloseFd
  <2>2. ConnsTyped'
    BY <1>2, <2>1 DEF ConnsTyped
  <2>3. NoConnectionLost'
    <3> SUFFICES ASSUME NEW c \in DOMAIN conns, conns[c].client, ~conns[c].raced
                 PROVE  m_clientFd'[conns[c].channel] = c
      BY <2>1 DEF NoConnectionLost
    <3>1. conns[c].channel \in Channel /\ m_clientFd[conns[c].channel] = c
      BY <1>2 DEF NoConnectionLost, GoodConn
    <3>2. c \in Nat
      BY <1>2, ConnsDomain
    <3>3. conns[c].channel # ch
      BY <1>3, <3>1, <3>2, RpcAssumption
    <3> QED
      BY <1>1, <3>1, <3>3
  <2>4. (running' = running => Serving') /\ Owned' /\ SameOwners
    BY <1>1, <2>1 DEF RpcInv, Serving, Owned, SameOwners
  <2> QED
    BY <1>1, <2>1, <2>2, <2>3, <2>4 DEF ConnsHold
<1>4. CASE old # None
  <2> DEFINE g == [conns EXCEPT ![old].client = FALSE]
  <2>1. conns' = g /\ old \in DOMAIN conns
    BY <1>1, <1>4 DEF CloseFd
  <2>2. \A c \in DOMAIN conns : /\ c # old => g[c] = conns[c]
                                /\ g[old] = [conns[old] EXCEPT !.client = FALSE]
    BY <2>1
  <2>3. ASSUME NEW c \in DOMAIN conns PROVE GoodConn(g[c])
    <3>1. CASE c # old
      BY <1>2, <2>2, <3>1
    <3>2. CASE c = old
      <4>1. GoodConn(conns[old])
        BY <1>2, <2>1
      <4> QED
        BY <2>2, <3>2, <4>1 DEF GoodConn
    <3> QED
      BY <3>1, <3>2
  <2>4. g = [c \in DOMAIN conns |-> g[c]]
    BY <1>2, ConnsDomain
  <2>5. /\ ~g[old].client
        /\ \A c \in DOMAIN conns : /\ g[c].server = conns[c].server
                                  /\ g[c].channel = conns[c].channel
                                  /\ g[c].raced = conns[c].raced
    <3>1. GoodConn(conns[old])
      BY <1>2, <2>1
    <3> QED
      BY <2>1, <2>2, <3>1 DEF GoodConn
  <2> HIDE DEF g
  <2>6. ConnsTyped' /\ DOMAIN conns' = DOMAIN conns
    BY <1>2, <2>1, <2>3, <2>4, ConnsUpdated
  <2>7. NoConnectionLost'
    <3> SUFFICES ASSUME NEW c \in DOMAIN conns, g[c].client, ~g[c].raced
                 PROVE  m_clientFd'[g[c].channel] = c
      BY <2>1, <2>6 DEF NoConnectionLost
    <3>1. c # old
      BY <2>5
    <3>2. conns[c].channel \in Channel /\ m_clientFd[conns[c].channel] = c
      BY <1>2, <2>2, <3>1 DEF NoConnectionLost, GoodConn
    <3> QED
      BY <1>1, <2>5, <3>1, <3>2
  <2>8. (running' = running => Serving') /\ Owned' /\ SameOwners
    BY <1>1, <2>1, <2>5, <2>6 DEF RpcInv, Serving, Owned, SameOwners
  <2> QED
    BY <1>1, <2>6, <2>7, <2>8 DEF ConnsHold
<1> QED
  BY <1>3, <1>4

\* What may become of a connection while the descriptors stay as they are.
StillServed(new, old) ==
    /\ GoodConn(new) /\ new.client = old.client /\ (new.server => old.server)
    /\ new.channel = old.channel /\ new.raced = old.raced

\* A connection whose bytes move, or whose provider leaves.
LEMMA ConnFields ==
    ASSUME NEW x, GoodConn(x)
    PROVE  /\ StillServed(x, x)
           /\ \A y : StillServed([x EXCEPT !.up = y], x)
           /\ \A y : Units(y) => StillServed([x EXCEPT !.down = y], x)
           /\ StillServed([x EXCEPT !.server = FALSE], x)
           /\ \A y : /\ StillServed([x EXCEPT !.server = FALSE, !.up = y], x)
                     /\ ~[x EXCEPT !.server = FALSE, !.up = y].server
BY DEF GoodConn, StillServed

\* Steps that leave the descriptors and the client ends alone lose nothing.
LEMMA ConnsServed ==
    ASSUME RpcInv, m_clientFd' = m_clientFd, NEW g, conns' = [c \in DOMAIN conns |-> g[c]],
           \A c \in DOMAIN conns : StillServed(g[c], conns[c])
    PROVE  ConnsHold /\ DOMAIN conns' = DOMAIN conns
<1>1. ConnsTyped' /\ DOMAIN conns' = DOMAIN conns
  BY ConnsUpdated DEF RpcInv, StillServed
<1>2. NoConnectionLost' /\ (running' = running => Serving') /\ SameOwners
  BY <1>1 DEF RpcInv, NoConnectionLost, Serving, StillServed, SameOwners
<1>3. Owned'
  BY <1>2 DEF RpcInv, CallersTyped, Owned, SameOwners
<1> QED
  BY <1>1, <1>2, <1>3 DEF ConnsHold

\* In particular those that change one connection.
LEMMA OneConnServed ==
    ASSUME RpcInv, m_clientFd' = m_clientFd, NEW k \in DOMAIN conns, NEW x,
           conns' = [conns EXCEPT ![k] = x], StillServed(x, conns[k])
    PROVE  ConnsHold /\ DOMAIN conns' = DOMAIN conns
<1> DEFINE g == [conns EXCEPT ![k] = x]
<1>1. /\ ConnsTyped /\ conns = [c \in DOMAIN conns |-> conns[c]]
      /\ \A c \in DOMAIN conns : StillServed(conns[c], conns[c])
  BY ConnsDomain, ConnFields DEF RpcInv, ConnsTyped
<1>2. /\ g = [c \in DOMAIN conns |-> g[c]]
      /\ \A c \in DOMAIN conns : StillServed(g[c], conns[c])
  BY <1>1
<1>3. conns' = g
  OBVIOUS
<1> HIDE DEF g
<1> QED
  BY <1>2, <1>3, ConnsServed

\* Nothing happens to the connections.
LEMMA ConnsUnchanged ==
    ASSUME RpcInv, UNCHANGED <<m_clientFd, conns>>
    PROVE  ConnsHold /\ DOMAIN conns' = DOMAIN conns
BY DEF RpcInv, ConnsTyped, NoConnectionLost, Serving, ConnsHold, Owned, SameOwners

\* The provider's side is what it was, and no connection is gone.
LEMMA ServerKept ==
    ASSUME RpcInv, UNCHANGED serverVars, DOMAIN conns \subseteq DOMAIN conns'
    PROVE  ServerTyped'
BY DEF RpcInv, ServerTyped, serverVars

\* The callers' side is what it was.
LEMMA CallersKept ==
    ASSUME RpcInv, ConnsHold, UNCHANGED <<channelVars, callerVars>>, DOMAIN conns' = DOMAIN conns,
           begun' = begun, cuts' \in Nat, cuts' <= MaxCuts, stops' \in Nat, stops' <= MaxStops
    PROVE  CallersTyped' /\ Connecting'
<1>1. CallersTyped'
  BY DEF RpcInv, CallersTyped, channelVars, callerVars
<1>2. Connecting'
  BY RpcAssumption DEF RpcInv, CallersTyped, Connecting, ConnsHold, SameOwners, channelVars, callerVars
<1> QED
  BY <1>1, <1>2

-----------------------------------------------------------------------------
(* The callers' steps *)

\* The constructor connects before anyone calls over the channel.
LEMMA MprpcChannelKept ==
    ASSUME RpcInv, NEW ch \in Channel, MprpcChannel(ch)
    PROVE  RpcInv'
<1>1. tries[ch] # 0 /\ tries[ch] > 0 /\ tries \in [Channel -> 0..4]
  BY DEF MprpcChannel, RpcInv, CallersTyped
<1>2. m_clientFd[ch] = None
  BY <1>1 DEF RpcInv, Connecting
<1>3. UNCHANGED <<callerVars, serverVars, history>>
  BY DEF MprpcChannel
<1>4. CASE Connected(ch) /\ tries' = [tries EXCEPT ![ch] = 0]
  <2>1. /\ ConnsHold /\ DOMAIN conns \subseteq DOMAIN conns'
        /\ m_clientFd' \in [Channel -> DOMAIN conns' \cup {None}]
        /\ \A other \in Channel \ {ch} : m_clientFd'[other] = m_clientFd[other]
        /\ crossed' \subseteq crossed
    BY <1>2, <1>4, NewConnKept
  <2>2. ServerTyped'
    BY <1>3, <2>1, ServerKept
  <2>3. CallersTyped'
    <3>1. at' \in [Thread -> DOMAIN conns' \cup {None}] /\ tries' \in [Channel -> 0..4]
      BY <1>1, <1>3, <1>4, <2>1 DEF RpcInv, CallersTyped, callerVars
    <3> QED
      BY <1>3, <2>1, <3>1 DEF RpcInv, CallersTyped, callerVars, history
  <2>4. Connecting'
    <3>1. \A c \in Channel : tries'[c] # 0 => c # ch /\ tries[c] # 0
      BY <1>1, <1>4
    <3>2. \A t \in Thread : ChannelOf[t] \in Channel /\ (ChannelOf[t] = ch => pc[t] = "idle")
      BY <1>1, RpcAssumption DEF RpcInv, Connecting
    <3>3. ASSUME NEW t \in Thread, pc'[t] = "connect", m_clientFd'[ChannelOf[t]] # None
          PROVE  conns'[m_clientFd'[ChannelOf[t]]].raced
      BY <1>3, <2>1, <3>2, <3>3 DEF RpcInv, CallersTyped, Connecting, ConnsHold, SameOwners, callerVars
    <3> QED
      BY <1>3, <2>1, <3>1, <3>2, <3>3 DEF RpcInv, Connecting, callerVars
  <2> QED
    BY <1>3, <2>1, <2>2, <2>3, <2>4 DEF RpcInv, ConnsHold, serverVars
<1>5. CASE Refused(ch) /\ tries' = [tries EXCEPT ![ch] = @ - 1]
  <2>1. UNCHANGED <<m_clientFd, conns, crossed>>
    BY <1>2, <1>5 DEF Refused, RpcInv, CallersTyped
  <2>2. ConnsHold /\ DOMAIN conns' = DOMAIN conns
    BY <2>1, ConnsUnchanged
  <2>3. ServerTyped'
    BY <1>3, <2>2, ServerKept
  <2>4. tries' \in [Channel -> 0..4] /\ \A c \in Channel : tries'[c] # 0 => tries[c] # 0
    BY <1>1, <1>5
  <2>5. CallersTyped' /\ Connecting'
    BY <1>3, <2>1, <2>4 DEF RpcInv, CallersTyped, Connecting, callerVars, history
  <2> QED
    BY <1>3, <2>2, <2>3, <2>5 DEF RpcInv, ConnsHold, serverVars
<1> QED
  BY <1>4, <1>5 DEF MprpcChannel

\* A step after which channel ch has no descriptor.
LEMMA ClosedKeepsConnecting ==
    ASSUME RpcInv, NEW ch \in Channel, ConnsHold, m_clientFd'[ch] = None,
           \A other \in Channel \ {ch} : m_clientFd'[other] = m_clientFd[other],
           tries' = tries, tries[ch] = 0,
           \A u \in Thread : ChannelOf[u] # ch => pc'[u] = pc[u] \/ pc'[u] = "idle"
    PROVE  Connecting'
<1>1. ASSUME NEW u \in Thread, pc'[u] = "connect", m_clientFd'[ChannelOf[u]] # None
      PROVE  conns'[m_clientFd'[ChannelOf[u]]].raced
  <2>1. ChannelOf[u] \in Channel \ {ch} /\ pc[u] = "connect"
    BY <1>1, RpcAssumption
  <2>2. m_clientFd'[ChannelOf[u]] = m_clientFd[ChannelOf[u]] /\ m_clientFd[ChannelOf[u]] \in DOMAIN conns
    BY <1>1, <2>1 DEF RpcInv, CallersTyped
  <2> QED
    BY <1>1, <2>1, <2>2 DEF RpcInv, Connecting, ConnsHold, SameOwners
<1>2. ASSUME NEW other \in Channel, tries'[other] # 0
      PROVE  /\ m_clientFd'[other] = None
             /\ \A u \in Thread : ChannelOf[u] = other => pc'[u] = "idle"
  BY <1>2 DEF RpcInv, Connecting
<1> QED
  BY <1>1, <1>2 DEF Connecting

\* A call begins on a channel that is made.
LEMMA CallMethodKept ==
    ASSUME RpcInv, NEW t \in Thread, NEW n \in 1..MaxCalls, begun = n - 1,
           NEW method, NEW args, CallMethod(t, method, args)
    PROVE  RpcInv'
<1>1. /\ pc[t] = "idle" /\ tries[ChannelOf[t]] = 0
      /\ begun' = begun + 1
      /\ pc' = [pc EXCEPT ![t] = IF m_clientFd[ChannelOf[t]] = None THEN "connect" ELSE "send"]
      /\ UNCHANGED <<m_clientFd, tries, at, conns, serverVars, cuts, stops>>
      /\ crossed' \subseteq crossed \cup {ChannelOf[t]}
      /\ \/ m_failed' = m_failed
         \/ m_failed' = [m_failed EXCEPT ![t] = FALSE]
  BY DEF CallMethod
<1>2. ConnsHold /\ DOMAIN conns' = DOMAIN conns
  BY <1>1, ConnsUnchanged
<1>3. ServerTyped'
  BY <1>1, <1>2, ServerKept
<1>4. begun' \in Nat /\ begun' <= MaxCalls
  BY <1>1, RpcAssumption DEF RpcInv, CallersTyped
<1>5. m_failed' \in [Thread -> BOOLEAN]
  BY <1>1 DEF RpcInv, CallersTyped
<1>6. crossed' \subseteq Channel
  <2>1. ChannelOf[t] \in Channel /\ crossed \subseteq Channel
    BY RpcAssumption DEF RpcInv, CallersTyped
  <2>2. crossed' \subseteq crossed \cup {ChannelOf[t]}
    BY <1>1
  <2> QED
    BY <2>1, <2>2
<1>7. CallersTyped'
  BY <1>1, <1>2, <1>4, <1>5, <1>6 DEF RpcInv, CallersTyped
<1>8. Connecting'
  BY <1>1, RpcAssumption DEF RpcInv, CallersTyped, Connecting
<1> QED
  BY <1>1, <1>2, <1>3, <1>7, <1>8 DEF RpcInv, ConnsHold, serverVars

\* newConnect within a call. Another thread of the channel may have connected since
\* this one found no descriptor, or be about to.
LEMMA ConnectKept ==
    ASSUME RpcInv, NEW t \in Thread, Connect(t)
    PROVE  RpcInv'
<1> DEFINE ch == ChannelOf[t]
<1>1. /\ pc[t] = "connect" /\ ch \in Channel
      /\ UNCHANGED <<tries, serverVars, history>>
      /\ tries[ch] = 0
      /\ m_clientFd[ch] # None => conns[m_clientFd[ch]].raced
  BY RpcAssumption DEF Connect, RpcInv, Connecting
<1>2. \A u \in Thread : ChannelOf[u] \in Channel
  BY RpcAssumption
<1>3. CASE /\ pc' = [pc EXCEPT ![t] = "send"] /\ Connected(ch)
           /\ UNCHANGED <<at, call, response, m_failed>>
  <2>1. /\ ConnsHold /\ DOMAIN conns \subseteq DOMAIN conns'
        /\ m_clientFd' \in [Channel -> DOMAIN conns' \cup {None}]
        /\ m_clientFd'[ch] \in DOMAIN conns'
        /\ conns'[m_clientFd'[ch]].raced = Racing(ch)
        /\ \A other \in Channel \ {ch} : m_clientFd'[other] = m_clientFd[other]
        /\ crossed' \subseteq crossed
    BY <1>1, <1>3, NewConnKept
  <2>2. ServerTyped'
    BY <1>1, <2>1, ServerKept
  <2>3. CallersTyped'
    <3>1. at' \in [Thread -> DOMAIN conns' \cup {None}]
      BY <1>3, <2>1 DEF RpcInv, CallersTyped
    <3> QED
      BY <1>1, <1>3, <2>1, <3>1 DEF RpcInv, CallersTyped, history
  <2>4. Connecting'
    <3>1. ASSUME NEW u \in Thread, pc'[u] = "connect", m_clientFd'[ChannelOf[u]] # None
          PROVE  conns'[m_clientFd'[ChannelOf[u]]].raced
      <4>1. u # t /\ pc[u] = "connect"
        BY <1>3, <3>1 DEF RpcInv, CallersTyped
      <4>2. CASE ChannelOf[u] = ch
        <5>1. Racing(ch)
          BY <1>1, <4>1, <4>2 DEF Racing, InCall
        <5> QED
          BY <2>1, <4>2, <5>1
      <4>3. CASE ChannelOf[u] # ch
        BY <1>2, <2>1, <3>1, <4>1, <4>3 DEF RpcInv, CallersTyped, Connecting, ConnsHold, SameOwners
      <4> QED
        BY <4>2, <4>3
    <3>2. ASSUME NEW other \in Channel, tries'[other] # 0
          PROVE  /\ m_clientFd'[other] = None
                 /\ \A u \in Thread : ChannelOf[u] = other => pc'[u] = "idle"
      BY <1>1, <1>3, <2>1, <3>2 DEF RpcInv, CallersTyped, Connecting
    <3> QED
      BY <3>1, <3>2 DEF Connecting
  <2> QED
    BY <1>1, <2>1, <2>2, <2>3, <2>4 DEF RpcInv, ConnsHold, serverVars
<1>4. CASE Return(t, TRUE) /\ Refused(ch)
  <2>1. /\ ConnsHold /\ DOMAIN conns' = DOMAIN conns
        /\ m_clientFd' \in [Channel -> DOMAIN conns' \cup {None}]
        /\ m_clientFd'[ch] = None
        /\ \A other \in Channel \ {ch} : m_clientFd'[other] = m_clientFd[other]
        /\ crossed' = crossed
    BY <1>1, <1>4, RefusedKept
  <2>2. ServerTyped'
    BY <1>1, <2>1, ServerKept
  <2>3. CallersTyped'
    BY <1>1, <1>4, <2>1 DEF RpcInv, CallersTyped, Return, history
  <2>4. Connecting'
    BY <1>1, <1>2, <1>4, <2>1, ClosedKeepsConnecting DEF RpcInv, CallersTyped, Return
  <2> QED
    BY <1>1, <2>1, <2>2, <2>3, <2>4 DEF RpcInv, ConnsHold, serverVars
<1> QED
  BY <1>3, <1>4 DEF Connect

\* A failed send closes the descriptor before it connects again.
LEMMA SendKept ==
    ASSUME RpcInv, NEW t \in Thread, Send(t)
    PROVE  RpcInv'
<1> DEFINE ch == ChannelOf[t]
           k  == m_clientFd[ch]
<1>1. /\ pc[t] = "send" /\ ch \in Channel /\ k \in DOMAIN conns \cup {None}
      /\ UNCHANGED <<tries, crossed, at, call, response, m_failed, serverVars, history>>
      /\ tries[ch] = 0
  BY RpcAssumption DEF Send, RpcInv, CallersTyped, Connecting
<1>2. \A u \in Thread : ChannelOf[u] \in Channel
  BY RpcAssumption
<1>3. CASE k # None /\ Sent(t, k)
  <2>1. /\ pc' = [pc EXCEPT ![t] = "recv"] /\ m_clientFd' = m_clientFd
        /\ k \in DOMAIN conns
    BY <1>1, <1>3 DEF Sent
  <2>2. ConnsHold /\ DOMAIN conns' = DOMAIN conns
    <3>1. CASE conns' = conns
      BY <2>1, <3>1, ConnsUnchanged
    <3>2. CASE conns' = [conns EXCEPT ![k].up = @ \o Packet(call[t].method, call[t].args)]
      <4>1. PICK y : y = conns[k].up \o Packet(call[t].method, call[t].args)
        OBVIOUS
      <4>2. conns' = [conns EXCEPT ![k] = [conns[k] EXCEPT !.up = y]]
        BY <3>2, <4>1
      <4>3. GoodConn(conns[k])
        BY <2>1 DEF RpcInv, ConnsTyped
      <4> QED
        BY <2>1, <4>2, <4>3, ConnFields, OneConnServed
    <3> QED
      BY <1>3, <3>1, <3>2 DEF Sent
  <2>3. ServerTyped'
    BY <1>1, <2>2, ServerKept
  <2>4. CallersTyped'
    BY <1>1, <2>1, <2>2 DEF RpcInv, CallersTyped, history
  <2>5. Connecting'
    BY <1>1, <1>2, <2>1, <2>2 DEF RpcInv, CallersTyped, Connecting, ConnsHold, SameOwners
  <2> QED
    BY <1>1, <2>2, <2>3, <2>4, <2>5 DEF RpcInv, ConnsHold, serverVars
<1>4. CASE SendFailed(t, k)
  <2>1. pc' = [pc EXCEPT ![t] = "connect"] /\ CloseFd(ch)
    BY <1>4 DEF SendFailed
  <2>2. /\ ConnsHold
        /\ DOMAIN conns' = DOMAIN conns
        /\ m_clientFd' \in [Channel -> DOMAIN conns' \cup {None}]
        /\ m_clientFd'[ch] = None
        /\ \A other \in Channel \ {ch} : m_clientFd'[other] = m_clientFd[other]
    BY <1>1, <2>1, CloseFdKept
  <2>3. ServerTyped'
    BY <1>1, <2>2, ServerKept
  <2>4. CallersTyped'
    BY <1>1, <2>1, <2>2 DEF RpcInv, CallersTyped, history
  <2>5. Connecting'
    BY <1>1, <2>1, <2>2, ClosedKeepsConnecting DEF RpcInv, CallersTyped
  <2> QED
    BY <1>1, <2>2, <2>3, <2>4, <2>5 DEF RpcInv, ConnsHold, serverVars
<1> QED
  BY <1>3, <1>4 DEF Send

\* A call that ends with its connection closed.
LEMMA RecvFailedKept ==
    ASSUME RpcInv, NEW t \in Thread, RecvFailed(t), tries[ChannelOf[t]] = 0,
           UNCHANGED <<tries, serverVars, history>>
    PROVE  RpcInv'
<1> DEFINE ch == ChannelOf[t]
<1>1. ch \in Channel /\ Return(t, TRUE) /\ CloseFd(ch) /\ crossed' = crossed
  BY RpcAssumption DEF RecvFailed
<1>2. /\ ConnsHold
      /\ DOMAIN conns' = DOMAIN conns
      /\ m_clientFd' \in [Channel -> DOMAIN conns' \cup {None}]
      /\ m_clientFd'[ch] = None
      /\ \A other \in Channel \ {ch} : m_clientFd'[other] = m_clientFd[other]
  BY <1>1, CloseFdKept
<1>3. ServerTyped'
  BY <1>2, ServerKept
<1>4. CallersTyped'
  BY <1>1, <1>2 DEF RpcInv, CallersTyped, history, Return
<1>5. Connecting'
  BY <1>1, <1>2, ClosedKeepsConnecting DEF RpcInv, CallersTyped, Return
<1> QED
  BY <1>1, <1>2, <1>3, <1>4, <1>5 DEF RpcInv, ConnsHold, serverVars

\* A thread that calls does so over a channel that is made.
LEMMA CallsOverMade ==
    ASSUME RpcInv, NEW t \in Thread, pc[t] # "idle"
    PROVE  tries[ChannelOf[t]] = 0
BY RpcAssumption DEF RpcInv, Connecting

\* recv finds the descriptor of its channel, or none.
LEMMA RecvKept ==
    ASSUME RpcInv, NEW t \in Thread, Recv(t)
    PROVE  RpcInv'
<1> DEFINE ch == ChannelOf[t]
           k  == m_clientFd[ch]
<1>1. /\ pc[t] = "recv" /\ ch \in Channel /\ k \in DOMAIN conns \cup {None}
      /\ UNCHANGED <<tries, serverVars, history>>
      /\ tries[ch] = 0
  BY RpcAssumption, CallsOverMade DEF Recv, RpcInv, CallersTyped
<1>2. CASE k = None
  BY <1>1, <1>2, RecvFailedKept DEF Recv
<1>3. CASE k # None
  <2>1. /\ at' = [at EXCEPT ![t] = k] /\ pc' = [pc EXCEPT ![t] = "wait"]
        /\ UNCHANGED <<m_clientFd, crossed, call, response, m_failed, conns>>
    BY <1>3 DEF Recv
  <2>2. ConnsHold /\ DOMAIN conns' = DOMAIN conns
    BY <2>1, ConnsUnchanged
  <2>3. ServerTyped'
    BY <1>1, <2>2, ServerKept
  <2>4. CallersTyped' /\ Connecting'
    BY <1>1, <1>3, <2>1, <2>2 DEF RpcInv, CallersTyped, Connecting, history
  <2> QED
    BY <1>1, <2>2, <2>3, <2>4 DEF RpcInv, ConnsHold, serverVars
<1> QED
  BY <1>2, <1>3

\* The bytes a recv takes are gone from the connection it waited on.
LEMMA ReceivedKept ==
    ASSUME RpcInv, NEW t \in Thread, Received(t)
    PROVE  RpcInv'
<1> DEFINE k == at[t]
<1>1. /\ pc[t] = "wait" /\ k \in DOMAIN conns
      /\ UNCHANGED <<tries, serverVars, history>>
      /\ tries[ChannelOf[t]] = 0
  BY CallsOverMade DEF Received, RpcInv, CallersTyped
<1>2. CASE RecvFailed(t)
  BY <1>1, <1>2, RecvFailedKept
<1>3. CASE TakeAnswer(t, k)
  <2>1. PICK size : size = Least(Len(conns[k].down), RecvBuffer)
    OBVIOUS
  <2>2. /\ Return(t, FALSE) /\ m_clientFd' = m_clientFd
        /\ conns' = [conns EXCEPT ![k].down = SubSeq(@, size + 1, Len(@))]
        /\ crossed' \subseteq crossed \cup {ChannelOf[t]}
    BY <1>3, <2>1 DEF TakeAnswer
  <2>3. GoodConn(conns[k])
    BY <1>1 DEF RpcInv, ConnsTyped
  <2>4. Units(conns[k].down) /\ conns[k].down \in Seq(Range(conns[k].down))
    BY <2>3 DEF GoodConn, Units
  <2>5. size \in Nat
    BY <2>1, <2>4, RpcAssumption DEF Least
  <2>6. PICK y : y = SubSeq(conns[k].down, size + 1, Len(conns[k].down))
    OBVIOUS
  <2>7. Units(y)
    BY <2>4, <2>5, <2>6, UnitsSuffix
  <2>8. conns' = [conns EXCEPT ![k] = [conns[k] EXCEPT !.down = y]]
    BY <2>2, <2>6
  <2>9. ConnsHold /\ DOMAIN conns' = DOMAIN conns
    <3>1. PICK x : x = [conns[k] EXCEPT !.down = y]
      OBVIOUS
    <3>2. StillServed(x, conns[k])
      BY <2>3, <2>7, <3>1, ConnFields
    <3> HIDE DEF k
    <3> QED
      BY <1>1, <2>2, <2>8, <3>1, <3>2, OneConnServed
  <2>10. ServerTyped'
    BY <1>1, <2>9, ServerKept
  <2>11. CallersTyped'
    <3>1. crossed' \subseteq Channel
      BY <2>2, RpcAssumption DEF RpcInv, CallersTyped
    <3> QED
      BY <1>1, <2>2, <2>9, <3>1 DEF RpcInv, CallersTyped, history, Return
  <2>12. Connecting'
    BY <1>1, <2>2, <2>9, RpcAssumption
    DEF RpcInv, CallersTyped, Connecting, ConnsHold, SameOwners, Return
  <2> QED
    BY <1>1, <2>9, <2>10, <2>11, <2>12 DEF RpcInv, ConnsHold, serverVars
<1> QED
  BY <1>2, <1>3 DEF Received

-----------------------------------------------------------------------------
(* The provider's steps *)

\* The requests OnMessage lets through are for a method of a service that is offered.
LEMMA RequestsAreKnown ==
    ASSUME ServerTyped, NEW data, NEW r \in RequestIn(data)
    PROVE  \E s \in DOMAIN Service : r.method \in DOMAIN Service[s]
<1>1. PICK method \in MethodIn(HeaderIn(data)) : r.method = method
  BY DEF RequestIn
<1>2. \E service \in DOMAIN m_serviceMap : method \in m_serviceMap[service]
  BY DEF MethodIn
<1>3. \A i \in DOMAIN Offered : Offered[i] \in DOMAIN Service
  BY RpcAssumption
<1>4. DOMAIN m_serviceMap \subseteq DOMAIN Service
  BY <1>3 DEF ServerTyped, Range
<1> QED
  BY <1>1, <1>2, <1>4 DEF ServerTyped

\* The provider is told of the first n services.
LEMMA NotifyServiceKept ==
    ASSUME RpcInv, NEW n \in DOMAIN Offered, NotifyService(n)
    PROVE  RpcInv'
<1> DEFINE first == SubSeq(Offered, 1, n)
<1>1. /\ ~running /\ m_serviceMap' = [s \in Range(first) |-> DOMAIN Service[s]]
      /\ UNCHANGED <<channelVars, callerVars, conns, running, loops, history>>
  BY DEF NotifyService
<1>2. ConnsHold /\ DOMAIN conns' = DOMAIN conns
  BY <1>1, ConnsUnchanged DEF channelVars
<1>3. CallersTyped' /\ Connecting'
  BY <1>1, <1>2, CallersKept DEF RpcInv, CallersTyped, history
<1>4. Range(first) \subseteq Range(Offered)
  <2>1. Offered \in Seq(DOMAIN Service)
    BY RpcAssumption
  <2>2. Len(Offered) \in Nat /\ DOMAIN Offered = 1..Len(Offered) /\ n \in 1..Len(Offered)
    BY <2>1
  <2>3. \A i \in 1..n : Offered[i] \in DOMAIN Service
    BY <2>1, <2>2
  <2>4. /\ first \in Seq(DOMAIN Service) /\ Len(first) = n
        /\ \A i \in 1..n : first[i] = Offered[i]
    BY <2>1, <2>2
  <2> HIDE DEF first
  <2> QED
    BY <2>2, <2>4 DEF Range
<1>5. ServerTyped'
  <2> HIDE DEF first
  <2> QED
    BY <1>1, <1>2, <1>4 DEF RpcInv, ServerTyped
<1> QED
  BY <1>1, <1>2, <1>3, <1>5 DEF RpcInv, ConnsHold, serverVars

\* The provider starts to listen once it is told of all services.
LEMMA RunKept ==
    ASSUME RpcInv, Run
    PROVE  RpcInv'
<1>1. ConnsHold /\ DOMAIN conns' = DOMAIN conns
  BY ConnsUnchanged DEF Run, channelVars
<1>2. CallersTyped' /\ Connecting'
  BY <1>1, CallersKept DEF Run, RpcInv, CallersTyped, history
<1>3. ServerTyped' /\ Serving'
  BY <1>1 DEF Run, RpcInv, ServerTyped, Serving
<1> QED
  BY <1>1, <1>2, <1>3 DEF RpcInv, ConnsHold

\* A loop takes what has arrived and begins to handle the request it finds.
LEMMA OnMessageKept ==
    ASSUME RpcInv, NEW c \in DOMAIN conns, NEW data, OnMessage(c, data)
    PROVE  RpcInv'
<1> DEFINE l == conns[c].loop
<1>1. PICK y : y = SubSeq(conns[c].up, Len(data) + 1, Len(conns[c].up))
  OBVIOUS
<1>2. PICK more : more = (y # <<>>)
  OBVIOUS
<1>3. /\ conns[c].server /\ loops[l] = None
      /\ more => cuts < MaxCuts
      /\ cuts' = IF more THEN cuts + 1 ELSE cuts
      /\ conns' = [conns EXCEPT ![c].up = y]
      /\ UNCHANGED <<channelVars, callerVars, m_serviceMap, running, begun, stops>>
  BY <1>1, <1>2 DEF OnMessage
<1>4. GoodConn(conns[c])
  BY DEF RpcInv, ConnsTyped
<1>5. ConnsHold /\ DOMAIN conns' = DOMAIN conns
  <2>1. PICK x : x = [conns[c] EXCEPT !.up = y]
    OBVIOUS
  <2>2. conns' = [conns EXCEPT ![c] = x] /\ StillServed(x, conns[c])
    BY <1>3, <1>4, <2>1, ConnFields
  <2> QED
    BY <1>3, <2>2, OneConnServed DEF channelVars
<1>6. cuts' \in Nat /\ cuts' <= MaxCuts
  BY <1>3, RpcAssumption DEF RpcInv, CallersTyped
<1>7. CallersTyped' /\ Connecting'
  BY <1>3, <1>5, <1>6, CallersKept DEF RpcInv, CallersTyped
<1>8. ServerTyped'
  <2>1. ASSUME NEW r \in RequestIn(data), loops' = [loops EXCEPT ![l] = [conn |-> c, request |-> r]]
        PROVE  ServerTyped'
    <3>1. \E s \in DOMAIN Service : r.method \in DOMAIN Service[s]
      BY RequestsAreKnown DEF RpcInv
    <3> QED
      BY <1>3, <1>5, <2>1, <3>1 DEF RpcInv, ServerTyped, Serving
  <2>2. CASE UNCHANGED loops
    BY <1>3, <1>5, <2>2 DEF RpcInv, ServerTyped
  <2> QED
    BY <2>1, <2>2 DEF OnMessage
<1> QED
  BY <1>3, <1>5, <1>7, <1>8 DEF RpcInv, ConnsHold

\* A handler ends: its answer is units, and goes down its connection if both
\* ends are there.
LEMMA HandlerKept ==
    ASSUME RpcInv, NEW l \in Loop, Handler(l)
    PROVE  RpcInv'
<1> DEFINE k == loops[l].conn
           method == loops[l].request.method
<1>1. PICK reply \in Answers(method, Number(loops[l].request)) :
           SendRpcResponse(k, SerializeToString(Response(method), reply))
  BY DEF Handler
<1>2. PICK wire : wire = SerializeToString(Response(method), reply)
  OBVIOUS
<1>3. /\ loops[l] # None /\ loops' = [loops EXCEPT ![l] = None]
      /\ UNCHANGED <<channelVars, callerVars, m_serviceMap, running, begun, cuts, stops>>
  BY DEF Handler
<1>4. /\ k \in DOMAIN conns
      /\ \E s \in DOMAIN Service : method \in DOMAIN Service[s]
  BY <1>3 DEF RpcInv, ServerTyped
<1>5. Units(wire)
  BY <1>1, <1>2, <1>4, AnswersAreUnits
<1>6. ConnsHold /\ DOMAIN conns' = DOMAIN conns
  <2>1. CASE conns' = conns
    BY <1>3, <2>1, ConnsUnchanged DEF channelVars
  <2>2. CASE conns' = [conns EXCEPT ![k].down = @ \o wire]
    <3>1. GoodConn(conns[k])
      BY <1>4 DEF RpcInv, ConnsTyped
    <3>2. PICK y : y = conns[k].down \o wire
      OBVIOUS
    <3>3. PICK x : x = [conns[k] EXCEPT !.down = y]
      OBVIOUS
    <3>4. Units(y)
      BY <1>5, <3>1, <3>2, UnitsConcat DEF GoodConn
    <3>5. conns' = [conns EXCEPT ![k] = x] /\ StillServed(x, conns[k])
      BY <2>2, <3>1, <3>2, <3>3, <3>4, ConnFields
    <3> HIDE DEF k
    <3> QED
      BY <1>3, <1>4, <3>5, OneConnServed DEF channelVars
  <2> QED
    BY <1>1, <1>2, <2>1, <2>2 DEF SendRpcResponse
<1>7. CallersTyped' /\ Connecting'
  BY <1>3, <1>6, CallersKept DEF RpcInv, CallersTyped
<1>8. ServerTyped'
  BY <1>3, <1>6 DEF RpcInv, ServerTyped
<1> QED
  BY <1>3, <1>6, <1>7, <1>8 DEF RpcInv, ConnsHold

\* The provider closes its end after the client has.
LEMMA OnConnectionKept ==
    ASSUME RpcInv, NEW c \in DOMAIN conns, OnConnection(c)
    PROVE  RpcInv'
<1>1. /\ conns' = [conns EXCEPT ![c].server = FALSE]
      /\ UNCHANGED <<channelVars, callerVars, serverVars, history>>
  BY DEF OnConnection
<1>2. ConnsHold /\ DOMAIN conns' = DOMAIN conns
  <2>1. PICK x : x = [conns[c] EXCEPT !.server = FALSE]
    OBVIOUS
  <2>2. GoodConn(conns[c])
    BY DEF RpcInv, ConnsTyped
  <2>3. conns' = [conns EXCEPT ![c] = x] /\ StillServed(x, conns[c])
    BY <1>1, <2>1, <2>2, ConnFields
  <2> QED
    BY <1>1, <2>3, OneConnServed DEF channelVars
<1>3. CallersTyped' /\ Connecting'
  BY <1>1, <1>2, CallersKept DEF RpcInv, CallersTyped, history
<1>4. ServerTyped'
  BY <1>1, <1>2, ServerKept
<1> QED
  BY <1>1, <1>2, <1>3, <1>4 DEF RpcInv, ConnsHold, serverVars

\* The provider's process ends: it keeps no connection, request or service.
LEMMA StopKept ==
    ASSUME RpcInv, Stop
    PROVE  RpcInv'
<1> DEFINE g == [c \in DOMAIN conns |-> [conns[c] EXCEPT !.server = FALSE, !.up = <<>>]]
<1>1. /\ stops < MaxStops /\ stops' = stops + 1
      /\ running' = FALSE /\ m_serviceMap' = [s \in {} |-> {}]
      /\ loops' = [l \in Loop |-> None] /\ conns' = g
      /\ UNCHANGED <<channelVars, callerVars, begun, cuts>>
  BY DEF Stop
<1>2. \A c \in DOMAIN conns : GoodConn(conns[c])
  BY DEF RpcInv, ConnsTyped
<1>3. \A c \in DOMAIN conns : StillServed(g[c], conns[c]) /\ ~g[c].server
  BY <1>2, ConnFields
<1>4. g = [c \in DOMAIN conns |-> g[c]]
  OBVIOUS
<1> HIDE DEF g
<1>5. ConnsHold /\ DOMAIN conns' = DOMAIN conns
  BY <1>1, <1>3, <1>4, ConnsServed DEF channelVars
<1>6. Serving'
  BY <1>1, <1>3, <1>5 DEF Serving
<1>7. stops' \in Nat /\ stops' <= MaxStops
  BY <1>1, RpcAssumption DEF RpcInv, CallersTyped
<1>8. CallersTyped' /\ Connecting'
  BY <1>1, <1>5, <1>7, CallersKept DEF RpcInv, CallersTyped
<1>9. ServerTyped'
  BY <1>1 DEF ServerTyped
<1> QED
  BY <1>5, <1>6, <1>8, <1>9 DEF RpcInv, ConnsHold

\* A caller's process ends: all it had open is closed, and it starts again without.
LEMMA CallerEndsKept ==
    ASSUME RpcInv, NEW ch \in Channel, CallerEnds(ch)
    PROVE  RpcInv'
<1> DEFINE mine == {t \in Thread : ChannelOf[t] = ch}
           g == [c \in DOMAIN conns |-> [conns[c] EXCEPT !.client = @ /\ conns[c].channel # ch]]
<1>1. /\ stops < MaxStops /\ stops' = stops + 1
      /\ m_clientFd' = [m_clientFd EXCEPT ![ch] = None]
      /\ conns' = g
      /\ tries' = [tries EXCEPT ![ch] = IF ch \in ConnectNow THEN 4 ELSE 0]
      /\ pc' = [t \in Thread |-> IF t \in mine THEN "idle" ELSE pc[t]]
      /\ at' = [t \in Thread |-> IF t \in mine THEN None ELSE at[t]]
      /\ UNCHANGED <<crossed, m_failed, serverVars, begun, cuts>>
  BY DEF CallerEnds
<1>2. /\ m_clientFd \in [Channel -> DOMAIN conns \cup {None}]
      /\ ConnsTyped /\ NoConnectionLost /\ Owned /\ Serving
      /\ \A c \in DOMAIN conns : GoodConn(conns[c])
  BY DEF RpcInv, CallersTyped, ConnsTyped
<1>3. ASSUME NEW c \in DOMAIN conns
      PROVE  /\ GoodConn(g[c]) /\ g[c].client = (conns[c].client /\ conns[c].channel # ch)
             /\ g[c].server = conns[c].server /\ g[c].raced = conns[c].raced
             /\ g[c].channel = conns[c].channel
  <2>1. PICK x : x = (conns[c].client /\ conns[c].channel # ch)
    OBVIOUS
  <2>2. x \in BOOLEAN
    BY <2>1
  <2>3. g[c] = [conns[c] EXCEPT !.client = x]
    BY <2>1
  <2>4. GoodConn(conns[c])
    BY <1>2
  <2> HIDE DEF g
  <2> QED
    BY <2>1, <2>2, <2>3, <2>4 DEF GoodConn
<1>4. g = [c \in DOMAIN conns |-> g[c]]
  OBVIOUS
<1> HIDE DEF g
<1>5. ConnsTyped' /\ DOMAIN conns' = DOMAIN conns
  BY <1>1, <1>2, <1>3, <1>4, ConnsUpdated
<1>6. /\ m_clientFd' \in [Channel -> DOMAIN conns' \cup {None}]
      /\ m_clientFd'[ch] = None
      /\ \A other \in Channel \ {ch} : m_clientFd'[other] = m_clientFd[other]
  BY <1>1, <1>2, <1>5
<1>7. SameOwners
  BY <1>1, <1>3 DEF SameOwners
<1>8. Owned'
  BY <1>2, <1>6, <1>7 DEF Owned, SameOwners
<1>9. NoConnectionLost'
  <2> SUFFICES ASSUME NEW c \in DOMAIN conns, g[c].client, ~g[c].raced
               PROVE  m_clientFd'[g[c].channel] = c
    BY <1>1, <1>5 DEF NoConnectionLost
  <2>1. conns[c].client /\ ~conns[c].raced /\ conns[c].channel \in Channel \ {ch}
    BY <1>2, <1>3 DEF GoodConn
  <2> QED
    BY <1>2, <1>3, <1>6, <2>1 DEF NoConnectionLost
<1>10. running' = running => Serving'
  BY <1>1, <1>2, <1>3, <1>5 DEF Serving
<1>11. ConnsHold
  BY <1>5, <1>7, <1>8, <1>9, <1>10 DEF ConnsHold
<1>12. stops' \in Nat /\ stops' <= MaxStops
  BY <1>1, RpcAssumption DEF RpcInv, CallersTyped
<1>13. ServerTyped'
  BY <1>1, <1>5, ServerKept
<1>14. CallersTyped'
  <2>1. /\ tries' \in [Channel -> 0..4]
        /\ at' \in [Thread -> DOMAIN conns' \cup {None}]
        /\ pc' \in [Thread -> {"idle", "connect", "send", "recv", "wait"}]
    BY <1>1, <1>5 DEF RpcInv, CallersTyped
  <2>2. \A t \in Thread : pc'[t] = "wait" <=> at'[t] # None
    BY <1>1 DEF RpcInv, CallersTyped
  <2> QED
    BY <1>1, <1>6, <1>12, <2>1, <2>2 DEF RpcInv, CallersTyped
<1>15. Connecting'
  <2>1. ASSUME NEW other \in Channel, tries'[other] # 0
        PROVE  /\ m_clientFd'[other] = None
               /\ \A t \in Thread : ChannelOf[t] = other => pc'[t] = "idle"
    <3>1. CASE other = ch
      BY <1>1, <1>6, <3>1
    <3>2. CASE other # ch
      <4>1. tries[other] # 0
        BY <1>1, <2>1, <3>2 DEF RpcInv, CallersTyped
      <4> QED
        BY <1>1, <1>6, <3>2, <4>1 DEF RpcInv, Connecting
    <3> QED
      BY <3>1, <3>2
  <2>2. ASSUME NEW t \in Thread, pc'[t] = "connect", m_clientFd'[ChannelOf[t]] # None
        PROVE  conns'[m_clientFd'[ChannelOf[t]]].raced
    <3>1. t \notin mine /\ pc[t] = "connect" /\ ChannelOf[t] \in Channel \ {ch}
      BY <1>1, <2>2, RpcAssumption
    <3>2. m_clientFd'[ChannelOf[t]] = m_clientFd[ChannelOf[t]] /\ m_clientFd[ChannelOf[t]] \in DOMAIN conns
      BY <1>2, <1>6, <2>2, <3>1
    <3> QED
      BY <1>7, <2>2, <3>1, <3>2 DEF RpcInv, Connecting, SameOwners
  <2> QED
    BY <2>1, <2>2 DEF Connecting
<1> QED
  BY <1>1, <1>2, <1>11, <1>13, <1>14, <1>15 DEF RpcInv, ConnsHold, serverVars

-----------------------------------------------------------------------------
(* The theorems *)

\* Nothing is connected at first.
LEMMA InitRpcInv == Init => RpcInv
<1> SUFFICES ASSUME Init PROVE RpcInv
  OBVIOUS
<1>1. conns = <<>> /\ conns \in Seq(Range(conns)) /\ Len(conns) = 0 /\ DOMAIN conns = {}
  BY DEF Init
<1>2. ConnsTyped /\ NoConnectionLost /\ Serving /\ Owned
  BY <1>1, RpcAssumption DEF Init, ConnsTyped, NoConnectionLost, Serving, Owned
<1>3. CallersTyped
  BY <1>1, RpcAssumption DEF Init, CallersTyped
<1>4. ServerTyped
  BY DEF Init, ServerTyped
<1>5. Connecting
  BY RpcAssumption DEF Init, Connecting
<1> QED
  BY <1>2, <1>3, <1>4, <1>5 DEF RpcInv

\* Every step keeps the invariant.
LEMMA NextRpcInv ==
    ASSUME RpcInv, [Next]_vars
    PROVE  RpcInv'
<1>1. ASSUME NEW ch \in Channel, MprpcChannel(ch) PROVE RpcInv'
  BY <1>1, MprpcChannelKept
<1>2. ASSUME NEW t \in Thread, NEW n \in 1..MaxCalls, NEW method \in Methods[t][n],
             NEW args \in Asked(method, n), begun = n - 1, CallMethod(t, method, args)
      PROVE  RpcInv'
  BY <1>2, CallMethodKept
<1>3. ASSUME NEW t \in Thread, Caller(t) PROVE RpcInv'
  BY <1>3, ConnectKept, SendKept, RecvKept, ReceivedKept DEF Caller
<1>4. ASSUME NEW n \in DOMAIN Offered, NotifyService(n) PROVE RpcInv'
  BY <1>4, NotifyServiceKept
<1>5. CASE Run
  BY <1>5, RunKept
<1>6. ASSUME NEW c \in DOMAIN conns, Arrives(c) PROVE RpcInv'
  BY <1>6, OnMessageKept DEF Arrives
<1>7. ASSUME NEW l \in Loop, Handler(l) PROVE RpcInv'
  BY <1>7, HandlerKept
<1>8. ASSUME NEW c \in DOMAIN conns, OnConnection(c) PROVE RpcInv'
  BY <1>8, OnConnectionKept
<1>9. CASE Stop
  BY <1>9, StopKept
<1>10. ASSUME NEW ch \in Channel, CallerEnds(ch) PROVE RpcInv'
  BY <1>10, CallerEndsKept
<1>11. CASE UNCHANGED vars
  <2>1. UNCHANGED <<channelVars, callerVars, conns, serverVars, history>>
    BY <1>11 DEF vars
  <2>2. ConnsHold /\ DOMAIN conns' = DOMAIN conns
    BY <2>1, ConnsUnchanged DEF channelVars
  <2>3. CallersTyped' /\ Connecting'
    BY <2>1, <2>2, CallersKept DEF RpcInv, CallersTyped, history
  <2>4. ServerTyped'
    BY <2>1, <2>2, ServerKept
  <2> QED
    BY <2>1, <2>2, <2>3, <2>4 DEF RpcInv, ConnsHold, serverVars
<1> QED
  BY <1>1, <1>2, <1>3, <1>4, <1>5, <1>6, <1>7, <1>8, <1>9, <1>10, <1>11 DEF Next

\* No descriptor is overwritten while its connection is open, in any order of failed
\* sends, reconnections, answers and ends of processes and whichever threads share a
\* channel: each open connection is its channel's, but for those made while two
\* threads of the channel were in newConnect (mprpcchannel.cpp:46-166, 183-218).
THEOREM NoDescriptorIsLost == Spec => []ConnectionsKept
<1>1. RpcInv /\ [Next]_vars => RpcInv'
  BY NextRpcInv
<1>2. RpcInv => ConnectionsKept
  BY DEF RpcInv, ConnectionsKept, TypeOK, ConnsTyped, GoodConn, Units, CallersTyped, ServerTyped
<1> QED
  BY InitRpcInv, <1>1, <1>2, PTL DEF Spec

-----------------------------------------------------------------------------
(* Sequences, and FlattenSeq *)

\* A set of naturals that is not empty has a least element.
LEMMA LeastNat ==
    ASSUME NEW S, S \subseteq Nat, S # {}
    PROVE  \E n \in S : \A m \in S : n <= m
<1>1. \E R : IsWellFoundedOn(R, Nat) /\ \A m, n \in Nat : <<m, n>> \in R <=> m < n
  <2>1. \A m, n \in Nat : <<m, n>> \in OpToRel(<, Nat) <=> m < n
    BY Zenon DEF OpToRel
  <2> QED
    BY <2>1, NatLessThanWellFounded, Zenon
<1>2. PICK R : IsWellFoundedOn(R, Nat) /\ \A m, n \in Nat : <<m, n>> \in R <=> m < n
  BY <1>1, Zenon
<1>3. PICK n \in S : \A m \in S : ~ (<<m, n>> \in R)
  <2>1. IsWellFoundedOn(R, Nat)
    BY <1>2
  <2>2. \E n \in S : \A m \in S : ~ (<<m, n>> \in R)
    BY <2>1, WFMin
  <2> QED
    BY <2>2
<1>4. ASSUME NEW m \in S
      PROVE  n <= m
  <2>1. n \in Nat /\ m \in Nat
    OBVIOUS
  <2>2. ~ (m < n)
    BY <1>2, <1>3, <2>1, Zenon
  <2> QED
    BY <2>1, <2>2
<1> QED
  BY <1>4

IsSeq(w) == w \in Seq(Range(w))

LEMMA SeqParts ==
    ASSUME NEW w, IsSeq(w)
    PROVE  /\ Len(w) \in Nat /\ DOMAIN w = 1..Len(w)
           /\ w = [i \in 1..Len(w) |-> w[i]]
BY DEF IsSeq

LEMMA SameParts ==
    ASSUME NEW v, NEW w, IsSeq(v), IsSeq(w), Len(v) = Len(w),
           \A i \in 1..Len(v) : v[i] = w[i]
    PROVE  v = w
<1>1. v = [i \in 1..Len(v) |-> v[i]] /\ w = [i \in 1..Len(v) |-> w[i]]
  BY SeqParts
<1> QED
  BY <1>1

\* Two sequences after each other.
LEMMA Joined ==
    ASSUME NEW v, NEW w, IsSeq(v), IsSeq(w)
    PROVE  /\ IsSeq(v \o w) /\ Len(v \o w) = Len(v) + Len(w)
           /\ \A i \in 1..Len(v) : (v \o w)[i] = v[i]
           /\ \A i \in 1..Len(w) : (v \o w)[Len(v) + i] = w[i]
<1> DEFINE S == Range(v) \cup Range(w)
<1>1. v \in Seq(S) /\ w \in Seq(S)
  BY DEF IsSeq
<1> HIDE DEF S
<1>2. v \o w \in Seq(S) /\ Len(v \o w) = Len(v) + Len(w)
  BY <1>1
<1>3. IsSeq(v \o w)
  BY <1>2, OfItsElements DEF IsSeq
<1>4. \A i \in 1..Len(v) : (v \o w)[i] = v[i]
  BY <1>1
<1>5. ASSUME NEW i \in 1..Len(w) PROVE (v \o w)[Len(v) + i] = w[i]
  <2>1. Len(v) \in Nat /\ Len(w) \in Nat
    BY <1>1
  <2>2. Len(v) + i \in 1..(Len(v) + Len(w)) /\ Len(v) + i > Len(v) /\ (Len(v) + i) - Len(v) = i
    BY <2>1
  <2>3. \A j \in 1..(Len(v) + Len(w)) : (v \o w)[j] = IF j <= Len(v) THEN v[j] ELSE w[j - Len(v)]
    BY <1>1, ConcatProperties
  <2> QED
    BY <2>1, <2>2, <2>3
<1> QED
  BY <1>2, <1>3, <1>4, <1>5

LEMMA EmptyIsSeq == IsSeq(<<>>) /\ Len(<<>>) = 0
BY DEF IsSeq

Grows(f, seqs, n) == f = [i \in 1..n |-> IF i = 1 THEN seqs[i] ELSE f[i - 1] \o seqs[i]]

\* The function in the definition of FlattenSeq exists.
LEMMA GrowsExists ==
    ASSUME NEW seqs, NEW n \in Nat \ {0}
    PROVE  \E f : Grows(f, seqs, n)
<1> DEFINE Bad == {m \in 1..n : \A f : ~Grows(f, seqs, m)}
<1>1. SUFFICES ASSUME Bad # {} PROVE FALSE
  OBVIOUS
<1>2. PICK m \in Bad : \A k \in Bad : m <= k
  <2>1. Bad \subseteq Nat
    OBVIOUS
  <2> HIDE DEF Bad
  <2> QED
    BY <1>1, <2>1, LeastNat
<1>3. m \in 1..n /\ \A f : ~Grows(f, seqs, m)
  OBVIOUS
<1>4. CASE m = 1
  <2> DEFINE f == [i \in 1..1 |-> seqs[i]]
  <2>1. f = [i \in 1..1 |-> IF i = 1 THEN seqs[i] ELSE f[i - 1] \o seqs[i]]
    OBVIOUS
  <2> HIDE DEF f
  <2> QED
    BY <1>3, <1>4, <2>1 DEF Grows
<1>5. CASE m # 1
  <2>1. m - 1 \in 1..n /\ m - 1 \notin Bad
    <3>1. m - 1 \in 1..n /\ ~(m <= m - 1)
      BY <1>3, <1>5
    <3> HIDE DEF Bad
    <3> QED
      BY <1>2, <3>1
  <2>2. PICK f : Grows(f, seqs, m - 1)
    BY <2>1
  <2> DEFINE g == [i \in 1..m |-> IF i < m THEN f[i] ELSE f[m - 1] \o seqs[m]]
             h == [i \in 1..m |-> IF i = 1 THEN seqs[i] ELSE g[i - 1] \o seqs[i]]
  <2>3. \A i \in 1..m - 1 : f[i] = IF i = 1 THEN seqs[i] ELSE f[i - 1] \o seqs[i]
    BY <2>2 DEF Grows
  <2>4. ASSUME NEW i \in 1..m PROVE g[i] = h[i]
    <3>1. CASE i < m
      <4>1. i \in 1..m - 1 /\ (i # 1 => i - 1 \in 1..m /\ i - 1 < m)
        BY <1>3, <3>1
      <4> QED
        BY <2>3, <3>1, <4>1
    <3>2. CASE i = m
      <4>1. /\ i # 1 /\ m - 1 \in 1..m /\ m - 1 < m
            /\ m \in 1..m /\ ~(m < m)
        BY <1>3, <1>5, <3>2
      <4>2. g[m] = f[m - 1] \o seqs[m] /\ g[m - 1] = f[m - 1]
        BY <4>1
      <4>3. h[m] = g[m - 1] \o seqs[m]
        <5> HIDE DEF g
        <5> QED
          BY <1>3, <3>2, <4>1
      <4> HIDE DEF g, h
      <4> QED
        BY <3>2, <4>2, <4>3
    <3> QED
      BY <1>3, <3>1, <3>2
  <2>5. g = h
    <3>1. g = [i \in 1..m |-> g[i]] /\ h = [i \in 1..m |-> h[i]]
      OBVIOUS
    <3> HIDE DEF g, h
    <3> QED
      BY <2>4, <3>1
  <2>6. Grows(g, seqs, m)
    <3> HIDE DEF g
    <3> QED
      BY <2>5 DEF Grows
  <2> QED
    BY <1>3, <2>6
<1> QED
  BY <1>4, <1>5

\* What FlattenSeq makes of its parts, part by part.
LEMMA Flattened ==
    ASSUME NEW seqs, NEW n \in Nat \ {0}, Len(seqs) = n
    PROVE  \E f : /\ f[1] = seqs[1] /\ FlattenSeq(seqs) = f[n]
                  /\ \A i \in 2..n : f[i] = f[i - 1] \o seqs[i]
<1> DEFINE flatten == CHOOSE f : Grows(f, seqs, n)
<1>1. Grows(flatten, seqs, n)
  BY GrowsExists
<1>2. FlattenSeq(seqs) = flatten[n]
  BY DEF FlattenSeq, Grows
<1> HIDE DEF flatten
<1>3. \A i \in 1..n : flatten[i] = IF i = 1 THEN seqs[i] ELSE flatten[i - 1] \o seqs[i]
  BY <1>1 DEF Grows
<1>4. flatten[1] = seqs[1] /\ \A i \in 2..n : flatten[i] = flatten[i - 1] \o seqs[i]
  <2>1. 1 \in 1..n /\ \A i \in 2..n : i \in 1..n /\ i # 1
    OBVIOUS
  <2> QED
    BY <1>3, <2>1
<1> QED
  BY <1>2, <1>4, Zenon

-----------------------------------------------------------------------------
(* Fields on the wire *)

\* w has the payloads P[1], ..., P[n] of the first n fields, one field after the
\* other.
Carries(w, P, n) ==
    /\ IsSeq(w) /\ \A i \in 1..Len(w) : w[i][1] \in 1..n
    /\ \A k \in 1..n : \E a \in Nat :
          /\ a + Len(P[k]) <= Len(w)
          /\ \A i \in 1..Len(w) : w[i][1] = k <=> i \in a + 1..a + Len(P[k])
          /\ \A j \in 1..Len(P[k]) : w[a + j][2] = P[k][j]

LEMMA FlatParts ==
    ASSUME NEW k, NEW p, IsSeq(p)
    PROVE  /\ IsSeq(FlatUnits(k, p)) /\ Len(FlatUnits(k, p)) = Len(p)
           /\ \A j \in 1..Len(p) : FlatUnits(k, p)[j] = <<k, p[j]>>
<1> DEFINE w == FlatUnits(k, p)
<1>1. Len(p) \in Nat /\ DOMAIN p = 1..Len(p)
  BY SeqParts
<1>2. w = [j \in 1..Len(p) |-> <<k, p[j]>>]
  BY <1>1 DEF FlatUnits
<1> HIDE DEF w
<1>3. IsSeq(w) /\ Len(w) = Len(p)
  <2>1. DOMAIN w = 1..Len(p) /\ w = [j \in DOMAIN w |-> w[j]]
    BY <1>2
  <2> QED
    BY <1>1, <2>1, FunctionIsSeq DEF IsSeq
<1>4. \A j \in 1..Len(p) : w[j] = <<k, p[j]>>
  BY <1>2
<1> QED
  BY <1>3, <1>4 DEF w

LEMMA CarriesNone ==
    ASSUME NEW P
    PROVE  Carries(<<>>, P, 0)
BY EmptyIsSeq DEF Carries

LEMMA CarriesMore ==
    ASSUME NEW P, NEW n \in Nat, NEW w, Carries(w, P, n), IsSeq(P[n + 1])
    PROVE  Carries(w \o FlatUnits(n + 1, P[n + 1]), P, n + 1)
<1> DEFINE p == P[n + 1]
           u == FlatUnits(n + 1, p)
           v == w \o u
<1>1. /\ IsSeq(u) /\ Len(u) = Len(p) /\ \A j \in 1..Len(p) : u[j] = <<n + 1, p[j]>>
      /\ IsSeq(w) /\ Len(w) \in Nat /\ Len(p) \in Nat
  BY FlatParts, SeqParts DEF Carries
<1> HIDE DEF u
<1>2. /\ IsSeq(v) /\ Len(v) = Len(w) + Len(p)
      /\ \A i \in 1..Len(w) : v[i] = w[i]
      /\ \A i \in 1..Len(p) : v[Len(w) + i] = <<n + 1, p[i]>>
  BY <1>1, Joined
<1> HIDE DEF p, v
<1>3. \A i \in 1..Len(w) : v[i][1] \in 1..n
  BY <1>2 DEF Carries
<1>4. ASSUME NEW i \in 1..Len(v), i > Len(w)
      PROVE  v[i] = <<n + 1, p[i - Len(w)]>> /\ i - Len(w) \in 1..Len(p)
  <2>1. i - Len(w) \in 1..Len(p) /\ Len(w) + (i - Len(w)) = i
    BY <1>1, <1>2, <1>4
  <2> QED
    BY <1>2, <2>1
<1>5. ASSUME NEW i \in 1..Len(v)
      PROVE  v[i][1] \in 1..n + 1 /\ (v[i][1] = n + 1 <=> i > Len(w))
  <2>1. CASE i > Len(w)
    BY <1>4, <2>1
  <2>2. CASE ~(i > Len(w))
    <3>1. i \in 1..Len(w)
      BY <1>1, <1>2, <2>2
    <3> QED
      BY <1>3, <2>2, <3>1
  <2> QED
    BY <2>1, <2>2
<1>6. ASSUME NEW k \in 1..n
      PROVE  \E a \in Nat :
               /\ a + Len(P[k]) <= Len(v)
               /\ \A i \in 1..Len(v) : v[i][1] = k <=> i \in a + 1..a + Len(P[k])
               /\ \A j \in 1..Len(P[k]) : v[a + j][2] = P[k][j]
  <2>1. PICK a \in Nat :
          /\ a + Len(P[k]) <= Len(w)
          /\ \A i \in 1..Len(w) : w[i][1] = k <=> i \in a + 1..a + Len(P[k])
          /\ \A j \in 1..Len(P[k]) : w[a + j][2] = P[k][j]
    BY DEF Carries
  <2>2. a + Len(P[k]) <= Len(v)
    BY <1>1, <1>2, <2>1
  <2>3. ASSUME NEW i \in 1..Len(v)
        PROVE  v[i][1] = k <=> i \in a + 1..a + Len(P[k])
    <3>1. CASE i > Len(w)
      <4>1. v[i][1] = n + 1
        BY <1>5, <3>1
      <4>2. k # n + 1 /\ ~(i \in a + 1..a + Len(P[k]))
        BY <1>1, <2>1, <3>1
      <4> QED
        BY <4>1, <4>2
    <3>2. CASE ~(i > Len(w))
      <4>1. i \in 1..Len(w)
        BY <1>1, <1>2, <3>2
      <4> QED
        BY <1>2, <2>1, <4>1
    <3> QED
      BY <3>1, <3>2
  <2>4. ASSUME NEW j \in 1..Len(P[k])
        PROVE  v[a + j][2] = P[k][j]
    <3>1. a + j \in 1..Len(w)
      BY <1>1, <2>1
    <3> QED
      BY <1>2, <2>1, <3>1
  <2> QED
    BY <2>2, <2>3, <2>4
<1>7. \E a \in Nat :
        /\ a + Len(p) <= Len(v)
        /\ \A i \in 1..Len(v) : v[i][1] = n + 1 <=> i \in a + 1..a + Len(p)
        /\ \A j \in 1..Len(p) : v[a + j][2] = p[j]
  <2>1. \A i \in 1..Len(v) : v[i][1] = n + 1 <=> i \in Len(w) + 1..Len(w) + Len(p)
    BY <1>1, <1>2, <1>5
  <2>2. \A j \in 1..Len(p) : v[Len(w) + j][2] = p[j]
    BY <1>2
  <2>3. Len(w) + Len(p) <= Len(v)
    BY <1>1, <1>2
  <2> QED
    BY <1>1, <2>1, <2>2, <2>3
<1>8. \A k \in 1..n + 1 : k \in 1..n \/ k = n + 1
  OBVIOUS
<1>9. Carries(v, P, n + 1)
  <2>1. \A i \in 1..Len(v) : v[i][1] \in 1..n + 1
    BY <1>5
  <2>2. ASSUME NEW k \in 1..n + 1
        PROVE  \E a \in Nat :
               /\ a + Len(P[k]) <= Len(v)
               /\ \A i \in 1..Len(v) : v[i][1] = k <=> i \in a + 1..a + Len(P[k])
               /\ \A j \in 1..Len(P[k]) : v[a + j][2] = P[k][j]
    <3>1. CASE k \in 1..n
      BY <1>6, <3>1
    <3>2. CASE k = n + 1
      BY <1>7, <3>2 DEF p
    <3> QED
      BY <1>8, <3>1, <3>2
  <2> QED
    BY <1>2, <2>1, <2>2 DEF Carries
<1> QED
  BY <1>9 DEF v, u, p

\* The parts of a message, one after the other, carry its payloads.
LEMMA FlattenCarries ==
    ASSUME NEW P, NEW n \in Nat \ {0}, \A k \in 1..n : IsSeq(P[k])
    PROVE  Carries(FlattenSeq([k \in 1..n |-> FlatUnits(k, P[k])]), P, n)
<1> DEFINE seqs == [k \in 1..n |-> FlatUnits(k, P[k])]
<1>1. Len(seqs) = n
  OBVIOUS
<1>2. PICK f : /\ f[1] = seqs[1] /\ FlattenSeq(seqs) = f[n]
               /\ \A i \in 2..n : f[i] = f[i - 1] \o seqs[i]
  <2> HIDE DEF seqs
  <2> QED
    BY <1>1, Flattened
<1> DEFINE Bad == {m \in 1..n : ~Carries(f[m], P, m)}
<1>3. \A i \in 1..n : seqs[i] = FlatUnits(i, P[i])
  OBVIOUS
<1> HIDE DEF seqs
<1>4. Carries(f[1], P, 1)
  <2>1. IsSeq(P[1]) /\ 1 \in 1..n
    OBVIOUS
  <2>2. Carries(<<>> \o FlatUnits(0 + 1, P[0 + 1]), P, 0 + 1)
    <3>1. 0 + 1 = 1 /\ 0 \in Nat
      OBVIOUS
    <3>2. IsSeq(P[0 + 1])
      BY <2>1, <3>1, Zenon
    <3> QED
      BY <3>1, <3>2, CarriesNone, CarriesMore
  <2>3. IsSeq(FlatUnits(1, P[1]))
    BY <2>1, FlatParts
  <2>4. <<>> \o FlatUnits(1, P[1]) = FlatUnits(1, P[1])
    BY <2>3 DEF IsSeq
  <2> QED
    BY <1>2, <1>3, <2>1, <2>2, <2>4
<1>5. SUFFICES ASSUME Bad # {} PROVE FALSE
  BY <1>2 DEF seqs
<1>6. PICK m \in Bad : \A k \in Bad : m <= k
  <2>1. Bad \subseteq Nat
    OBVIOUS
  <2> HIDE DEF Bad
  <2> QED
    BY <1>5, <2>1, LeastNat
<1>7. m \in 1..n /\ ~Carries(f[m], P, m)
  OBVIOUS
<1>8. m # 1
  BY <1>4, <1>7
<1>9. Carries(f[m - 1], P, m - 1)
  <2>1. m - 1 \in 1..n /\ ~(m <= m - 1)
    BY <1>7, <1>8
  <2>2. m - 1 \notin Bad
    <3> HIDE DEF Bad
    <3> QED
      BY <1>6, <2>1
  <2> QED
    BY <2>1, <2>2
<1>10. Carries(f[m - 1] \o FlatUnits((m - 1) + 1, P[(m - 1) + 1]), P, (m - 1) + 1)
  <2>1. m - 1 \in Nat /\ (m - 1) + 1 = m
    BY <1>7, <1>8
  <2>2. IsSeq(P[(m - 1) + 1])
    BY <1>7, <2>1
  <2> QED
    BY <1>9, <2>1, <2>2, CarriesMore
<1>11. f[m] = f[m - 1] \o FlatUnits(m, P[m]) /\ (m - 1) + 1 = m
  <2>1. m \in 2..n /\ m \in 1..n /\ (m - 1) + 1 = m
    BY <1>7, <1>8
  <2> QED
    BY <1>2, <1>3, <2>1
<1> QED
  BY <1>7, <1>10, <1>11

\* Reading a field gives the payloads it was written with.
LEMMA ReadCarried ==
    ASSUME NEW w, NEW P, NEW n \in Nat, Carries(w, P, n), NEW k \in 1..n, IsSeq(P[k])
    PROVE  /\ Read(w, k) = P[k]
           /\ \A old : Latest(w, k, old) = IF P[k] = <<>> THEN old ELSE P[k][Len(P[k])]
<1> DEFINE p == P[k]
<1>1. PICK a \in Nat :
        /\ a + Len(p) <= Len(w)
        /\ \A i \in 1..Len(w) : w[i][1] = k <=> i \in a + 1..a + Len(p)
        /\ \A j \in 1..Len(p) : w[a + j][2] = p[j]
  BY DEF Carries
<1>2. /\ Len(w) \in Nat /\ DOMAIN w = 1..Len(w)
      /\ Len(p) \in Nat /\ DOMAIN p = 1..Len(p) /\ p = [i \in 1..Len(p) |-> p[i]]
  BY SeqParts DEF Carries
<1> DEFINE m == Len(p)
<1>3. At(w, k) = a + 1..a + m
  <2>1. At(w, k) = {i \in 1..Len(w) : w[i][1] = k}
    BY <1>2 DEF At
  <2> HIDE DEF m, p
  <2>2. a + 1..a + m \subseteq 1..Len(w)
    BY <1>1, <1>2 DEF m
  <2> QED
    BY <1>1, <2>1, <2>2 DEF m
<1> HIDE DEF p, m
<1>4. m \in Nat
  BY <1>2 DEF m
<1>5. Cardinality(a + 1..a + m) = m
  <2>1. Cardinality(a + 1..a + m) = IF a + 1 > a + m THEN 0 ELSE a + m - (a + 1) + 1
    BY <1>4, FS_Interval
  <2> QED
    BY <1>4, <2>1
<1>6. ASSUME NEW j \in 1..m
      PROVE  (CHOOSE i \in At(w, k) : Cardinality({x \in At(w, k) : x <= i}) = j) = a + j
  <2>1. ASSUME NEW i \in a + 1..a + m
        PROVE  Cardinality({x \in At(w, k) : x <= i}) = i - a
    <3>1. {x \in At(w, k) : x <= i} = a + 1..i
      BY <1>3, <1>4
    <3>2. Cardinality(a + 1..i) = IF a + 1 > i THEN 0 ELSE i - (a + 1) + 1
      BY FS_Interval
    <3>3. i \in Int /\ ~(a + 1 > i) /\ i - (a + 1) + 1 = i - a
      BY <1>4
    <3> QED
      BY <3>1, <3>2, <3>3
  <2>2. \A i \in At(w, k) : Cardinality({x \in At(w, k) : x <= i}) = j <=> i = a + j
    <3>1. \A i \in a + 1..a + m : i - a = j <=> i = a + j
      BY <1>4
    <3> QED
      BY <1>3, <2>1, <3>1
  <2>3. a + j \in At(w, k)
    BY <1>3, <1>4
  <2> DEFINE N == CHOOSE i \in At(w, k) : Cardinality({x \in At(w, k) : x <= i}) = j
  <2>4. N \in At(w, k) /\ Cardinality({x \in At(w, k) : x <= N}) = j
    BY <2>2, <2>3, Zenon
  <2> HIDE DEF N
  <2>5. N = a + j
    BY <2>2, <2>4, Zenon
  <2> QED
    BY <2>5 DEF N
<1>7. Read(w, k) = [j \in 1..m |-> w[a + j][2]]
  <2> DEFINE N(j) == CHOOSE i \in At(w, k) : Cardinality({x \in At(w, k) : x <= i}) = j
  <2>1. Read(w, k) = [j \in 1..Cardinality(At(w, k)) |-> w[N(j)][2]]
    BY DEF Read
  <2>2. Cardinality(At(w, k)) = m
    BY <1>3, <1>5
  <2>3. \A j \in 1..m : N(j) = a + j
    BY <1>6
  <2> HIDE DEF N
  <2> QED
    BY <2>1, <2>2, <2>3
<1>8. Read(w, k) = p
  BY <1>1, <1>2, <1>7 DEF m
<1>9. ASSUME NEW old
      PROVE  Latest(w, k, old) = IF p = <<>> THEN old ELSE p[Len(p)]
  <2>1. CASE p = <<>>
    <3>1. m = 0 /\ a + 1..a + 0 = {}
      BY <2>1 DEF m
    <3> QED
      BY <1>3, <2>1, <3>1 DEF Latest
  <2>2. CASE p # <<>>
    <3>1. m # 0
      <4>1. SUFFICES ASSUME m = 0 PROVE FALSE
        OBVIOUS
      <4>2. p = <<>>
        BY <1>2, <4>1 DEF m
      <4> QED
        BY <2>2, <4>2
    <3>2. a + m \in a + 1..a + m /\ \A x \in a + 1..a + m : a + m >= x
      BY <1>4, <3>1
    <3>3. \A x \in a + 1..a + m : (\A y \in a + 1..a + m : x >= y) => x = a + m
      BY <1>4, <3>2
    <3>4. Max(a + 1..a + m) = a + m
      BY <3>2, <3>3 DEF Max
    <3>5. m \in 1..m /\ w[a + m][2] = p[m]
      BY <1>1, <1>4, <3>1 DEF m
    <3>6. At(w, k) # {}
      BY <1>3, <3>2
    <3> QED
      BY <1>3, <2>2, <3>4, <3>5, <3>6 DEF Latest, m
  <2> QED
    BY <2>1, <2>2
<1> QED
  BY <1>8, <1>9 DEF p

-----------------------------------------------------------------------------
(* Messages *)

Requests ==
    {AppendEntriesArgs, RequestVoteArgs, InstallSnapshotRequest, GetArgs, PutAppendArgs,
     GetFriendsListRequest}

\* A message type: each field once.
TypeGood(type) ==
    /\ IsSeq(type) /\ Len(type) # 0
    /\ \A i, j \in 1..Len(type) : type[i] = type[j] => i = j

TypeDefs == Requests \cup Replies \cup {LogEntry, ResultCode}

LEMMA Type1 ==
    ASSUME NEW a
    PROVE  TypeGood(<<a>>)
<1> DEFINE t == <<a>>
<1>1. t \in Seq({a}) /\ Len(t) = 1
  OBVIOUS
<1>2. t[1] = a
  OBVIOUS
<1> HIDE DEF t
<1>3. \A i, j \in 1..Len(t) : t[i] = t[j] => i = j
  <2>1. \A i \in 1..Len(t) : i = 1
    BY <1>1
  <2> QED
    BY <1>2, <2>1
<1>4. IsSeq(t)
  BY <1>1, OfItsElements DEF IsSeq
<1> QED
  BY <1>1, <1>3, <1>4 DEF TypeGood, t

LEMMA Type2 ==
    ASSUME NEW a, NEW b,
           a # b
    PROVE  TypeGood(<<a, b>>)
<1> DEFINE t == <<a, b>>
<1>1. t \in Seq({a, b}) /\ Len(t) = 2
  OBVIOUS
<1>2. t[1] = a /\ t[2] = b
  OBVIOUS
<1> HIDE DEF t
<1>3. \A i, j \in 1..Len(t) : t[i] = t[j] => i = j
  <2>1. \A i \in 1..Len(t) : i = 1 \/ i = 2
    BY <1>1
  <2> QED
    BY <1>2, <2>1
<1>4. IsSeq(t)
  BY <1>1, OfItsElements DEF IsSeq
<1> QED
  BY <1>1, <1>3, <1>4 DEF TypeGood, t

LEMMA Type3 ==
    ASSUME NEW a, NEW b, NEW c,
           a # b, a # c, b # c
    PROVE  TypeGood(<<a, b, c>>)
<1> DEFINE t == <<a, b, c>>
<1>1. t \in Seq({a, b, c}) /\ Len(t) = 3
  OBVIOUS
<1>2. t[1] = a /\ t[2] = b /\ t[3] = c
  OBVIOUS
<1> HIDE DEF t
<1>3. \A i, j \in 1..Len(t) : t[i] = t[j] => i = j
  <2>1. \A i \in 1..Len(t) : i = 1 \/ i = 2 \/ i = 3
    BY <1>1
  <2> QED
    BY <1>2, <2>1
<1>4. IsSeq(t)
  BY <1>1, OfItsElements DEF IsSeq
<1> QED
  BY <1>1, <1>3, <1>4 DEF TypeGood, t

LEMMA Type4 ==
    ASSUME NEW a, NEW b, NEW c, NEW d,
           a # b, a # c, a # d, b # c, b # d, c # d
    PROVE  TypeGood(<<a, b, c, d>>)
<1> DEFINE t == <<a, b, c, d>>
<1>1. t \in Seq({a, b, c, d}) /\ Len(t) = 4
  OBVIOUS
<1>2. t[1] = a /\ t[2] = b /\ t[3] = c /\ t[4] = d
  OBVIOUS
<1> HIDE DEF t
<1>3. \A i, j \in 1..Len(t) : t[i] = t[j] => i = j
  <2>1. \A i \in 1..Len(t) : i = 1 \/ i = 2 \/ i = 3 \/ i = 4
    BY <1>1
  <2> QED
    BY <1>2, <2>1
<1>4. IsSeq(t)
  BY <1>1, OfItsElements DEF IsSeq
<1> QED
  BY <1>1, <1>3, <1>4 DEF TypeGood, t

LEMMA Type5 ==
    ASSUME NEW a, NEW b, NEW c, NEW d, NEW e,
           a # b, a # c, a # d, a # e, b # c, b # d,
           b # e, c # d, c # e, d # e
    PROVE  TypeGood(<<a, b, c, d, e>>)
<1> DEFINE t == <<a, b, c, d, e>>
<1>1. t \in Seq({a, b, c, d, e}) /\ Len(t) = 5
  OBVIOUS
<1>2. t[1] = a /\ t[2] = b /\ t[3] = c /\ t[4] = d /\ t[5] = e
  OBVIOUS
<1> HIDE DEF t
<1>3. \A i, j \in 1..Len(t) : t[i] = t[j] => i = j
  <2>1. \A i \in 1..Len(t) : i = 1 \/ i = 2 \/ i = 3 \/ i = 4 \/ i = 5
    BY <1>1
  <2> QED
    BY <1>2, <2>1
<1>4. IsSeq(t)
  BY <1>1, OfItsElements DEF IsSeq
<1> QED
  BY <1>1, <1>3, <1>4 DEF TypeGood, t

LEMMA Type6 ==
    ASSUME NEW a, NEW b, NEW c, NEW d, NEW e, NEW f,
           a # b, a # c, a # d, a # e, a # f, b # c,
           b # d, b # e, b # f, c # d, c # e, c # f,
           d # e, d # f, e # f
    PROVE  TypeGood(<<a, b, c, d, e, f>>)
<1> DEFINE t == <<a, b, c, d, e, f>>
<1>1. t \in Seq({a, b, c, d, e, f}) /\ Len(t) = 6
  OBVIOUS
<1>2. t[1] = a /\ t[2] = b /\ t[3] = c /\ t[4] = d /\ t[5] = e /\ t[6] = f
  OBVIOUS
<1> HIDE DEF t
<1>3. \A i, j \in 1..Len(t) : t[i] = t[j] => i = j
  <2>1. \A i \in 1..Len(t) : i = 1 \/ i = 2 \/ i = 3 \/ i = 4 \/ i = 5 \/ i = 6
    BY <1>1
  <2> QED
    BY <1>2, <2>1
<1>4. IsSeq(t)
  BY <1>1, OfItsElements DEF IsSeq
<1> QED
  BY <1>1, <1>3, <1>4 DEF TypeGood, t

LEMMA TypesGood ==
    ASSUME NEW type \in TypeDefs
    PROVE  TypeGood(type)
<1>1. TypeGood(AppendEntriesArgs)
  BY Type6 DEF AppendEntriesArgs
<1>2. TypeGood(RequestVoteArgs)
  BY Type4 DEF RequestVoteArgs
<1>3. TypeGood(InstallSnapshotRequest)
  BY Type5 DEF InstallSnapshotRequest
<1>4. TypeGood(GetArgs)
  BY Type3 DEF GetArgs
<1>5. TypeGood(PutAppendArgs)
  BY Type5 DEF PutAppendArgs
<1>6. TypeGood(GetFriendsListRequest)
  BY Type1 DEF GetFriendsListRequest
<1>7. TypeGood(AppendEntriesReply)
  BY Type4 DEF AppendEntriesReply
<1>8. TypeGood(RequestVoteReply)
  BY Type3 DEF RequestVoteReply
<1>9. TypeGood(InstallSnapshotResponse)
  BY Type1 DEF InstallSnapshotResponse
<1>10. TypeGood(GetReply)
  BY Type2 DEF GetReply
<1>11. TypeGood(PutAppendReply)
  BY Type1 DEF PutAppendReply
<1>12. TypeGood(GetFriendsListResponse)
  BY Type2 DEF GetFriendsListResponse
<1>13. TypeGood(LogEntry)
  BY Type3 DEF LogEntry
<1>14. TypeGood(ResultCode)
  BY Type2 DEF ResultCode
<1> QED
  BY <1>1, <1>2, <1>3, <1>4, <1>5, <1>6, <1>7, <1>8, <1>9, <1>10, <1>11, <1>12, <1>13, <1>14 DEF TypeDefs, Requests, Replies

LEMMA FieldNumbers ==
    ASSUME NEW type, TypeGood(type)
    PROVE  /\ Len(type) \in Nat \ {0} /\ DOMAIN type = 1..Len(type)
           /\ \A n \in 1..Len(type) : type[n] \in Range(type) /\ NumberOf(type, type[n]) = n
           /\ \A f \in Range(type) : \E n \in 1..Len(type) : f = type[n]
<1>1. Len(type) \in Nat \ {0} /\ DOMAIN type = 1..Len(type)
  BY SeqParts DEF TypeGood
<1>2. ASSUME NEW n \in 1..Len(type) PROVE NumberOf(type, type[n]) = n
  <2> DEFINE k == CHOOSE i \in DOMAIN type : type[i] = type[n]
  <2>1. k \in DOMAIN type /\ type[k] = type[n]
    BY <1>1, Zenon
  <2> HIDE DEF k
  <2>2. k = n
    BY <1>1, <2>1 DEF TypeGood
  <2> QED
    BY <2>2 DEF NumberOf, k
<1> QED
  BY <1>1, <1>2 DEF Range

\* A message whose fields are scalars.
FlatMessage(type, m) == m = [f \in Range(type) |-> m[f]]

LEMMA PresentParts ==
    ASSUME NEW x
    PROVE  /\ IsSeq(Present(x))
           /\ (IF Present(x) = <<>> THEN 0 ELSE Present(x)[Len(Present(x))]) = x
<1>1. CASE x = 0
  BY <1>1, EmptyIsSeq DEF Present
<1>2. CASE x # 0
  <2>1. Present(x) = <<x>> /\ <<x>> \in Seq({x}) /\ Len(<<x>>) = 1 /\ <<x>>[1] = x
    BY <1>2 DEF Present
  <2>2. IsSeq(<<x>>)
    BY <2>1, OfItsElements DEF IsSeq
  <2> QED
    BY <2>1, <2>2
<1> QED
  BY <1>1, <1>2

\* Parsing what SerializeFlat wrote gives the message back.
LEMMA FlatBack ==
    ASSUME NEW type, TypeGood(type), Range(type) \cap Many = {}, NEW m, FlatMessage(type, m)
    PROVE  /\ IsSeq(SerializeFlat(type, m))
           /\ ParseFlat(type, SerializeFlat(type, m)) = m
<1> DEFINE N == Len(type)
           P == [n \in 1..N |-> Present(m[type[n]])]
           w == SerializeFlat(type, m)
<1>1. /\ N \in Nat \ {0} /\ DOMAIN type = 1..N
      /\ \A n \in 1..N : type[n] \in Range(type) /\ NumberOf(type, type[n]) = n
      /\ \A f \in Range(type) : \E n \in 1..N : f = type[n]
  BY FieldNumbers
<1>2. w = FlattenSeq([n \in 1..N |-> FlatUnits(n, P[n])])
  <2>1. [n \in DOMAIN type |-> FlatUnits(n, Present(m[type[n]]))]
          = [n \in 1..N |-> FlatUnits(n, P[n])]
    BY <1>1
  <2> QED
    BY <2>1 DEF SerializeFlat
<1>3. \A n \in 1..N : P[n] = Present(m[type[n]])
  OBVIOUS
<1> HIDE DEF P, N, w
<1>4. \A n \in 1..N : IsSeq(P[n])
  BY <1>3, PresentParts
<1>5. Carries(w, P, N)
  BY <1>1, <1>2, <1>4, FlattenCarries
<1>6. ASSUME NEW f \in Range(type)
      PROVE  Latest(w, NumberOf(type, f), Clear(type)[f]) = m[f]
  <2>1. PICK n \in 1..N : f = type[n]
    BY <1>1
  <2>2. NumberOf(type, f) = n /\ Clear(type)[f] = 0 /\ IsSeq(P[n])
    BY <1>1, <1>4, <2>1 DEF Clear
  <2>3. Latest(w, n, 0) = IF P[n] = <<>> THEN 0 ELSE P[n][Len(P[n])]
    BY <1>1, <1>5, <2>2, ReadCarried
  <2> QED
    BY <1>3, <2>1, <2>2, <2>3, PresentParts
<1>7. ParseFlat(type, w) = [f \in Range(type) |-> Latest(w, NumberOf(type, f), Clear(type)[f])]
  BY DEF ParseFlat, MergeFlat
<1>8. ParseFlat(type, w) = m
  BY <1>6, <1>7 DEF FlatMessage
<1> QED
  BY <1>5, <1>8 DEF Carries, w

\* A value a field may have: a sequence of messages, at most one of them if the
\* field does not repeat, or of scalars.
FieldGood(f, x) ==
    /\ f \in Many => IsSeq(x)
    /\ f = "Entries" => \A j \in 1..Len(x) : FlatMessage(LogEntry, x[j])
    /\ f = "result" => x = <<>> \/ \E y : x = <<y>> /\ FlatMessage(ResultCode, y)

Message(type, m) ==
    /\ m = [f \in Range(type) |-> m[f]]
    /\ \A f \in Range(type) : FieldGood(f, m[f])

LEMMA ScalarTypes ==
    /\ TypeGood(LogEntry) /\ Range(LogEntry) \cap Many = {}
    /\ TypeGood(ResultCode) /\ Range(ResultCode) \cap Many = {}
BY TypesGood DEF TypeDefs, LogEntry, ResultCode, Range, Many

LEMMA NestedDomain == DOMAIN Nested = {"Entries", "result"}
                      /\ Nested["Entries"] = LogEntry /\ Nested["result"] = ResultCode
BY DEF Nested

LEMMA OneSeq ==
    ASSUME NEW x
    PROVE  IsSeq(<<x>>) /\ Len(<<x>>) = 1 /\ <<x>>[1] = x /\ <<x>> # <<>>
<1>1. <<x>> \in Seq({x}) /\ Len(<<x>>) = 1 /\ <<x>>[1] = x /\ <<x>> # <<>>
  OBVIOUS
<1> QED
  BY <1>1, OfItsElements DEF IsSeq

\* Reading back the payloads of one field.
LEMMA FieldBack ==
    ASSUME NEW f, NEW x, FieldGood(f, x)
    PROVE  /\ IsSeq(Payloads(f, x))
           /\ f \in Many => Grown(f, <<>>, Payloads(f, x)) = x
           /\ f \notin Many => /\ Payloads(f, x) = Present(x)
<1>1. CASE f = "Entries"
  <2> DEFINE p == [j \in DOMAIN x |-> SerializeFlat(LogEntry, x[j])]
             q == [j \in DOMAIN p |-> ParseFlat(LogEntry, p[j])]
  <2>1. IsSeq(x) /\ Len(x) \in Nat /\ DOMAIN x = 1..Len(x) /\ x = [i \in 1..Len(x) |-> x[i]]
    BY <1>1, SeqParts DEF FieldGood, Many
  <2>2. Payloads(f, x) = p
    BY <1>1, NestedDomain DEF Payloads
  <2>3. DOMAIN p = 1..Len(x) /\ p = [j \in DOMAIN p |-> p[j]]
    BY <2>1
  <2>4. \A j \in 1..Len(x) : p[j] = SerializeFlat(LogEntry, x[j])
    BY <2>1
  <2>5. \A j \in DOMAIN p : q[j] = ParseFlat(LogEntry, p[j])
    OBVIOUS
  <2>6. DOMAIN q = DOMAIN p /\ q = [j \in DOMAIN p |-> q[j]]
    OBVIOUS
  <2>7. Grown(f, <<>>, p) = <<>> \o q
    BY <1>1 DEF Grown
  <2> HIDE DEF p, q
  <2>8. \A j \in 1..Len(x) : q[j] = x[j]
    BY <1>1, <2>3, <2>4, <2>5, ScalarTypes, FlatBack DEF FieldGood
  <2>9. q = x
    BY <2>1, <2>3, <2>6, <2>8
  <2>10. <<>> \o x = x
    BY <2>1 DEF IsSeq
  <2>11. IsSeq(p)
    BY <2>1, <2>3, FunctionIsSeq DEF IsSeq
  <2> QED
    BY <1>1, <2>2, <2>7, <2>9, <2>10, <2>11 DEF Many
<1>2. CASE f = "result"
  <2> DEFINE p == [j \in DOMAIN x |-> SerializeFlat(ResultCode, x[j])]
  <2>1. Payloads(f, x) = p
    BY <1>2, NestedDomain DEF Payloads
  <2>2. CASE x = <<>>
    <3>1. p = <<>>
      BY <2>2
    <3>2. Grown(f, <<>>, <<>>) = <<>>
      BY <1>2 DEF Grown
    <3> QED
      BY <1>2, <2>1, <2>2, <3>1, <3>2, EmptyIsSeq DEF Many
  <2>3. ASSUME NEW y, x = <<y>>, FlatMessage(ResultCode, y)
        PROVE  IsSeq(p) /\ Grown(f, <<>>, p) = x
    <3>1. PICK v : v = SerializeFlat(ResultCode, y)
      OBVIOUS
    <3>2. p = <<v>>
      BY <2>3, <3>1
    <3>3. FlattenSeq(<<v>>) = v
      <4> DEFINE s == <<v>>
      <4>1. Len(s) = 1 /\ s[1] = v
        OBVIOUS
      <4> HIDE DEF s
      <4>2. \E g : g[1] = s[1] /\ FlattenSeq(s) = g[1] /\ \A i \in 2..1 : g[i] = g[i - 1] \o s[i]
        <5>1. 1 \in Nat \ {0}
          OBVIOUS
        <5> QED
          BY <4>1, <5>1, Flattened, Zenon
      <4>3. FlattenSeq(s) = v
        BY <4>1, <4>2
      <4> QED
        BY <4>3 DEF s
    <3>4. MergeFlat(ResultCode, Clear(ResultCode), v) = y
      BY <2>3, <3>1, ScalarTypes, FlatBack DEF ParseFlat
    <3>5. Grown("result", <<>>, <<v>>) = <<MergeFlat(ResultCode, Clear(ResultCode), FlattenSeq(<<v>>))>>
      <4>1. \A q : q # <<>> => Grown("result", <<>>, q)
                                = <<MergeFlat(ResultCode, Clear(ResultCode), FlattenSeq(q))>>
        <5>1. SUFFICES ASSUME NEW q, q # <<>>
                       PROVE  Grown("result", <<>>, q)
                                = <<MergeFlat(ResultCode, Clear(ResultCode), FlattenSeq(q))>>
          OBVIOUS
        <5>2. PICK c : c = Clear(ResultCode)
          OBVIOUS
        <5>3. PICK u : u = FlattenSeq(q)
          OBVIOUS
        <5> QED
          BY <5>1, <5>2, <5>3 DEF Grown
      <4> QED
        BY <4>1, OneSeq
    <3> QED
      BY <1>2, <2>3, <3>2, <3>3, <3>4, <3>5, OneSeq
  <2> QED
    BY <1>2, <2>1, <2>2, <2>3 DEF FieldGood, Many
<1>3. CASE f = "friends"
  <2>1. IsSeq(x)
    BY <1>3 DEF FieldGood, Many
  <2>2. Payloads(f, x) = x
    BY <1>3, NestedDomain DEF Payloads, Many
  <2>3. Grown(f, <<>>, x) = <<>> \o x
    BY <1>3 DEF Grown
  <2>4. <<>> \o x = x
    BY <2>1 DEF IsSeq
  <2> QED
    BY <1>3, <2>1, <2>2, <2>3, <2>4 DEF Many
<1>4. CASE f \notin Many
  <2>1. Payloads(f, x) = Present(x)
    BY <1>4, NestedDomain DEF Payloads, Many
  <2> QED
    BY <1>4, <2>1, PresentParts
<1> QED
  BY <1>1, <1>2, <1>3, <1>4 DEF Many

\* A message that is serialized and parsed is the message: what CallMethod sends
\* is what OnMessage reads, and the answer likewise.
LEMMA MessageBack ==
    ASSUME NEW type \in TypeDefs, NEW m, Message(type, m), NEW old
    PROVE  /\ Carries(SerializeToString(type, m),
                      [n \in 1..Len(type) |-> Payloads(type[n], m[type[n]])], Len(type))
           /\ Parsed(type, old, SerializeToString(type, m)) = m
<1> DEFINE N == Len(type)
           P == [n \in 1..N |-> Payloads(type[n], m[type[n]])]
           w == SerializeToString(type, m)
<1>1. /\ N \in Nat \ {0} /\ DOMAIN type = 1..N
      /\ \A n \in 1..N : type[n] \in Range(type) /\ NumberOf(type, type[n]) = n
      /\ \A f \in Range(type) : \E n \in 1..N : f = type[n]
  BY TypesGood, FieldNumbers
<1>2. w = FlattenSeq([n \in 1..N |-> FlatUnits(n, P[n])])
  <2>1. [n \in DOMAIN type |-> FlatUnits(n, Payloads(type[n], m[type[n]]))]
          = [n \in 1..N |-> FlatUnits(n, P[n])]
    BY <1>1
  <2> QED
    BY <2>1 DEF SerializeToString
<1>3. \A n \in 1..N : P[n] = Payloads(type[n], m[type[n]])
  OBVIOUS
<1> HIDE DEF P, N, w
<1>4. \A n \in 1..N : IsSeq(P[n])
  BY <1>1, <1>3, FieldBack DEF Message
<1>5. Carries(w, P, N)
  BY <1>1, <1>2, <1>4, FlattenCarries
<1>6. ASSUME NEW f \in Range(type)
      PROVE  (IF f \in Many THEN Grown(f, Clear(type)[f], Read(w, NumberOf(type, f)))
              ELSE Latest(w, NumberOf(type, f), Clear(type)[f])) = m[f]
  <2>1. PICK n \in 1..N : f = type[n]
    BY <1>1
  <2>2. NumberOf(type, f) = n /\ IsSeq(P[n]) /\ P[n] = Payloads(f, m[f]) /\ FieldGood(f, m[f])
    BY <1>1, <1>3, <1>4, <2>1 DEF Message
  <2>3. CASE f \in Many
    <3>1. Clear(type)[f] = <<>>
      BY <2>3 DEF Clear
    <3>2. Read(w, n) = P[n]
      BY <1>1, <1>5, <2>2, ReadCarried
    <3> QED
      BY <2>2, <2>3, <3>1, <3>2, FieldBack
  <2>4. CASE f \notin Many
    <3>1. Clear(type)[f] = 0
      BY <2>4 DEF Clear
    <3>2. Latest(w, n, 0) = IF P[n] = <<>> THEN 0 ELSE P[n][Len(P[n])]
      BY <1>1, <1>5, <2>2, ReadCarried
    <3>3. P[n] = Present(m[f])
      BY <2>2, <2>4, FieldBack
    <3> QED
      BY <2>2, <2>4, <3>1, <3>2, <3>3, PresentParts
  <2> QED
    BY <2>3, <2>4
<1>7. Parsed(type, old, w) =
        [f \in Range(type) |->
          IF f \in Many THEN Grown(f, Clear(type)[f], Read(w, NumberOf(type, f)))
          ELSE Latest(w, NumberOf(type, f), Clear(type)[f])]
  BY DEF Parsed, MergeFromString
<1>8. Parsed(type, old, w) = m
  <2>1. m = [f \in Range(type) |-> m[f]]
    BY DEF Message
  <2> QED
    BY <1>6, <1>7, <2>1
<1> QED
  BY <1>5, <1>8 DEF P, N, w

\* No bytes are a message of defaults.
LEMMA NothingParsed ==
    ASSUME NEW type \in TypeDefs, NEW old
    PROVE  Parsed(type, old, <<>>) = Clear(type)
<1>1. \A n : At(<<>>, n) = {} /\ Read(<<>>, n) = <<>>
  <2>1. \A n : At(<<>>, n) = {}
    BY DEF At
  <2>2. Cardinality({}) = 0 /\ 1..0 = {}
    BY FS_EmptySet
  <2>3. ASSUME NEW n PROVE Read(<<>>, n) = <<>>
    <3>1. 1..Cardinality(At(<<>>, n)) = {}
      BY <2>1, <2>2
    <3> QED
      BY <3>1 DEF Read
  <2> QED
    BY <2>1, <2>3
<1>2. \A f : f \in Many => Grown(f, <<>>, <<>>) = <<>>
  <2>1. Grown("result", <<>>, <<>>) = <<>>
    BY DEF Grown
  <2>2. Grown("friends", <<>>, <<>>) = <<>>
    BY DEF Grown
  <2>3. Grown("Entries", <<>>, <<>>) = <<>>
    BY DEF Grown
  <2> QED
    BY <2>1, <2>2, <2>3 DEF Many
<1>3. ASSUME NEW f \in Range(type)
      PROVE  (IF f \in Many THEN Grown(f, Clear(type)[f], Read(<<>>, NumberOf(type, f)))
              ELSE Latest(<<>>, NumberOf(type, f), Clear(type)[f])) = Clear(type)[f]
  <2>1. f \in Many => Clear(type)[f] = <<>>
    BY DEF Clear
  <2>2. \A n, old1 : Latest(<<>>, n, old1) = old1
    BY <1>1 DEF Latest
  <2> QED
    BY <1>1, <1>2, <2>1, <2>2
<1>4. Parsed(type, old, <<>>) =
        [f \in Range(type) |->
          IF f \in Many THEN Grown(f, Clear(type)[f], Read(<<>>, NumberOf(type, f)))
          ELSE Latest(<<>>, NumberOf(type, f), Clear(type)[f])]
  BY DEF Parsed, MergeFromString
<1>5. Clear(type) = [f \in Range(type) |-> Clear(type)[f]]
  BY DEF Clear
<1> QED
  BY <1>3, <1>4, <1>5

-----------------------------------------------------------------------------
(* What is asked and answered *)

\* Every method belongs to one service, with a request and an answer of its own.
LEMMA MethodTypes ==
    ASSUME NEW method \in ServiceMethods
    PROVE  /\ Request(method) \in Requests /\ Response(method) \in Replies
           /\ ServiceOf(method) \in DOMAIN Service
           /\ method \in DOMAIN Service[ServiceOf(method)]
<1>1. DOMAIN Service = {"raftRpc", "kvServerRpc", "FiendServiceRpc"}
  BY DEF Service
<1>2. \E u \in DOMAIN Service : method \in DOMAIN Service[u]
  BY DEF ServiceMethods
<1>3. /\ ServiceOf(method) \in DOMAIN Service
      /\ method \in DOMAIN Service[ServiceOf(method)]
  BY <1>2 DEF ServiceOf
<1>4. \A u \in DOMAIN Service : \A m \in DOMAIN Service[u] :
         Service[u][m].reply \in Replies /\ Service[u][m].args \in Requests
  BY <1>1 DEF Service, raftRpc, kvServerRpc, FiendServiceRpc, Replies, Requests
<1> QED
  BY <1>3, <1>4 DEF Request, Response

LEMMA SetInIsMessage ==
    ASSUME NEW type \in TypeDefs, NEW fields, NEW n
    PROVE  Message(type, SetIn(type, fields, n))
<1> DEFINE m == SetIn(type, fields, n)
<1>1. m = [f \in Range(type) |-> m[f]]
  BY DEF SetIn, Clear
<1>2. \A f \in Range(type) : m[f] = (IF f \in fields THEN Stamped(type, n) ELSE Clear(type))[f]
  BY DEF SetIn, Clear
<1> HIDE DEF m
<1>3. ASSUME NEW f \in Range(type)
      PROVE  FieldGood(f, m[f])
  <2>1. CASE f \notin fields
    <3>1. m[f] = IF f \in Many THEN <<>> ELSE 0
      BY <1>2, <2>1 DEF Clear
    <3>2. FieldGood(f, <<>>)
      BY EmptyIsSeq DEF FieldGood
    <3>3. f \notin Many => FieldGood(f, 0)
      BY DEF FieldGood, Many
    <3> QED
      BY <3>1, <3>2, <3>3
  <2>2. CASE f \in fields
    <3>1. m[f] = Stamped(type, n)[f] /\ f \in DOMAIN Clear(type)
      BY <1>2, <2>2 DEF Clear
    <3>2. CASE f = "Entries"
      <4>1. PICK e : e = [g \in Range(LogEntry) |-> n]
        OBVIOUS
      <4>2. m[f] = <<e>>
        BY <3>1, <3>2, <4>1 DEF Stamped
      <4>3. FlatMessage(LogEntry, e)
        BY <4>1 DEF FlatMessage
      <4>4. IsSeq(<<e>>) /\ \A j \in 1..Len(<<e>>) : <<e>>[j] = e
        BY OneSeq
      <4> QED
        BY <3>2, <4>2, <4>3, <4>4 DEF FieldGood
    <3>3. CASE f = "result"
      <4>1. PICK e : e = Clear(ResultCode)
        OBVIOUS
      <4>2. m[f] = <<e>>
        BY <3>1, <3>3, <4>1 DEF Stamped
      <4>3. FlatMessage(ResultCode, e)
        BY <4>1 DEF FlatMessage, Clear
      <4> QED
        BY <3>3, <4>2, <4>3, OneSeq DEF FieldGood
    <3>4. CASE f = "friends"
      <4>1. m[f] = <<n, n, n>>
        BY <3>1, <3>4 DEF Stamped
      <4>2. <<n, n, n>> \in Seq({n})
        OBVIOUS
      <4>3. IsSeq(<<n, n, n>>)
        BY <4>2, OfItsElements DEF IsSeq
      <4> QED
        BY <3>4, <4>1, <4>3 DEF FieldGood
    <3>5. CASE f \notin Many
      BY <3>5 DEF FieldGood, Many
    <3> QED
      BY <3>2, <3>3, <3>4, <3>5 DEF Many
  <2> QED
    BY <2>1, <2>2
<1> QED
  BY <1>1, <1>3 DEF Message, m

-----------------------------------------------------------------------------
(* A request on the wire *)

\* What the n-th call asks is not the empty message: it tells its number.
LEMMA AskedField ==
    ASSUME NEW method \in ServiceMethods
    PROVE  \E f \in Range(Request(method)) :
             /\ f \notin Many
             /\ \A n : \A args \in Asked(method, n) : args[f] = n
<1> DEFINE type == Request(method)
<1>1. type \in Requests
  BY MethodTypes
<1> HIDE DEF type
<1>2. \A t \in Requests : \E f \in Range(t) : f \notin {"Entries", "LeaderId", "result", "friends"}
  <2>1. "Term" \in Range(AppendEntriesArgs) /\ "Term" \in Range(RequestVoteArgs)
        /\ "Term" \in Range(InstallSnapshotRequest)
    BY DEF AppendEntriesArgs, RequestVoteArgs, InstallSnapshotRequest, Range
  <2>2. "Key" \in Range(GetArgs) /\ "Key" \in Range(PutAppendArgs)
        /\ "userid" \in Range(GetFriendsListRequest)
    BY DEF GetArgs, PutAppendArgs, GetFriendsListRequest, Range
  <2> QED
    BY <2>1, <2>2 DEF Requests
<1>3. PICK f \in Range(type) : f \notin {"Entries", "LeaderId", "result", "friends"}
  BY <1>1, <1>2
<1>4. ASSUME NEW n, NEW args \in Asked(method, n)
      PROVE  args[f] = n
  <2>1. PICK unset \in {{}, {"Entries", "LeaderId"}} : args = SetIn(type, Range(type) \ unset, n)
    BY DEF Asked, type
  <2>2. f \in Range(type) \ unset
    BY <1>3, <2>1
  <2>3. args[f] = Stamped(type, n)[f] /\ f \in DOMAIN Clear(type)
    BY <2>1, <2>2 DEF SetIn, Clear
  <2> QED
    BY <1>3, <2>3 DEF Stamped
<1>5. f \notin Many
  BY <1>3 DEF Many
<1> QED
  BY <1>3, <1>4, <1>5 DEF type

\* What is asked tells the number of its call.
LEMMA NumberTold ==
    ASSUME NEW method \in ServiceMethods, NEW n, NEW k,
           NEW args \in Asked(method, n), args \in Asked(method, k)
    PROVE  n = k
<1>1. PICK f \in Range(Request(method)) : \A j : \A x \in Asked(method, j) : x[f] = j
  BY AskedField
<1> QED
  BY <1>1

\* The empty message tells none.
LEMMA ClearTellsNone ==
    ASSUME NEW method \in ServiceMethods, NEW n \in Nat \ {0}
    PROVE  Clear(Request(method)) \notin Asked(method, n)
<1>1. PICK f \in Range(Request(method)) :
           f \notin Many /\ \A j : \A x \in Asked(method, j) : x[f] = j
  BY AskedField
<1>2. Clear(Request(method))[f] = 0
  BY <1>1 DEF Clear
<1> QED
  BY <1>1, <1>2

\* The arguments of the n-th call on the wire: they are read back as they were.
LEMMA AskedOnWire ==
    ASSUME NEW method \in ServiceMethods, NEW n \in Nat \ {0}, NEW args \in Asked(method, n)
    PROVE  LET w == SerializeToString(Request(method), args)
           IN  /\ IsSeq(w) /\ Len(w) \in Nat \ {0}
               /\ \A i \in 1..Len(w) : w[i][1] # 0
               /\ \A old : Parsed(Request(method), old, w) = args
<1> DEFINE type == Request(method)
           w    == SerializeToString(type, args)
           P    == [k \in 1..Len(type) |-> Payloads(type[k], args[type[k]])]
<1>1. type \in TypeDefs
  BY MethodTypes DEF TypeDefs
<1>2. Message(type, args)
  <2>1. PICK unset : args = SetIn(type, Range(type) \ unset, n)
    BY DEF Asked
  <2> QED
    BY <1>1, <2>1, SetInIsMessage
<1>3. PICK f \in Range(type) : f \notin Many /\ \A j : \A x \in Asked(method, j) : x[f] = j
  BY AskedField
<1>4. args[f] = n
  BY <1>3
<1> HIDE DEF type
<1>5. Carries(w, P, Len(type)) /\ \A old : Parsed(type, old, w) = args
  BY <1>1, <1>2, MessageBack
<1>6. Len(type) \in Nat /\ \E k \in 1..Len(type) : f = type[k]
  BY <1>1, <1>3, TypesGood, FieldNumbers
<1>7. PICK k \in 1..Len(type) : f = type[k]
  BY <1>6
<1>8. P[k] = <<n>>
  <2>1. f \notin DOMAIN Nested
    BY <1>3 DEF Nested, Many
  <2>2. Payloads(f, n) = <<n>>
    BY <1>3, <2>1 DEF Payloads, Present
  <2> QED
    BY <1>4, <1>7, <2>2
<1> HIDE DEF w, P
<1>9. Len(w) \in Nat \ {0}
  <2>1. PICK a \in Nat : a + Len(P[k]) <= Len(w)
    BY <1>5 DEF Carries
  <2>2. Len(w) \in Nat
    BY <1>5, SeqParts DEF Carries
  <2> QED
    BY <1>8, <2>1, <2>2
<1>10. \A i \in 1..Len(w) : w[i][1] # 0
  BY <1>5, <1>6 DEF Carries
<1>11. IsSeq(w)
  BY <1>5 DEF Carries
<1> QED
  BY <1>5, <1>9, <1>10, <1>11 DEF w, type

\* A packet: the size of its header, the three fields of the header, and the
\* arguments. Only its first unit is a size.
LEMMA PacketParts ==
    ASSUME NEW method \in ServiceMethods, NEW n \in Nat \ {0}, NEW args \in Asked(method, n)
    PROVE  LET q == Packet(method, args)
               w == SerializeToString(Request(method), args)
           IN  /\ IsSeq(q) /\ IsSeq(w) /\ Len(w) \in Nat \ {0} /\ Len(q) = 4 + Len(w)
               /\ q[1] = <<0, 3>> /\ q[2] = <<1, ServiceOf(method)>> /\ q[3] = <<2, method>>
               /\ q[4] = <<3, Len(w)>>
               /\ \A i \in 1..Len(w) : q[4 + i] = w[i]
               /\ \A i \in 2..Len(q) : q[i][1] # 0
               /\ \A old : Parsed(Request(method), old, w) = args
<1> DEFINE w == SerializeToString(Request(method), args)
           s == ServiceOf(method)
           a == <<<<0, 3>>>>
           b == <<<<1, s>>, <<2, method>>>>
           c == <<<<3, Len(w)>>>>
           bc == b \o c
           abc == a \o bc
<1>1. /\ IsSeq(w) /\ Len(w) \in Nat \ {0}
      /\ \A i \in 1..Len(w) : w[i][1] # 0
      /\ \A old : Parsed(Request(method), old, w) = args
  BY AskedOnWire
<1>2. Packet(method, args) = (<<<<0, Len(bc)>>>> \o bc) \o w
  <2>1. FlatUnits(3, Present(Len(w))) = c
    <3>1. Present(Len(w)) = <<Len(w)>>
      BY <1>1 DEF Present
    <3>2. FlatUnits(3, <<Len(w)>>) = c
      BY DEF FlatUnits
    <3> QED
      BY <3>1, <3>2
  <2> QED
    BY <2>1 DEF Packet, Header
<1> HIDE DEF w
<1>3. IsSeq(a) /\ Len(a) = 1 /\ a[1] = <<0, 3>>
  BY DEF IsSeq, Range
<1>4. IsSeq(b) /\ Len(b) = 2 /\ b[1] = <<1, s>> /\ b[2] = <<2, method>>
  <2>1. b \in Seq({<<1, s>>, <<2, method>>})
    OBVIOUS
  <2>2. IsSeq(b)
    BY <2>1, OfItsElements DEF IsSeq
  <2> QED
    BY <2>2
<1>5. IsSeq(c) /\ Len(c) = 1 /\ c[1] = <<3, Len(w)>>
  BY OneSeq
<1> HIDE DEF a, b, c
<1>6. IsSeq(bc) /\ Len(bc) = 3 /\ bc[1] = <<1, s>> /\ bc[2] = <<2, method>> /\ bc[3] = <<3, Len(w)>>
  <2>1. /\ IsSeq(bc) /\ Len(bc) = 2 + 1
        /\ \A i \in 1..2 : bc[i] = b[i]
        /\ \A i \in 1..1 : bc[2 + i] = c[i]
    <3>1. IsSeq(b) /\ IsSeq(c)
      BY <1>4, <1>5
    <3>2. /\ IsSeq(bc) /\ Len(bc) = Len(b) + Len(c)
          /\ \A i \in 1..Len(b) : bc[i] = b[i]
          /\ \A i \in 1..Len(c) : bc[Len(b) + i] = c[i]
      BY <3>1, Joined
    <3> HIDE DEF bc
    <3> QED
      BY <1>4, <1>5, <3>2, Zenon
  <2>2. 1 \in 1..2 /\ 2 \in 1..2 /\ 1 \in 1..1 /\ 2 + 1 = 3
    OBVIOUS
  <2> HIDE DEF bc
  <2>3. bc[2 + 1] = c[1]
    BY <2>1, <2>2
  <2> QED
    BY <1>4, <1>5, <2>1, <2>2, <2>3
<1> HIDE DEF bc
<1>7. /\ IsSeq(abc) /\ Len(abc) = 4 /\ abc[1] = <<0, 3>>
      /\ abc[2] = <<1, s>> /\ abc[3] = <<2, method>> /\ abc[4] = <<3, Len(w)>>
  <2>1. /\ IsSeq(abc) /\ Len(abc) = 1 + 3
        /\ \A i \in 1..1 : abc[i] = a[i]
        /\ \A i \in 1..3 : abc[1 + i] = bc[i]
    <3>1. IsSeq(a) /\ IsSeq(bc)
      BY <1>3, <1>6
    <3>2. /\ IsSeq(abc) /\ Len(abc) = Len(a) + Len(bc)
          /\ \A i \in 1..Len(a) : abc[i] = a[i]
          /\ \A i \in 1..Len(bc) : abc[Len(a) + i] = bc[i]
      BY <3>1, Joined
    <3> HIDE DEF abc
    <3> QED
      BY <1>3, <1>6, <3>2, Zenon
  <2>2. 1 \in 1..1 /\ 1 \in 1..3 /\ 2 \in 1..3 /\ 3 \in 1..3 /\ 1 + 1 = 2 /\ 1 + 2 = 3 /\ 1 + 3 = 4
    OBVIOUS
  <2> HIDE DEF abc
  <2>3. abc[1] = a[1] /\ abc[1 + 1] = bc[1] /\ abc[1 + 2] = bc[2] /\ abc[1 + 3] = bc[3]
    BY <2>1, <2>2
  <2> QED
    BY <1>3, <1>6, <2>1, <2>2, <2>3
<1>8. Packet(method, args) = abc \o w
  BY <1>2, <1>6 DEF abc, a
<1> HIDE DEF abc
<1> DEFINE q == abc \o w
<1>9. /\ IsSeq(q) /\ Len(q) = 4 + Len(w)
      /\ \A i \in 1..4 : q[i] = abc[i]
      /\ \A i \in 1..Len(w) : q[4 + i] = w[i]
  <2>1. IsSeq(abc) /\ IsSeq(w)
    BY <1>1, <1>7
  <2>2. /\ IsSeq(q) /\ Len(q) = Len(abc) + Len(w)
        /\ \A i \in 1..Len(abc) : q[i] = abc[i]
        /\ \A i \in 1..Len(w) : q[Len(abc) + i] = w[i]
    BY <2>1, Joined
  <2> HIDE DEF q
  <2> QED
    BY <1>7, <2>2, Zenon
<1>10. /\ q[1] = <<0, 3>> /\ q[2] = <<1, s>> /\ q[3] = <<2, method>> /\ q[4] = <<3, Len(w)>>
  <2>1. 1 \in 1..4 /\ 2 \in 1..4 /\ 3 \in 1..4 /\ 4 \in 1..4
    OBVIOUS
  <2> HIDE DEF q
  <2> QED
    BY <1>7, <1>9, <2>1
<1> HIDE DEF q
<1>11. ASSUME NEW i \in 2..Len(q)
       PROVE  q[i][1] # 0
  <2>1. CASE i \in 2..4
    <3>1. i = 2 \/ i = 3 \/ i = 4
      BY <2>1
    <3> QED
      BY <1>10, <3>1
  <2>2. CASE i > 4
    <3>1. i - 4 \in 1..Len(w) /\ 4 + (i - 4) = i
      BY <1>1, <1>9, <2>2
    <3>2. q[4 + (i - 4)] = w[i - 4] /\ w[i - 4][1] # 0
      BY <1>1, <1>9, <3>1
    <3> QED
      BY <3>1, <3>2, Zenon
  <2> QED
    BY <1>1, <1>9, <2>1, <2>2
<1>12. Packet(method, args) = q
  BY <1>8 DEF q
<1> QED
  BY <1>1, <1>9, <1>10, <1>11, <1>12 DEF w, s

\* q stands on the wire after the first a units.
Stands(up, a, q) ==
    /\ a + Len(q) <= Len(up)
    /\ \A i \in 1..Len(q) : up[a + i] = q[i]

\* A packet tells its request.
LEMMA PacketTells ==
    ASSUME NEW up, NEW a \in Nat,
           NEW m1 \in ServiceMethods, NEW n1 \in Nat \ {0}, NEW a1 \in Asked(m1, n1),
           NEW m2 \in ServiceMethods, NEW n2 \in Nat \ {0}, NEW a2 \in Asked(m2, n2),
           Stands(up, a, Packet(m1, a1)), Stands(up, a, Packet(m2, a2))
    PROVE  m1 = m2 /\ a1 = a2
<1> DEFINE q1 == Packet(m1, a1)
           q2 == Packet(m2, a2)
           w1 == SerializeToString(Request(m1), a1)
           w2 == SerializeToString(Request(m2), a2)
<1>1. /\ IsSeq(w1) /\ Len(w1) \in Nat \ {0} /\ Len(q1) = 4 + Len(w1)
      /\ q1[3] = <<2, m1>> /\ q1[4] = <<3, Len(w1)>>
      /\ \A i \in 1..Len(w1) : q1[4 + i] = w1[i]
      /\ \A old : Parsed(Request(m1), old, w1) = a1
  BY PacketParts
<1>2. /\ IsSeq(w2) /\ Len(w2) \in Nat \ {0} /\ Len(q2) = 4 + Len(w2)
      /\ q2[3] = <<2, m2>> /\ q2[4] = <<3, Len(w2)>>
      /\ \A i \in 1..Len(w2) : q2[4 + i] = w2[i]
      /\ \A old : Parsed(Request(m2), old, w2) = a2
  BY PacketParts
<1>3. /\ \A i \in 1..Len(q1) : up[a + i] = q1[i]
      /\ \A i \in 1..Len(q2) : up[a + i] = q2[i]
  BY DEF Stands
<1> HIDE DEF q1, q2, w1, w2
<1>4. q1[3] = q2[3] /\ q1[4] = q2[4]
  <2>1. 3 \in 1..Len(q1) /\ 4 \in 1..Len(q1) /\ 3 \in 1..Len(q2) /\ 4 \in 1..Len(q2)
    BY <1>1, <1>2
  <2> QED
    BY <1>3, <2>1
<1>5. m1 = m2 /\ Len(w1) = Len(w2)
  BY <1>1, <1>2, <1>4
<1>6. ASSUME NEW i \in 1..Len(w1)
      PROVE  w1[i] = w2[i]
  <2>1. 4 + i \in 1..Len(q1) /\ 4 + i \in 1..Len(q2)
    BY <1>1, <1>2, <1>5
  <2> QED
    BY <1>1, <1>2, <1>3, <1>5, <2>1
<1>7. w1 = w2
  BY <1>1, <1>2, <1>5, <1>6, SameParts
<1> QED
  BY <1>1, <1>2, <1>5, <1>7

-----------------------------------------------------------------------------
(* The request that OnMessage finds *)

\* A piece of a sequence.
LEMMA Piece ==
    ASSUME NEW w, IsSeq(w), NEW a \in Nat, NEW b \in Nat, a <= b, b <= Len(w)
    PROVE  LET v == SubSeq(w, a + 1, b)
           IN  /\ IsSeq(v) /\ Len(v) = b - a
               /\ \A i \in 1..(b - a) : v[i] = w[a + i]
<1> DEFINE v == SubSeq(w, a + 1, b)
<1>1. w \in Seq(Range(w))
  BY DEF IsSeq
<1>2. Len(w) \in Nat /\ DOMAIN w = 1..Len(w)
  BY SeqParts
<1>3. \A i \in (a + 1)..b : w[i] \in Range(w)
  BY <1>2 DEF Range
<1>4. /\ v \in Seq(Range(w))
      /\ Len(v) = IF a + 1 <= b THEN b - (a + 1) + 1 ELSE 0
      /\ \A i \in 1..(b - (a + 1) + 1) : v[i] = w[a + 1 + i - 1]
  BY <1>2, <1>3, SubSeqProperties
<1> HIDE DEF v
<1>5. IsSeq(v)
  BY <1>4, OfItsElements DEF IsSeq
<1>6. Len(v) = b - a
  <2>1. (IF a + 1 <= b THEN b - (a + 1) + 1 ELSE 0) = b - a
    OBVIOUS
  <2> QED
    BY <1>4, <2>1
<1>7. ASSUME NEW i \in 1..(b - a)
      PROVE  v[i] = w[a + i]
  <2>1. i \in 1..(b - (a + 1) + 1) /\ a + 1 + i - 1 = a + i
    OBVIOUS
  <2>2. v[i] = w[a + 1 + i - 1]
    BY <1>4, <2>1
  <2> QED
    BY <2>1, <2>2
<1> QED
  BY <1>5, <1>6, <1>7 DEF v

\* A sequence of length 0.
LEMMA EmptyPiece ==
    ASSUME NEW w, IsSeq(w), Len(w) = 0
    PROVE  w = <<>>
<1>1. w \in Seq(Range(w))
  BY DEF IsSeq
<1> QED
  BY <1>1

\* The fields of a header, cut or whole, are in the order of their numbers.
LEMMA InOrder ==
    ASSUME NEW h, IsSeq(h), \A i \in 1..Len(h) : h[i][1] = i, NEW k, NEW old
    PROVE  Latest(h, k, old) = IF k \in 1..Len(h) THEN h[k][2] ELSE old
<1>1. Len(h) \in Nat /\ DOMAIN h = 1..Len(h)
  BY SeqParts
<1>2. At(h, k) = {i \in 1..Len(h) : i = k}
  BY <1>1 DEF At
<1>3. CASE k \in 1..Len(h)
  <2>1. At(h, k) = {k}
    BY <1>2, <1>3
  <2>2. Max({k}) = k
    BY <1>3 DEF Max
  <2> QED
    BY <1>3, <2>1, <2>2 DEF Latest
<1>4. CASE k \notin 1..Len(h)
  <2>1. At(h, k) = {}
    BY <1>2, <1>4
  <2> QED
    BY <1>4, <2>1 DEF Latest
<1> QED
  BY <1>3, <1>4

\* The provider's table has services, and all the methods of each.
Served ==
    /\ DOMAIN m_serviceMap \subseteq DOMAIN Service
    /\ \A s \in DOMAIN m_serviceMap : m_serviceMap[s] = DOMAIN Service[s]

\* What MethodIn finds is a method.
LEMMA MethodFound ==
    ASSUME Served, NEW h, NEW method \in MethodIn(h)
    PROVE  /\ method = Latest(h, 2, None) /\ method \in ServiceMethods
           /\ Latest(h, 1, None) \in DOMAIN Service
BY DEF Served, MethodIn, ServiceMethods

\* Bytes that do not start with a size are no request.
LEMMA NothingFound ==
    ASSUME Served, NEW data, data[1][1] # 0
    PROVE  RequestIn(data) = {}
<1>1. HeaderIn(data) = <<>>
  BY DEF HeaderIn
<1>2. Latest(<<>>, 1, None) = None
  <2>1. \A i \in 1..Len(<<>>) : <<>>[i][1] = i
    BY EmptyIsSeq
  <2>2. 1 \notin 1..Len(<<>>)
    BY EmptyIsSeq
  <2> QED
    BY <2>1, <2>2, EmptyIsSeq, InOrder
<1>3. MethodIn(<<>>) = {}
  <2> SUFFICES ASSUME NEW method \in MethodIn(<<>>) PROVE FALSE
    OBVIOUS
  <2>1. Latest(<<>>, 1, None) \in DOMAIN Service
    BY MethodFound
  <2> QED
    BY <1>2, <2>1, RpcAssumption
<1> QED
  BY <1>1, <1>3 DEF RequestIn

\* Of bytes that start with a request, OnMessage finds that request or none, but
\* for the arguments of one whose header was cut before their size.
LEMMA RequestFound ==
    ASSUME Served, NEW up, IsSeq(up), NEW size \in 1..Len(up),
           NEW method \in ServiceMethods, NEW n \in Nat \ {0}, NEW args \in Asked(method, n),
           Stands(up, 0, Packet(method, args)),
           NEW r \in RequestIn(SubSeq(up, 1, size))
    PROVE  /\ r = [method |-> r.method, args |-> r.args]
           /\ r.method = method
           /\ \/ r.args = args
              \/ r.args = Clear(Request(method)) /\ size = 3 /\ size < Len(up)
<1> DEFINE q == Packet(method, args)
           w == SerializeToString(Request(method), args)
           data == SubSeq(up, 1, size)
           k == Least(4, size)
           h == SubSeq(data, 1 + 1, k)
           type == Request(method)
<1>1. /\ IsSeq(q) /\ IsSeq(w) /\ Len(w) \in Nat \ {0} /\ Len(q) = 4 + Len(w)
      /\ q[1] = <<0, 3>> /\ q[2] = <<1, ServiceOf(method)>> /\ q[3] = <<2, method>>
      /\ q[4] = <<3, Len(w)>>
      /\ \A i \in 1..Len(w) : q[4 + i] = w[i]
      /\ \A old : Parsed(type, old, w) = args
  BY PacketParts
<1>2. type \in TypeDefs
  BY MethodTypes DEF TypeDefs
<1> HIDE DEF q, w, type
<1>3. Len(q) <= Len(up) /\ Len(up) \in Nat /\ \A i \in 1..Len(q) : up[i] = q[i]
  <2>1. 0 + Len(q) <= Len(up) /\ \A i \in 1..Len(q) : up[0 + i] = q[i]
    BY DEF Stands, q
  <2>2. Len(up) \in Nat /\ Len(q) \in Nat
    BY <1>1, SeqParts
  <2>3. \A i \in 1..Len(q) : 0 + i = i
    BY <2>2
  <2> QED
    BY <2>1, <2>2, <2>3
<1>4. IsSeq(data) /\ Len(data) = size /\ \A i \in 1..size : data[i] = up[i]
  <2> DEFINE v == SubSeq(up, 0 + 1, size)
  <2>1. 0 <= size /\ size <= Len(up) /\ size \in Nat /\ 0 \in Nat
    BY <1>3
  <2>2. IsSeq(v) /\ Len(v) = size - 0 /\ \A i \in 1..(size - 0) : v[i] = up[0 + i]
    BY <2>1, Piece
  <2>3. size - 0 = size /\ 0 + 1 = 1 /\ \A i \in 1..size : 0 + i = i
    BY <1>3
  <2>4. v = data
    BY <2>3, Zenon
  <2> HIDE DEF v, data
  <2> QED
    BY <2>2, <2>3, <2>4, Zenon
<1> HIDE DEF data
<1>5. k \in 1..4 /\ k <= size /\ (k < 4 => k = size)
  BY <1>3 DEF Least
<1>6. HeaderIn(data) = h
  <2>1. data[1] = <<0, 3>>
    <3>1. 1 \in 1..size /\ 1 \in 1..Len(q)
      BY <1>1, <1>3
    <3> QED
      BY <1>1, <1>3, <1>4, <3>1
  <2>2. 3 + 1 = 4 /\ 1 + 1 = 2
    OBVIOUS
  <2>3. HeaderIn(data) = SubSeq(data, 2, Least(3 + 1, Len(data)))
    <3>1. data[1][1] = 0 /\ data[1][2] = 3
      BY <2>1
    <3> QED
      BY <3>1, Zenon DEF HeaderIn
  <2> QED
    BY <1>4, <2>2, <2>3, Zenon
<1> HIDE DEF k
<1>7. IsSeq(h) /\ Len(h) = k - 1 /\ \A i \in 1..(k - 1) : h[i] = q[1 + i]
  <2>1. /\ IsSeq(h) /\ Len(h) = k - 1 /\ \A i \in 1..(k - 1) : h[i] = data[1 + i]
    <3>1. 1 \in Nat /\ k \in Nat /\ 1 <= k /\ k <= Len(data)
      BY <1>4, <1>5
    <3> QED
      BY <1>4, <3>1, Piece
  <2> HIDE DEF h
  <2>2. ASSUME NEW i \in 1..(k - 1)
        PROVE  data[1 + i] = q[1 + i]
    <3>1. 1 + i \in 1..size /\ 1 + i \in 1..Len(q)
      BY <1>1, <1>3, <1>5
    <3> QED
      BY <1>3, <1>4, <3>1
  <2> QED
    BY <2>1, <2>2
<1> HIDE DEF h
<1>8. \A i \in 1..Len(h) : h[i][1] = i
  <2>1. ASSUME NEW i \in 1..(k - 1)
        PROVE  q[1 + i][1] = i
    <3>1. i = 1 \/ i = 2 \/ i = 3
      BY <1>5
    <3>2. 1 + 1 = 2 /\ 1 + 2 = 3 /\ 1 + 3 = 4
      OBVIOUS
    <3> QED
      BY <1>1, <3>1, <3>2
  <2> QED
    BY <1>7, <2>1
<1>9. \A j, old : Latest(h, j, old) = IF j \in 1..(k - 1) THEN q[1 + j][2] ELSE old
  <2>1. \A j, old : Latest(h, j, old) = IF j \in 1..Len(h) THEN h[j][2] ELSE old
    BY <1>7, <1>8, InOrder
  <2> QED
    BY <1>7, <2>1
<1>10. PICK m \in MethodIn(h), wire \in ArgumentsIn(data) :
            r = [method |-> m, args |-> Parsed(Request(m), Clear(Request(m)), wire)]
  BY <1>6 DEF RequestIn, data
<1>11. m = method /\ k \in 3..4
  <2>1. m = Latest(h, 2, None) /\ m \in ServiceMethods
    BY <1>10, MethodFound
  <2>2. m # None
    BY <2>1, RpcAssumption
  <2>3. 2 \in 1..(k - 1) /\ m = q[1 + 2][2] /\ 1 + 2 = 3
    BY <1>9, <2>1, <2>2
  <2> QED
    BY <1>1, <1>5, <2>3
<1> DEFINE rest == SubSeq(data, Len(h) + 2, Len(data))
           len == Latest(h, 3, 0)
<1>12. len \in 0..Len(rest) /\ wire = SubSeq(rest, 1, len)
  BY <1>6, <1>10 DEF ArgumentsIn
<1>13. IsSeq(rest) /\ Len(rest) = size - k /\ \A i \in 1..(size - k) : rest[i] = data[k + i]
  <2> DEFINE v == SubSeq(data, k + 1, size)
  <2>1. k \in Nat /\ size \in Nat /\ k <= size /\ size <= Len(data)
    BY <1>3, <1>4, <1>5
  <2>2. IsSeq(v) /\ Len(v) = size - k /\ \A i \in 1..(size - k) : v[i] = data[k + i]
    BY <1>4, <2>1, Piece
  <2>3. Len(h) + 2 = k + 1
    BY <1>5, <1>7
  <2>4. v = rest
    BY <1>4, <2>3, Zenon
  <2> HIDE DEF v, rest
  <2> QED
    BY <2>2, <2>4, Zenon
<1> HIDE DEF rest, len
<1>14. IsSeq(wire) /\ Len(wire) = len /\ \A i \in 1..len : wire[i] = rest[i]
  <2> DEFINE v == SubSeq(rest, 0 + 1, len)
  <2>1. Len(rest) \in Nat
    BY <1>13, SeqParts
  <2>2. len \in Nat /\ 0 <= len /\ len <= Len(rest) /\ 0 \in Nat
    BY <1>12, <2>1
  <2>3. IsSeq(v) /\ Len(v) = len - 0 /\ \A i \in 1..(len - 0) : v[i] = rest[0 + i]
    BY <1>13, <2>2, Piece
  <2>4. len - 0 = len /\ 0 + 1 = 1 /\ \A i \in 1..len : 0 + i = i
    BY <2>2
  <2>5. v = wire
    BY <1>12, <2>4, Zenon
  <2> HIDE DEF v
  <2> QED
    BY <2>3, <2>4, <2>5, Zenon
<1>15. CASE k = 3
  <2>1. len = 0
    <3>1. 3 \notin 1..(k - 1)
      BY <1>15
    <3> QED
      BY <1>9, <3>1 DEF len
  <2>2. wire = <<>>
    BY <1>14, <2>1, EmptyPiece
  <2>3. Parsed(type, Clear(type), <<>>) = Clear(type)
    BY <1>2, NothingParsed
  <2>4. size = 3 /\ size < Len(up)
    BY <1>1, <1>3, <1>5, <1>15
  <2> QED
    BY <1>10, <1>11, <2>2, <2>3, <2>4 DEF type
<1>16. CASE k = 4
  <2>1. len = Len(w)
    <3>1. 3 \in 1..(k - 1) /\ 1 + 3 = 4
      BY <1>16
    <3> QED
      BY <1>1, <1>9, <3>1 DEF len
  <2>2. ASSUME NEW i \in 1..Len(w)
        PROVE  wire[i] = w[i]
    <3>1. Len(w) <= size - 4
      BY <1>12, <1>13, <1>16, <2>1, <1>1, <1>3
    <3>2. i \in 1..(size - 4) /\ 4 + i \in 1..size /\ 4 + i \in 1..Len(q)
      BY <1>1, <1>3, <3>1
    <3>3. rest[i] = data[4 + i] /\ data[4 + i] = up[4 + i] /\ up[4 + i] = q[4 + i]
      BY <1>3, <1>4, <1>13, <1>16, <3>2
    <3> QED
      BY <1>1, <1>14, <2>1, <3>3
  <2>3. wire = w
    BY <1>1, <1>14, <2>1, <2>2, SameParts
  <2> QED
    BY <1>1, <1>10, <1>11, <2>3 DEF type
<1>17. k = 3 \/ k = 4
  BY <1>11
<1> QED
  BY <1>15, <1>16, <1>17 DEF type

-----------------------------------------------------------------------------
(* The bytes a connection has under way *)

\* A size comes after the first a units.
Starts(up, a) == a \in Nat /\ a < Len(up) /\ up[a + 1][1] = 0

\* There the request of the n-th call is, whole.
OfCall(up, a, n) ==
    /\ Starts(up, a)
    /\ \E method \in ServiceMethods : \E args \in Asked(method, n) :
          Stands(up, a, Packet(method, args))

\* Every size is that of a whole request, of one of the first b calls.
WholeUpTo(up, b) ==
    /\ IsSeq(up)
    /\ \A a \in Nat : Starts(up, a) => \E n \in 1..b : OfCall(up, a, n)

\* A request is of one call.
LEMMA OneCall ==
    ASSUME NEW up, NEW a \in Nat, NEW n \in Nat \ {0}, NEW k \in Nat \ {0},
           OfCall(up, a, n), OfCall(up, a, k)
    PROVE  n = k
<1>1a. PICK m1 \in ServiceMethods : \E a1 \in Asked(m1, n) : Stands(up, a, Packet(m1, a1))
  BY DEF OfCall
<1>1. PICK a1 \in Asked(m1, n) : Stands(up, a, Packet(m1, a1))
  BY <1>1a
<1>2a. PICK m2 \in ServiceMethods : \E a2 \in Asked(m2, k) : Stands(up, a, Packet(m2, a2))
  BY DEF OfCall
<1>2. PICK a2 \in Asked(m2, k) : Stands(up, a, Packet(m2, a2))
  BY <1>2a
<1>3. m1 = m2 /\ a1 = a2
  BY <1>1, <1>2, PacketTells
<1> QED
  BY <1>3, NumberTold

\* No bytes.
LEMMA NothingUnderWay ==
    ASSUME NEW b
    PROVE  WholeUpTo(<<>>, b) /\ \A a : ~Starts(<<>>, a)
<1>1. \A a : ~Starts(<<>>, a)
  BY EmptyIsSeq DEF Starts
<1> QED
  BY <1>1, EmptyIsSeq DEF WholeUpTo

\* One more call may begin.
LEMMA WholeUpToMore ==
    ASSUME NEW up, NEW b \in Nat, WholeUpTo(up, b)
    PROVE  WholeUpTo(up, b + 1)
<1>1. \A n \in 1..b : n \in 1..b + 1
  OBVIOUS
<1> QED
  BY <1>1 DEF WholeUpTo

\* What is left of them when the first have been taken.
LEMMA RestOfWire ==
    ASSUME NEW up, IsSeq(up), NEW size \in 0..Len(up)
    PROVE  LET rest == SubSeq(up, size + 1, Len(up))
           IN  /\ IsSeq(rest) /\ Len(rest) = Len(up) - size
               /\ \A a : Starts(rest, a) => a \in Nat /\ Starts(up, size + a)
               /\ \A a \in Nat : \A q : IsSeq(q) => (Stands(rest, a, q) <=> Stands(up, size + a, q))
<1> DEFINE rest == SubSeq(up, size + 1, Len(up))
<1>1. Len(up) \in Nat /\ size \in Nat /\ size <= Len(up)
  BY SeqParts
<1>2. IsSeq(rest) /\ Len(rest) = Len(up) - size /\ \A i \in 1..(Len(up) - size) : rest[i] = up[size + i]
  BY <1>1, Piece
<1> HIDE DEF rest
<1>3. ASSUME NEW a, Starts(rest, a)
      PROVE  a \in Nat /\ Starts(up, size + a)
  <2>1. a \in Nat /\ a < Len(up) - size /\ rest[a + 1][1] = 0
    BY <1>2, <1>3 DEF Starts
  <2>2. a + 1 \in 1..(Len(up) - size) /\ size + (a + 1) = (size + a) + 1
        /\ size + a \in Nat /\ size + a < Len(up)
    BY <1>1, <2>1
  <2>3. rest[a + 1] = up[(size + a) + 1]
    BY <1>2, <2>2
  <2> QED
    BY <2>1, <2>2, <2>3 DEF Starts
<1>4. ASSUME NEW a \in Nat, NEW q, IsSeq(q)
      PROVE  Stands(rest, a, q) <=> Stands(up, size + a, q)
  <2>1. Len(q) \in Nat
    BY <1>4, SeqParts
  <2>2. a + Len(q) <= Len(rest) <=> (size + a) + Len(q) <= Len(up)
    BY <1>1, <1>2, <2>1
  <2>3. ASSUME a + Len(q) <= Len(rest), NEW i \in 1..Len(q)
        PROVE  rest[a + i] = up[(size + a) + i]
    <3>1. a + i \in 1..(Len(up) - size) /\ size + (a + i) = (size + a) + i
      BY <1>1, <1>2, <2>1, <2>3
    <3> QED
      BY <1>2, <3>1
  <2> QED
    BY <2>2, <2>3 DEF Stands
<1> QED
  BY <1>2, <1>3, <1>4 DEF rest

LEMMA WholeRest ==
    ASSUME NEW up, NEW b \in Nat, WholeUpTo(up, b), NEW size \in 0..Len(up)
    PROVE  LET rest == SubSeq(up, size + 1, Len(up))
           IN  /\ WholeUpTo(rest, b)
               /\ \A a : \A n \in Nat \ {0} : OfCall(rest, a, n) => a \in Nat /\ OfCall(up, size + a, n)
<1> DEFINE rest == SubSeq(up, size + 1, Len(up))
<1>1. /\ IsSeq(rest) /\ Len(rest) = Len(up) - size
      /\ \A a : Starts(rest, a) => a \in Nat /\ Starts(up, size + a)
      /\ \A a \in Nat : \A q : IsSeq(q) => (Stands(rest, a, q) <=> Stands(up, size + a, q))
  BY RestOfWire DEF WholeUpTo
<1>2. \A a \in Nat : size + a \in Nat
  OBVIOUS
<1> HIDE DEF rest
<1>3. ASSUME NEW a, NEW n \in Nat \ {0}, Starts(rest, a)
      PROVE  a \in Nat /\ (OfCall(rest, a, n) <=> OfCall(up, size + a, n))
  <2>1. a \in Nat /\ Starts(up, size + a)
    BY <1>1, <1>3
  <2>2. ASSUME NEW method \in ServiceMethods, NEW args \in Asked(method, n)
        PROVE  Stands(rest, a, Packet(method, args)) <=> Stands(up, size + a, Packet(method, args))
    <3>1. IsSeq(Packet(method, args))
      BY PacketParts
    <3> QED
      BY <1>1, <2>1, <3>1
  <2> QED
    BY <1>3, <2>1, <2>2 DEF OfCall
<1>4. ASSUME NEW a \in Nat, Starts(rest, a)
      PROVE  \E n \in 1..b : OfCall(rest, a, n)
  <2>1. Starts(up, size + a) /\ size + a \in Nat
    BY <1>1, <1>2, <1>4
  <2>2. PICK n \in 1..b : OfCall(up, size + a, n)
    BY <2>1 DEF WholeUpTo
  <2>3. n \in Nat \ {0}
    OBVIOUS
  <2> QED
    BY <1>3, <1>4, <2>2, <2>3
<1>5. \A a : \A n \in Nat \ {0} : OfCall(rest, a, n) => a \in Nat /\ OfCall(up, size + a, n)
  BY <1>3 DEF OfCall
<1> QED
  BY <1>1, <1>4, <1>5 DEF WholeUpTo, rest

\* A request comes after them.
LEMMA WholeMore ==
    ASSUME NEW up, NEW b \in Nat, WholeUpTo(up, b),
           NEW method \in ServiceMethods, NEW n \in 1..b, NEW args \in Asked(method, n)
    PROVE  LET more == up \o Packet(method, args)
           IN  /\ WholeUpTo(more, b)
               /\ Stands(more, Len(up), Packet(method, args)) /\ Starts(more, Len(up))
               /\ \A a : Starts(more, a) => a = Len(up) \/ Starts(up, a)
               /\ \A a : \A k \in Nat \ {0} :
                    OfCall(more, a, k) => (a = Len(up) /\ k = n) \/ OfCall(up, a, k)
<1> DEFINE q == Packet(method, args)
           more == up \o q
<1>1. n \in Nat \ {0}
  OBVIOUS
<1>2. IsSeq(q) /\ Len(q) \in Nat /\ Len(q) >= 4 /\ q[1] = <<0, 3>> /\ \A i \in 2..Len(q) : q[i][1] # 0
  BY <1>1, PacketParts
<1>3. IsSeq(up) /\ Len(up) \in Nat
  BY SeqParts DEF WholeUpTo
<1> HIDE DEF q
<1>4. /\ IsSeq(more) /\ Len(more) = Len(up) + Len(q)
      /\ \A i \in 1..Len(up) : more[i] = up[i]
      /\ \A i \in 1..Len(q) : more[Len(up) + i] = q[i]
  <2>1. IsSeq(up) /\ IsSeq(q)
    BY <1>2, <1>3
  <2> QED
    BY <2>1, Joined
<1> HIDE DEF more
<1>5. Stands(more, Len(up), q)
  BY <1>2, <1>3, <1>4 DEF Stands
<1>6. Starts(more, Len(up))
  <2>1. 1 \in 1..Len(q) /\ Len(up) < Len(more)
    BY <1>2, <1>3, <1>4
  <2>2. more[Len(up) + 1][1] = 0
    BY <1>2, <1>4, <2>1
  <2> QED
    BY <1>3, <2>1, <2>2 DEF Starts
<1>7. ASSUME NEW a, Starts(more, a)
      PROVE  a = Len(up) \/ Starts(up, a)
  <2>1. a \in Nat /\ a < Len(up) + Len(q) /\ more[a + 1][1] = 0
    BY <1>4, <1>7 DEF Starts
  <2>2. CASE a < Len(up)
    <3>1. a + 1 \in 1..Len(up)
      BY <1>3, <2>1, <2>2
    <3> QED
      BY <1>4, <2>1, <2>2, <3>1 DEF Starts
  <2>3. CASE a > Len(up)
    <3>1. (a - Len(up)) + 1 \in 2..Len(q) /\ Len(up) + ((a - Len(up)) + 1) = a + 1
          /\ (a - Len(up)) + 1 \in 1..Len(q)
      BY <1>2, <1>3, <2>1, <2>3
    <3>2. more[a + 1] = q[(a - Len(up)) + 1]
      BY <1>4, <3>1
    <3> QED
      BY <1>2, <2>1, <3>1, <3>2
  <2> QED
    BY <1>3, <2>1, <2>2, <2>3
<1>8. ASSUME NEW a \in Nat, NEW p, IsSeq(p), Stands(up, a, p)
      PROVE  Stands(more, a, p)
  <2>1. Len(p) \in Nat /\ a + Len(p) <= Len(up)
    BY <1>8, SeqParts DEF Stands
  <2>2. \A i \in 1..Len(p) : a + i \in 1..Len(up)
    BY <1>3, <2>1
  <2>3. a + Len(p) <= Len(more)
    BY <1>2, <1>3, <1>4, <2>1
  <2> QED
    BY <1>4, <1>8, <2>2, <2>3 DEF Stands
<1>9. ASSUME NEW a, NEW k \in Nat \ {0}, OfCall(up, a, k)
      PROVE  OfCall(more, a, k)
  <2>1a. PICK m1 \in ServiceMethods : \E a1 \in Asked(m1, k) : Stands(up, a, Packet(m1, a1))
    BY <1>9 DEF OfCall
  <2>1. PICK a1 \in Asked(m1, k) : Stands(up, a, Packet(m1, a1))
    BY <2>1a
  <2>2. a \in Nat /\ a < Len(up) /\ up[a + 1][1] = 0
    BY <1>9 DEF OfCall, Starts
  <2>3. Stands(more, a, Packet(m1, a1))
    BY <1>8, <2>1, <2>2, PacketParts
  <2>4. a + 1 \in 1..Len(up) /\ a < Len(more)
    BY <1>2, <1>3, <1>4, <2>2
  <2>5. Starts(more, a)
    BY <1>4, <2>2, <2>4 DEF Starts
  <2> QED
    BY <2>3, <2>5 DEF OfCall
<1>10. OfCall(more, Len(up), n)
  BY <1>5, <1>6 DEF OfCall, q
<1>11. WholeUpTo(more, b)
  <2>1. ASSUME NEW a \in Nat, Starts(more, a)
        PROVE  \E k \in 1..b : OfCall(more, a, k)
    <3>1. CASE a = Len(up)
      BY <1>10, <3>1
    <3>2. CASE Starts(up, a)
      <4>1. PICK k \in 1..b : OfCall(up, a, k)
        BY <3>2 DEF WholeUpTo
      <4> QED
        BY <1>9, <4>1
    <3> QED
      BY <1>7, <2>1, <3>1, <3>2
  <2> QED
    BY <1>4, <2>1 DEF WholeUpTo
<1>12. ASSUME NEW a, NEW k \in Nat \ {0}, OfCall(more, a, k)
       PROVE  (a = Len(up) /\ k = n) \/ OfCall(up, a, k)
  <2>1. Starts(more, a) /\ a \in Nat
    BY <1>12 DEF OfCall, Starts
  <2>2. CASE a = Len(up)
    <3>1. OfCall(more, Len(up), k)
      BY <1>12, <2>2
    <3> QED
      BY <1>1, <1>3, <1>10, <2>2, <3>1, OneCall
  <2>3. CASE Starts(up, a)
    <3>1. PICK j \in 1..b : OfCall(up, a, j)
      BY <2>1, <2>3 DEF WholeUpTo
    <3>2. j \in Nat \ {0} /\ OfCall(more, a, j)
      BY <1>9, <3>1
    <3>3. j = k
      BY <1>12, <2>1, <3>2, OneCall
    <3> QED
      BY <3>1, <3>3
  <2> QED
    BY <1>7, <2>1, <2>2, <2>3
<1> QED
  BY <1>5, <1>6, <1>7, <1>11, <1>12 DEF more, q

-----------------------------------------------------------------------------
(* The calls: their invariant *)

\* A request is where one of four places has it: with its thread until it is
\* sent, on the wire, in a loop, among those handled.
InHand(t, n) == pc[t] \in {"connect", "send"} /\ call[t].args \in Asked(call[t].method, n)
OnWire(c, a, n) == OfCall(conns[c].up, a, n)
InLoop(l, n) ==
    loops[l] # None /\ loops[l].request.args \in Asked(loops[l].request.method, n)
IsDone(i, n) == handled[i].args \in Asked(handled[i].method, n)

OneHand == \A n \in Nat \ {0} : \A t, u \in Thread : InHand(t, n) /\ InHand(u, n) => t = u

OneWire ==
    \A n \in Nat \ {0} : \A c, d \in DOMAIN conns : \A a, b \in Nat :
        OnWire(c, a, n) /\ OnWire(d, b, n) => c = d /\ a = b

OneLoop == \A n \in Nat \ {0} : \A l, k \in Loop : InLoop(l, n) /\ InLoop(k, n) => l = k

OneDone ==
    \A n \in Nat \ {0} : \A i, j \in DOMAIN handled : IsDone(i, n) /\ IsDone(j, n) => i = j

\* A request leaves one place for the next.
OnePlace ==
    \A n \in Nat \ {0} :
        /\ \A t \in Thread : InHand(t, n) =>
              /\ \A c \in DOMAIN conns : \A a \in Nat : ~OnWire(c, a, n)
              /\ \A l \in Loop : ~InLoop(l, n)
              /\ \A i \in DOMAIN handled : ~IsDone(i, n)
        /\ \A c \in DOMAIN conns : \A a \in Nat : OnWire(c, a, n) =>
              /\ \A l \in Loop : ~InLoop(l, n)
              /\ \A i \in DOMAIN handled : ~IsDone(i, n)
        /\ \A l \in Loop : InLoop(l, n) => \A i \in DOMAIN handled : ~IsDone(i, n)

Once == OneHand /\ OneWire /\ OneLoop /\ OneDone /\ OnePlace

ConnFieldNames == {"up", "down", "client", "server", "loop", "channel", "raced"}

Shape ==
    /\ IsSeq(conns) /\ \A c \in DOMAIN conns : DOMAIN conns[c] = ConnFieldNames
    /\ pc = [t \in Thread |-> pc[t]] /\ call = [t \in Thread |-> call[t]]
    /\ loops = [l \in Loop |-> loops[l]]
    /\ begun \in Nat /\ cuts \in Nat
    /\ IsSeq(handled)

\* The request of one of the calls, or one without arguments after a cut.
OfSomeCall(r) ==
    /\ r.method \in ServiceMethods
    /\ (\E n \in 1..begun : r.args \in Asked(r.method, n)) \/ (cuts > 0 /\ NoArguments(r))

CallsOf ==
    \A t \in Thread : pc[t] # "idle" =>
        /\ call[t].method \in ServiceMethods
        /\ \E n \in 1..begun : call[t].args \in Asked(call[t].method, n)

WiresOf == \A c \in DOMAIN conns : WholeUpTo(conns[c].up, begun)
LoopsOf == \A l \in Loop : loops[l] # None => OfSomeCall(loops[l].request)
DoneOf  == \A i \in DOMAIN handled : OfSomeCall(handled[i])

CallInv == Shape /\ Served /\ CallsOf /\ WiresOf /\ LoopsOf /\ DoneOf /\ Once

\* Nothing new is under way.
UpsKept ==
    /\ IsSeq(conns') /\ \A c \in DOMAIN conns' : DOMAIN conns'[c] = ConnFieldNames
    /\ \A c \in DOMAIN conns' :
          conns'[c].up = <<>> \/ (c \in DOMAIN conns /\ conns'[c].up = conns[c].up)

-----------------------------------------------------------------------------
(* Steps that move no request on *)

LEMMA OnceKept ==
    ASSUME Once,
           \A n \in Nat \ {0} : \A t \in Thread : InHand(t, n)' => InHand(t, n),
           \A n \in Nat \ {0} : \A c \in DOMAIN conns' : \A a \in Nat :
              OnWire(c, a, n)' => c \in DOMAIN conns /\ OnWire(c, a, n),
           \A n \in Nat \ {0} : \A l \in Loop : InLoop(l, n)' => InLoop(l, n),
           \A n \in Nat \ {0} : \A i \in DOMAIN handled' :
              IsDone(i, n)' => i \in DOMAIN handled /\ IsDone(i, n)
    PROVE  Once'
<1>1. OneHand'
  BY DEF Once, OneHand
<1>2. OneWire'
  BY DEF Once, OneWire
<1>3. OneLoop'
  BY DEF Once, OneLoop
<1>4. OneDone'
  BY DEF Once, OneDone
<1>5. OnePlace'
  BY DEF Once, OnePlace
<1> QED
  BY <1>1, <1>2, <1>3, <1>4, <1>5 DEF Once

LEMMA NothingMoved ==
    ASSUME CallInv, UpsKept, Served',
           pc' = [t \in Thread |-> pc'[t]], call' = [t \in Thread |-> call'[t]],
           loops' = [l \in Loop |-> loops'[l]],
           UNCHANGED <<begun, cuts, handled>>,
           \A t \in Thread : pc'[t] # "idle" => pc[t] # "idle" /\ call'[t] = call[t],
           \A t \in Thread : pc'[t] \in {"connect", "send"} => pc[t] \in {"connect", "send"},
           \A l \in Loop : loops'[l] \in {None, loops[l]}
    PROVE  CallInv'
<1>1. Shape'
  BY DEF CallInv, Shape, UpsKept
<1>2. CallsOf'
  BY DEF CallInv, CallsOf
<1>3. WiresOf'
  <2>1. ASSUME NEW c \in DOMAIN conns'
        PROVE  WholeUpTo(conns'[c].up, begun)
    <3>1. CASE conns'[c].up = <<>>
      BY <3>1, NothingUnderWay
    <3>2. CASE c \in DOMAIN conns /\ conns'[c].up = conns[c].up
      BY <3>2 DEF CallInv, WiresOf
    <3> QED
      BY <3>1, <3>2 DEF UpsKept
  <2> QED
    BY <2>1 DEF WiresOf
<1>4. LoopsOf' /\ DoneOf'
  BY DEF CallInv, LoopsOf, DoneOf, OfSomeCall
<1>5. Once'
  <2>1. \A n \in Nat \ {0} : \A t \in Thread : InHand(t, n)' => InHand(t, n)
    BY DEF InHand
  <2>2. ASSUME NEW n \in Nat \ {0}, NEW c \in DOMAIN conns', NEW a \in Nat, OfCall(conns'[c].up, a, n)
        PROVE  c \in DOMAIN conns /\ OfCall(conns[c].up, a, n)
    <3>1. conns'[c].up # <<>>
      BY <2>2, NothingUnderWay DEF OfCall
    <3> QED
      BY <2>2, <3>1 DEF UpsKept
  <2>3. \A n \in Nat \ {0} : \A l \in Loop : InLoop(l, n)' => InLoop(l, n)
    BY DEF InLoop
  <2>4. \A n \in Nat \ {0} : \A i \in DOMAIN handled' :
              IsDone(i, n)' => i \in DOMAIN handled /\ IsDone(i, n)
    BY DEF IsDone
  <2>5. \A n \in Nat \ {0} : \A c \in DOMAIN conns' : \A a \in Nat :
              OnWire(c, a, n)' => c \in DOMAIN conns /\ OnWire(c, a, n)
    BY <2>2 DEF OnWire
  <2>6. Once
    BY DEF CallInv
  <2> QED
    BY <2>1, <2>3, <2>4, <2>5, <2>6, OnceKept
<1> QED
  BY <1>1, <1>2, <1>3, <1>4, <1>5 DEF CallInv

\* The connections stay what they are.
LEMMA UpsUnchanged ==
    ASSUME Shape, conns' = conns
    PROVE  UpsKept
BY DEF Shape, UpsKept

\* One of them changes, but for what is under way.
LEMMA UpsUpdated ==
    ASSUME Shape, NEW g, conns' = [c \in DOMAIN conns |-> g[c]],
           \A c \in DOMAIN conns : DOMAIN g[c] = ConnFieldNames,
           \A c \in DOMAIN conns : g[c].up \in {<<>>, conns[c].up}
    PROVE  UpsKept
<1>1. Len(conns) \in Nat /\ DOMAIN conns = 1..Len(conns)
  BY SeqParts DEF Shape
<1>2. PICK d : d = conns'
  OBVIOUS
<1>3. DOMAIN d = 1..Len(conns) /\ d = [c \in DOMAIN d |-> d[c]]
  BY <1>1, <1>2
<1>4. IsSeq(d)
  BY <1>1, <1>3, FunctionIsSeq DEF IsSeq
<1> QED
  BY <1>2, <1>4 DEF UpsKept

LEMMA ConnectedKeeps ==
    ASSUME Shape, NEW ch, Connected(ch)
    PROVE  UpsKept
<1>1. PICK x : x = NewConn(ch)
  OBVIOUS
<1>2. PICK d : d = conns'
  OBVIOUS
<1>3. d = Append(conns, x)
  BY <1>1, <1>2 DEF Connected
<1>4. Len(conns) \in Nat /\ DOMAIN conns = 1..Len(conns) /\ conns \in Seq(Range(conns))
  BY SeqParts DEF Shape, IsSeq
<1>5. /\ d \in Seq(Range(conns) \cup {x}) /\ DOMAIN d = 1..(Len(conns) + 1)
      /\ \A c \in 1..Len(conns) : d[c] = conns[c]
      /\ d[Len(conns) + 1] = x
  BY <1>3, <1>4
<1>6. IsSeq(d)
  BY <1>5, OfItsElements DEF IsSeq
<1>7. DOMAIN x = ConnFieldNames /\ x.up = <<>>
  BY <1>1 DEF NewConn, ConnFieldNames
<1>8. \A c \in DOMAIN d : c \in DOMAIN conns \/ c = Len(conns) + 1
  BY <1>4, <1>5
<1>9. \A c \in DOMAIN d : /\ DOMAIN d[c] = ConnFieldNames
                          /\ d[c].up = <<>> \/ (c \in DOMAIN conns /\ d[c].up = conns[c].up)
  BY <1>4, <1>5, <1>7, <1>8 DEF Shape
<1> QED
  BY <1>2, <1>6, <1>9 DEF UpsKept

LEMMA CloseFdKeeps ==
    ASSUME Shape, NEW ch, CloseFd(ch)
    PROVE  UpsKept
<1> DEFINE k == m_clientFd[ch]
           g == [conns EXCEPT ![k].client = FALSE]
<1>1. CASE k = None
  BY <1>1, UpsUnchanged DEF CloseFd
<1>2. CASE k # None
  <2>1. conns' = g
    BY <1>2 DEF CloseFd
  <2>2. g = [c \in DOMAIN conns |-> g[c]]
    OBVIOUS
  <2>3. \A c \in DOMAIN conns : DOMAIN g[c] = ConnFieldNames /\ g[c].up \in {<<>>, conns[c].up}
    BY DEF Shape, ConnFieldNames
  <2> HIDE DEF g
  <2> QED
    BY <2>1, <2>2, <2>3, UpsUpdated
<1> QED
  BY <1>1, <1>2

\* A step of a caller that sends nothing.
LEMMA CallerKeepsCalls ==
    ASSUME CallInv, UpsKept, NEW t \in Thread, NEW where, pc[t] # "idle",
           UNCHANGED <<call, serverVars, history>>, pc' = [pc EXCEPT ![t] = where],
           where \in {"connect", "send"} => pc[t] \in {"connect", "send"}
    PROVE  CallInv'
<1>1. /\ UNCHANGED <<begun, cuts, handled>> /\ loops' = loops /\ m_serviceMap' = m_serviceMap
  BY DEF serverVars, history
<1>2. Served'
  BY <1>1 DEF CallInv, Served
<1>3. pc = [u \in Thread |-> pc[u]]
  BY DEF CallInv, Shape
<1>4. /\ pc' = [u \in Thread |-> pc'[u]]
      /\ \A u \in Thread : pc'[u] # "idle" => pc[u] # "idle" /\ call'[u] = call[u]
      /\ \A u \in Thread : pc'[u] \in {"connect", "send"} => pc[u] \in {"connect", "send"}
  <2>1. \A u \in Thread : u # t => pc'[u] = pc[u]
    BY <1>3
  <2>2. pc'[t] = where
    BY <1>3
  <2>3. pc' = [u \in Thread |-> pc'[u]]
    BY <1>3
  <2> QED
    BY <2>1, <2>2, <2>3
<1>5. call' = [u \in Thread |-> call'[u]] /\ loops' = [l \in Loop |-> loops'[l]]
      /\ \A l \in Loop : loops'[l] \in {None, loops[l]}
  BY <1>1 DEF CallInv, Shape
<1> QED
  BY <1>1, <1>2, <1>4, <1>5, NothingMoved

LEMMA ChannelMade ==
    ASSUME CallInv, NEW ch \in Channel, MprpcChannel(ch)
    PROVE  CallInv'
<1>1. UpsKept
  BY ConnectedKeeps, UpsUnchanged DEF MprpcChannel, Refused, CallInv
<1>2. UNCHANGED <<pc, call, loops, m_serviceMap, begun, cuts, handled>>
  BY DEF MprpcChannel, callerVars, serverVars, history
<1>3. Served'
  BY <1>2 DEF CallInv, Served
<1>4. /\ pc' = [t \in Thread |-> pc'[t]] /\ call' = [t \in Thread |-> call'[t]]
      /\ loops' = [l \in Loop |-> loops'[l]]
  BY <1>2 DEF CallInv, Shape
<1>5. /\ \A t \in Thread : pc'[t] # "idle" => pc[t] # "idle" /\ call'[t] = call[t]
      /\ \A t \in Thread : pc'[t] \in {"connect", "send"} => pc[t] \in {"connect", "send"}
      /\ \A l \in Loop : loops'[l] \in {None, loops[l]}
  BY <1>2
<1> QED
  BY <1>1, <1>2, <1>3, <1>4, <1>5, NothingMoved

LEMMA ConnectCalls ==
    ASSUME CallInv, NEW t \in Thread, Connect(t)
    PROVE  CallInv'
<1>1. pc[t] = "connect" /\ UNCHANGED <<call, serverVars, history>>
  BY DEF Connect, Return
<1>2. UpsKept
  BY ConnectedKeeps, UpsUnchanged DEF Connect, Refused, CallInv
<1>3. pc' = [pc EXCEPT ![t] = "send"] \/ pc' = [pc EXCEPT ![t] = "idle"]
  BY DEF Connect, Return
<1> QED
  BY <1>1, <1>2, <1>3, CallerKeepsCalls

LEMMA RecvFailedCalls ==
    ASSUME CallInv, NEW t \in Thread, pc[t] # "idle", RecvFailed(t),
           UNCHANGED <<serverVars, history>>
    PROVE  CallInv'
<1>1. UpsKept
  BY CloseFdKeeps DEF RecvFailed, CallInv
<1>2. pc' = [pc EXCEPT ![t] = "idle"] /\ call' = call
  BY DEF RecvFailed, Return
<1> QED
  BY <1>1, <1>2, CallerKeepsCalls

LEMMA RecvCalls ==
    ASSUME CallInv, NEW t \in Thread, Recv(t)
    PROVE  CallInv'
<1>1. pc[t] = "recv" /\ UNCHANGED <<serverVars, history>>
  BY DEF Recv
<1>2. CASE RecvFailed(t)
  BY <1>1, <1>2, RecvFailedCalls
<1>3. CASE pc' = [pc EXCEPT ![t] = "wait"] /\ UNCHANGED <<m_clientFd, call, response, m_failed, conns>>
  <2>1. UpsKept
    BY <1>3, UpsUnchanged DEF CallInv
  <2> QED
    BY <1>1, <1>3, <2>1, CallerKeepsCalls
<1> QED
  BY <1>2, <1>3 DEF Recv

LEMMA ReceivedCalls ==
    ASSUME CallInv, NEW t \in Thread, Received(t)
    PROVE  CallInv'
<1> DEFINE k == at[t]
<1>1. pc[t] = "wait" /\ UNCHANGED <<serverVars, history>>
  BY DEF Received
<1>2. CASE RecvFailed(t)
  BY <1>1, <1>2, RecvFailedCalls
<1>3. CASE TakeAnswer(t, k)
  <2>1. PICK y : y = SubSeq(conns[k].down, Least(Len(conns[k].down), RecvBuffer) + 1, Len(conns[k].down))
    OBVIOUS
  <2> DEFINE g == [conns EXCEPT ![k].down = y]
  <2>2. conns' = g /\ pc' = [pc EXCEPT ![t] = "idle"] /\ call' = call
    BY <1>3, <2>1 DEF TakeAnswer, Return
  <2>3. g = [c \in DOMAIN conns |-> g[c]]
    OBVIOUS
  <2>4. \A c \in DOMAIN conns : DOMAIN g[c] = ConnFieldNames /\ g[c].up \in {<<>>, conns[c].up}
    BY DEF CallInv, Shape, ConnFieldNames
  <2> HIDE DEF g
  <2>5. UpsKept
    BY <2>2, <2>3, <2>4, UpsUpdated DEF CallInv
  <2> QED
    BY <1>1, <2>2, <2>5, CallerKeepsCalls
<1> QED
  BY <1>2, <1>3 DEF Received

\* Steps of the provider that take nothing.
LEMMA ProviderKeepsCalls ==
    ASSUME CallInv, UpsKept, Served', UNCHANGED <<callerVars, begun, cuts, handled>>,
           loops' = [l \in Loop |-> loops'[l]], \A l \in Loop : loops'[l] \in {None, loops[l]}
    PROVE  CallInv'
<1>1. pc' = pc /\ call' = call
  BY DEF callerVars
<1>2. /\ pc' = [t \in Thread |-> pc'[t]] /\ call' = [t \in Thread |-> call'[t]]
      /\ \A t \in Thread : pc'[t] # "idle" => pc[t] # "idle" /\ call'[t] = call[t]
      /\ \A t \in Thread : pc'[t] \in {"connect", "send"} => pc[t] \in {"connect", "send"}
  BY <1>1 DEF CallInv, Shape
<1> QED
  BY <1>2, NothingMoved

LEMMA NotifyServiceCalls ==
    ASSUME CallInv, NEW n \in DOMAIN Offered, NotifyService(n)
    PROVE  CallInv'
<1> DEFINE first == SubSeq(Offered, 1, n)
<1>1. /\ m_serviceMap' = [s \in Range(first) |-> DOMAIN Service[s]]
      /\ UNCHANGED <<callerVars, conns, loops, begun, cuts, handled>>
  BY DEF NotifyService, history
<1>2. Range(first) \subseteq DOMAIN Service
  <2>1. Offered \in Seq(DOMAIN Service)
    BY RpcAssumption
  <2>2. first \in Seq(DOMAIN Service)
    <3>1. Len(Offered) \in Nat /\ n \in 1..Len(Offered)
      BY <2>1
    <3>2. \A i \in 1..n : Offered[i] \in DOMAIN Service
      BY <2>1, <3>1
    <3> QED
      BY <2>1, <3>1, <3>2
  <2> HIDE DEF first
  <2> QED
    BY <2>2 DEF Range
<1>3. Served'
  <2> HIDE DEF first
  <2> QED
    BY <1>1, <1>2 DEF Served
<1>4. UpsKept
  BY <1>1, UpsUnchanged DEF CallInv
<1>5. loops' = [l \in Loop |-> loops'[l]] /\ \A l \in Loop : loops'[l] \in {None, loops[l]}
  BY <1>1 DEF CallInv, Shape
<1> QED
  BY <1>1, <1>3, <1>4, <1>5, ProviderKeepsCalls

LEMMA RunCalls ==
    ASSUME CallInv, Run
    PROVE  CallInv'
<1>1. UNCHANGED <<callerVars, conns, m_serviceMap, loops, begun, cuts, handled>>
  BY DEF Run, history
<1>2. Served' /\ loops' = [l \in Loop |-> loops'[l]] /\ \A l \in Loop : loops'[l] \in {None, loops[l]}
  BY <1>1 DEF CallInv, Shape, Served
<1>3. UpsKept
  BY <1>1, UpsUnchanged DEF CallInv
<1> QED
  BY <1>1, <1>2, <1>3, ProviderKeepsCalls

LEMMA OnConnectionCalls ==
    ASSUME CallInv, NEW c \in DOMAIN conns, OnConnection(c)
    PROVE  CallInv'
<1> DEFINE g == [conns EXCEPT ![c].server = FALSE]
<1>1. /\ conns' = g
      /\ UNCHANGED <<callerVars, m_serviceMap, loops, begun, cuts, handled>>
  BY DEF OnConnection, history, serverVars
<1>2. Served' /\ loops' = [l \in Loop |-> loops'[l]] /\ \A l \in Loop : loops'[l] \in {None, loops[l]}
  BY <1>1 DEF CallInv, Shape, Served
<1>3. g = [d \in DOMAIN conns |-> g[d]]
  OBVIOUS
<1>4. \A d \in DOMAIN conns : DOMAIN g[d] = ConnFieldNames /\ g[d].up \in {<<>>, conns[d].up}
  BY DEF CallInv, Shape, ConnFieldNames
<1> HIDE DEF g
<1>5. UpsKept
  BY <1>1, <1>3, <1>4, UpsUpdated DEF CallInv
<1> QED
  BY <1>1, <1>2, <1>5, ProviderKeepsCalls

LEMMA StopCalls ==
    ASSUME CallInv, Stop
    PROVE  CallInv'
<1> DEFINE g == [c \in DOMAIN conns |-> [conns[c] EXCEPT !.server = FALSE, !.up = <<>>]]
<1>1. /\ conns' = g /\ loops' = [l \in Loop |-> None] /\ m_serviceMap' = [s \in {} |-> {}]
      /\ UNCHANGED <<callerVars, begun, cuts, handled>>
  BY DEF Stop
<1>2. Served' /\ loops' = [l \in Loop |-> loops'[l]] /\ \A l \in Loop : loops'[l] \in {None, loops[l]}
  BY <1>1 DEF Served
<1>3. g = [d \in DOMAIN conns |-> g[d]]
  OBVIOUS
<1>4. \A d \in DOMAIN conns : DOMAIN g[d] = ConnFieldNames /\ g[d].up \in {<<>>, conns[d].up}
  BY DEF CallInv, Shape, ConnFieldNames
<1> HIDE DEF g
<1>5. UpsKept
  BY <1>1, <1>3, <1>4, UpsUpdated DEF CallInv
<1> QED
  BY <1>1, <1>2, <1>5, ProviderKeepsCalls

LEMMA CallerEndsCalls ==
    ASSUME CallInv, NEW ch \in Channel, CallerEnds(ch)
    PROVE  CallInv'
<1> DEFINE mine == {t \in Thread : ChannelOf[t] = ch}
<1>1. /\ pc' = [t \in Thread |-> IF t \in mine THEN "idle" ELSE pc[t]]
      /\ call' = [t \in Thread |-> IF t \in mine THEN None ELSE call[t]]
      /\ UNCHANGED <<loops, m_serviceMap, begun, cuts, handled>>
  BY DEF CallerEnds, serverVars
<1>2. UpsKept
  <2> DEFINE g == [c \in DOMAIN conns |-> [conns[c] EXCEPT !.client = @ /\ conns[c].channel # ch]]
  <2>1. conns' = g
    BY DEF CallerEnds
  <2>2. g = [c \in DOMAIN conns |-> g[c]]
    OBVIOUS
  <2>3. \A c \in DOMAIN conns : DOMAIN g[c] = ConnFieldNames /\ g[c].up \in {<<>>, conns[c].up}
    BY DEF CallInv, Shape, ConnFieldNames
  <2> HIDE DEF g
  <2> QED
    BY <2>1, <2>2, <2>3, UpsUpdated DEF CallInv
<1>3. Served' /\ loops' = [l \in Loop |-> loops'[l]] /\ \A l \in Loop : loops'[l] \in {None, loops[l]}
  BY <1>1 DEF CallInv, Shape, Served
<1>4. /\ pc' = [t \in Thread |-> pc'[t]] /\ call' = [t \in Thread |-> call'[t]]
      /\ \A t \in Thread : pc'[t] # "idle" => pc[t] # "idle" /\ call'[t] = call[t]
      /\ \A t \in Thread : pc'[t] \in {"connect", "send"} => pc[t] \in {"connect", "send"}
  BY <1>1
<1> QED
  BY <1>1, <1>2, <1>3, <1>4, NothingMoved

-----------------------------------------------------------------------------
(* Steps that move a request on *)

\* No request of a call that has not begun is anywhere.
LEMMA NoneYet ==
    ASSUME CallInv, NEW n \in Nat \ {0}, n > begun
    PROVE  /\ \A t \in Thread : ~InHand(t, n)
           /\ \A c \in DOMAIN conns : \A a \in Nat : ~OnWire(c, a, n)
           /\ \A l \in Loop : ~InLoop(l, n)
           /\ \A i \in DOMAIN handled : ~IsDone(i, n)
<1>1. \A k \in 1..begun : k # n
  BY DEF CallInv, Shape
<1>2. ASSUME NEW r, r.method \in ServiceMethods, r.args \in Asked(r.method, n),
             (\E k \in 1..begun : r.args \in Asked(r.method, k)) \/ NoArguments(r)
      PROVE  FALSE
  <2>1. CASE NoArguments(r)
    BY <1>2, <2>1, ClearTellsNone DEF NoArguments
  <2>2. CASE \E k \in 1..begun : r.args \in Asked(r.method, k)
    <3>1. PICK k \in 1..begun : r.args \in Asked(r.method, k)
      BY <2>2
    <3>2. k = n
      BY <1>2, <3>1, NumberTold
    <3> QED
      BY <1>1, <3>2
  <2> QED
    BY <1>2, <2>1, <2>2
<1>3. \A t \in Thread : ~InHand(t, n)
  BY <1>2 DEF CallInv, CallsOf, InHand
<1>4. ASSUME NEW c \in DOMAIN conns, NEW a \in Nat, OfCall(conns[c].up, a, n)
      PROVE  FALSE
  <2>1. PICK k \in 1..begun : OfCall(conns[c].up, a, k)
    BY <1>4 DEF CallInv, WiresOf, WholeUpTo, OfCall
  <2>2. k \in Nat \ {0}
    OBVIOUS
  <2> QED
    BY <1>1, <1>4, <2>1, <2>2, OneCall
<1>5. \A l \in Loop : ~InLoop(l, n)
  BY <1>2 DEF CallInv, LoopsOf, OfSomeCall, InLoop
<1>6. \A i \in DOMAIN handled : ~IsDone(i, n)
  BY <1>2 DEF CallInv, DoneOf, OfSomeCall, IsDone
<1> QED
  BY <1>3, <1>4, <1>5, <1>6 DEF OnWire

\* A call begins: its number is new.
LEMMA CallMethodCalls ==
    ASSUME CallInv, NEW t \in Thread, NEW n \in 1..MaxCalls, begun = n - 1,
           NEW method \in ServiceMethods, NEW args \in Asked(method, n), CallMethod(t, method, args)
    PROVE  CallInv'
<1>1. /\ begun' = n /\ begun + 1 = n /\ begun \in Nat /\ n \in Nat \ {0} /\ n > begun
  BY DEF CallMethod, CallInv, Shape
<1>2. PICK where : where \in {"connect", "send"} /\ pc' = [pc EXCEPT ![t] = where]
  BY DEF CallMethod
<1>3. /\ call' = [call EXCEPT ![t] = [method |-> method, args |-> args]]
      /\ UNCHANGED <<conns, loops, m_serviceMap, cuts, handled>>
  BY DEF CallMethod, serverVars
<1>4. pc = [u \in Thread |-> pc[u]] /\ call = [u \in Thread |-> call[u]]
  BY DEF CallInv, Shape
<1>5. /\ pc' = [u \in Thread |-> pc'[u]] /\ call' = [u \in Thread |-> call'[u]]
      /\ \A u \in Thread : u # t => pc'[u] = pc[u] /\ call'[u] = call[u]
      /\ pc'[t] = where /\ call'[t] = [method |-> method, args |-> args]
  BY <1>2, <1>3, <1>4
<1>6. \A k \in 1..begun : k \in 1..begun'
  BY <1>1
<1>7. Shape' /\ Served'
  BY <1>1, <1>3, <1>5 DEF CallInv, Shape, Served
<1>8. CallsOf'
  <2>1. ASSUME NEW u \in Thread, pc'[u] # "idle"
        PROVE  /\ call'[u].method \in ServiceMethods
               /\ \E k \in 1..begun' : call'[u].args \in Asked(call'[u].method, k)
    <3>1. CASE u = t
      <4>1. n \in 1..begun' /\ call'[u].method = method /\ call'[u].args = args
        BY <1>1, <1>5, <3>1
      <4> QED
        BY <4>1
    <3>2. CASE u # t
      BY <1>5, <1>6, <2>1, <3>2 DEF CallInv, CallsOf
    <3> QED
      BY <3>1, <3>2
  <2> QED
    BY <2>1 DEF CallsOf
<1>9. WiresOf'
  BY <1>1, <1>3, WholeUpToMore DEF CallInv, WiresOf
<1>10. LoopsOf' /\ DoneOf'
  BY <1>3, <1>6 DEF CallInv, LoopsOf, DoneOf, OfSomeCall
<1>11. ASSUME NEW k \in Nat \ {0}, NEW u \in Thread, InHand(u, k)'
       PROVE  (u = t /\ k = n) \/ InHand(u, k)
  <2>1. CASE u = t
    <3>1. args \in Asked(method, k)
      BY <1>5, <1>11, <2>1 DEF InHand
    <3>2. k = n
      BY <3>1, NumberTold
    <3> QED
      BY <2>1, <3>2
  <2>2. CASE u # t
    BY <1>5, <1>11, <2>2 DEF InHand
  <2> QED
    BY <2>1, <2>2
<1>12. /\ \A u \in Thread : ~InHand(u, n)
       /\ \A c \in DOMAIN conns : \A a \in Nat : ~OnWire(c, a, n)
       /\ \A l \in Loop : ~InLoop(l, n)
       /\ \A i \in DOMAIN handled : ~IsDone(i, n)
  BY <1>1, NoneYet
<1>13. Once'
  <2>1. Once
    BY DEF CallInv
  <2>2. OneHand'
    BY <1>11, <1>12, <2>1 DEF Once, OneHand
  <2>3. OneWire' /\ OneLoop' /\ OneDone'
    <3>1. OneWire'
      BY <1>3, <2>1 DEF Once, OneWire, OnWire
    <3>2. OneLoop'
      BY <1>3, <2>1 DEF Once, OneLoop, InLoop
    <3>3. OneDone'
      BY <1>3, <2>1 DEF Once, OneDone, IsDone
    <3> QED
      BY <3>1, <3>2, <3>3
  <2>4. OnePlace'
    <3>1. \A k \in Nat \ {0} : \A c \in DOMAIN conns : \A a \in Nat : OnWire(c, a, k)' <=> OnWire(c, a, k)
      BY <1>3 DEF OnWire
    <3>2. \A k \in Nat \ {0} : /\ \A l \in Loop : InLoop(l, k)' <=> InLoop(l, k)
                              /\ \A i \in DOMAIN handled : IsDone(i, k)' <=> IsDone(i, k)
      BY <1>3 DEF InLoop, IsDone
    <3> QED
      BY <1>3, <1>11, <1>12, <2>1, <3>1, <3>2 DEF Once, OnePlace
  <2> QED
    BY <2>2, <2>3, <2>4 DEF Once
<1> QED
  BY <1>7, <1>8, <1>9, <1>10, <1>13 DEF CallInv

\* A send: the request is on the wire, and no longer the thread's to send.
LEMMA SentCalls ==
    ASSUME CallInv, NEW t \in Thread, pc[t] = "send", NEW k \in DOMAIN conns,
           pc' = [pc EXCEPT ![t] = "recv"],
           conns' = [conns EXCEPT ![k].up = @ \o Packet(call[t].method, call[t].args)],
           UNCHANGED <<call, serverVars, history>>
    PROVE  CallInv'
<1> DEFINE r == call[t]
           q == Packet(r.method, r.args)
           more == conns[k].up \o q
           g == [conns EXCEPT ![k] = [conns[k] EXCEPT !.up = more]]
<1>1. UNCHANGED <<call, loops, m_serviceMap, begun, cuts, handled>>
  BY DEF serverVars, history
<1>2. r.method \in ServiceMethods /\ \E n \in 1..begun : r.args \in Asked(r.method, n)
  BY DEF CallInv, CallsOf
<1>3. PICK n \in 1..begun : r.args \in Asked(r.method, n)
  BY <1>2
<1>4. begun \in Nat /\ n \in Nat \ {0} /\ WholeUpTo(conns[k].up, begun)
  BY DEF CallInv, Shape, WiresOf
<1> HIDE DEF r
<1>5. /\ WholeUpTo(more, begun)
      /\ \A a : \A j \in Nat \ {0} :
           OfCall(more, a, j) => (a = Len(conns[k].up) /\ j = n) \/ OfCall(conns[k].up, a, j)
  BY <1>2, <1>3, <1>4, WholeMore
<1>6. conns' = g
  BY DEF r
<1> HIDE DEF q, more
<1>7. /\ DOMAIN g = DOMAIN conns /\ g = [c \in DOMAIN conns |-> g[c]]
      /\ \A c \in DOMAIN conns : c # k => g[c] = conns[c]
      /\ g[k] = [conns[k] EXCEPT !.up = more]
  OBVIOUS
<1>8. /\ DOMAIN g[k] = ConnFieldNames /\ g[k].up = more
  BY <1>7 DEF CallInv, Shape, ConnFieldNames
<1> HIDE DEF g
<1>9. pc = [u \in Thread |-> pc[u]]
  BY DEF CallInv, Shape
<1>10. /\ pc' = [u \in Thread |-> pc'[u]]
       /\ pc'[t] = "recv" /\ \A u \in Thread : u # t => pc'[u] = pc[u]
  BY <1>9
<1>11. IsSeq(g)
  <2>1. Len(conns) \in Nat /\ DOMAIN conns = 1..Len(conns)
    BY SeqParts DEF CallInv, Shape
  <2> QED
    BY <1>7, <2>1, FunctionIsSeq DEF IsSeq
<1>12. Shape' /\ Served'
  BY <1>1, <1>6, <1>7, <1>8, <1>10, <1>11 DEF CallInv, Shape, Served
<1>13. CallsOf'
  BY <1>1, <1>10 DEF CallInv, CallsOf
<1>14. WiresOf'
  BY <1>1, <1>5, <1>6, <1>7, <1>8 DEF CallInv, WiresOf
<1>15. LoopsOf' /\ DoneOf'
  BY <1>1 DEF CallInv, LoopsOf, DoneOf, OfSomeCall
<1>16. ASSUME NEW j \in Nat \ {0}, NEW u \in Thread, InHand(u, j)'
       PROVE  u # t /\ InHand(u, j)
  BY <1>1, <1>10, <1>16 DEF InHand
<1>17. ASSUME NEW j \in Nat \ {0}, NEW c \in DOMAIN conns, NEW a \in Nat, OnWire(c, a, j)'
       PROVE  (c = k /\ a = Len(conns[k].up) /\ j = n) \/ OnWire(c, a, j)
  <2>1. OfCall(g[c].up, a, j)
    BY <1>6, <1>17 DEF OnWire
  <2> QED
    BY <1>5, <1>7, <1>8, <2>1 DEF OnWire
<1>18. InHand(t, n)
  BY <1>3 DEF InHand, r
<1>19. Once'
  <2>1. Once
    BY DEF CallInv
  <2>2. OneHand'
    BY <1>16, <2>1 DEF Once, OneHand
  <2>3. OneWire'
    <3>1. \A c \in DOMAIN conns : \A a \in Nat : ~OnWire(c, a, n)
      BY <1>4, <1>18, <2>1 DEF Once, OnePlace
    <3> QED
      BY <1>6, <1>7, <1>17, <2>1, <3>1 DEF Once, OneWire
  <2>4. OneLoop' /\ OneDone'
    BY <1>1, <2>1 DEF Once, OneLoop, OneDone, InLoop, IsDone
  <2>5. OnePlace'
    <3>1. \A j \in Nat \ {0} : /\ \A l \in Loop : InLoop(l, j)' <=> InLoop(l, j)
                              /\ \A i \in DOMAIN handled : IsDone(i, j)' <=> IsDone(i, j)
      BY <1>1 DEF InLoop, IsDone
    <3>2. /\ \A l \in Loop : ~InLoop(l, n)
          /\ \A i \in DOMAIN handled : ~IsDone(i, n)
          /\ \A u \in Thread : InHand(u, n) => u = t
      BY <1>4, <1>18, <2>1 DEF Once, OnePlace, OneHand
    <3>3. DOMAIN conns' = DOMAIN conns /\ handled' = handled
      BY <1>1, <1>6, <1>7
    <3> QED
      BY <1>16, <1>17, <2>1, <3>1, <3>2, <3>3 DEF Once, OnePlace
  <2> QED
    BY <2>2, <2>3, <2>4, <2>5 DEF Once
<1> QED
  BY <1>12, <1>13, <1>14, <1>15, <1>19 DEF CallInv

LEMMA SendCalls ==
    ASSUME CallInv, NEW t \in Thread, Send(t)
    PROVE  CallInv'
<1> DEFINE k == m_clientFd[ChannelOf[t]]
<1>1. pc[t] = "send" /\ UNCHANGED <<call, serverVars, history>>
  BY DEF Send
<1>2. CASE Sent(t, k)
  <2>1. pc' = [pc EXCEPT ![t] = "recv"]
    BY <1>2 DEF Sent
  <2>2. CASE conns' = conns
    <3>1. UpsKept
      BY <2>2, UpsUnchanged DEF CallInv
    <3> QED
      BY <1>1, <2>1, <3>1, CallerKeepsCalls
  <2>3. CASE conns' = [conns EXCEPT ![k].up = @ \o Packet(call[t].method, call[t].args)]
    <3>1. CASE k \in DOMAIN conns
      BY <1>1, <2>1, <2>3, <3>1, SentCalls
    <3>2. CASE k \notin DOMAIN conns
      <4>1. conns' = conns
        <5>1. conns = [c \in DOMAIN conns |-> conns[c]]
          BY SeqParts DEF CallInv, Shape
        <5> HIDE DEF k
        <5> QED
          BY <2>3, <3>2, <5>1
      <4>2. UpsKept
        BY <4>1, UpsUnchanged DEF CallInv
      <4> QED
        BY <1>1, <2>1, <4>2, CallerKeepsCalls
    <3> QED
      BY <3>1, <3>2
  <2> QED
    BY <1>2, <2>2, <2>3 DEF Sent
<1>3. CASE SendFailed(t, k)
  <2>1. pc' = [pc EXCEPT ![t] = "connect"] /\ UpsKept
    BY <1>3, CloseFdKeeps DEF SendFailed, CallInv
  <2> QED
    BY <1>1, <2>1, CallerKeepsCalls
<1> QED
  BY <1>2, <1>3 DEF Send

\* A loop takes bytes, and with them one request at most.
LEMMA OnMessageCalls ==
    ASSUME CallInv, NEW c \in DOMAIN conns, NEW data \in Prefixes(conns[c].up) \ {<<>>},
           OnMessage(c, data)
    PROVE  CallInv'
<1> DEFINE up == conns[c].up
           l == conns[c].loop
           rest == SubSeq(up, Len(data) + 1, Len(up))
           g == [conns EXCEPT ![c].up = rest]
<1>1. WholeUpTo(up, begun) /\ IsSeq(up) /\ Len(up) \in Nat /\ begun \in Nat /\ cuts \in Nat
  BY SeqParts DEF CallInv, Shape, WiresOf, WholeUpTo
<1>2. PICK size \in 1..Len(up) : data = SubSeq(up, 1, size) /\ Len(data) = size
  <2>1. PICK size \in 0..Len(up) : data = SubSeq(up, 1, size)
    BY DEF Prefixes
  <2> DEFINE v == SubSeq(up, 0 + 1, size)
  <2>2. size \in Nat /\ 0 \in Nat /\ 0 <= size /\ size <= Len(up)
    BY <1>1
  <2>3. IsSeq(v) /\ Len(v) = size - 0
    <3> HIDE DEF up
    <3> QED
      BY <1>1, <2>2, Piece
  <2>4. size - 0 = size /\ 0 + 1 = 1
    OBVIOUS
  <2>5. v = data
    BY <2>1, <2>4, Zenon
  <2> HIDE DEF v, up
  <2>6. IsSeq(data) /\ Len(data) = size
    BY <2>3, <2>4, <2>5, Zenon
  <2>7. size # 0
    BY <2>6, EmptyPiece
  <2> QED
    BY <2>1, <2>2, <2>6, <2>7
<1>3. /\ loops[l] = None
      /\ cuts' = IF rest = <<>> THEN cuts ELSE cuts + 1
      /\ conns' = g
      /\ \/ \E r \in RequestIn(data) : loops' = [loops EXCEPT ![l] = [conn |-> c, request |-> r]]
         \/ RequestIn(data) = {} /\ UNCHANGED loops
      /\ UNCHANGED <<callerVars, m_serviceMap, begun, handled>>
  BY DEF OnMessage
<1>4. pc' = pc /\ call' = call
  BY <1>3 DEF callerVars
<1>5. /\ WholeUpTo(rest, begun) /\ IsSeq(rest) /\ Len(rest) = Len(up) - size
      /\ \A a : \A n \in Nat \ {0} : OfCall(rest, a, n) => a \in Nat /\ OfCall(up, size + a, n)
  <2>1. size \in 0..Len(up)
    BY <1>1
  <2> HIDE DEF up, rest
  <2>2. rest = SubSeq(up, size + 1, Len(up))
    BY <1>2 DEF rest
  <2> QED
    BY <1>1, <2>1, <2>2, RestOfWire, WholeRest
<1>6. cuts' \in Nat /\ (cuts > 0 => cuts' > 0) /\ (size < Len(up) => cuts' > 0)
  <2>1. size < Len(up) => rest # <<>>
    <3> SUFFICES ASSUME rest = <<>> PROVE ~(size < Len(up))
      OBVIOUS
    <3>1. Len(rest) = 0
      BY EmptyIsSeq
    <3> HIDE DEF rest, up
    <3> QED
      BY <1>1, <1>5, <3>1
  <2> HIDE DEF rest, up
  <2> QED
    BY <1>1, <1>3, <2>1
<1>7. /\ DOMAIN g = DOMAIN conns /\ g = [d \in DOMAIN conns |-> g[d]]
      /\ \A d \in DOMAIN conns : d # c => g[d] = conns[d]
      /\ DOMAIN g[c] = ConnFieldNames /\ g[c].up = rest
  <2>1. DOMAIN conns[c] = ConnFieldNames
    BY DEF CallInv, Shape
  <2> HIDE DEF rest
  <2> QED
    BY <2>1 DEF ConnFieldNames
<1> HIDE DEF g, rest
<1>8. IsSeq(g)
  <2>1. Len(conns) \in Nat /\ DOMAIN conns = 1..Len(conns)
    BY SeqParts DEF CallInv, Shape
  <2> QED
    BY <1>7, <2>1, FunctionIsSeq DEF IsSeq
\* What a loop may have found.
<1>9. ASSUME NEW r \in RequestIn(data)
      PROVE  /\ OfSomeCall(r)'
             /\ \A n \in Nat \ {0} : r.args \in Asked(r.method, n) => OfCall(up, 0, n)
  <2>1. Served
    BY DEF CallInv
  <2>2. up[1][1] = 0
    <3>1. data[1] = up[1]
      <4> DEFINE v == SubSeq(up, 0 + 1, size)
      <4>1. size \in Nat /\ 0 \in Nat /\ 0 <= size /\ size <= Len(up) /\ size - 0 = size /\ 0 + 1 = 1
        BY <1>1
      <4>2. \A i \in 1..(size - 0) : v[i] = up[0 + i]
        <5> HIDE DEF up
        <5> QED
          BY <1>1, <4>1, Piece
      <4>3. v = data
        BY <1>2, <4>1, Zenon
      <4> HIDE DEF v, up
      <4>4. 1 \in 1..(size - 0)
        BY <4>1
      <4>5. v[1] = up[0 + 1]
        BY <4>2, <4>4
      <4> QED
        BY <4>1, <4>3, <4>5, Zenon
    <3>2. data[1][1] = 0
      BY <2>1, NothingFound
    <3> QED
      BY <3>1, <3>2
  <2>3. Starts(up, 0)
    <3>1. 0 + 1 = 1 /\ 0 < Len(up)
      BY <1>1
    <3>2. up[0 + 1][1] = 0
      BY <2>2, <3>1, Zenon
    <3> HIDE DEF up
    <3> QED
      BY <3>1, <3>2 DEF Starts
  <2>4. PICK k \in 1..begun : OfCall(up, 0, k)
    BY <1>1, <2>3 DEF WholeUpTo
  <2>5. PICK method \in ServiceMethods : \E args \in Asked(method, k) :
             Stands(up, 0, Packet(method, args))
    BY <2>4 DEF OfCall
  <2>6. PICK args \in Asked(method, k) : Stands(up, 0, Packet(method, args))
    BY <2>5
  <2>7. k \in Nat \ {0}
    OBVIOUS
  <2>8. /\ r.method = method
        /\ \/ r.args = args
           \/ r.args = Clear(Request(method)) /\ size = 3 /\ size < Len(up)
    <3>1. r \in RequestIn(SubSeq(up, 1, size))
      BY <1>2
    <3> HIDE DEF up
    <3> QED
      BY <1>1, <2>1, <2>6, <2>7, <3>1, RequestFound
  <2>9. OfSomeCall(r)'
    <3>1. CASE r.args = args
      BY <1>3, <2>8, <3>1 DEF OfSomeCall
    <3>2. CASE r.args = Clear(Request(method)) /\ size < Len(up)
      BY <1>6, <2>8, <3>2 DEF OfSomeCall, NoArguments
    <3> QED
      BY <2>8, <3>1, <3>2
  <2>10. ASSUME NEW n \in Nat \ {0}, r.args \in Asked(r.method, n)
         PROVE  OfCall(up, 0, n)
    <3>1. r.args = args
      BY <2>8, <2>10, ClearTellsNone
    <3>2. n = k
      BY <2>8, <2>10, <3>1, NumberTold
    <3> QED
      BY <2>4, <3>2
  <2> QED
    BY <2>9, <2>10
<1>10. /\ loops' = [k \in Loop |-> loops'[k]]
       /\ \A k \in Loop : k # l => loops'[k] = loops[k]
       /\ l \in Loop => \/ loops'[l] = loops[l]
                        \/ \E r \in RequestIn(data) : loops'[l] = [conn |-> c, request |-> r]
  <2>1. loops = [k \in Loop |-> loops[k]]
    BY DEF CallInv, Shape
  <2>2. CASE UNCHANGED loops
    BY <2>1, <2>2
  <2>3. ASSUME NEW r \in RequestIn(data), loops' = [loops EXCEPT ![l] = [conn |-> c, request |-> r]]
        PROVE  /\ loops' = [k \in Loop |-> loops'[k]]
               /\ \A k \in Loop : k # l => loops'[k] = loops[k]
               /\ l \in Loop => loops'[l] = [conn |-> c, request |-> r]
    <3> HIDE DEF l
    <3> QED
      BY <2>1, <2>3
  <2> QED
    BY <1>3, <2>2, <2>3
<1> HIDE DEF l, up
<1>11. Shape' /\ Served'
  BY <1>3, <1>4, <1>6, <1>7, <1>8, <1>10 DEF CallInv, Shape, Served
<1>12. CallsOf'
  BY <1>3, <1>4 DEF CallInv, CallsOf
<1>13. WiresOf'
  BY <1>3, <1>5, <1>7 DEF CallInv, WiresOf
<1>14. \A r : OfSomeCall(r) => OfSomeCall(r)'
  BY <1>3, <1>6 DEF OfSomeCall
<1>15. LoopsOf'
  <2>1. ASSUME NEW k \in Loop, loops'[k] # None
        PROVE  \E r : r = loops'[k].request /\ OfSomeCall(r)'
    <3>1. CASE loops'[k] = loops[k]
      <4>1. PICK r : r = loops[k].request
        OBVIOUS
      <4>2. OfSomeCall(r)
        BY <2>1, <3>1, <4>1 DEF CallInv, LoopsOf
      <4> QED
        BY <1>14, <3>1, <4>1, <4>2
    <3>2. ASSUME NEW r \in RequestIn(data), loops'[k] = [conn |-> c, request |-> r]
          PROVE  r = loops'[k].request /\ OfSomeCall(r)'
      BY <1>9, <3>2
    <3> QED
      BY <1>10, <3>1, <3>2
  <2> QED
    BY <2>1 DEF LoopsOf, OfSomeCall
<1>16. DoneOf'
  BY <1>3, <1>14 DEF CallInv, DoneOf
\* Where the requests were.
<1>17. ASSUME NEW n \in Nat \ {0}, NEW d \in DOMAIN conns, NEW a \in Nat, OnWire(d, a, n)'
       PROVE  \/ d # c /\ OnWire(d, a, n)
              \/ d = c /\ OnWire(c, size + a, n)
  <2>1. OfCall(g[d].up, a, n)
    BY <1>3, <1>17 DEF OnWire
  <2> QED
    BY <1>5, <1>7, <2>1 DEF OnWire, up
<1>18. ASSUME NEW n \in Nat \ {0}, NEW k \in Loop, InLoop(k, n)'
       PROVE  InLoop(k, n) \/ (k = l /\ OnWire(c, 0, n))
  <2>1. CASE loops'[k] = loops[k]
    BY <1>18, <2>1 DEF InLoop
  <2>2. ASSUME NEW r \in RequestIn(data), k = l, loops'[k] = [conn |-> c, request |-> r]
        PROVE  k = l /\ OnWire(c, 0, n)
    <3>1. loops'[k].request = r
      BY <2>2
    <3>2. r.args \in Asked(r.method, n)
      BY <1>18, <3>1 DEF InLoop
    <3> QED
      BY <1>9, <2>2, <3>2 DEF OnWire, up
  <2> QED
    BY <1>10, <2>1, <2>2
<1>19. ~ \E n : InLoop(l, n)
  BY <1>3 DEF InLoop
<1>20. Once'
  <2>1. Once
    BY DEF CallInv
  <2>2. \A a, b \in Nat : /\ size + a \in Nat /\ size + a # 0 /\ (size + a = size + b => a = b)
    BY <1>1
  <2>3. OneHand'
    BY <1>4, <2>1 DEF Once, OneHand, InHand
  <2>4. OneWire'
    <3>1. ASSUME NEW n \in Nat \ {0}, NEW d \in DOMAIN conns, NEW e \in DOMAIN conns,
                 NEW a \in Nat, NEW b \in Nat, OnWire(d, a, n)', OnWire(e, b, n)'
          PROVE  d = e /\ a = b
      <4>1. \/ d # c /\ OnWire(d, a, n)
            \/ d = c /\ OnWire(c, size + a, n)
        BY <1>17, <3>1
      <4>2. \/ e # c /\ OnWire(e, b, n)
            \/ e = c /\ OnWire(c, size + b, n)
        BY <1>17, <3>1
      <4>3. OneWire
        BY <2>1 DEF Once
      <4> QED
        BY <2>2, <4>1, <4>2, <4>3 DEF OneWire
    <3>2. DOMAIN conns' = DOMAIN conns
      BY <1>3, <1>7
    <3> QED
      BY <3>1, <3>2 DEF OneWire
  <2>5. ASSUME NEW n \in Nat \ {0}, OnWire(c, 0, n)
        PROVE  /\ \A d \in DOMAIN conns : \A a \in Nat : ~OnWire(d, a, n)'
               /\ \A k \in Loop : ~InLoop(k, n)
               /\ \A t \in Thread : ~InHand(t, n)
               /\ \A i \in DOMAIN handled : ~IsDone(i, n)
    <3>1. ASSUME NEW d \in DOMAIN conns, NEW a \in Nat, OnWire(d, a, n)'
          PROVE  FALSE
      <4>1. \/ d # c /\ OnWire(d, a, n)
            \/ d = c /\ OnWire(c, size + a, n)
        BY <1>17, <3>1
      <4>2. 0 \in Nat /\ OneWire
        BY <2>1 DEF Once
      <4> QED
        BY <2>2, <2>5, <4>1, <4>2 DEF OneWire
    <3>2. 0 \in Nat /\ OnePlace
      BY <2>1 DEF Once
    <3> QED
      BY <2>5, <3>1, <3>2 DEF OnePlace
  <2>6. OneLoop'
    BY <1>18, <2>1, <2>5 DEF Once, OneLoop
  <2>7. OneDone'
    BY <1>3, <2>1 DEF Once, OneDone, IsDone
  <2>8. OnePlace'
    <3>1. \A n \in Nat \ {0} : /\ \A t \in Thread : InHand(t, n)' <=> InHand(t, n)
                              /\ \A i \in DOMAIN handled : IsDone(i, n)' <=> IsDone(i, n)
      BY <1>3, <1>4 DEF InHand, IsDone
    <3>2. DOMAIN conns' = DOMAIN conns /\ handled' = handled
      BY <1>3, <1>7
    <3>3. ASSUME NEW n \in Nat \ {0}, NEW d \in DOMAIN conns, NEW a \in Nat, OnWire(d, a, n)'
          PROVE  \E b \in Nat : OnWire(d, b, n)
      BY <1>17, <2>2, <3>3
    <3>4. OnePlace
      BY <2>1 DEF Once
    <3> QED
      BY <1>18, <2>5, <3>1, <3>2, <3>3, <3>4 DEF OnePlace
  <2> QED
    BY <2>3, <2>4, <2>6, <2>7, <2>8 DEF Once
<1> QED
  BY <1>11, <1>12, <1>13, <1>15, <1>16, <1>20 DEF CallInv

\* A handler ends: its request is among those handled.
LEMMA HandlerCalls ==
    ASSUME CallInv, NEW l \in Loop, Handler(l)
    PROVE  CallInv'
<1> DEFINE r == loops[l].request
           k == loops[l].conn
<1>1. /\ loops[l] # None /\ loops' = [loops EXCEPT ![l] = None]
      /\ UNCHANGED <<callerVars, m_serviceMap, begun, cuts>>
  BY DEF Handler
<1>2. PICK wire, reply :
           /\ SendRpcResponse(k, wire)
           /\ handled' = Append(handled, [method |-> r.method, args |-> r.args, reply |-> reply])
  BY DEF Handler
<1>3. pc' = pc /\ call' = call
  BY <1>1 DEF callerVars
<1>4. UpsKept /\ DOMAIN conns' = DOMAIN conns /\ \A c \in DOMAIN conns : conns'[c].up = conns[c].up
  <2>1. CASE conns' = conns
    BY <2>1, UpsUnchanged DEF CallInv
  <2>2. CASE conns' = [conns EXCEPT ![k].down = @ \o wire]
    <3>1. PICK y : y = conns[k].down \o wire
      OBVIOUS
    <3> DEFINE g == [conns EXCEPT ![k].down = y]
    <3>2. conns' = g
      BY <2>2, <3>1
    <3>3. g = [c \in DOMAIN conns |-> g[c]]
      OBVIOUS
    <3>4. \A c \in DOMAIN conns : DOMAIN g[c] = ConnFieldNames /\ g[c].up = conns[c].up
      BY DEF CallInv, Shape, ConnFieldNames
    <3> HIDE DEF g
    <3>5. UpsKept
      BY <3>2, <3>3, <3>4, UpsUpdated DEF CallInv
    <3> QED
      BY <3>2, <3>3, <3>4, <3>5
  <2> QED
    BY <1>2, <2>1, <2>2 DEF SendRpcResponse
<1>5. OfSomeCall(r)
  BY <1>1 DEF CallInv, LoopsOf
<1> HIDE DEF k
<1>6. PICK h : h = [method |-> r.method, args |-> r.args, reply |-> reply]
  OBVIOUS
<1>7. PICK d : d = handled'
  OBVIOUS
<1>8. /\ Len(handled) \in Nat /\ DOMAIN handled = 1..Len(handled)
      /\ IsSeq(d) /\ DOMAIN d = 1..(Len(handled) + 1)
      /\ \A i \in 1..Len(handled) : d[i] = handled[i]
      /\ d[Len(handled) + 1] = h
  <2>1. handled \in Seq(Range(handled)) /\ d = Append(handled, h)
    BY <1>2, <1>6, <1>7 DEF CallInv, Shape, IsSeq
  <2>2. /\ Len(handled) \in Nat /\ DOMAIN handled = 1..Len(handled)
        /\ d \in Seq(Range(handled) \cup {h}) /\ DOMAIN d = 1..(Len(handled) + 1)
        /\ \A i \in 1..Len(handled) : d[i] = handled[i]
        /\ d[Len(handled) + 1] = h
    BY <2>1
  <2> QED
    BY <2>2, OfItsElements DEF IsSeq
<1>9. \A i \in DOMAIN d : \/ i \in DOMAIN handled /\ d[i] = handled[i]
                          \/ i = Len(handled) + 1 /\ d[i] = h /\ i \notin DOMAIN handled
  BY <1>8
<1>10. /\ loops' = [m \in Loop |-> loops'[m]] /\ loops'[l] = None
       /\ \A m \in Loop : m # l => loops'[m] = loops[m]
  BY <1>1 DEF CallInv, Shape
<1>11. Shape' /\ Served'
  BY <1>1, <1>3, <1>4, <1>7, <1>8, <1>10 DEF CallInv, Shape, Served, UpsKept
<1>12. CallsOf'
  BY <1>1, <1>3 DEF CallInv, CallsOf
<1>13. WiresOf'
  BY <1>1, <1>4 DEF CallInv, WiresOf
<1>14. LoopsOf'
  BY <1>1, <1>10 DEF CallInv, LoopsOf, OfSomeCall
<1>15. h.method = r.method /\ h.args = r.args
  BY <1>6
<1> HIDE DEF r
<1>16. DoneOf'
  <2>1. OfSomeCall(h)'
    BY <1>1, <1>5, <1>15 DEF OfSomeCall, NoArguments
  <2>2. \A i \in DOMAIN handled : OfSomeCall(handled[i])
    BY DEF CallInv, DoneOf
  <2> QED
    BY <1>1, <1>7, <1>9, <2>1, <2>2 DEF DoneOf, OfSomeCall
<1>17. ASSUME NEW n \in Nat \ {0}, NEW m \in Loop, InLoop(m, n)'
       PROVE  m # l /\ InLoop(m, n)
  BY <1>10, <1>17 DEF InLoop
<1>18. ASSUME NEW n \in Nat \ {0}, NEW i \in DOMAIN handled', IsDone(i, n)'
       PROVE  \/ i \in DOMAIN handled /\ IsDone(i, n)
              \/ i = Len(handled) + 1 /\ InLoop(l, n)
  <2>1. d[i].args \in Asked(d[i].method, n) /\ i \in DOMAIN d
    BY <1>7, <1>18 DEF IsDone
  <2> QED
    BY <1>1, <1>9, <1>15, <2>1 DEF IsDone, InLoop, r
<1>19. Once'
  <2>1. Once
    BY DEF CallInv
  <2>2. OneHand'
    BY <1>3, <2>1 DEF Once, OneHand, InHand
  <2>3. \A n \in Nat \ {0} : \A c \in DOMAIN conns : \A a \in Nat : OnWire(c, a, n)' <=> OnWire(c, a, n)
    BY <1>4 DEF OnWire
  <2>4. OneWire'
    BY <1>4, <2>1, <2>3 DEF Once, OneWire
  <2>5. OneLoop'
    BY <1>17, <2>1 DEF Once, OneLoop
  <2>6. ASSUME NEW n \in Nat \ {0}, InLoop(l, n)
        PROVE  /\ \A t \in Thread : ~InHand(t, n)
               /\ \A c \in DOMAIN conns : \A a \in Nat : ~OnWire(c, a, n)
               /\ \A m \in Loop : m # l => ~InLoop(m, n)
               /\ \A i \in DOMAIN handled : ~IsDone(i, n)
    BY <2>1, <2>6 DEF Once, OnePlace, OneLoop
  <2>7. OneDone'
    BY <1>18, <2>1, <2>6 DEF Once, OneDone
  <2>8. OnePlace'
    <3>1. \A n \in Nat \ {0} : \A t \in Thread : InHand(t, n)' <=> InHand(t, n)
      BY <1>3 DEF InHand
    <3>2. OnePlace
      BY <2>1 DEF Once
    <3> QED
      BY <1>4, <1>17, <1>18, <2>3, <2>6, <3>1, <3>2 DEF OnePlace
  <2> QED
    BY <2>2, <2>4, <2>5, <2>7, <2>8 DEF Once
<1> QED
  BY <1>11, <1>12, <1>13, <1>14, <1>16, <1>19 DEF CallInv

-----------------------------------------------------------------------------
(* Whole requests, each handled once *)

LEMMA InitCallInv == Init => CallInv
<1> SUFFICES ASSUME Init PROVE CallInv
  OBVIOUS
<1>1. Shape
  BY EmptyIsSeq DEF Init, Shape
<1>2. Served
  BY DEF Init, Served
<1>3. DOMAIN conns = {} /\ DOMAIN handled = {}
  BY DEF Init
<1>4. \A t \in Thread : pc[t] = "idle"
  BY DEF Init
<1>5. \A l \in Loop : loops[l] = None
  BY DEF Init
<1>6. CallsOf /\ WiresOf /\ LoopsOf /\ DoneOf
  BY <1>3, <1>4, <1>5 DEF CallsOf, WiresOf, LoopsOf, DoneOf
<1>7. Once
  BY <1>3, <1>4, <1>5 DEF Once, OneHand, OneWire, OneLoop, OneDone, OnePlace, InHand, InLoop
<1> QED
  BY <1>1, <1>2, <1>6, <1>7 DEF CallInv

LEMMA NextCallInv ==
    ASSUME CallInv, [Next]_vars
    PROVE  CallInv'
<1>1. ASSUME NEW ch \in Channel, MprpcChannel(ch) PROVE CallInv'
  BY <1>1, ChannelMade
<1>2. ASSUME NEW t \in Thread, NEW n \in 1..MaxCalls, NEW method \in Methods[t][n],
             NEW args \in Asked(method, n), begun = n - 1, CallMethod(t, method, args)
      PROVE  CallInv'
  <2>1. method \in ServiceMethods
    BY RpcAssumption
  <2> QED
    BY <1>2, <2>1, CallMethodCalls
<1>3. ASSUME NEW t \in Thread, Caller(t) PROVE CallInv'
  BY <1>3, ConnectCalls, SendCalls, RecvCalls, ReceivedCalls DEF Caller
<1>4. ASSUME NEW n \in DOMAIN Offered, NotifyService(n) PROVE CallInv'
  BY <1>4, NotifyServiceCalls
<1>5. CASE Run
  BY <1>5, RunCalls
<1>6. ASSUME NEW c \in DOMAIN conns, Arrives(c) PROVE CallInv'
  BY <1>6, OnMessageCalls DEF Arrives
<1>7. ASSUME NEW l \in Loop, Handler(l) PROVE CallInv'
  BY <1>7, HandlerCalls
<1>8. ASSUME NEW c \in DOMAIN conns, OnConnection(c) PROVE CallInv'
  BY <1>8, OnConnectionCalls
<1>9. CASE Stop
  BY <1>9, StopCalls
<1>10. ASSUME NEW ch \in Channel, CallerEnds(ch) PROVE CallInv'
  BY <1>10, CallerEndsCalls
<1>11. CASE UNCHANGED vars
  <2>1. UNCHANGED <<callerVars, conns, loops, m_serviceMap, begun, cuts, handled>>
    BY <1>11 DEF vars, serverVars, history
  <2>2. UpsKept /\ Served'
    BY <2>1, UpsUnchanged DEF CallInv, Served
  <2>3. loops' = [l \in Loop |-> loops'[l]] /\ \A l \in Loop : loops'[l] \in {None, loops[l]}
    BY <2>1 DEF CallInv, Shape
  <2> QED
    BY <2>1, <2>2, <2>3, ProviderKeepsCalls
<1> QED
  BY <1>1, <1>2, <1>3, <1>4, <1>5, <1>6, <1>7, <1>8, <1>9, <1>10, <1>11 DEF Next

\* However the bytes of the requests arrive, a handler gets the arguments of a call
\* as they were sent, or none of them where a header was cut before their size, and
\* never part of them or those of another method (rpcprovider.cpp:166-262).
THEOREM RequestsArriveWhole == Spec => []WholeOrNothing
<1>1. CallInv /\ [Next]_vars => CallInv'
  BY NextCallInv
<1>2. CallInv => WholeOrNothing
  BY DEF CallInv, LoopsOf, OfSomeCall, WholeOrNothing
<1> QED
  BY InitCallInv, <1>1, <1>2, PTL DEF Spec

\* A request is sent once, taken once and handled once, whichever threads share the
\* channel, and over any number of reconnections, cuts and ends of processes
\* (mprpcchannel.cpp:117-136, rpcprovider.cpp:166-262).
THEOREM NoCallIsHandledTwice == Spec => []AtMostOnce
<1>1. CallInv /\ [Next]_vars => CallInv'
  BY NextCallInv
<1>2. CallInv => AtMostOnce
  <2> SUFFICES ASSUME CallInv, NEW i \in DOMAIN handled, NEW j \in DOMAIN handled, i < j,
                      handled[i].method = handled[j].method, handled[i].args = handled[j].args
               PROVE  NoArguments(handled[i])
    BY DEF AtMostOnce
  <2>1. OfSomeCall(handled[i])
    BY DEF CallInv, DoneOf
  <2>2. ASSUME NEW n \in 1..begun, handled[i].args \in Asked(handled[i].method, n)
        PROVE  FALSE
    <3>1. n \in Nat \ {0} /\ IsDone(i, n) /\ IsDone(j, n)
      BY <2>2 DEF IsDone
    <3>2. i = j
      BY <3>1 DEF CallInv, Once, OneDone
    <3>3. i \in Nat
      BY SeqParts DEF CallInv, Shape
    <3> QED
      BY <3>2, <3>3
  <2> QED
    BY <2>1, <2>2 DEF OfSomeCall
<1> QED
  BY InitCallInv, <1>1, <1>2, PTL DEF Spec

-----------------------------------------------------------------------------
(* The answers *)

\* An answer is read back as the handler wrote it.
LEMMA AnswerBack ==
    ASSUME NEW method \in ServiceMethods, NEW n, NEW reply \in Answers(method, n)
    PROVE  LET w == SerializeToString(Response(method), reply)
           IN  IsSeq(w) /\ \A old : Parsed(Response(method), old, w) = reply
<1> DEFINE type == Response(method)
           w == SerializeToString(type, reply)
           P == [k \in 1..Len(type) |-> Payloads(type[k], reply[type[k]])]
<1>1. type \in Replies /\ type \in TypeDefs
  BY MethodTypes DEF TypeDefs
<1>2. PICK fields : reply = SetIn(type, fields, n)
  BY DEF Answers
<1>3. Message(type, reply)
  BY <1>1, <1>2, SetInIsMessage
<1>4. Carries(w, P, Len(type)) /\ \A old : Parsed(type, old, w) = reply
  BY <1>1, <1>3, MessageBack
<1> HIDE DEF type
<1> HIDE DEF P, w
<1> QED
  BY <1>4, SeqParts, Zenon DEF Carries, w, type

-----------------------------------------------------------------------------
(* What a connection has under way of a call *)

Serves(l, c) == loops[l] # None /\ loops[l].conn = c

\* The request of a call, or one of its method without arguments.
Fits(r, q) == r.method = q.method /\ (r.args = q.args \/ NoArguments(r))

\* Nothing.
Quiet(c) ==
    /\ conns[c].down = <<>>
    /\ \A a \in Nat : ~Starts(conns[c].up, a)
    /\ \A l \in Loop : ~Serves(l, c)

\* The request of q, and that of no other call.
Underway(c, q) ==
    /\ conns[c].down = <<>>
    /\ \E a \in Nat : /\ Stands(conns[c].up, a, Packet(q.method, q.args))
                      /\ \A b \in Nat : Starts(conns[c].up, b) => b = a
    /\ \A l \in Loop : ~Serves(l, c)

\* The handler of q, and that of no other call.
BeingHandled(c, q) ==
    /\ conns[c].down = <<>>
    /\ \A a \in Nat : ~Starts(conns[c].up, a)
    /\ \E l \in Loop : /\ Serves(l, c) /\ Fits(loops[l].request, q)
                       /\ \A k \in Loop : Serves(k, c) => k = l

\* The answer to q, and nothing else.
IsAnswered(c, q) ==
    /\ \E h \in Range(handled) :
          /\ Fits(h, q)
          /\ \A old : Parsed(Response(q.method), old, conns[c].down) = h.reply
    /\ IsSeq(conns[c].down)
    /\ \A a \in Nat : ~Starts(conns[c].up, a)
    /\ \A l \in Loop : ~Serves(l, c)

Expects(c, q) == Quiet(c) \/ Underway(c, q) \/ BeingHandled(c, q) \/ IsAnswered(c, q)

\* The provider's end is closed and will not answer.
Gone(c) == stops > 0 /\ conns[c].up = <<>> /\ \A l \in Loop : ~Serves(l, c)

-----------------------------------------------------------------------------
(* The answers: their invariant *)

\* The connection of a channel is its own, open at the client's end, and closed
\* at the other only by the end of the provider.
HasOwn(ch) ==
    LET c == m_clientFd[ch]
    IN  c # None =>
          /\ conns[c].client
          /\ conns[c].server \/ Gone(c)
          /\ \A other \in Channel : m_clientFd[other] = c => other = ch

\* No other thread is in a call over the channel of t.
Alone(t) == \A u \in Thread : ChannelOf[u] = ChannelOf[t] /\ u # t => pc[u] = "idle"

\* Between two calls nothing is under way, where no calls have crossed.
Resting(ch) ==
    LET c == m_clientFd[ch]
    IN  ch \notin crossed /\ c # None /\ (\A t \in Thread : ChannelOf[t] = ch => pc[t] = "idle")
            => Quiet(c)

\* In a call there, at most what is its own.
Turn(t) ==
    LET c == m_clientFd[ChannelOf[t]]
    IN  ChannelOf[t] \notin crossed /\ pc[t] # "idle" =>
          /\ Alone(t)
          /\ pc[t] \in {"connect", "send"} /\ c # None => Quiet(c)
          /\ pc[t] \in {"recv", "wait"} => c # None /\ Expects(c, call[t])
          /\ pc[t] = "wait" => at[t] = c

AnsInv ==
    /\ DOMAIN response = Thread
    /\ \A ch \in Channel : HasOwn(ch) /\ Resting(ch)
    /\ \A t \in Thread : Turn(t)

\* A thread waits on a connection that its channel has made.
Awaited == \A t \in Thread : at[t] # None => conns[at[t]].channel = ChannelOf[t]

-----------------------------------------------------------------------------
(* What a step leaves alone *)

\* A step may end a process, and the history only grows.
Grow ==
    /\ stops \in Nat /\ stops' \in Nat /\ stops' >= stops
    /\ \A h \in Range(handled) : h \in Range(handled')

\* The bytes under way on connection c, and its ends.
SameEnds(c) ==
    /\ conns'[c].up = conns[c].up /\ conns'[c].down = conns[c].down
    /\ conns'[c].client = conns[c].client /\ conns'[c].server = conns[c].server

\* Connection c and the loops that serve it.
Untouched(c) ==
    /\ SameEnds(c)
    /\ \A l \in Loop : Serves(l, c)' <=> Serves(l, c)
    /\ \A l \in Loop : Serves(l, c) => loops'[l].request = loops[l].request

LEMMA UntouchedKept ==
    ASSUME Grow, NEW c, Untouched(c)
    PROVE  /\ conns'[c].client = conns[c].client /\ conns'[c].server = conns[c].server
           /\ Gone(c) => Gone(c)'
           /\ Quiet(c) => Quiet(c)'
           /\ \A q : Expects(c, q) => Expects(c, q)'
<1>1. Gone(c) => Gone(c)'
  BY DEF Grow, Untouched, SameEnds, Gone
<1>2. Quiet(c) => Quiet(c)'
  BY DEF Untouched, SameEnds, Quiet
<1>3. ASSUME NEW q, Underway(c, q)
      PROVE  Underway(c, q)'
  BY <1>3 DEF Untouched, SameEnds, Underway
<1>4. ASSUME NEW q, BeingHandled(c, q)
      PROVE  BeingHandled(c, q)'
  BY <1>4 DEF Untouched, SameEnds, BeingHandled, Fits, NoArguments
<1>5. ASSUME NEW q, IsAnswered(c, q)
      PROVE  IsAnswered(c, q)'
  BY <1>5 DEF Grow, Untouched, SameEnds, IsAnswered, Fits, NoArguments
<1> QED
  BY <1>1, <1>2, <1>3, <1>4, <1>5 DEF Untouched, SameEnds, Expects

\* The provider's steps: what they may do to the connection of a channel.
LEMMA ProviderKeepsAnswers ==
    ASSUME AnsInv, Grow, UNCHANGED <<channelVars, callerVars>>,
           \A ch \in Channel : m_clientFd[ch] # None =>
             LET c == m_clientFd[ch]
             IN  /\ conns'[c].client = conns[c].client
                 /\ \/ conns'[c].server = conns[c].server /\ (Gone(c) => Gone(c)')
                    \/ Gone(c)'
                 /\ Quiet(c) => Quiet(c)'
                 /\ \A t \in Thread : pc[t] # "idle" /\ Expects(c, call[t]) => Expects(c, call[t])'
    PROVE  AnsInv'
<1>1. /\ m_clientFd' = m_clientFd /\ crossed' = crossed
      /\ pc' = pc /\ at' = at /\ call' = call /\ response' = response
  BY DEF channelVars, callerVars
<1>2. ASSUME NEW ch \in Channel
      PROVE  HasOwn(ch)' /\ Resting(ch)'
  <2>1. HasOwn(ch)'
    BY <1>1 DEF AnsInv, HasOwn
  <2>2. Resting(ch)'
    BY <1>1 DEF AnsInv, Resting
  <2> QED
    BY <2>1, <2>2
<1>3. ASSUME NEW t \in Thread
      PROVE  Turn(t)'
  <2>1. ChannelOf[t] \in Channel
    BY RpcAssumption
  <2>2. PICK q : q = call[t]
    OBVIOUS
  <2>3. PICK c : c = m_clientFd[ChannelOf[t]]
    OBVIOUS
  <2>4. SUFFICES ASSUME ChannelOf[t] \notin crossed, pc[t] # "idle"
                 PROVE  Turn(t)'
    BY <1>1 DEF Turn
  <2>5. /\ Alone(t)
        /\ pc[t] \in {"connect", "send"} /\ c # None => Quiet(c)
        /\ pc[t] \in {"recv", "wait"} => c # None /\ Expects(c, q)
        /\ pc[t] = "wait" => at[t] = c
    BY <2>2, <2>3, <2>4 DEF AnsInv, Turn
  <2>6. c # None => /\ Quiet(c) => Quiet(c)'
                    /\ Expects(c, q) => Expects(c, q)'
    BY <1>1, <2>1, <2>2, <2>3, <2>4
  <2>7. Alone(t)'
    BY <1>1, <2>5 DEF Alone
  <2> QED
    BY <1>1, <2>2, <2>3, <2>5, <2>6, <2>7 DEF Turn
<1> QED
  BY <1>1, <1>2, <1>3 DEF AnsInv

\* A step of channel ch, or of a thread that calls over it: the others keep their
\* connections and calls.
OthersKept(ch) ==
    \A other \in Channel \ {ch} :
        LET c == m_clientFd[other]
        IN  /\ m_clientFd'[other] = c
            /\ c # None => SameEnds(c) /\ m_clientFd'[ch] # c

CallsKept(ch) ==
    /\ DOMAIN response' = Thread
    /\ crossed' \ {ch} = crossed \ {ch}
    /\ \A u \in Thread : ChannelOf[u] # ch =>
          pc'[u] = pc[u] /\ at'[u] = at[u] /\ call'[u] = call[u]

LEMMA ChannelKeepsAnswers ==
    ASSUME AnsInv, Grow, NEW ch \in Channel, loops' = loops, OthersKept(ch), CallsKept(ch),
           m_clientFd'[ch] # None =>
             /\ conns'[m_clientFd'[ch]].client
             /\ conns'[m_clientFd'[ch]].server \/ Gone(m_clientFd[ch])',
           Resting(ch)', \A u \in Thread : ChannelOf[u] = ch => Turn(u)'
    PROVE  AnsInv'
<1>1. ASSUME NEW other \in Channel, other # ch, m_clientFd[other] # None
      PROVE  /\ m_clientFd'[other] = m_clientFd[other] /\ Untouched(m_clientFd[other])
             /\ m_clientFd'[ch] # m_clientFd[other]
  BY <1>1 DEF Untouched, Serves, OthersKept
<1>2. ASSUME NEW other \in Channel, other # ch
      PROVE  HasOwn(other)'
  <2>1. PICK c : c = m_clientFd[other]
    OBVIOUS
  <2>2. SUFFICES ASSUME c # None
                 PROVE  /\ conns'[c].client /\ (conns'[c].server \/ Gone(c)')
                        /\ \A o \in Channel : m_clientFd'[o] = c => o = other
    BY <1>2, <2>1 DEF HasOwn, OthersKept
  <2>3. /\ conns[c].client /\ (conns[c].server \/ Gone(c))
        /\ \A o \in Channel : m_clientFd[o] = c => o = other
    BY <2>1, <2>2 DEF AnsInv, HasOwn
  <2>4. Untouched(c) /\ m_clientFd'[ch] # c
    BY <1>1, <1>2, <2>1, <2>2
  <2>5. conns'[c].client /\ (conns'[c].server \/ Gone(c)')
    BY <2>3, <2>4, UntouchedKept
  <2>6. \A o \in Channel \ {ch} : m_clientFd'[o] = m_clientFd[o]
    BY DEF OthersKept
  <2> QED
    BY <2>3, <2>4, <2>5, <2>6
<1>3. HasOwn(ch)'
  <2>1. PICK c : c = m_clientFd'[ch]
    OBVIOUS
  <2>2. ASSUME c # None, NEW o \in Channel, m_clientFd'[o] = c
        PROVE  o = ch
    <3>1. SUFFICES ASSUME o # ch PROVE FALSE
      OBVIOUS
    <3>2. m_clientFd[o] = c
      BY <2>2, <3>1 DEF OthersKept
    <3> QED
      BY <1>1, <2>1, <2>2, <3>1, <3>2
  <2>3. c # None => conns'[c].client /\ (conns'[c].server \/ Gone(c)')
    BY <2>1 DEF Gone, Serves
  <2> QED
    BY <2>1, <2>2, <2>3 DEF HasOwn
<1>4. ASSUME NEW other \in Channel, other # ch
      PROVE  Resting(other)'
  <2>1. PICK c : c = m_clientFd[other]
    OBVIOUS
  <2>2. SUFFICES ASSUME other \notin crossed, c # None,
                        \A u \in Thread : ChannelOf[u] = other => pc[u] = "idle"
                 PROVE  Quiet(c)'
    <3>1. m_clientFd'[other] = c /\ (other \in crossed' <=> other \in crossed)
      BY <1>4, <2>1 DEF OthersKept, CallsKept
    <3>2. \A u \in Thread : ChannelOf[u] = other => pc'[u] = pc[u]
      BY <1>4 DEF CallsKept
    <3> QED
      BY <2>2, <3>1, <3>2 DEF Resting
  <2>3. Quiet(c)
    BY <2>1, <2>2 DEF AnsInv, Resting
  <2> QED
    BY <1>1, <1>4, <2>1, <2>2, <2>3, UntouchedKept
<1>5. ASSUME NEW u \in Thread, ChannelOf[u] # ch
      PROVE  Turn(u)'
  <2>1. ChannelOf[u] \in Channel
    BY RpcAssumption
  <2>2. PICK c : c = m_clientFd[ChannelOf[u]]
    OBVIOUS
  <2>3. PICK q : q = call[u]
    OBVIOUS
  <2>4. /\ m_clientFd'[ChannelOf[u]] = c /\ pc'[u] = pc[u] /\ at'[u] = at[u] /\ call'[u] = q
        /\ ChannelOf[u] \in crossed' <=> ChannelOf[u] \in crossed
    BY <1>5, <2>1, <2>2, <2>3 DEF OthersKept, CallsKept
  <2>5. SUFFICES ASSUME ChannelOf[u] \notin crossed, pc[u] # "idle"
                 PROVE  Turn(u)'
    BY <2>4 DEF Turn
  <2>6. /\ Alone(u)
        /\ pc[u] \in {"connect", "send"} /\ c # None => Quiet(c)
        /\ pc[u] \in {"recv", "wait"} => c # None /\ Expects(c, q)
        /\ pc[u] = "wait" => at[u] = c
    BY <2>2, <2>3, <2>5 DEF AnsInv, Turn
  <2>7. c # None => (Quiet(c) => Quiet(c)') /\ (Expects(c, q) => Expects(c, q)')
    BY <1>1, <1>5, <2>1, <2>2, UntouchedKept
  <2>8. Alone(u)'
    BY <1>5, <2>6 DEF Alone, CallsKept
  <2> QED
    BY <2>4, <2>6, <2>7, <2>8 DEF Turn
<1> QED
  BY <1>2, <1>3, <1>4, <1>5 DEF AnsInv, CallsKept

-----------------------------------------------------------------------------
(* The provider's steps *)

\* A channel's descriptor is one of the connections.
LEMMA OwnedConn ==
    ASSUME RpcInv, NEW ch \in Channel, m_clientFd[ch] # None
    PROVE  m_clientFd[ch] \in DOMAIN conns
BY DEF RpcInv, CallersTyped

LEMMA NothingGrows ==
    ASSUME RpcInv, UNCHANGED <<stops, handled>>
    PROVE  Grow
BY DEF RpcInv, CallersTyped, Grow

\* Steps that touch no connection of a channel.
LEMMA ProviderTouchesNone ==
    ASSUME AnsInv, Grow, UNCHANGED <<channelVars, callerVars>>,
           \A ch \in Channel : m_clientFd[ch] # None => Untouched(m_clientFd[ch])
    PROVE  AnsInv'
<1>1. ASSUME NEW ch \in Channel, m_clientFd[ch] # None
      PROVE  LET c == m_clientFd[ch]
             IN  /\ conns'[c].client = conns[c].client
                 /\ \/ conns'[c].server = conns[c].server /\ (Gone(c) => Gone(c)')
                    \/ Gone(c)'
                 /\ Quiet(c) => Quiet(c)'
                 /\ \A t \in Thread : pc[t] # "idle" /\ Expects(c, call[t]) => Expects(c, call[t])'
  <2>1. PICK c : c = m_clientFd[ch]
    OBVIOUS
  <2>2. m_clientFd' = m_clientFd /\ call' = call
    BY DEF channelVars, callerVars
  <2>3. /\ conns'[c].client = conns[c].client /\ conns'[c].server = conns[c].server
        /\ Gone(c) => Gone(c)'
        /\ Quiet(c) => Quiet(c)'
        /\ \A q : Expects(c, q) => Expects(c, q)'
    BY <1>1, <2>1, UntouchedKept
  <2>4. ASSUME NEW t \in Thread, Expects(c, call[t])
        PROVE  Expects(c, call[t])'
    <3>1. PICK q : q = call[t]
      OBVIOUS
    <3>2. Expects(c, q)'
      BY <2>3, <2>4, <3>1
    <3> QED
      BY <2>2, <3>1, <3>2
  <2> QED
    BY <2>1, <2>2, <2>3, <2>4
<1> QED
  BY <1>1, ProviderKeepsAnswers

LEMMA NotifyServiceAnswers ==
    ASSUME RpcInv, AnsInv, NEW n \in DOMAIN Offered, NotifyService(n)
    PROVE  AnsInv'
<1>1. UNCHANGED <<channelVars, callerVars, conns, loops, stops, handled>>
  BY DEF NotifyService, history
<1>2. \A c : Untouched(c)
  BY <1>1 DEF Untouched, SameEnds, Serves
<1> QED
  BY <1>1, <1>2, NothingGrows, ProviderTouchesNone

LEMMA RunAnswers ==
    ASSUME RpcInv, AnsInv, Run
    PROVE  AnsInv'
<1>1. UNCHANGED <<channelVars, callerVars, conns, loops, stops, handled>>
  BY DEF Run, history
<1>2. \A c : Untouched(c)
  BY <1>1 DEF Untouched, SameEnds, Serves
<1> QED
  BY <1>1, <1>2, NothingGrows, ProviderTouchesNone

\* Only a connection whose client has closed is closed so, and it is no channel's.
LEMMA OnConnectionAnswers ==
    ASSUME RpcInv, AnsInv, NEW k \in DOMAIN conns, OnConnection(k)
    PROVE  AnsInv'
<1>1. /\ UNCHANGED <<channelVars, callerVars, loops, stops, handled>>
      /\ ~conns[k].client /\ conns' = [conns EXCEPT ![k].server = FALSE]
  BY DEF OnConnection, serverVars, history
<1>2. ASSUME NEW ch \in Channel, m_clientFd[ch] # None
      PROVE  Untouched(m_clientFd[ch])
  <2>1. m_clientFd[ch] \in DOMAIN conns /\ m_clientFd[ch] # k
    BY <1>1, <1>2, OwnedConn DEF AnsInv, HasOwn
  <2>2. conns = [c \in DOMAIN conns |-> conns[c]]
    BY ConnsDomain DEF RpcInv
  <2>3. PICK c : c = m_clientFd[ch]
    OBVIOUS
  <2>4. conns'[c] = conns[c]
    BY <1>1, <2>1, <2>2, <2>3
  <2>5. Untouched(c)
    BY <1>1, <2>4 DEF Untouched, SameEnds, Serves
  <2> QED
    BY <2>3, <2>5
<1> QED
  BY <1>1, <1>2, NothingGrows, ProviderTouchesNone

\* The end of the provider takes what is under way, but for an answer that it has
\* sent.
LEMMA StopAnswers ==
    ASSUME RpcInv, AnsInv, Stop
    PROVE  AnsInv'
<1>1. /\ UNCHANGED <<channelVars, callerVars, handled>> /\ stops' = stops + 1
      /\ loops' = [l \in Loop |-> None]
      /\ conns' = [c \in DOMAIN conns |-> [conns[c] EXCEPT !.server = FALSE, !.up = <<>>]]
  BY DEF Stop
<1>2. Grow /\ stops' > 0
  <2>1. stops \in Nat
    BY DEF RpcInv, CallersTyped
  <2>2. stops' = stops + 1 /\ handled' = handled
    BY <1>1
  <2>3. stops' \in Nat /\ stops' >= stops /\ stops' > 0
    BY <2>1, <2>2
  <2> QED
    BY <2>1, <2>2, <2>3 DEF Grow
<1>3. ASSUME NEW ch \in Channel, m_clientFd[ch] # None
      PROVE  LET c == m_clientFd[ch]
             IN  /\ conns'[c].client = conns[c].client
                 /\ \/ conns'[c].server = conns[c].server /\ (Gone(c) => Gone(c)')
                    \/ Gone(c)'
                 /\ Quiet(c) => Quiet(c)'
                 /\ \A t \in Thread : pc[t] # "idle" /\ Expects(c, call[t]) => Expects(c, call[t])'
  <2>1. PICK c : c = m_clientFd[ch]
    OBVIOUS
  <2>2. c \in DOMAIN conns /\ DOMAIN conns[c] = {"up", "down", "client", "server", "loop", "channel", "raced"}
    BY <1>3, <2>1, OwnedConn DEF RpcInv, ConnsTyped, GoodConn
  <2>3. /\ conns'[c].up = <<>> /\ conns'[c].down = conns[c].down
        /\ conns'[c].client = conns[c].client
    BY <1>1, <2>2
  <2>4. /\ \A l \in Loop : ~Serves(l, c)'
        /\ \A a : ~Starts(conns'[c].up, a)
    BY <1>1, <2>3, NothingUnderWay DEF Serves
  <2>5. Gone(c)'
    BY <1>2, <2>3, <2>4 DEF Gone
  <2>6. conns[c].down = <<>> => Quiet(c)'
    BY <2>3, <2>4 DEF Quiet
  <2>7. Quiet(c) => Quiet(c)'
    BY <2>6 DEF Quiet
  <2>8. ASSUME NEW q, Expects(c, q)
        PROVE  Expects(c, q)'
    <3>1. CASE conns[c].down = <<>>
      BY <2>6, <3>1 DEF Expects
    <3>2. CASE IsAnswered(c, q)
      <4>1. IsAnswered(c, q)'
        BY <1>1, <2>3, <2>4, <3>2 DEF IsAnswered, Fits, NoArguments
      <4> QED
        BY <4>1 DEF Expects
    <3> QED
      BY <2>8, <3>1, <3>2 DEF Expects, Quiet, Underway, BeingHandled
  <2>9. m_clientFd' = m_clientFd /\ call' = call
    BY <1>1 DEF channelVars, callerVars
  <2>10. ASSUME NEW t \in Thread, Expects(c, call[t])
         PROVE  Expects(c, call[t])'
    <3>1. PICK q : q = call[t]
      OBVIOUS
    <3>2. Expects(c, q)'
      BY <2>8, <2>10, <3>1
    <3> QED
      BY <2>9, <3>1, <3>2
  <2> QED
    BY <2>1, <2>3, <2>5, <2>7, <2>9, <2>10
<1> QED
  BY <1>1, <1>2, <1>3, ProviderKeepsAnswers

\* Where a loop finds a request, a size comes first.
LEMMA TakenStarts ==
    ASSUME Served, NEW up, IsSeq(up), NEW size \in 1..Len(up),
           NEW r \in RequestIn(SubSeq(up, 1, size))
    PROVE  Starts(up, 0)
<1> DEFINE v == SubSeq(up, 0 + 1, size)
<1>1. /\ size \in Nat /\ 0 \in Nat /\ 0 <= size /\ size <= Len(up) /\ size - 0 = size /\ 0 + 1 = 1
      /\ 0 < Len(up)
  BY SeqParts
<1>2. \A i \in 1..(size - 0) : v[i] = up[0 + i]
  BY <1>1, Piece
<1>3. v = SubSeq(up, 1, size)
  BY <1>1, Zenon
<1> HIDE DEF v
<1>4. 1 \in 1..(size - 0)
  BY <1>1
<1>5. v[1] = up[0 + 1]
  BY <1>2, <1>4
<1>6. v[1][1] = 0
  BY <1>3, NothingFound
<1> QED
  BY <1>1, <1>5, <1>6 DEF Starts

\* The bytes a loop takes from connection c, and what is left of them.
Takes(c, up, size, rest) ==
    /\ up = conns[c].up /\ IsSeq(up) /\ size \in 1..Len(up)
    /\ rest = SubSeq(up, size + 1, Len(up))
    /\ conns'[c].up = rest /\ conns'[c].down = conns[c].down

\* It finds no request in them.
LEMMA TakesNone ==
    ASSUME NEW c, NEW up, NEW size, NEW rest, Takes(c, up, size, rest), UNCHANGED <<loops, handled>>
    PROVE  /\ Quiet(c) => Quiet(c)'
           /\ \A q : (\E n \in Nat \ {0} : q.method \in ServiceMethods /\ q.args \in Asked(q.method, n))
                        /\ Expects(c, q) => Expects(c, q)'
<1>1. /\ Len(up) \in Nat /\ size \in Nat \ {0} /\ size <= Len(up)
  BY SeqParts DEF Takes
<1>2. /\ \A a : Starts(rest, a) => a \in Nat /\ Starts(up, size + a)
      /\ \A a \in Nat : \A p : IsSeq(p) => (Stands(rest, a, p) <=> Stands(up, size + a, p))
  <2>1. size \in 0..Len(up)
    BY <1>1
  <2> QED
    BY <2>1, RestOfWire DEF Takes
<1>3. (\A a \in Nat : ~Starts(up, a)) => \A a \in Nat : ~Starts(rest, a)
  <2>1. \A a \in Nat : size + a \in Nat
    BY <1>1
  <2> QED
    BY <1>2, <2>1
<1>4. \A l : Serves(l, c)' <=> Serves(l, c)
  BY DEF Serves
<1>5. /\ conns'[c].down = conns[c].down /\ conns'[c].up = rest /\ conns[c].up = up
      /\ loops' = loops /\ handled' = handled
  BY DEF Takes
<1>6. Quiet(c) => Quiet(c)'
  BY <1>3, <1>4, <1>5 DEF Quiet
<1>7. ASSUME NEW q, BeingHandled(c, q)
      PROVE  BeingHandled(c, q)'
  BY <1>3, <1>4, <1>5, <1>7 DEF BeingHandled, Fits, NoArguments
<1>8. ASSUME NEW q, IsAnswered(c, q)
      PROVE  IsAnswered(c, q)'
  BY <1>3, <1>4, <1>5, <1>8 DEF IsAnswered, Fits, NoArguments
<1>9. ASSUME NEW q, NEW n \in Nat \ {0}, q.method \in ServiceMethods, q.args \in Asked(q.method, n),
             Underway(c, q)
      PROVE  Underway(c, q)' \/ Quiet(c)'
  <2>1. PICK p : p = Packet(q.method, q.args)
    OBVIOUS
  <2>2. IsSeq(p)
    BY <1>9, <2>1, PacketParts
  <2>3. PICK a \in Nat : Stands(up, a, p) /\ \A b \in Nat : Starts(up, b) => b = a
    BY <1>5, <1>9, <2>1 DEF Underway
  <2>4. CASE a >= size
    <3>1. a - size \in Nat /\ size + (a - size) = a
      BY <1>1, <2>4
    <3>2. Stands(rest, a - size, p)
      BY <1>2, <2>2, <2>3, <3>1
    <3>3. ASSUME NEW b \in Nat, Starts(rest, b)
          PROVE  b = a - size
      <4>1. size + b \in Nat /\ Starts(up, size + b)
        BY <1>1, <1>2, <3>3
      <4>2. size + b = a
        BY <2>3, <4>1
      <4> QED
        BY <1>1, <4>2
    <3> QED
      BY <1>4, <1>5, <1>9, <2>1, <3>1, <3>2, <3>3 DEF Underway
  <2>5. CASE ~(a >= size)
    <3>1. ASSUME NEW b \in Nat, Starts(rest, b)
          PROVE  FALSE
      <4>1. size + b \in Nat /\ Starts(up, size + b)
        BY <1>1, <1>2, <3>1
      <4>2. size + b = a
        BY <2>3, <4>1
      <4> QED
        BY <1>1, <2>5, <4>2
    <3> QED
      BY <1>4, <1>5, <1>9, <3>1 DEF Underway, Quiet
  <2> QED
    BY <2>4, <2>5
<1> QED
  BY <1>6, <1>7, <1>8, <1>9 DEF Expects

\* It finds one: that of the call.
LEMMA TakesOne ==
    ASSUME Served, NEW c, NEW up, NEW size, NEW rest, Takes(c, up, size, rest),
           NEW r \in RequestIn(SubSeq(up, 1, size)), NEW l \in Loop,
           loops' = [loops EXCEPT ![l] = [conn |-> c, request |-> r]],
           loops = [k \in Loop |-> loops[k]], [conn |-> c, request |-> r] # None
    PROVE  /\ ~Quiet(c)
           /\ \A q : (\E n \in Nat \ {0} : q.method \in ServiceMethods /\ q.args \in Asked(q.method, n))
                        /\ Expects(c, q) => Expects(c, q)'
<1>1. /\ Len(up) \in Nat /\ size \in Nat \ {0} /\ size <= Len(up) /\ IsSeq(up)
      /\ conns'[c].down = conns[c].down /\ conns'[c].up = rest /\ conns[c].up = up
      /\ 0 \in Nat
  BY SeqParts DEF Takes
<1>2. Starts(up, 0)
  BY TakenStarts DEF Takes
<1>3. ~Quiet(c) /\ \A q : ~BeingHandled(c, q) /\ ~IsAnswered(c, q)
  BY <1>1, <1>2 DEF Quiet, BeingHandled, IsAnswered
<1>4. PICK x : x = [conn |-> c, request |-> r]
  OBVIOUS
<1>5. /\ x # None /\ x.conn = c /\ x.request = r
      /\ loops'[l] = x /\ \A k \in Loop : k # l => loops'[k] = loops[k]
  <2>1. x # None /\ x.conn = c /\ x.request = r
    BY <1>4
  <2>2. loops' = [loops EXCEPT ![l] = x]
    BY <1>4
  <2> QED
    BY <2>1, <2>2
<1>6. ASSUME NEW q, NEW n \in Nat \ {0}, q.method \in ServiceMethods, q.args \in Asked(q.method, n),
             Underway(c, q)
      PROVE  BeingHandled(c, q)'
  <2>1. PICK a \in Nat : /\ Stands(up, a, Packet(q.method, q.args))
                         /\ \A b \in Nat : Starts(up, b) => b = a
    BY <1>1, <1>6 DEF Underway
  <2>2. a = 0
    BY <1>1, <1>2, <2>1
  <2>3. /\ r.method = q.method
        /\ r.args = q.args \/ r.args = Clear(Request(q.method))
    <3>1. Stands(up, 0, Packet(q.method, q.args))
      BY <2>1, <2>2
    <3>2. size \in 1..Len(up)
      BY <1>1
    <3> QED
      BY <1>1, <1>6, <3>1, <3>2, RequestFound
  <2>4. Fits(r, q)
    BY <2>3 DEF Fits, NoArguments
  <2>5. ASSUME NEW b \in Nat, Starts(rest, b)
        PROVE  FALSE
    <3>1. size \in 0..Len(up)
      BY <1>1
    <3>2. Starts(up, size + b)
      BY <1>1, <2>5, <3>1, RestOfWire DEF Takes
    <3>3. size + b \in Nat /\ size + b # 0
      BY <1>1
    <3> QED
      BY <2>1, <2>2, <3>2, <3>3
  <2>6. conns'[c].down = <<>>
    BY <1>1, <1>6 DEF Underway
  <2>7. Serves(l, c)' /\ \A k \in Loop : Serves(k, c)' => k = l
    BY <1>5, <1>6 DEF Underway, Serves
  <2>8. Fits(loops'[l].request, q)
    BY <1>5, <2>4
  <2> QED
    BY <1>1, <2>5, <2>6, <2>7, <2>8 DEF BeingHandled, Fits, NoArguments
<1> QED
  BY <1>3, <1>6 DEF Expects

\* A loop takes bytes of connection k. Those of the other channels stay.
LEMMA OnMessageAnswers ==
    ASSUME RpcInv, CallInv, AnsInv, NEW k \in DOMAIN conns,
           NEW data \in Prefixes(conns[k].up) \ {<<>>}, OnMessage(k, data)
    PROVE  AnsInv'
<1>0. PICK l : l = conns[k].loop
  OBVIOUS
<1>1. PICK up : up = conns[k].up
  OBVIOUS
<1>2. IsSeq(up) /\ Len(up) \in Nat
  BY <1>1, SeqParts DEF CallInv, WiresOf, WholeUpTo
<1>3. PICK size \in 1..Len(up) : data = SubSeq(up, 1, size) /\ Len(data) = size
  <2>1. PICK size \in 0..Len(up) : data = SubSeq(up, 1, size)
    BY <1>1 DEF Prefixes
  <2> DEFINE v == SubSeq(up, 0 + 1, size)
  <2>2. size \in Nat /\ 0 \in Nat /\ 0 <= size /\ size <= Len(up)
    BY <1>2
  <2>3. IsSeq(v) /\ Len(v) = size - 0
    BY <1>2, <2>2, Piece
  <2>4. size - 0 = size /\ 0 + 1 = 1
    OBVIOUS
  <2>5. v = data
    BY <2>1, <2>4, Zenon
  <2> HIDE DEF v
  <2>6. IsSeq(data) /\ Len(data) = size
    BY <2>3, <2>4, <2>5, Zenon
  <2>7. size # 0
    BY <2>6, EmptyPiece
  <2> QED
    BY <2>1, <2>2, <2>6, <2>7
<1>4. PICK rest : rest = SubSeq(up, size + 1, Len(up))
  OBVIOUS
<1>5. /\ loops[l] = None /\ conns' = [conns EXCEPT ![k].up = rest]
      /\ \/ \E r \in RequestIn(data) : loops' = [loops EXCEPT ![l] = [conn |-> k, request |-> r]]
         \/ UNCHANGED loops
      /\ UNCHANGED <<channelVars, callerVars, stops, handled>>
  BY <1>0, <1>1, <1>3, <1>4 DEF OnMessage
<1>6. /\ DOMAIN conns[k] = {"up", "down", "client", "server", "loop", "channel", "raced"} /\ l \in Loop
      /\ conns = [c \in DOMAIN conns |-> conns[c]] /\ loops = [m \in Loop |-> loops[m]]
      /\ Served
  BY <1>0, ConnsDomain DEF RpcInv, ConnsTyped, GoodConn, CallInv, Shape
<1>7. /\ conns'[k].up = rest /\ conns'[k].down = conns[k].down
      /\ conns'[k].client = conns[k].client /\ conns'[k].server = conns[k].server
      /\ \A c \in DOMAIN conns : c # k => conns'[c] = conns[c]
  BY <1>5, <1>6
<1>8. Takes(k, up, size, rest)
  BY <1>1, <1>2, <1>4, <1>7 DEF Takes
<1>9. \A m \in Loop : m # l => loops'[m] = loops[m]
  BY <1>5, <1>6
<1>10. ASSUME NEW c \in DOMAIN conns, c # k
       PROVE  Untouched(c)
  <2>1. ~Serves(l, c) /\ ~Serves(l, c)'
    <3>1. CASE UNCHANGED loops
      BY <1>5, <3>1 DEF Serves
    <3>2. ASSUME NEW r, loops' = [loops EXCEPT ![l] = [conn |-> k, request |-> r]]
          PROVE  ~Serves(l, c) /\ ~Serves(l, c)'
      <4>1. loops'[l] = [conn |-> k, request |-> r]
        BY <1>6, <3>2
      <4>2. loops'[l].conn = k
        BY <4>1
      <4> QED
        BY <1>5, <1>10, <4>2 DEF Serves
    <3> QED
      BY <1>5, <3>1, <3>2
  <2>2. \A m \in Loop : (Serves(m, c)' <=> Serves(m, c))
                        /\ (Serves(m, c) => loops'[m].request = loops[m].request)
    BY <1>9, <2>1 DEF Serves
  <2> QED
    BY <1>7, <1>10, <2>2 DEF Untouched, SameEnds
<1>11. /\ Quiet(k) => Quiet(k)'
       /\ \A q : (\E n \in Nat \ {0} : q.method \in ServiceMethods /\ q.args \in Asked(q.method, n))
                    /\ Expects(k, q) => Expects(k, q)'
  <2>1. CASE UNCHANGED loops
    <3>1. UNCHANGED <<loops, handled>>
      BY <1>5, <2>1
    <3> QED
      BY <1>8, <3>1, TakesNone
  <2>2. ASSUME NEW r \in RequestIn(data), loops' = [loops EXCEPT ![l] = [conn |-> k, request |-> r]]
        PROVE  /\ Quiet(k) => Quiet(k)'
               /\ \A q : (\E n \in Nat \ {0} : q.method \in ServiceMethods /\ q.args \in Asked(q.method, n))
                            /\ Expects(k, q) => Expects(k, q)'
    <3>1. CASE [conn |-> k, request |-> r] = None
      <4>1. loops' = loops
        BY <1>5, <1>6, <2>2, <3>1
      <4> QED
        BY <2>1, <4>1
    <3>2. CASE [conn |-> k, request |-> r] # None
      <4>1. r \in RequestIn(SubSeq(up, 1, size))
        BY <1>3
      <4> QED
        BY <1>6, <1>8, <2>2, <3>2, <4>1, TakesOne
    <3> QED
      BY <3>1, <3>2
  <2> QED
    BY <1>5, <2>1, <2>2
<1>12. Grow
  BY <1>5, NothingGrows
<1>13. ASSUME NEW ch \in Channel, m_clientFd[ch] # None
       PROVE  LET c == m_clientFd[ch]
              IN  /\ conns'[c].client = conns[c].client
                  /\ \/ conns'[c].server = conns[c].server /\ (Gone(c) => Gone(c)')
                     \/ Gone(c)'
                  /\ Quiet(c) => Quiet(c)'
                  /\ \A t \in Thread : pc[t] # "idle" /\ Expects(c, call[t]) => Expects(c, call[t])'
  <2>1. PICK c : c = m_clientFd[ch]
    OBVIOUS
  <2>2. c \in DOMAIN conns /\ m_clientFd' = m_clientFd /\ call' = call
    BY <1>5, <1>13, <2>1, OwnedConn DEF channelVars, callerVars
  <2>3. ASSUME NEW t \in Thread, pc[t] # "idle", Expects(c, call[t])
        PROVE  Expects(c, call[t])'
    <3>1. PICK q : q = call[t]
      OBVIOUS
    <3>2. PICK n \in 1..begun : q.method \in ServiceMethods /\ q.args \in Asked(q.method, n)
      BY <2>3, <3>1 DEF CallInv, CallsOf
    <3>3. n \in Nat \ {0} /\ Expects(c, q)
      BY <2>3, <3>1
    <3>4. Expects(c, q)'
      BY <1>10, <1>11, <1>12, <2>2, <3>2, <3>3, UntouchedKept
    <3> QED
      BY <2>2, <3>1, <3>4
  <2>4. Quiet(c) => Quiet(c)'
    BY <1>10, <1>11, <1>12, <2>2, UntouchedKept
  <2>5. /\ conns'[c].client = conns[c].client /\ conns'[c].server = conns[c].server
        /\ Gone(c) => Gone(c)'
    <3>1. CASE c = k
      <4>1. ~Gone(c)
        BY <1>1, <1>2, <3>1, EmptyIsSeq DEF Gone
      <4> QED
        BY <1>7, <3>1, <4>1
    <3>2. CASE c # k
      BY <1>10, <1>12, <2>2, <3>2, UntouchedKept
    <3> QED
      BY <3>1, <3>2
  <2> QED
    BY <2>1, <2>2, <2>3, <2>4, <2>5
<1> QED
  BY <1>5, <1>12, <1>13, ProviderKeepsAnswers

\* A handler ends: the answer is to what its connection's call has asked.
LEMMA HandlerAnswers ==
    ASSUME RpcInv, CallInv, AnsInv, NEW l \in Loop, Handler(l)
    PROVE  AnsInv'
<1>1. PICK k, r : k = loops[l].conn /\ r = loops[l].request
  OBVIOUS
<1>2. /\ loops[l] # None /\ loops' = [loops EXCEPT ![l] = None]
      /\ UNCHANGED <<channelVars, callerVars, stops>>
  BY DEF Handler
<1>3. PICK reply \in Answers(r.method, Number(r)) :
          /\ SendRpcResponse(k, SerializeToString(Response(r.method), reply))
          /\ handled' = Append(handled, [method |-> r.method, args |-> r.args, reply |-> reply])
  BY <1>1 DEF Handler
<1>4. PICK wire : wire = SerializeToString(Response(r.method), reply)
  OBVIOUS
<1>5. r.method \in ServiceMethods
  BY <1>1, <1>2 DEF CallInv, LoopsOf, OfSomeCall
<1>6. /\ IsSeq(wire)
      /\ \A old : Parsed(Response(r.method), old, wire) = reply
  <2>1. PICK n : n = Number(r)
    OBVIOUS
  <2> QED
    BY <1>3, <1>4, <1>5, <2>1, AnswerBack
<1>7. PICK h : h = [method |-> r.method, args |-> r.args, reply |-> reply]
  OBVIOUS
<1>8. h \in Range(handled') /\ \A g \in Range(handled) : g \in Range(handled')
  <2>1. PICK d, e : d = handled /\ e = handled'
    OBVIOUS
  <2>2. d \in Seq(Range(d)) /\ e = Append(d, h)
    BY <1>3, <1>7, <2>1 DEF CallInv, Shape, IsSeq
  <2>3. /\ Len(d) \in Nat /\ DOMAIN d = 1..Len(d) /\ DOMAIN e = 1..(Len(d) + 1)
        /\ \A i \in 1..Len(d) : e[i] = d[i]
        /\ e[Len(d) + 1] = h
    BY <2>2
  <2>4. Len(d) + 1 \in DOMAIN e /\ \A i \in DOMAIN d : i \in DOMAIN e /\ e[i] = d[i]
    BY <2>3
  <2>5. h \in Range(e)
    BY <2>3, <2>4 DEF Range
  <2>6. \A g \in Range(d) : g \in Range(e)
    BY <2>4 DEF Range
  <2> QED
    BY <2>1, <2>5, <2>6
<1>9. Grow
  <2>1. stops \in Nat /\ stops' = stops
    BY <1>2 DEF RpcInv, CallersTyped
  <2>2. stops' \in Nat /\ stops' >= stops
    BY <2>1
  <2> QED
    BY <1>8, <2>1, <2>2 DEF Grow
<1>10. loops'[l] = None /\ \A m \in Loop : m # l => loops'[m] = loops[m]
  BY <1>2 DEF CallInv, Shape
<1>11. conns' = IF conns[k].server /\ conns[k].client
                THEN [conns EXCEPT ![k].down = @ \o wire] ELSE conns
  BY <1>3, <1>4 DEF SendRpcResponse
<1>12. conns = [c \in DOMAIN conns |-> conns[c]]
  BY ConnsDomain DEF RpcInv
<1>13. ASSUME NEW c \in DOMAIN conns, c # k
       PROVE  Untouched(c)
  <2>1. conns'[c] = conns[c]
    BY <1>11, <1>12, <1>13
  <2>2. ~Serves(l, c) /\ ~Serves(l, c)'
    BY <1>1, <1>10, <1>13 DEF Serves
  <2>3. ASSUME NEW m \in Loop
        PROVE  (Serves(m, c)' <=> Serves(m, c)) /\ (Serves(m, c) => loops'[m].request = loops[m].request)
    <3>1. CASE m = l
      BY <2>2, <3>1
    <3>2. CASE m # l
      BY <1>10, <3>2 DEF Serves
    <3> QED
      BY <3>1, <3>2
  <2> QED
    BY <2>1, <2>3 DEF Untouched, SameEnds
<1>14. Serves(l, k)
  BY <1>1, <1>2 DEF Serves
<1>15. ~Quiet(k) /\ ~Gone(k) /\ \A q : ~Underway(k, q) /\ ~IsAnswered(k, q)
  BY <1>14 DEF Quiet, Gone, Underway, IsAnswered
<1>16. ASSUME NEW q, Expects(k, q), k \in DOMAIN conns, conns[k].client, conns[k].server
       PROVE  Expects(k, q)'
  <2>1. BeingHandled(k, q)
    BY <1>15, <1>16 DEF Expects
  <2>2. Fits(r, q) /\ \A m \in Loop : Serves(m, k) => m = l
    BY <1>1, <1>14, <2>1 DEF BeingHandled
  <2>3. DOMAIN conns[k] = {"up", "down", "client", "server", "loop", "channel", "raced"}
    BY <1>16 DEF RpcInv, ConnsTyped, GoodConn
  <2>4. PICK x : x = conns[k].down \o wire
    OBVIOUS
  <2>5. conns' = [conns EXCEPT ![k].down = x]
    BY <1>11, <1>16, <2>4
  <2>6. conns'[k].down = x /\ conns'[k].up = conns[k].up
    BY <1>12, <1>16, <2>3, <2>5
  <2>7. x = wire
    <3>1. PICK e : e = conns[k].down
      OBVIOUS
    <3>2. e = <<>>
      BY <2>1, <3>1 DEF BeingHandled
    <3>3. wire \in Seq(Range(wire))
      BY <1>6 DEF IsSeq
    <3>4. <<>> \o wire = wire
      BY <3>3
    <3> QED
      BY <2>4, <3>1, <3>2, <3>4
  <2>8. ASSUME NEW m \in Loop, Serves(m, k)'
        PROVE  FALSE
    <3>1. CASE m = l
      BY <1>10, <2>8, <3>1 DEF Serves
    <3>2. CASE m # l
      BY <1>10, <2>2, <2>8, <3>2 DEF Serves
    <3> QED
      BY <3>1, <3>2
  <2>9. \A a \in Nat : ~Starts(conns'[k].up, a)
    BY <2>1, <2>6 DEF BeingHandled
  <2>10. IsSeq(conns'[k].down)
    BY <1>6, <2>6, <2>7
  <2>11. \E g \in Range(handled') :
            /\ Fits(g, q)
            /\ \A old : Parsed(Response(q.method), old, conns'[k].down) = g.reply
    <3>1. h.method = r.method /\ h.args = r.args /\ h.reply = reply
      BY <1>7
    <3>2. Fits(h, q)
      BY <2>2, <3>1 DEF Fits, NoArguments
    <3>3. r.method = q.method
      BY <2>2 DEF Fits
    <3>4. \A old : Parsed(Response(q.method), old, conns'[k].down) = h.reply
      BY <1>6, <2>6, <2>7, <3>1, <3>3
    <3> QED
      BY <1>8, <3>2, <3>4
  <2>12. IsAnswered(k, q)'
    BY <2>8, <2>9, <2>10, <2>11 DEF IsAnswered, Fits, NoArguments
  <2> QED
    BY <2>12 DEF Expects
<1>17. ASSUME NEW ch \in Channel, m_clientFd[ch] # None
       PROVE  LET c == m_clientFd[ch]
              IN  /\ conns'[c].client = conns[c].client
                  /\ \/ conns'[c].server = conns[c].server /\ (Gone(c) => Gone(c)')
                     \/ Gone(c)'
                  /\ Quiet(c) => Quiet(c)'
                  /\ \A t \in Thread : pc[t] # "idle" /\ Expects(c, call[t]) => Expects(c, call[t])'
  <2>1. PICK c : c = m_clientFd[ch]
    OBVIOUS
  <2>2. c \in DOMAIN conns /\ m_clientFd' = m_clientFd /\ call' = call
    BY <1>2, <1>17, <2>1, OwnedConn DEF channelVars, callerVars
  <2>3. conns[c].client /\ (conns[c].server \/ Gone(c))
    BY <1>17, <2>1 DEF AnsInv, HasOwn
  <2>4. CASE c # k
    <3>1. /\ conns'[c].client = conns[c].client /\ conns'[c].server = conns[c].server
          /\ Gone(c) => Gone(c)'
          /\ Quiet(c) => Quiet(c)'
          /\ \A q : Expects(c, q) => Expects(c, q)'
      BY <1>9, <1>13, <2>2, <2>4, UntouchedKept
    <3>2. ASSUME NEW t \in Thread, Expects(c, call[t])
          PROVE  Expects(c, call[t])'
      <4>1. PICK q : q = call[t]
        OBVIOUS
      <4>2. Expects(c, q)'
        BY <3>1, <3>2, <4>1
      <4> QED
        BY <2>2, <4>1, <4>2
    <3> QED
      BY <2>1, <2>2, <3>1, <3>2
  <2>5. CASE c = k
    <3>1. conns[k].client /\ conns[k].server /\ k \in DOMAIN conns
      BY <1>15, <2>2, <2>3, <2>5
    <3>2. conns'[c].client = conns[c].client /\ conns'[c].server = conns[c].server
      <4>1. DOMAIN conns[k] = {"up", "down", "client", "server", "loop", "channel", "raced"}
        BY <3>1 DEF RpcInv, ConnsTyped, GoodConn
      <4>2. PICK x : x = conns[k].down \o wire
        OBVIOUS
      <4>3. conns' = [conns EXCEPT ![k].down = x]
        BY <1>11, <3>1, <4>2
      <4> QED
        BY <1>12, <2>5, <3>1, <4>1, <4>3
    <3>3. ASSUME NEW t \in Thread, Expects(c, call[t])
          PROVE  Expects(c, call[t])'
      <4>1. PICK q : q = call[t]
        OBVIOUS
      <4>2. Expects(k, q)
        BY <2>5, <3>3, <4>1
      <4>3. Expects(k, q)'
        BY <1>16, <3>1, <4>2
      <4> QED
        BY <2>2, <2>5, <4>1, <4>3
    <3>4. ~Gone(c) /\ ~Quiet(c)
      BY <1>15, <2>5
    <3> QED
      BY <2>1, <2>2, <3>2, <3>3, <3>4
  <2> QED
    BY <2>4, <2>5
<1> QED
  BY <1>2, <1>9, <1>17, ProviderKeepsAnswers

-----------------------------------------------------------------------------
(* The callers' steps *)

\* A step of thread t, which is alone on its channel unless calls have crossed there.
LEMMA ThreadKeepsAnswers ==
    ASSUME RpcInv, AnsInv, NEW t \in Thread, UNCHANGED <<loops, stops, handled>>,
           OthersKept(ChannelOf[t]), DOMAIN response' = Thread,
           crossed' \ {ChannelOf[t]} = crossed \ {ChannelOf[t]},
           \A u \in Thread : u # t => pc'[u] = pc[u] /\ at'[u] = at[u] /\ call'[u] = call[u],
           m_clientFd'[ChannelOf[t]] # None =>
             /\ conns'[m_clientFd'[ChannelOf[t]]].client
             /\ conns'[m_clientFd'[ChannelOf[t]]].server \/ Gone(m_clientFd[ChannelOf[t]])',
           ChannelOf[t] \notin crossed' => Alone(t),
           Turn(t)', Resting(ChannelOf[t])'
    PROVE  AnsInv'
<1>1. PICK ch \in Channel : ch = ChannelOf[t]
  BY RpcAssumption
<1>2. CallsKept(ch)
  BY <1>1 DEF CallsKept
<1>3. ASSUME NEW u \in Thread, ChannelOf[u] = ch
      PROVE  Turn(u)'
  <2>1. CASE u = t
    BY <2>1
  <2>2. CASE u # t /\ ch \notin crossed'
    <3>1. pc'[u] = "idle"
      BY <1>1, <1>3, <2>2 DEF Alone
    <3> QED
      BY <3>1 DEF Turn
  <2>3. CASE ch \in crossed'
    BY <1>3, <2>3 DEF Turn
  <2> QED
    BY <2>1, <2>2, <2>3
<1>4. m_clientFd'[ch] # None => /\ conns'[m_clientFd'[ch]].client
                                /\ conns'[m_clientFd'[ch]].server \/ Gone(m_clientFd[ch])'
  BY <1>1
<1>5. Grow /\ OthersKept(ch) /\ loops' = loops
  BY <1>1, NothingGrows
<1>6. Resting(ch)'
  BY <1>1 DEF Resting, Quiet, Serves
<1> QED
  BY <1>2, <1>3, <1>4, <1>5, <1>6, ChannelKeepsAnswers

\* A call that goes on: nothing is to be shown of the channel at rest.
LEMMA NotResting ==
    ASSUME NEW t \in Thread, pc'[t] # "idle"
    PROVE  Resting(ChannelOf[t])'
BY DEF Resting

\* A new connection is no channel's, and nothing is under way on it.
LEMMA ConnectedAnswers ==
    ASSUME RpcInv, NEW ch \in Channel, Connected(ch), loops' = loops
    PROVE  /\ OthersKept(ch)
           /\ m_clientFd'[ch] # None
           /\ conns'[m_clientFd'[ch]].client /\ conns'[m_clientFd'[ch]].server
           /\ Quiet(m_clientFd[ch])'
           /\ crossed' \ {ch} = crossed \ {ch}
<1>1. PICK k : k = Len(conns) + 1
  OBVIOUS
<1>2. PICK x : x = NewConn(ch)
  OBVIOUS
<1>3. PICK d, e : d = conns /\ e = conns'
  OBVIOUS
<1>4. e = Append(d, x) /\ m_clientFd' = [m_clientFd EXCEPT ![ch] = k]
  BY <1>1, <1>2, <1>3 DEF Connected
<1>5. d \in Seq(Range(d)) /\ k = Len(d) + 1
  BY <1>1, <1>3 DEF RpcInv, ConnsTyped
<1>6. /\ Len(d) \in Nat /\ DOMAIN d = 1..Len(d)
      /\ \A c \in 1..Len(d) : e[c] = d[c]
      /\ e[k] = x
  BY <1>4, <1>5
<1>7. k \in Nat /\ k \notin DOMAIN d /\ k # None
  BY <1>5, <1>6, RpcAssumption
<1>8. /\ m_clientFd'[ch] = k
      /\ \A other \in Channel \ {ch} : m_clientFd'[other] = m_clientFd[other]
      /\ \A other \in Channel : m_clientFd[other] \in DOMAIN d \cup {None}
  BY <1>3, <1>4 DEF RpcInv, CallersTyped
<1>9. OthersKept(ch)
  BY <1>3, <1>6, <1>7, <1>8 DEF OthersKept, SameEnds
<1>10. x.up = <<>> /\ x.down = <<>> /\ x.client /\ x.server
  BY <1>2 DEF NewConn
<1>11. ASSUME NEW l \in Loop
       PROVE  ~Serves(l, k)'
  BY <1>3, <1>7, <1>11 DEF Serves, RpcInv, ServerTyped
<1>12. Quiet(k)'
  <2>1. conns'[k].up = <<>> /\ conns'[k].down = <<>>
    BY <1>3, <1>6, <1>10
  <2>2. \A a \in Nat : ~Starts(conns'[k].up, a)
    BY <2>1, NothingUnderWay
  <2> QED
    BY <1>11, <2>1, <2>2 DEF Quiet
<1>13. Quiet(m_clientFd[ch])'
  BY <1>8, <1>12 DEF Quiet, Serves
<1>14. crossed' \ {ch} = crossed \ {ch}
  BY DEF Connected
<1> QED
  BY <1>3, <1>6, <1>7, <1>8, <1>9, <1>10, <1>13, <1>14

\* A channel closes no other's connection.
LEMMA CloseFdAnswers ==
    ASSUME RpcInv, AnsInv, NEW ch \in Channel, CloseFd(ch)
    PROVE  OthersKept(ch) /\ m_clientFd'[ch] = None
<1>1. /\ m_clientFd'[ch] = None
      /\ \A other \in Channel \ {ch} : m_clientFd'[other] = m_clientFd[other]
  BY DEF CloseFd, RpcInv, CallersTyped
<1>2. ASSUME NEW other \in Channel \ {ch}, m_clientFd[other] # None
      PROVE  conns'[m_clientFd[other]] = conns[m_clientFd[other]]
  <2>1. PICK c, k : c = m_clientFd[other] /\ k = m_clientFd[ch]
    OBVIOUS
  <2>2. c \in DOMAIN conns /\ c # k
    BY <1>2, <2>1, OwnedConn DEF AnsInv, HasOwn
  <2>3. conns' = conns \/ conns' = [conns EXCEPT ![k].client = FALSE]
    BY <2>1 DEF CloseFd
  <2>4. conns = [i \in DOMAIN conns |-> conns[i]]
    BY ConnsDomain DEF RpcInv
  <2> QED
    BY <2>1, <2>2, <2>3, <2>4
<1> QED
  BY <1>1, <1>2 DEF OthersKept, SameEnds

\* A step that touches neither descriptors nor connections.
LEMMA NothingTouched ==
    ASSUME AnsInv, NEW ch \in Channel, UNCHANGED <<m_clientFd, conns>>
    PROVE  OthersKept(ch)
BY DEF OthersKept, SameEnds, AnsInv, HasOwn

\* A step that touches no connection keeps what is under way on the caller's own.
LEMMA OwnKept ==
    ASSUME RpcInv, AnsInv, NEW ch \in Channel, UNCHANGED <<m_clientFd, conns, loops, stops, handled>>,
           m_clientFd[ch] # None
    PROVE  /\ conns'[m_clientFd'[ch]].client
           /\ conns'[m_clientFd'[ch]].server \/ Gone(m_clientFd[ch])'
           /\ Quiet(m_clientFd[ch]) => Quiet(m_clientFd[ch])'
           /\ \A q : Expects(m_clientFd[ch], q) => Expects(m_clientFd[ch], q)'
<1>1. PICK c : c = m_clientFd[ch]
  OBVIOUS
<1>2. Untouched(c) /\ Grow
  BY NothingGrows DEF Untouched, SameEnds, Serves
<1>3. /\ conns'[c].client = conns[c].client /\ conns'[c].server = conns[c].server
      /\ Gone(c) => Gone(c)'
      /\ Quiet(c) => Quiet(c)'
      /\ \A q : Expects(c, q) => Expects(c, q)'
  BY <1>2, UntouchedKept
<1>4. conns[c].client /\ (conns[c].server \/ Gone(c))
  BY <1>1 DEF AnsInv, HasOwn
<1>5. m_clientFd'[ch] = c
  BY <1>1
<1> QED
  BY <1>1, <1>3, <1>4, <1>5

\* A call begins, with nothing under way on its connection.
LEMMA CallMethodAnswers ==
    ASSUME RpcInv, CallInv, AnsInv, NEW t \in Thread, NEW method, NEW args,
           CallMethod(t, method, args)
    PROVE  AnsInv'
<1>1. PICK ch \in Channel : ch = ChannelOf[t]
  BY RpcAssumption
<1>2. /\ pc[t] = "idle"
      /\ pc' = [pc EXCEPT ![t] = IF m_clientFd[ch] = None THEN "connect" ELSE "send"]
      /\ call' = [call EXCEPT ![t] = [method |-> method, args |-> args]]
      /\ UNCHANGED <<m_clientFd, at, conns, loops, stops, handled>>
      /\ crossed' = IF InCall(ch) = {} THEN crossed ELSE crossed \cup {ch}
  BY <1>1 DEF CallMethod, serverVars
<1>3. /\ pc = [u \in Thread |-> pc[u]] /\ call = [u \in Thread |-> call[u]]
      /\ DOMAIN response = Thread
  BY DEF CallInv, Shape, AnsInv
<1>4. /\ pc'[t] \in {"connect", "send"}
      /\ \A u \in Thread : u # t => pc'[u] = pc[u] /\ call'[u] = call[u]
  BY <1>2, <1>3
<1>5. DOMAIN response' = Thread
  <2>1. response' = response \/ response' = [response EXCEPT ![t] = Clear(Response(method))]
    BY DEF CallMethod
  <2> QED
    BY <1>3, <2>1
<1>6. crossed' \ {ch} = crossed \ {ch}
  BY <1>2
<1>7. ASSUME ch \notin crossed'
      PROVE  ch \notin crossed /\ \A u \in Thread : ChannelOf[u] = ch => pc[u] = "idle"
  BY <1>2, <1>7 DEF InCall
<1>8. m_clientFd'[ch] # None =>
        /\ conns'[m_clientFd'[ch]].client
        /\ conns'[m_clientFd'[ch]].server \/ Gone(m_clientFd[ch])'
        /\ Quiet(m_clientFd[ch]) => Quiet(m_clientFd[ch])'
  BY <1>2, OwnKept
<1>9. Turn(t)'
  <2>1. SUFFICES ASSUME ch \notin crossed' PROVE Turn(t)'
    BY <1>1 DEF Turn
  <2>2. \A u \in Thread : ChannelOf[u] = ch => pc[u] = "idle"
    BY <1>7, <2>1
  <2>3. Alone(t)'
    BY <1>1, <1>4, <2>2 DEF Alone
  <2>4. m_clientFd'[ch] # None => Quiet(m_clientFd[ch])
    BY <1>2, <1>7, <2>1 DEF AnsInv, Resting
  <2> QED
    BY <1>1, <1>4, <1>8, <2>3, <2>4 DEF Turn
<1>10. OthersKept(ch) /\ Resting(ch)'
  BY <1>1, <1>2, <1>4, NothingTouched, NotResting
<1>11. ch \notin crossed' => Alone(t)
  BY <1>1, <1>7 DEF Alone
<1> QED
  BY <1>1, <1>2, <1>4, <1>5, <1>6, <1>8, <1>9, <1>10, <1>11, ThreadKeepsAnswers

\* What Return leaves to the other threads.
LEMMA ReturnOthers ==
    ASSUME RpcInv, CallInv, NEW t \in Thread, NEW fails \in BOOLEAN, Return(t, fails)
    PROVE  /\ pc'[t] = "idle" /\ call' = call /\ m_failed'[t] = (m_failed[t] \/ fails)
           /\ \A u \in Thread : u # t => pc'[u] = pc[u] /\ at'[u] = at[u] /\ m_failed'[u] = m_failed[u]
<1>1. /\ pc = [u \in Thread |-> pc[u]] /\ at = [u \in Thread |-> at[u]]
      /\ m_failed = [u \in Thread |-> m_failed[u]]
  BY DEF RpcInv, CallersTyped
<1>2. /\ pc' = [pc EXCEPT ![t] = "idle"] /\ at' = [at EXCEPT ![t] = None]
      /\ m_failed' = [m_failed EXCEPT ![t] = @ \/ fails] /\ call' = call
  BY DEF Return
<1>3. /\ pc'[t] = "idle" /\ m_failed'[t] = (m_failed[t] \/ fails)
  BY <1>1, <1>2
<1>4. \A u \in Thread : u # t => pc'[u] = pc[u] /\ at'[u] = at[u] /\ m_failed'[u] = m_failed[u]
  BY <1>1, <1>2
<1> QED
  BY <1>2, <1>3, <1>4

\* A call fails, and leaves its channel without a descriptor.
LEMMA FailedAnswers ==
    ASSUME RpcInv, CallInv, AnsInv, NEW t \in Thread, pc[t] # "idle", Return(t, TRUE),
           m_clientFd'[ChannelOf[t]] = None, OthersKept(ChannelOf[t]),
           UNCHANGED <<crossed, response, loops, stops, handled>>
    PROVE  AnsInv'
<1>1. /\ pc'[t] = "idle" /\ call' = call
      /\ \A u \in Thread : u # t => pc'[u] = pc[u] /\ at'[u] = at[u]
  BY ReturnOthers
<1>2. Turn(t)' /\ Resting(ChannelOf[t])'
  BY <1>1 DEF Turn, Resting
<1>3. ChannelOf[t] \notin crossed' => Alone(t)
  BY DEF AnsInv, Turn
<1>4. DOMAIN response' = Thread
  BY DEF AnsInv
<1> QED
  BY <1>1, <1>2, <1>3, <1>4, ThreadKeepsAnswers

\* A call connects, and is to send next, or fails.
LEMMA ConnectAnswers ==
    ASSUME RpcInv, CallInv, AnsInv, NEW t \in Thread, Connect(t)
    PROVE  AnsInv'
<1>1. PICK ch \in Channel : ch = ChannelOf[t]
  BY RpcAssumption
<1>2. pc[t] = "connect" /\ UNCHANGED <<loops, stops, handled>>
  BY DEF Connect, serverVars, history
<1>3. CASE pc' = [pc EXCEPT ![t] = "send"] /\ Connected(ch) /\ UNCHANGED <<at, call, response, m_failed>>
  <2>1. pc'[t] = "send" /\ \A u \in Thread : u # t => pc'[u] = pc[u]
    BY <1>3 DEF RpcInv, CallersTyped
  <2>2. /\ OthersKept(ch)
        /\ m_clientFd'[ch] # None
        /\ conns'[m_clientFd'[ch]].client /\ conns'[m_clientFd'[ch]].server
        /\ Quiet(m_clientFd[ch])'
        /\ crossed' \ {ch} = crossed \ {ch}
    BY <1>2, <1>3, ConnectedAnswers
  <2>3. ch \notin crossed' => Alone(t)
    <3>1. CASE \A u, v \in InCall(ch) : u = v
      <4>1. t \in InCall(ch)
        BY <1>1, <1>2 DEF InCall
      <4> QED
        BY <1>1, <3>1, <4>1 DEF InCall, Alone
    <3>2. CASE crossed' = crossed
      BY <1>1, <1>2, <3>2 DEF AnsInv, Turn
    <3> QED
      BY <1>3, <3>1, <3>2 DEF Connected
  <2>4. Turn(t)'
    <3>1. ch \notin crossed' => Alone(t)'
      BY <2>1, <2>3 DEF Alone
    <3> QED
      BY <1>1, <2>1, <2>2, <3>1 DEF Turn
  <2>5. DOMAIN response' = Thread
    BY <1>3 DEF AnsInv
  <2>6. Resting(ChannelOf[t])'
    BY <2>1, NotResting
  <2> QED
    BY <1>1, <1>2, <1>3, <2>1, <2>2, <2>3, <2>4, <2>5, <2>6, ThreadKeepsAnswers
<1>4. CASE Return(t, TRUE) /\ Refused(ch) /\ UNCHANGED response
  <2>1. conns' = conns /\ m_clientFd' = [m_clientFd EXCEPT ![ch] = None] /\ crossed' = crossed
    BY <1>4 DEF Refused
  <2>2. /\ m_clientFd'[ch] = None
        /\ \A other \in Channel \ {ch} : m_clientFd'[other] = m_clientFd[other]
    BY <2>1 DEF RpcInv, CallersTyped
  <2>3. OthersKept(ch)
    BY <2>1, <2>2 DEF OthersKept, SameEnds
  <2> QED
    BY <1>1, <1>2, <1>4, <2>1, <2>2, <2>3, FailedAnswers
<1> QED
  BY <1>1, <1>3, <1>4 DEF Connect

\* A call fails after its request was sent, and closes the connection.
LEMMA RecvFailedAnswers ==
    ASSUME RpcInv, CallInv, AnsInv, NEW t \in Thread, pc[t] # "idle", RecvFailed(t),
           UNCHANGED <<loops, stops, handled>>
    PROVE  AnsInv'
<1>1. PICK ch \in Channel : ch = ChannelOf[t]
  BY RpcAssumption
<1>2. Return(t, TRUE) /\ CloseFd(ch) /\ response' = response /\ crossed' = crossed
  BY <1>1 DEF RecvFailed
<1>3. OthersKept(ch) /\ m_clientFd'[ch] = None
  BY <1>2, CloseFdAnswers
<1> QED
  BY <1>1, <1>2, <1>3, FailedAnswers

LEMMA RecvAnswers ==
    ASSUME RpcInv, CallInv, AnsInv, NEW t \in Thread, Recv(t)
    PROVE  AnsInv'
<1>1. PICK ch \in Channel : ch = ChannelOf[t]
  BY RpcAssumption
<1>2. pc[t] = "recv" /\ UNCHANGED <<loops, stops, handled>>
  BY DEF Recv, serverVars, history
<1>3. PICK c : c = m_clientFd[ch]
  OBVIOUS
<1>4. PICK q : q = call[t]
  OBVIOUS
<1>5. CASE c = None
  BY <1>1, <1>2, <1>3, <1>5, RecvFailedAnswers DEF Recv
<1>6. CASE c # None
  <2>1. /\ at' = [at EXCEPT ![t] = c] /\ pc' = [pc EXCEPT ![t] = "wait"]
        /\ UNCHANGED <<m_clientFd, crossed, call, response, m_failed, conns>>
    BY <1>1, <1>3, <1>6 DEF Recv
  <2>2. /\ at'[t] = c /\ pc'[t] = "wait"
        /\ \A u \in Thread : u # t => at'[u] = at[u] /\ pc'[u] = pc[u]
    BY <2>1 DEF RpcInv, CallersTyped
  <2>3. /\ conns'[m_clientFd'[ch]].client
        /\ conns'[m_clientFd'[ch]].server \/ Gone(m_clientFd[ch])'
        /\ Expects(m_clientFd[ch], q) => Expects(m_clientFd[ch], q)'
    BY <1>2, <1>3, <1>6, <2>1, OwnKept
  <2>4. ch \notin crossed' => Alone(t) /\ Expects(c, q)
    BY <1>1, <1>2, <1>3, <1>4, <2>1 DEF AnsInv, Turn
  <2>5. Turn(t)'
    <3>1. m_clientFd'[ch] = c /\ call'[t] = q
      BY <1>3, <1>4, <2>1
    <3>2. SUFFICES ASSUME ch \notin crossed' PROVE Turn(t)'
      BY <1>1 DEF Turn
    <3>3. Expects(c, q)'
      BY <1>3, <2>3, <2>4, <3>1, <3>2 DEF Expects, Quiet, Underway, BeingHandled, IsAnswered, Serves
    <3>4. Alone(t)'
      BY <2>2, <2>4, <3>2 DEF Alone
    <3> QED
      BY <1>1, <1>6, <2>2, <3>1, <3>3, <3>4 DEF Turn
  <2>6. OthersKept(ch) /\ DOMAIN response' = Thread /\ Resting(ChannelOf[t])'
    BY <2>1, <2>2, NothingTouched, NotResting DEF AnsInv
  <2> QED
    BY <1>1, <1>2, <2>1, <2>2, <2>3, <2>4, <2>5, <2>6, ThreadKeepsAnswers
<1> QED
  BY <1>5, <1>6

\* A request is sent over the connection, on which nothing was under way.
LEMMA SentAnswers ==
    ASSUME RpcInv, CallInv, AnsInv, NEW t \in Thread, pc[t] = "send",
           NEW c \in DOMAIN conns, c = m_clientFd[ChannelOf[t]], c # None, Sent(t, c),
           UNCHANGED <<tries, crossed, at, call, response, m_failed, serverVars, history>>
    PROVE  AnsInv'
<1>1. PICK ch \in Channel : ch = ChannelOf[t]
  BY RpcAssumption
<1>2. PICK q : q = call[t]
  OBVIOUS
<1>3. /\ UNCHANGED <<m_clientFd, loops, stops, handled>>
      /\ pc' = [pc EXCEPT ![t] = "recv"]
  BY DEF Sent, serverVars, history
<1>4. pc'[t] = "recv" /\ \A u \in Thread : u # t => pc'[u] = pc[u]
  BY <1>3 DEF RpcInv, CallersTyped
<1>5. /\ m_clientFd[ch] = c /\ m_clientFd'[ch] = c
      /\ ch \notin crossed' => Quiet(c) /\ Alone(t) /\ Alone(t)'
  <2>1. ch \notin crossed' => Quiet(c) /\ Alone(t)
    BY <1>1 DEF AnsInv, Turn
  <2> QED
    BY <1>1, <1>3, <1>4, <2>1 DEF Alone
<1>6. PICK n \in 1..begun : q.method \in ServiceMethods /\ q.args \in Asked(q.method, n)
  BY <1>2 DEF CallInv, CallsOf
<1>7. DOMAIN response' = Thread /\ Resting(ChannelOf[t])'
  BY <1>4, NotResting DEF AnsInv
<1>8. CASE conns[c].server /\ conns' = [conns EXCEPT ![c].up = @ \o Packet(q.method, q.args)]
  <2>1. PICK up, p : up = conns[c].up /\ p = Packet(q.method, q.args)
    OBVIOUS
  <2>2. WholeUpTo(up, begun) /\ IsSeq(up) /\ Len(up) \in Nat /\ begun \in Nat
    BY <2>1, SeqParts DEF CallInv, WiresOf, WholeUpTo, Shape
  <2>3. PICK more : more = up \o p
    OBVIOUS
  <2>4. /\ Stands(more, Len(up), p)
        /\ \A a : Starts(more, a) => a = Len(up) \/ Starts(up, a)
    BY <1>6, <2>1, <2>2, <2>3, WholeMore
  <2>5. /\ DOMAIN conns[c] = {"up", "down", "client", "server", "loop", "channel", "raced"}
        /\ conns = [k \in DOMAIN conns |-> conns[k]]
    BY ConnsDomain DEF RpcInv, ConnsTyped, GoodConn
  <2>6. conns' = [conns EXCEPT ![c].up = more]
    BY <1>8, <2>1, <2>3
  <2>7. /\ conns'[c].up = more /\ conns'[c].down = conns[c].down
        /\ conns'[c].client = conns[c].client /\ conns'[c].server
        /\ \A k \in DOMAIN conns : k # c => conns'[k] = conns[k]
    BY <1>8, <2>5, <2>6
  <2>8. ASSUME ch \notin crossed'
        PROVE  Expects(c, q)'
    <3>1. \A b \in Nat : Starts(more, b) => b = Len(up)
      BY <1>5, <2>1, <2>4, <2>8 DEF Quiet
    <3>2. conns'[c].down = <<>> /\ \A l \in Loop : ~Serves(l, c)'
      BY <1>3, <1>5, <2>7, <2>8 DEF Quiet, Serves
    <3>3. Stands(conns'[c].up, Len(up), Packet(q.method, q.args))
      BY <2>1, <2>4, <2>7
    <3>4. \A b \in Nat : Starts(conns'[c].up, b) => b = Len(up)
      BY <2>7, <3>1
    <3>5. Underway(c, q)'
      BY <2>2, <3>2, <3>3, <3>4 DEF Underway
    <3> QED
      BY <3>5 DEF Expects
  <2>14. call'[t] = q
    BY <1>2
  <2>15. Turn(t)'
    BY <1>1, <1>4, <1>5, <2>8, <2>14 DEF Turn
  <2>16. OthersKept(ch)
    <3>1. ASSUME NEW other \in Channel, other # ch, m_clientFd[other] # None
          PROVE  m_clientFd[other] \in DOMAIN conns /\ m_clientFd[other] # c
      BY <1>5, <3>1, OwnedConn DEF AnsInv, HasOwn
    <3> QED
      BY <1>3, <1>5, <2>7, <3>1 DEF OthersKept, SameEnds
  <2>17. conns'[m_clientFd'[ch]].client /\ conns'[m_clientFd'[ch]].server
    <3>1. conns[c].client
      BY <1>5 DEF AnsInv, HasOwn
    <3> QED
      BY <1>5, <2>7, <3>1
  <2> QED
    BY <1>1, <1>3, <1>4, <1>5, <1>7, <2>15, <2>16, <2>17, ThreadKeepsAnswers
<1>9. CASE conns' = conns
  <2>1. /\ conns'[m_clientFd'[ch]].client
        /\ conns'[m_clientFd'[ch]].server \/ Gone(m_clientFd[ch])'
        /\ Quiet(m_clientFd[ch]) => Quiet(m_clientFd[ch])'
    BY <1>3, <1>5, <1>9, OwnKept
  <2>2. Turn(t)'
    BY <1>1, <1>4, <1>5, <2>1 DEF Turn, Expects
  <2>3. OthersKept(ch)
    BY <1>3, <1>9, NothingTouched
  <2> QED
    BY <1>1, <1>3, <1>4, <1>5, <1>7, <2>1, <2>2, <2>3, ThreadKeepsAnswers
<1> QED
  BY <1>2, <1>8, <1>9 DEF Sent

\* A call sends its request, or closes the connection and is to connect again.
LEMMA SendAnswers ==
    ASSUME RpcInv, CallInv, AnsInv, NEW t \in Thread, Send(t)
    PROVE  AnsInv'
<1>1. PICK ch \in Channel : ch = ChannelOf[t]
  BY RpcAssumption
<1>2. PICK c : c = m_clientFd[ChannelOf[t]]
  OBVIOUS
<1>3. /\ pc[t] = "send"
      /\ (c # None /\ Sent(t, c)) \/ SendFailed(t, c)
      /\ UNCHANGED <<tries, crossed, at, call, response, m_failed, serverVars, history>>
  BY <1>2 DEF Send
<1>4. CASE c # None /\ Sent(t, c)
  <2>1. c \in DOMAIN conns
    BY <1>1, <1>2, <1>4, OwnedConn
  <2> QED
    BY <1>2, <1>3, <1>4, <2>1, SentAnswers
<1>5. CASE SendFailed(t, c)
  <2>1. CloseFd(ch) /\ pc' = [pc EXCEPT ![t] = "connect"]
    BY <1>1, <1>5 DEF SendFailed
  <2>2. pc'[t] = "connect" /\ \A u \in Thread : u # t => pc'[u] = pc[u]
    BY <2>1 DEF RpcInv, CallersTyped
  <2>3. OthersKept(ch) /\ m_clientFd'[ch] = None
    BY <2>1, CloseFdAnswers
  <2>4. ch \notin crossed' => Alone(t)
    BY <1>1, <1>3 DEF AnsInv, Turn
  <2>5. Turn(t)' /\ Resting(ChannelOf[t])'
    <3>1. ch \notin crossed' => Alone(t)'
      BY <2>2, <2>4 DEF Alone
    <3> QED
      BY <1>1, <2>2, <2>3, <3>1, NotResting DEF Turn
  <2>6. UNCHANGED <<loops, stops, handled>> /\ DOMAIN response' = Thread
    BY <1>3 DEF serverVars, history, AnsInv
  <2> QED
    BY <1>1, <1>3, <2>2, <2>3, <2>4, <2>5, <2>6, ThreadKeepsAnswers
<1> QED
  BY <1>3, <1>4, <1>5

\* One recv takes an answer whole.
LEMMA TakenWhole ==
    ASSUME RecvBuffer \in Nat, NEW down, IsSeq(down), Len(down) <= RecvBuffer
    PROVE  LET size == Least(Len(down), RecvBuffer)
           IN  SubSeq(down, 1, size) = down /\ SubSeq(down, size + 1, Len(down)) = <<>>
<1>1. PICK k : k = Len(down)
  OBVIOUS
<1>2. k \in Nat /\ k <= RecvBuffer
  BY <1>1, SeqParts
<1>3. Least(k, RecvBuffer) = k
  BY <1>2 DEF Least
<1>4. PICK z \in Nat : z = 0
  OBVIOUS
<1>5. /\ z <= k /\ k <= k /\ k <= Len(down) /\ z + 1 = 1 /\ k - z = k /\ k - k = 0
      /\ \A i \in 1..k : z + i = i
  BY <1>1, <1>2, <1>4
<1> DEFINE v == SubSeq(down, z + 1, k)
<1> DEFINE w == SubSeq(down, k + 1, k)
<1>6. /\ IsSeq(v) /\ Len(v) = k - z /\ \A i \in 1..(k - z) : v[i] = down[z + i]
      /\ IsSeq(w) /\ Len(w) = k - k
  BY <1>2, <1>5, Piece
<1>7. v = SubSeq(down, 1, k)
  BY <1>5, Zenon
<1>8. w = SubSeq(down, k + 1, Len(down))
  BY <1>1, Zenon
<1> HIDE DEF v, w
<1>9. v = down
  <2>1. Len(v) = k /\ Len(v) = Len(down)
    BY <1>1, <1>5, <1>6, Zenon
  <2>2. \A i \in 1..Len(v) : v[i] = down[i]
    BY <1>5, <1>6, <2>1
  <2> QED
    BY <1>6, <2>1, <2>2, SameParts
<1>10. w = <<>>
  BY <1>5, <1>6, EmptyPiece
<1> QED
  BY <1>1, <1>3, <1>7, <1>8, <1>9, <1>10, Zenon

\* A call ends with what one recv takes from the connection it waits on. Where no
\* calls have crossed that is the answer to it, or nothing, of a provider that has
\* ended.
LEMMA TakeAnswerAnswers ==
    ASSUME RpcInv, CallInv, AnsInv, NEW t \in Thread, pc[t] = "wait",
           NEW c \in DOMAIN conns, c = at[t], conns[c].channel = ChannelOf[t],
           conns[c].down # <<>> \/ ~conns[c].server, TakeAnswer(t, c),
           UNCHANGED <<tries, serverVars, history>>
    PROVE  AnsInv' /\ (ChannelOf[t] \notin crossed' => HasAnswer(t)')
<1>1. PICK ch \in Channel : ch = ChannelOf[t]
  BY RpcAssumption
<1>2. PICK q : q = call[t]
  OBVIOUS
<1>3. PICK down, old : down = conns[c].down /\ old = response[t]
  OBVIOUS
<1>4. PICK type : type = Response(q.method)
  OBVIOUS
<1>5. PICK size : size = Least(Len(down), RecvBuffer)
  OBVIOUS
<1>6. PICK left : left = SubSeq(down, size + 1, Len(down))
  OBVIOUS
<1>7. /\ Return(t, FALSE) /\ m_clientFd' = m_clientFd
      /\ conns' = [conns EXCEPT ![c].down = SubSeq(@, size + 1, Len(@))]
      /\ response' = [response EXCEPT ![t] = Parsed(type, @, SubSeq(down, 1, size))]
      /\ crossed' = IF Len(down) > RecvBuffer THEN crossed \cup {ch} ELSE crossed
  BY <1>1, <1>2, <1>3, <1>4, <1>5 DEF TakeAnswer
<1>8. conns' = [conns EXCEPT ![c].down = left]
  BY <1>3, <1>6, <1>7
<1>9. /\ DOMAIN conns[c] = {"up", "down", "client", "server", "loop", "channel", "raced"}
      /\ conns = [k \in DOMAIN conns |-> conns[k]]
  BY ConnsDomain DEF RpcInv, ConnsTyped, GoodConn
<1>10. /\ conns'[c].up = conns[c].up /\ conns'[c].down = left
       /\ conns'[c].client = conns[c].client /\ conns'[c].server = conns[c].server
       /\ \A k \in DOMAIN conns : k # c => conns'[k] = conns[k]
  BY <1>8, <1>9
<1>11. /\ pc'[t] = "idle" /\ call' = call
       /\ \A u \in Thread : u # t => pc'[u] = pc[u] /\ at'[u] = at[u]
  BY <1>7, ReturnOthers
<1>12. UNCHANGED <<loops, stops, handled>>
  BY DEF serverVars, history
<1>13. DOMAIN response' = Thread /\ response'[t] = Parsed(type, old, SubSeq(down, 1, size))
  <2>1. DOMAIN response = Thread
    BY DEF AnsInv
  <2>2. response' = [response EXCEPT ![t] = Parsed(type, old, SubSeq(down, 1, size))]
    BY <1>3, <1>7
  <2> QED
    BY <2>1, <2>2
<1>14. ASSUME NEW k \in DOMAIN conns
       PROVE  /\ conns'[k].client = conns[k].client /\ conns'[k].server = conns[k].server
              /\ Gone(k) => Gone(k)'
  <2>1. conns'[k].up = conns[k].up /\ conns'[k].client = conns[k].client
        /\ conns'[k].server = conns[k].server
    BY <1>10
  <2> QED
    BY <1>12, <2>1 DEF Gone, Serves
<1>15. OthersKept(ch)
  <2>1. ASSUME NEW other \in Channel, other # ch, m_clientFd[other] # None
        PROVE  /\ m_clientFd[other] \in DOMAIN conns /\ m_clientFd[other] # c
               /\ m_clientFd[ch] # m_clientFd[other]
    BY <1>1, <2>1, OwnedConn DEF AnsInv, HasOwn, RpcInv, Owned
  <2> QED
    BY <1>7, <1>10, <2>1 DEF OthersKept, SameEnds
<1>16. m_clientFd'[ch] # None =>
         /\ conns'[m_clientFd'[ch]].client
         /\ conns'[m_clientFd'[ch]].server \/ Gone(m_clientFd[ch])'
  <2>1. PICK k : k = m_clientFd[ch]
    OBVIOUS
  <2>2. SUFFICES ASSUME k # None
                 PROVE  conns'[k].client /\ (conns'[k].server \/ Gone(k)')
    <3>1. m_clientFd'[ch] = k
      BY <1>7, <2>1
    <3> QED
      BY <2>1, <3>1 DEF Gone, Serves
  <2>3. k \in DOMAIN conns
    BY <2>1, <2>2, OwnedConn
  <2>4. conns[k].client /\ (conns[k].server \/ Gone(k))
    BY <2>1, <2>2 DEF AnsInv, HasOwn
  <2> QED
    BY <1>14, <2>3, <2>4
<1>17. crossed' \ {ch} = crossed \ {ch}
  BY <1>7
<1>18. Turn(t)'
  BY <1>11 DEF Turn
<1>19. CASE ch \in crossed'
  <2>1. Resting(ch)'
    BY <1>19 DEF Resting
  <2> QED
    BY <1>1, <1>11, <1>12, <1>13, <1>15, <1>16, <1>17, <1>18, <1>19, <2>1, ThreadKeepsAnswers
<1>20. CASE ch \notin crossed'
  <2>1. ch \notin crossed /\ ~(Len(down) > RecvBuffer)
    BY <1>7, <1>20
  <2>2. Alone(t) /\ c # None /\ Expects(c, q) /\ m_clientFd[ch] = c
    BY <1>1, <1>2, <2>1 DEF AnsInv, Turn
  <2>3. conns[c].client /\ (conns[c].server \/ Gone(c))
    BY <2>2 DEF AnsInv, HasOwn
  <2>4. /\ \A a \in Nat : ~Starts(conns[c].up, a)
        /\ \A l \in Loop : ~Serves(l, c)
        /\ down = <<>> \/ IsAnswered(c, q)
        /\ down # <<>> \/ Gone(c)
    <3>1. CASE down = <<>>
      <4>1. Gone(c)
        BY <1>3, <2>3, <3>1
      <4> QED
        BY <3>1, <4>1, NothingUnderWay DEF Gone
    <3>2. CASE down # <<>>
      <4>1. IsAnswered(c, q)
        BY <1>3, <2>2, <3>2 DEF Expects, Quiet, Underway, BeingHandled
      <4> QED
        BY <3>2, <4>1 DEF IsAnswered
    <3> QED
      BY <3>1, <3>2
  <2>5. IsSeq(down)
    BY <1>3, <2>4, EmptyIsSeq DEF IsAnswered
  <2>6. SubSeq(down, 1, size) = down /\ left = <<>>
    <3>1. PICK n : n = Len(down)
      OBVIOUS
    <3>2. n \in Nat /\ RecvBuffer \in Nat /\ n <= RecvBuffer
      BY <2>1, <2>5, <3>1, SeqParts, RpcAssumption
    <3> QED
      BY <1>5, <1>6, <2>5, <3>1, <3>2, TakenWhole
  <2>7. Quiet(c)'
    BY <1>10, <1>12, <2>4, <2>6 DEF Quiet, Serves
  <2>8. Resting(ch)'
    <3>1. m_clientFd'[ch] = c
      BY <1>7, <2>2
    <3>2. Quiet(m_clientFd[ch])'
      BY <2>7, <3>1 DEF Quiet, Serves
    <3> QED
      BY <3>2 DEF Resting
  <2>9. AnsInv'
    BY <1>1, <1>11, <1>12, <1>13, <1>15, <1>16, <1>17, <1>18, <2>2, <2>8, ThreadKeepsAnswers
  <2>10. q.method \in ServiceMethods /\ type \in TypeDefs
    <3>1. q.method \in ServiceMethods
      BY <1>2 DEF CallInv, CallsOf
    <3> QED
      BY <1>4, <3>1, MethodTypes DEF TypeDefs
  <2>11. response'[t] = Parsed(type, old, down) /\ call'[t] = q
    BY <1>2, <1>11, <1>13, <2>6
  <2>12. HasAnswer(t)'
    <3>1. CASE down = <<>>
      <4>1. response'[t] = Clear(type)
        BY <2>10, <2>11, <3>1, NothingParsed
      <4>2. stops' > 0
        BY <1>12, <2>4, <3>1 DEF Gone
      <4> QED
        BY <1>4, <2>11, <4>1, <4>2 DEF HasAnswer
    <3>2. CASE IsAnswered(c, q)
      <4>1. PICK h \in Range(handled) : /\ Fits(h, q)
                                        /\ \A m : Parsed(type, m, down) = h.reply
        BY <1>3, <1>4, <3>2 DEF IsAnswered
      <4>2. /\ h.method = q.method /\ (h.args = q.args \/ NoArguments(h))
            /\ h.reply = response'[t]
        BY <2>11, <4>1 DEF Fits
      <4>3. h \in Range(handled')
        BY <1>12, <4>1
      <4> QED
        BY <2>11, <4>2, <4>3 DEF HasAnswer, NoArguments
    <3> QED
      BY <2>4, <3>1, <3>2
  <2> QED
    BY <2>9, <2>12
<1> QED
  BY <1>1, <1>19, <1>20

LEMMA ReceivedAnswers ==
    ASSUME RpcInv, CallInv, AnsInv, Awaited, NEW t \in Thread, Received(t)
    PROVE  /\ AnsInv'
           /\ ~m_failed'[t] /\ ChannelOf[t] \notin crossed' => HasAnswer(t)'
<1>1. PICK c : c = at[t]
  OBVIOUS
<1>2. pc[t] = "wait" /\ UNCHANGED <<tries, serverVars, history>>
  BY DEF Received
<1>3. c \in DOMAIN conns /\ conns[c].channel = ChannelOf[t]
  BY <1>1, <1>2 DEF RpcInv, CallersTyped, Awaited
<1>4. CASE (conns[c].down # <<>> \/ ~conns[c].server) /\ TakeAnswer(t, c)
  BY <1>1, <1>2, <1>3, <1>4, TakeAnswerAnswers
<1>5. CASE RecvFailed(t)
  <2>1. UNCHANGED <<loops, stops, handled>>
    BY <1>2 DEF serverVars, history
  <2>2. m_failed'[t]
    BY <1>5 DEF RecvFailed, Return, RpcInv, CallersTyped
  <2> QED
    BY <1>2, <1>5, <2>1, <2>2, RecvFailedAnswers
<1> QED
  BY <1>1, <1>4, <1>5 DEF Received

\* The constructor finds the channel without calls.
LEMMA MprpcChannelAnswers ==
    ASSUME RpcInv, AnsInv, NEW ch \in Channel, MprpcChannel(ch)
    PROVE  AnsInv'
<1>1. UNCHANGED <<callerVars, serverVars, history>> /\ tries[ch] > 0
  BY DEF MprpcChannel
<1>2. UNCHANGED <<pc, at, call, response, m_failed, loops, stops, handled>>
  BY <1>1 DEF callerVars, serverVars, history
<1>3. \A u \in Thread : ChannelOf[u] = ch => pc[u] = "idle"
  <2>1. tries[ch] # 0
    BY <1>1 DEF RpcInv, CallersTyped
  <2> QED
    BY <2>1 DEF RpcInv, Connecting
<1>4. Grow /\ \A u \in Thread : ChannelOf[u] = ch => Turn(u)'
  BY <1>2, <1>3, NothingGrows DEF Turn
<1>5. CASE Connected(ch)
  <2>1. /\ OthersKept(ch)
        /\ m_clientFd'[ch] # None
        /\ conns'[m_clientFd'[ch]].client /\ conns'[m_clientFd'[ch]].server
        /\ Quiet(m_clientFd[ch])'
        /\ crossed' \ {ch} = crossed \ {ch}
    BY <1>2, <1>5, ConnectedAnswers
  <2>2. CallsKept(ch) /\ Resting(ch)'
    BY <1>2, <2>1 DEF CallsKept, AnsInv, Resting
  <2> QED
    BY <1>2, <1>4, <2>1, <2>2, ChannelKeepsAnswers
<1>6. CASE Refused(ch)
  <2>1. /\ conns' = conns /\ m_clientFd'[ch] = None /\ crossed' = crossed
        /\ \A other \in Channel \ {ch} : m_clientFd'[other] = m_clientFd[other]
    BY <1>6 DEF Refused, RpcInv, CallersTyped
  <2>2. OthersKept(ch) /\ CallsKept(ch) /\ Resting(ch)'
    BY <1>2, <2>1 DEF OthersKept, SameEnds, CallsKept, AnsInv, Resting
  <2> QED
    BY <1>2, <1>4, <2>1, <2>2, ChannelKeepsAnswers
<1> QED
  BY <1>5, <1>6 DEF MprpcChannel

\* A caller's process that ends has no calls and no connection.
LEMMA CallerEndsAnswers ==
    ASSUME RpcInv, AnsInv, NEW ch \in Channel, CallerEnds(ch)
    PROVE  AnsInv'
<1> DEFINE g == [c \in DOMAIN conns |-> [conns[c] EXCEPT !.client = @ /\ conns[c].channel # ch]]
<1>1. PICK mine : mine = {t \in Thread : ChannelOf[t] = ch}
  OBVIOUS
<1>2. /\ stops' = stops + 1 /\ conns' = g
      /\ m_clientFd' = [m_clientFd EXCEPT ![ch] = None]
      /\ pc' = [t \in Thread |-> IF t \in mine THEN "idle" ELSE pc[t]]
      /\ at' = [t \in Thread |-> IF t \in mine THEN None ELSE at[t]]
      /\ call' = [t \in Thread |-> IF t \in mine THEN None ELSE call[t]]
      /\ UNCHANGED <<crossed, response, loops, handled>>
  BY <1>1 DEF CallerEnds, serverVars
<1>3. /\ m_clientFd'[ch] = None
      /\ \A other \in Channel \ {ch} : m_clientFd'[other] = m_clientFd[other]
  BY <1>2 DEF RpcInv, CallersTyped
<1>4. ASSUME NEW other \in Channel \ {ch}, m_clientFd[other] # None
      PROVE  SameEnds(m_clientFd[other])
  <2>1. PICK c : c = m_clientFd[other]
    OBVIOUS
  <2>2. c \in DOMAIN conns /\ conns[c].channel = other /\ conns[c].client
    BY <1>4, <2>1, OwnedConn DEF RpcInv, Owned, AnsInv, HasOwn
  <2>3. DOMAIN conns[c] = {"up", "down", "client", "server", "loop", "channel", "raced"}
    BY <2>2 DEF RpcInv, ConnsTyped, GoodConn
  <2>4. conns'[c] = [conns[c] EXCEPT !.client = TRUE]
    BY <1>2, <2>2
  <2>5. /\ conns'[c].up = conns[c].up /\ conns'[c].down = conns[c].down
        /\ conns'[c].client = TRUE /\ conns'[c].server = conns[c].server
    BY <2>3, <2>4
  <2>6. conns[c].client = TRUE
    BY <2>2 DEF RpcInv, ConnsTyped, GoodConn
  <2> QED
    BY <2>1, <2>5, <2>6 DEF SameEnds
<1>5. OthersKept(ch)
  BY <1>3, <1>4 DEF OthersKept
<1>6. Grow
  <2>1. stops \in Nat
    BY DEF RpcInv, CallersTyped
  <2>2. stops' \in Nat /\ stops' >= stops
    BY <1>2, <2>1
  <2> QED
    BY <1>2, <2>1, <2>2 DEF Grow
<1>7. ASSUME NEW u \in Thread, ChannelOf[u] # ch
      PROVE  pc'[u] = pc[u] /\ at'[u] = at[u] /\ call'[u] = call[u]
  <2>1. u \notin mine
    BY <1>1, <1>7
  <2> QED
    BY <1>2, <2>1
<1>8. CallsKept(ch)
  BY <1>2, <1>7 DEF CallsKept, AnsInv
<1>9. ASSUME NEW u \in Thread, ChannelOf[u] = ch
      PROVE  Turn(u)'
  <2>1. pc'[u] = "idle"
    BY <1>1, <1>2, <1>9
  <2> QED
    BY <2>1 DEF Turn
<1>10. Resting(ch)'
  BY <1>3 DEF Resting
<1> QED
  BY <1>2, <1>3, <1>5, <1>6, <1>8, <1>9, <1>10, ChannelKeepsAnswers

-----------------------------------------------------------------------------
(* Threads wait on connections of their channel *)

\* No step makes a connection another channel's.
LEMMA OwnersStay ==
    ASSUME RpcInv, [Next]_vars, NEW c \in DOMAIN conns
    PROVE  conns'[c].channel = conns[c].channel
<1>1. /\ DOMAIN conns[c] = {"up", "down", "client", "server", "loop", "channel", "raced"}
      /\ conns = [k \in DOMAIN conns |-> conns[k]] /\ conns \in Seq(Range(conns))
  BY ConnsDomain DEF RpcInv, ConnsTyped, GoodConn
<1>2. CASE conns' = conns
  BY <1>2
<1>3. ASSUME NEW x, conns' = Append(conns, x)
      PROVE  conns'[c] = conns[c]
  <2>1. PICK d : d = conns
    OBVIOUS
  <2>2. d \in Seq(Range(d)) /\ c \in DOMAIN d
    BY <1>1, <2>1
  <2>3. Append(d, x)[c] = d[c]
    BY <2>2
  <2> QED
    BY <1>3, <2>1, <2>3
<1>4. ASSUME NEW k, NEW y, \/ conns' = [conns EXCEPT ![k].up = y]
                           \/ conns' = [conns EXCEPT ![k].down = y]
                           \/ conns' = [conns EXCEPT ![k].client = y]
                           \/ conns' = [conns EXCEPT ![k].server = y]
      PROVE  conns'[c].channel = conns[c].channel
  BY <1>1, <1>4
<1>5. ASSUME NEW ch, Connected(ch) \/ Refused(ch) \/ CloseFd(ch)
      PROVE  conns'[c].channel = conns[c].channel
  BY <1>2, <1>3, <1>4, <1>5 DEF Connected, Refused, CloseFd
<1>6. ASSUME NEW ch \in Channel, MprpcChannel(ch)
      PROVE  conns'[c].channel = conns[c].channel
  BY <1>5, <1>6 DEF MprpcChannel
<1>7. ASSUME NEW t \in Thread, Caller(t)
      PROVE  conns'[c].channel = conns[c].channel
  <2>1. CASE Connect(t)
    BY <1>5, <2>1 DEF Connect
  <2>2. CASE Send(t)
    <3>1. ASSUME NEW k, Sent(t, k)
          PROVE  conns'[c].channel = conns[c].channel
      <4>1. PICK y : y = conns[k].up \o Packet(call[t].method, call[t].args)
        OBVIOUS
      <4>2. conns' = conns \/ conns' = [conns EXCEPT ![k].up = y]
        BY <3>1, <4>1 DEF Sent
      <4> QED
        BY <1>2, <1>4, <4>2
    <3> QED
      BY <1>5, <2>2, <3>1 DEF Send, SendFailed
  <2>3. CASE RecvFailed(t)
    BY <1>5, <2>3 DEF RecvFailed
  <2>4. CASE Recv(t)
    BY <1>2, <2>3, <2>4 DEF Recv
  <2>5. CASE Received(t)
    <3>1. ASSUME NEW k, TakeAnswer(t, k)
          PROVE  conns'[c].channel = conns[c].channel
      <4>1. PICK y : y = SubSeq(conns[k].down, Least(Len(conns[k].down), RecvBuffer) + 1, Len(conns[k].down))
        OBVIOUS
      <4>2. conns' = [conns EXCEPT ![k].down = y]
        BY <3>1, <4>1 DEF TakeAnswer
      <4> QED
        BY <1>4, <4>2
    <3> QED
      BY <2>3, <2>5, <3>1 DEF Received
  <2> QED
    BY <1>7, <2>1, <2>2, <2>4, <2>5 DEF Caller
<1>8. ASSUME NEW k \in DOMAIN conns, Arrives(k)
      PROVE  conns'[c].channel = conns[c].channel
  BY <1>4, <1>8 DEF Arrives, OnMessage
<1>9. ASSUME NEW l \in Loop, Handler(l)
      PROVE  conns'[c].channel = conns[c].channel
  <2>1. ASSUME NEW k, NEW wire, SendRpcResponse(k, wire)
        PROVE  conns'[c].channel = conns[c].channel
    <3>1. PICK y : y = conns[k].down \o wire
      OBVIOUS
    <3>2. conns' = conns \/ conns' = [conns EXCEPT ![k].down = y]
      BY <2>1, <3>1 DEF SendRpcResponse
    <3> QED
      BY <1>2, <1>4, <3>2
  <2> QED
    BY <1>9, <2>1 DEF Handler
<1>10. ASSUME NEW k \in DOMAIN conns, OnConnection(k)
       PROVE  conns'[c].channel = conns[c].channel
  BY <1>4, <1>10 DEF OnConnection
<1>11. CASE Stop
  BY <1>1, <1>11 DEF Stop
<1>12. ASSUME NEW ch \in Channel, CallerEnds(ch)
       PROVE  conns'[c].channel = conns[c].channel
  <2>1. PICK x : x = (conns[c].client /\ conns[c].channel # ch)
    OBVIOUS
  <2>2. conns'[c] = [conns[c] EXCEPT !.client = x]
    BY <1>12, <2>1 DEF CallerEnds
  <2> QED
    BY <1>1, <2>2
<1>13. CASE UNCHANGED vars
  BY <1>2, <1>13 DEF vars
<1> QED
  BY <1>2, <1>6, <1>7, <1>8, <1>9, <1>10, <1>11, <1>12, <1>13
  DEF Next, CallMethod, NotifyService, Run

\* A recv waits on the connection that is its channel's when it begins.
LEMMA NextAwaited ==
    ASSUME RpcInv, Awaited, [Next]_vars
    PROVE  Awaited'
<1> SUFFICES ASSUME NEW t \in Thread, at'[t] # None
             PROVE  conns'[at'[t]].channel = ChannelOf[t]
  BY DEF Awaited
<1>1. at = [u \in Thread |-> at[u]] /\ at[t] \in DOMAIN conns \cup {None}
  BY DEF RpcInv, CallersTyped
<1>2. CASE at'[t] = at[t]
  BY <1>1, <1>2, OwnersStay DEF Awaited
<1>3. ASSUME NEW u \in Thread, NEW fails, Return(u, fails)
      PROVE  at'[t] = at[t]
  BY <1>1, <1>3 DEF Return
<1>4. ASSUME NEW u \in Thread, Recv(u)
      PROVE  at'[t] = at[t] \/ (at'[t] = m_clientFd[ChannelOf[t]] /\ conns' = conns)
  BY <1>1, <1>3, <1>4 DEF Recv, RecvFailed
<1>5. ASSUME NEW u \in Thread, Caller(u)
      PROVE  at'[t] = at[t] \/ (at'[t] = m_clientFd[ChannelOf[t]] /\ conns' = conns)
  BY <1>3, <1>4, <1>5 DEF Caller, Connect, Send, Received, TakeAnswer, RecvFailed
<1>6. ASSUME NEW ch \in Channel, CallerEnds(ch)
      PROVE  at'[t] = at[t]
  BY <1>6 DEF CallerEnds
<1>7. at'[t] = at[t] \/ (at'[t] = m_clientFd[ChannelOf[t]] /\ conns' = conns)
  BY <1>5, <1>6
  DEF Next, MprpcChannel, CallMethod, NotifyService, Run, Arrives, OnMessage, Handler,
      OnConnection, Stop, callerVars, vars
<1> QED
  BY <1>2, <1>7, RpcAssumption DEF RpcInv, Owned

-----------------------------------------------------------------------------
(* Each caller gets the answer to its own call *)

LEMMA InitAnsInv == Init => AnsInv /\ Awaited
<1> SUFFICES ASSUME Init PROVE AnsInv /\ Awaited
  OBVIOUS
<1>1. DOMAIN response = Thread
  BY DEF Init
<1>2. \A ch \in Channel : m_clientFd[ch] = None
  BY DEF Init
<1>3. \A t \in Thread : pc[t] = "idle" /\ at[t] = None
  BY DEF Init
<1> QED
  BY <1>1, <1>2, <1>3 DEF AnsInv, HasOwn, Resting, Turn, Awaited

LEMMA NextAnsInv ==
    ASSUME RpcInv, CallInv, AnsInv, Awaited, [Next]_vars
    PROVE  AnsInv'
<1>1. ASSUME NEW ch \in Channel, MprpcChannel(ch) PROVE AnsInv'
  BY <1>1, MprpcChannelAnswers
<1>2. ASSUME NEW t \in Thread, NEW n \in 1..MaxCalls, NEW method \in Methods[t][n],
             NEW args \in Asked(method, n), CallMethod(t, method, args)
      PROVE  AnsInv'
  BY <1>2, CallMethodAnswers
<1>3. ASSUME NEW t \in Thread, Caller(t) PROVE AnsInv'
  BY <1>3, ConnectAnswers, SendAnswers, RecvAnswers, ReceivedAnswers DEF Caller
<1>4. ASSUME NEW n \in DOMAIN Offered, NotifyService(n) PROVE AnsInv'
  BY <1>4, NotifyServiceAnswers
<1>5. CASE Run
  BY <1>5, RunAnswers
<1>6. ASSUME NEW c \in DOMAIN conns, Arrives(c) PROVE AnsInv'
  BY <1>6, OnMessageAnswers DEF Arrives
<1>7. ASSUME NEW l \in Loop, Handler(l) PROVE AnsInv'
  BY <1>7, HandlerAnswers
<1>8. ASSUME NEW c \in DOMAIN conns, OnConnection(c) PROVE AnsInv'
  BY <1>8, OnConnectionAnswers
<1>9. CASE Stop
  BY <1>9, StopAnswers
<1>10. ASSUME NEW ch \in Channel, CallerEnds(ch) PROVE AnsInv'
  BY <1>10, CallerEndsAnswers
<1>11. CASE UNCHANGED vars
  <2>1. UNCHANGED <<channelVars, callerVars, conns, loops, stops, handled>>
    BY <1>11 DEF vars, serverVars, history
  <2>2. \A c : Untouched(c)
    BY <2>1 DEF Untouched, SameEnds, Serves
  <2> QED
    BY <2>1, <2>2, NothingGrows, ProviderTouchesNone
<1> QED
  BY <1>1, <1>2, <1>3, <1>4, <1>5, <1>6, <1>7, <1>8, <1>9, <1>10, <1>11 DEF Next

\* Of the steps only a recv ends a call well.
LEMMA EndsWell ==
    ASSUME RpcInv, [Next]_vars, NEW t \in Thread, pc[t] = "wait", pc'[t] = "idle",
           call'[t] # None, ~m_failed'[t]
    PROVE  Received(t)
<1>1. /\ pc = [u \in Thread |-> pc[u]] /\ m_failed = [u \in Thread |-> m_failed[u]]
  BY DEF RpcInv, CallersTyped
<1>2. ASSUME NEW u \in Thread, NEW method, NEW args, CallMethod(u, method, args)
      PROVE  FALSE
  BY <1>1, <1>2 DEF CallMethod
<1>3. ASSUME NEW u \in Thread, Caller(u)
      PROVE  Received(t)
  <2>1. CASE u = t
    BY <1>3, <2>1 DEF Caller, Connect, Send, Recv
  <2>2. CASE u # t
    BY <1>1, <1>3, <2>2
    DEF Caller, Connect, Send, Sent, SendFailed, Recv, Received, RecvFailed, TakeAnswer, Return
  <2> QED
    BY <2>1, <2>2
<1>4. ASSUME NEW ch \in Channel, CallerEnds(ch)
      PROVE  FALSE
  BY <1>4 DEF CallerEnds
<1>5. pc' # pc
  OBVIOUS
<1> QED
  BY <1>2, <1>3, <1>4, <1>5
  DEF Next, MprpcChannel, NotifyService, Run, Arrives, OnMessage, Handler, OnConnection, Stop,
      callerVars, vars

\* For any threads and channels, shared or not, and answers of any length: a call
\* that ends well has the answer its own request was given, or an empty one of a
\* provider that has ended, unless calls have overlapped on its channel or an answer
\* there was longer than one recv since one thread made the connection alone
\* (mprpcchannel.cpp:41-166).
THEOREM CallersGetTheirAnswers == Spec => OwnAnswer
<1>1. RpcInv /\ [Next]_vars => RpcInv'
  BY NextRpcInv
<1>2. CallInv /\ [Next]_vars => CallInv'
  BY NextCallInv
<1>3. RpcInv /\ CallInv /\ AnsInv /\ Awaited /\ [Next]_vars => AnsInv' /\ Awaited'
  BY NextAnsInv, NextAwaited
<1>4. RpcInv /\ CallInv /\ AnsInv /\ Awaited /\ [Next]_vars
        => [\A t \in Thread :
             /\ pc[t] = "wait" /\ pc'[t] = "idle" /\ call'[t] # None /\ ~m_failed'[t]
             /\ ChannelOf[t] \notin crossed'
             => HasAnswer(t)']_vars
  BY EndsWell, ReceivedAnswers
<1> QED
  BY InitRpcInv, InitCallInv, InitAnsInv, <1>1, <1>2, <1>3, <1>4, PTL DEF Spec, OwnAnswer
=============================================================================
