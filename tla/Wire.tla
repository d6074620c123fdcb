-------------------------------- MODULE Wire --------------------------------
\* The proto3 messages of the three services and of the RPC header, and what
\* the generated code does with them. A message type is the sequence of its
\* field names, each at its field number. A message gives every field a value;
\* 0 stands for the default of a number, a truth value or a string of bytes.
\* A field that repeats, or that is itself a message, has a sequence. On the
\* wire a message is a sequence of <<number, payload>>.
EXTENDS Integers, SequencesExt

LogEntry == <<"Command", "LogTerm", "LogIndex">>

AppendEntriesArgs ==
    <<"Term", "LeaderId", "PrevLogIndex", "PrevLogTerm", "Entries", "LeaderCommit">>

AppendEntriesReply == <<"Term", "Success", "UpdateNextIndex", "AppState">>

RequestVoteArgs == <<"Term", "CandidateId", "LastLogIndex", "LastLogTerm">>

RequestVoteReply == <<"Term", "VoteGranted", "VoteState">>

InstallSnapshotRequest ==
    <<"LeaderId", "Term", "LastSnapShotIncludeIndex", "LastSnapShotIncludeTerm", "Data">>

InstallSnapshotResponse == <<"Term">>

GetArgs == <<"Key", "ClientId", "RequestId">>

GetReply == <<"Err", "Value">>

PutAppendArgs == <<"Key", "Value", "Op", "ClientId", "RequestId">>

PutAppendReply == <<"Err">>

ResultCode == <<"errcode", "errmsg">>

GetFriendsListRequest == <<"userid">>

GetFriendsListResponse == <<"result", "friends">>

RpcHeader == <<"service_name", "method_name", "args_size">>

-----------------------------------------------------------------------------

\* The fields that hold messages, and the type of these.
Nested == [Entries |-> LogEntry, result |-> ResultCode]

Many == {"Entries", "result", "friends"}

Clear(type) == [f \in Range(type) |-> IF f \in Many THEN <<>> ELSE 0]

\* The payloads of a field that repeats, one by one; a default is left out.
FlatUnits(n, payloads) == [j \in DOMAIN payloads |-> <<n, payloads[j]>>]

Present(x) == IF x = 0 THEN <<>> ELSE <<x>>

SerializeFlat(type, m) ==
    FlattenSeq([n \in DOMAIN type |-> FlatUnits(n, Present(m[type[n]]))])

Payloads(f, x) ==
    IF f \in DOMAIN Nested
    THEN [j \in DOMAIN x |-> SerializeFlat(Nested[f], x[j])]
    ELSE IF f \in Many THEN x ELSE Present(x)

SerializeToString(type, m) ==
    FlattenSeq([n \in DOMAIN type |-> FlatUnits(n, Payloads(type[n], m[type[n]]))])

\* Where the wire has field n. A number no field has is skipped.
At(wire, n) == {i \in DOMAIN wire : wire[i][1] = n}

\* A scalar takes the last value on the wire, and keeps its own if there is none.
Latest(wire, n, old) ==
    IF At(wire, n) = {} THEN old ELSE wire[Max(At(wire, n))][2]

\* All that the wire has for field n, in order.
Read(wire, n) ==
    LET Nth(j) == CHOOSE i \in At(wire, n) : Cardinality({k \in At(wire, n) : k <= i}) = j
    IN  [j \in 1..Cardinality(At(wire, n)) |-> wire[Nth(j)][2]]

NumberOf(type, f) == CHOOSE n \in DOMAIN type : type[n] = f

MergeFlat(type, m, wire) ==
    [f \in Range(type) |-> Latest(wire, NumberOf(type, f), m[f])]

ParseFlat(type, wire) == MergeFlat(type, Clear(type), wire)

\* A repeated field grows; a message that appears twice is merged with itself.
Grown(f, old, payloads) ==
    CASE f = "result"  ->
            IF payloads = <<>> THEN old
            ELSE <<MergeFlat(ResultCode, IF old = <<>> THEN Clear(ResultCode) ELSE Last(old),
                             FlattenSeq(payloads))>>
      [] f = "Entries" -> old \o [j \in DOMAIN payloads |-> ParseFlat(LogEntry, payloads[j])]
      [] f = "friends" -> old \o payloads

MergeFromString(type, m, wire) ==
    [f \in Range(type) |->
        LET n == NumberOf(type, f)
        IN  IF f \in Many THEN Grown(f, m[f], Read(wire, n)) ELSE Latest(wire, n, m[f])]

\* Mutant of Parsed: the message is not emptied.
ParsedOverOld(type, m, wire) == MergeFromString(type, m, wire)

\* ParseFromArray and ParseFromString empty the message `m` they are called on.
Parsed(type, m, wire) == MergeFromString(type, Clear(type), wire)

-----------------------------------------------------------------------------

\* The methods of the three generated services: CallMethod, the prototypes of
\* the request and of the response, and the stubs.
raftRpc ==
    [AppendEntries   |-> [args |-> AppendEntriesArgs, reply |-> AppendEntriesReply],
     InstallSnapshot |-> [args |-> InstallSnapshotRequest, reply |-> InstallSnapshotResponse],
     RequestVote     |-> [args |-> RequestVoteArgs, reply |-> RequestVoteReply]]

kvServerRpc ==
    [PutAppend |-> [args |-> PutAppendArgs, reply |-> PutAppendReply],
     Get       |-> [args |-> GetArgs, reply |-> GetReply]]

FiendServiceRpc ==
    [GetFriendsList |-> [args |-> GetFriendsListRequest, reply |-> GetFriendsListResponse]]

Service == [raftRpc |-> raftRpc, kvServerRpc |-> kvServerRpc, FiendServiceRpc |-> FiendServiceRpc]

ServiceMethods == UNION {DOMAIN Service[s] : s \in DOMAIN Service}

\* The service a method belongs to, and its two message types.
ServiceOf(method) == CHOOSE s \in DOMAIN Service : method \in DOMAIN Service[s]
Request(method)   == Service[ServiceOf(method)][method].args
Response(method)  == Service[ServiceOf(method)][method].reply
=============================================================================
