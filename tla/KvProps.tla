------------------------------ MODULE KvProps ------------------------------
(***************************************************************************)
(* What the key-value service promises its clients, over what Raft promises *)
(* the service.                                                            *)
(***************************************************************************)
EXTENDS KvServer

Ops == [clerk : Client, client : Nat, request : Nat,
        kind : {"Get", "Put", "Append"}, key : Keys]
Calls == [op : Ops, server : Server, attempt : Nat]
Handlers ==
    [call : Calls, index : Nat,
     at : {"started", "waiting", "read", "erase"},
     err : {"none", "OK", "ErrNoKey", "ErrWrongLeader"}]

\* Every variable of the model keeps the type its member has; a clerk only ever
\* calls a server there is.
KvTypeOK ==
    /\ m_requestId \in [Client -> Nat]
    /\ m_recentLeaderId \in [Client -> Server]
    /\ calling \in [Client -> Calls \cup {Idle}]
    /\ chosenBefore \in [Client -> Nat]
    /\ calls \subseteq Calls
    /\ handlers \subseteq Handlers
    /\ m_skipList \in [Server -> [Keys -> Ops \cup {NoValue}]]
    /\ m_lastRequestId \in [Server -> [{Uuid(c) : c \in Client} -> Nat]]
    /\ \A s \in Server : /\ DOMAIN waitApplyCh[s] \subseteq Nat
                         /\ \A i \in DOMAIN waitApplyCh[s] :
                                waitApplyCh[s][i] \in Seq(Ops)
    /\ applying \in [Server -> {"pop", "execute", "send"}]
    /\ applied \in [Server -> Nat]
    /\ chosen \in Seq(Ops)
    /\ started \subseteq [index : Nat, op : Ops]
    /\ logEnd \in [Server -> Nat]

-----------------------------------------------------------------------------
(* Safety *)

\* A clerk returns from Put or Append only after its command was chosen,
\* whatever was retried, overwritten or timed out (PutAppend compares the command
\* at its index with its own, and trusts m_lastRequestId when it timed out).
AcknowledgedIsChosen ==
    \A c \in Client :
        NoCall(c) /\ m_requestId[c] > 0 /\ Writes(calling[c].op)
        => \E i \in 1..Len(chosen) : chosen[i] = calling[c].op

\* The same command at an earlier index.
Repeats(i) == \E j \in 1..(i - 1) : chosen[j] = chosen[i]

\* The first n commands that write key k, and those that do so for the first time.
AllWrites(n, k) == {i \in 1..n : Writes(chosen[i]) /\ chosen[i].key = k}

FirstWrites(n, k) == {i \in AllWrites(n, k) : ~Repeats(i)}

\* Among the first n commands is a Get that the clerk of op called before op.
GetAmong(n, op) ==
    \E j \in 1..n : /\ chosen[j].kind = "Get" /\ chosen[j].clerk = op.clerk
                    /\ chosen[j].request < op.request

\* How many commands the skip list shows.
Shown(s) == IF applying[s] = "send" THEN applied[s] + 1 ELSE applied[s]

\* No key was appended to by the first n commands.
OnlyPut(n, k) == \A i \in AllWrites(n, k) : chosen[i].kind = "Put"

\* No Put is lost at any server, and none is executed again that another request
\* of its clerk did not make possible: the value of a key is that of a write with
\* no first-time write behind it, which repeats an earlier one only if its clerk
\* had called Get before (GetCommandFromRaft, with the duplicate table that Get's
\* handlers write as well, ExecuteGetOpOnKVDB, and may set back).  Append is left
\* open: Clerk says that it appends to the value, and ExecuteAppendOpOnKVDB sets
\* it.
NoWriteIsLost ==
    \A s \in Server, k \in Keys : OnlyPut(Shown(s), k) =>
        LET first == FirstWrites(Shown(s), k) IN
        \/ first = {} /\ m_skipList[s][k] = NoValue
        \/ \E i \in AllWrites(Shown(s), k) :
                /\ m_skipList[s][k] = chosen[i]
                /\ \A j \in first : j <= i
                /\ Repeats(i) => GetAmong(i - 1, chosen[i])

\* A Get whose clerk still waits for it reads a state that has everything
\* that was chosen before the clerk called Get, also when the handler timed
\* out, or its server was deposed.
ReadsSeeChosen ==
    \A h \in handlers :
        LET c == h.call.op.clerk IN
        h.at = "read" /\ ~NoCall(c) /\ h.call.op.request = m_requestId[c]
        => applied[h.call.server] >= chosenBefore[c]

\* A waiting handler's queue is not deleted by another: no two handlers of a
\* server ever wait on one index, which rests on Raft's log never getting
\* shorter (Get and PutAppend erase waitApplyCh[raftIndex] unconditionally).
WaitersHaveQueues ==
    \A h \in handlers :
        h.at = "waiting" => h.index \in DOMAIN waitApplyCh[h.call.server]

-----------------------------------------------------------------------------
(* What the repository says and the code does not do *)

\* What is executed has not been executed before (the comment in
\* GetCommandFromRaft: "duplicate command will not be exed").
DuplicatesAreSkipped ==
    \A s \in Server : applying[s] = "execute" => ~Repeats(applied[s] + 1)
=============================================================================
