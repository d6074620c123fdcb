------------------------------ MODULE RaftProps ------------------------------
(***************************************************************************)
(* What Raft.tla promises: its types, its safety invariants and its action *)
(* properties, and the statements of the repository its violation runs     *)
(* check.                                                                  *)
(***************************************************************************)
EXTENDS Raft

-----------------------------------------------------------------------------
(* Types *)

VoteCallType  == [from : Server, to : Server, term : Nat,
                  lastLogIndex : Nat, lastLogTerm : Nat]
VoteReplyType == [from : Server, to : Server, election : Nat, term : Nat,
                  voteGranted : BOOLEAN]
AppendCallType ==
    [from : Server, to : Server, round : Rounds, term : Nat,
     prevLogIndex : Nat, prevLogTerm : Nat, entries : Seq(Entries),
     leaderCommit : Nat]
AppendReplyType ==
    [from : Server, to : Server, round : Rounds, upTo : Nat, lastTerm : Nat,
     term : Nat, success : BOOLEAN, updateNextIndex : Nat \cup {NoUpdate}]
SnapThreadType == [from : Server, to : Server, round : Rounds]
SnapCallType ==
    [from : Server, to : Server, round : Rounds, term : Nat, index : Nat,
     snapTerm : Nat]
SnapReplyType ==
    [from : Server, to : Server, round : Rounds, callTerm : Nat, index : Nat,
     term : Nat]

TermTypes ==
    /\ m_currentTerm \in [Server -> Nat]
    /\ m_votedFor \in [Server -> Server \cup {Nil}]
    /\ m_status \in [Server -> {"Follower", "Candidate", "Leader"}]

LogTypes ==
    /\ m_logs \in [Server -> Seq(Entries)]
    /\ m_lastSnapshotIncludeIndex \in [Server -> Nat]
    /\ m_lastSnapshotIncludeTerm \in [Server -> Nat]

IndexTypes ==
    /\ m_commitIndex \in [Server -> Nat]
    /\ m_lastApplied \in [Server -> Nat]
    /\ m_nextIndex \in [Server -> [Server -> Nat]]
    /\ m_matchIndex \in [Server -> [Server -> Nat]]

CountTypes ==
    /\ votedNum \in [Server -> Nat]
    /\ appendNums \in [Server -> [Rounds -> Nat]]

DiskTypes ==
    disk \in [Server -> [term : Nat, votedFor : Server \cup {Nil},
                        logs : Seq(Entries), snapIndex : Nat, snapTerm : Nat]]

ExitTypes == exited \in [Server -> Exits]

VoteTypes ==
    /\ voteCalls \subseteq VoteCallType
    /\ voteReplies \subseteq VoteReplyType

AppendTypes ==
    /\ appendCalls \subseteq AppendCallType
    /\ appendReplies \subseteq AppendReplyType

SnapTypes ==
    /\ snapThreads \subseteq SnapThreadType
    /\ snapCalls \subseteq SnapCallType
    /\ snapReplies \subseteq SnapReplyType

HistoryTypes ==
    /\ votes \subseteq [term : Nat, voter : Server, candidate : Server]
    /\ leaders \subseteq [term : Nat, leader : Server]

\* Every variable of the model keeps the type its member has in raft.h.
TypeOK ==
    /\ TermTypes /\ LogTypes /\ IndexTypes /\ CountTypes
    /\ DiskTypes /\ ExitTypes
    /\ VoteTypes /\ AppendTypes /\ SnapTypes /\ HistoryTypes

-----------------------------------------------------------------------------
(* Safety *)

\* The retained entry of s at log index i.
EntryAt(s, i) == m_logs[s][SliceIndex(s, i)]
Retained(s) == (m_lastSnapshotIncludeIndex[s] + 1)..LastLogIndex(s)

\* At most one server ever wins a term (raft.cpp sendRequestVote): the votes
\* counted come from detached threads, late and out of order, and the winner's
\* status is not compared with Candidate.
ElectionSafety ==
    \A x, y \in leaders : x.term = y.term => x.leader = y.leader

\* Logical indexes and slice positions stay in step through appends, blind
\* overwrites, compaction and snapshot installation, which is what
\* getSlicesIndexFromLogIndex relies on.
LogsContiguous ==
    \A s \in Server : \A k \in 1..Len(m_logs[s]) :
        m_logs[s][k].index = m_lastSnapshotIncludeIndex[s] + k

\* The entries of the logs and of the requests under way.
AllEntries ==
    (UNION {{m_logs[s][k] : k \in 1..Len(m_logs[s])} : s \in Server})
    \cup (UNION {{c.entries[k] : k \in 1..Len(c.entries)} : c \in appendCalls})

\* An index and a term name one command, in the logs and in the requests
\* under way (the assertion of AppendEntries1 on equal term, other command).
EntryIdentity ==
    \A e, f \in AllEntries :
        e.index = f.index /\ e.term = f.term => e.cmd = f.cmd

\* Compacted, applied, committed, stored: each at most the next.  Covers the
\* assertions on commitIndex in AppendEntries1, getApplyLogs and
\* sendAppendEntries.
IndexOrder ==
    \A s \in Server :
        /\ m_lastSnapshotIncludeIndex[s] <= m_lastApplied[s]
        /\ m_lastApplied[s] <= m_commitIndex[s]
        /\ m_commitIndex[s] <= LastLogIndex(s)

\* A leader can build the next request for every peer: the assertions of
\* doHeartBeat and sendAppendEntries on nextIndex, and the slice lookups.
LeaderCanSend ==
    \A s, p \in Server : Alive(s) /\ m_status[s] = "Leader" =>
        /\ m_nextIndex[s][p] \in 1..(LastLogIndex(s) + 1)
        /\ m_matchIndex[s][p] <= LastLogIndex(s)

\* What a leader believes a peer has, the peer has, as long as it is in the
\* leader's term: late and reordered requests of the same leader take nothing
\* away (AppendEntries1: "do not cut the log at prevLogIndex, the RPC may be
\* delayed").
MatchIndexTruthful ==
    \A s, p \in Server :
        LET i == m_matchIndex[s][p] IN
        /\ Alive(s) /\ Alive(p) /\ p # s
        /\ m_status[s] = "Leader" /\ m_currentTerm[p] = m_currentTerm[s]
        => /\ i <= LastLogIndex(p)
           /\ i \in Retained(s) \cap Retained(p) => EntryAt(s, i) = EntryAt(p, i)

\* The persister holds what the process would need after a crash, whenever the
\* mutex is free: no answer leaves before its term, vote and log are written.
DiskCurrent ==
    \A s \in Server : Alive(s) =>
        disk[s] = [term |-> m_currentTerm[s], votedFor |-> m_votedFor[s],
                   logs |-> m_logs[s],
                   snapIndex |-> m_lastSnapshotIncludeIndex[s],
                   snapTerm |-> m_lastSnapshotIncludeTerm[s]]

\* The votes that come in after a victory never make a second majority, which
\* would end the leader (the assertion of sendRequestVote: "the same term was
\* elected leader twice").
ElectedOnce ==
    \A r \in voteReplies :
        /\ r.term = m_currentTerm[r.from] /\ r.voteGranted
        /\ votedNum[r.from] + 1 >= Majority
        => m_status[r.from] # "Leader"

-----------------------------------------------------------------------------
(* Action properties *)

\* While it leads a term a server never changes or loses an entry, though any
\* later sender of a request may demote it.
LeaderAppendOnly ==
    [][\A s \in Server :
         /\ m_status[s] = "Leader" /\ m_status'[s] = "Leader"
         /\ m_currentTerm'[s] = m_currentTerm[s]
         => /\ LastLogIndex(s)' >= LastLogIndex(s)
            /\ \A i \in Retained(s) \cap Retained(s)' :
                    EntryAt(s, i)' = EntryAt(s, i)]_vars

\* The server has the entry the leader of that term commits, or has moved on
\* to a later term.
HoldsOrMovedOn(p, i, t) ==
    \/ m_currentTerm[p] > t
    \/ i <= m_lastSnapshotIncludeIndex[p]
    \/ i \in Retained(p) /\ EntryAt(p, i).term = t

\* A leader advances its commit index only to an entry of its own term that a
\* majority accepted (sendAppendEntries counts answers per round, not per
\* entry, and never looks at matchIndex).
CommitsOnMajority ==
    [][\A s \in Server :
         /\ m_status[s] = "Leader"
         /\ m_commitIndex'[s] > m_commitIndex[s]
         /\ m_currentTerm'[s] = m_currentTerm[s] /\ m_status'[s] = "Leader"
         => Cardinality({p \in Server :
               HoldsOrMovedOn(p, m_commitIndex'[s], m_currentTerm[s])})
            >= Majority]_vars

\* Terms, commit and apply positions and the ends of logs never go back, and a
\* vote is not changed within its term, whatever order requests and answers come
\* in.  KvServer's handlers wait on the index Start returned, which is new only
\* because logs do not get shorter.
NeverGoesBack ==
    [][\A s \in Server :
         /\ m_currentTerm'[s] >= m_currentTerm[s]
         /\ m_commitIndex'[s] >= m_commitIndex[s]
         /\ m_lastApplied'[s] >= m_lastApplied[s]
         /\ LastLogIndex(s)' >= LastLogIndex(s)
         /\ m_currentTerm'[s] = m_currentTerm[s] /\ m_votedFor[s] # Nil
            => m_votedFor'[s] = m_votedFor[s]]_vars

-----------------------------------------------------------------------------
(* Replication as the callers count it *)

\* An entry of the leader's term that a majority is known to hold is committed
\* as soon as the answer that made the majority has been handled
\* (sendAppendEntries: "majority reached: try to advance commitIndex").
ReplicatedIsCommitted ==
    \A s \in Server : Alive(s) /\ m_status[s] = "Leader" =>
        \A i \in Retained(s) :
            /\ EntryAt(s, i).term = m_currentTerm[s]
            /\ Cardinality({p \in Server \ {s} : m_matchIndex[s][p] >= i}) + 1
                 >= Majority
            => m_commitIndex[s] >= i

-----------------------------------------------------------------------------
(* What the repository says and the code does not do *)

\* A request behind the receiver's snapshot is refused, with the advice to send
\* a snapshot (the comment in AppendEntries1); the receiver does not end.
BehindSnapshotIsRefused == \A s \in Server : exited[s] # "matchLog"

\* Two servers that have both applied an index applied the same entry (the
\* strong consistency the README promises).
StateMachineSafety ==
    \A s, p \in Server : \A i \in Retained(s) \cap Retained(p) :
        i <= m_lastApplied[s] /\ i <= m_lastApplied[p]
        => EntryAt(s, i) = EntryAt(p, i)
=============================================================================
