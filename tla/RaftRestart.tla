----------------------------- MODULE RaftRestart -----------------------------
(***************************************************************************)
(* Raft with processes that are started again after they ended.            *)
(*                                                                         *)
(* KvServer builds a Persister, whose constructor opens both of its files  *)
(* with std::ios::trunc, and hands it to Raft::init, which sets every      *)
(* member to its initial value and then reads back what the persister      *)
(* holds: nothing.  The calls of the old process fail with its             *)
(* connections; what it already answered may still arrive.                 *)
(***************************************************************************)
EXTENDS RaftProps

\* The calls that do not involve s, and what s answered to others.
Others(S, s) == {m \in S : m.from # s /\ m.to # s}
NotTo(S, s)  == {m \in S : m.from # s}

\* Mutant of ReadLog: the file is read back, its snapshot index is not.
ReadWholeLog(s) == disk[s].logs

\* readPersist finds an empty file.
ReadLog(s) == <<>>

Restart(s) ==
    /\ ~Alive(s)
    /\ exited' = [exited EXCEPT ![s] = "no"]
    /\ m_currentTerm' = [m_currentTerm EXCEPT ![s] = 0]
    /\ m_votedFor' = [m_votedFor EXCEPT ![s] = Nil]
    /\ m_status' = [m_status EXCEPT ![s] = "Follower"]
    /\ m_logs' = [m_logs EXCEPT ![s] = ReadLog(s)]
    /\ m_lastSnapshotIncludeIndex' =
            [m_lastSnapshotIncludeIndex EXCEPT ![s] = 0]
    /\ m_lastSnapshotIncludeTerm' =
            [m_lastSnapshotIncludeTerm EXCEPT ![s] = 0]
    /\ m_commitIndex' = [m_commitIndex EXCEPT ![s] = 0]
    /\ m_lastApplied' = [m_lastApplied EXCEPT ![s] = 0]
    /\ m_nextIndex' = [m_nextIndex EXCEPT ![s] = [p \in Server |-> 0]]
    /\ m_matchIndex' = [m_matchIndex EXCEPT ![s] = [p \in Server |-> 0]]
    /\ votedNum' = [votedNum EXCEPT ![s] = 0]
    /\ appendNums' = [appendNums EXCEPT ![s] = [k \in Rounds |-> 0]]
    /\ voteCalls' = Others(voteCalls, s)
    /\ appendCalls' = Others(appendCalls, s)
    /\ snapCalls' = Others(snapCalls, s)
    /\ snapThreads' = NotTo(snapThreads, s)
    /\ voteReplies' = NotTo(voteReplies, s)
    /\ appendReplies' = NotTo(appendReplies, s)
    /\ snapReplies' = NotTo(snapReplies, s)
    /\ UNCHANGED history
    /\ persist(s)

RestartNext == Next \/ \E s \in Server : Restart(s)

RestartSpec == Init /\ [][RestartNext]_vars
=============================================================================
