--------------------------- MODULE KvSnapshotProps ---------------------------
\* What compaction and snapshots keep, and what they do not.
EXTENDS KvSnapshot

Commands  == [kind : {"command"}, index : 1..MaxIndex]
Snapshots == [kind : {"snapshot"}, index : 1..MaxIndex, data : {Empty, Word}]
Archives  == [kind : {"archive"}, index : 1..MaxIndex, data : [Keys -> 1..MaxIndex \cup {NoValue}],
              requests : 0..MaxIndex]

\* Type invariant of the snapshot model.
TypeOK ==
    /\ chosen \in Seq([key : Keys, request : 1..MaxIndex]) /\ Len(chosen) <= MaxIndex
    /\ installs \subseteq [to : Server, index : 1..MaxIndex, data : {Empty, Word}]
    /\ \A s \in Server :
          /\ m_lastSnapshotIncludeIndex[s] <= m_lastApplied[s]
          /\ m_lastApplied[s] <= m_commitIndex[s]
          /\ m_commitIndex[s] <= logEnd[s]
          /\ snapshotFile[s] \in {Empty, Word} \cup Archives
          /\ Range(applyChan[s]) \subseteq Commands \cup Snapshots
          /\ Range(batch[s]) \subseteq Commands /\ detached[s] \subseteq Snapshots
          /\ m_skipList[s] \in [Keys -> 1..MaxIndex \cup {NoValue}]
          /\ m_lastRequestId[s] \in 0..MaxIndex /\ m_lastSnapShotRaftLogIndex[s] \in 0..MaxIndex
          /\ done[s] \subseteq 1..Len(chosen) /\ covered[s] \in 0..MaxIndex
    /\ exited \in [Server -> BOOLEAN]

-----------------------------------------------------------------------------

\* Of some indexes, those whose command repeats no earlier one of them.
Fresh(I) == {i \in I : \A j \in I : j < i => chosen[j].request < chosen[i].request}

WritesTo(k, I) == {i \in Fresh(I) : chosen[i].key = k}

\* The state that executing the commands at these indexes leads to.
Replay(I) ==
    [k \in Keys |-> IF WritesTo(k, I) = {} THEN NoValue
                    ELSE chosen[CHOOSE i \in WritesTo(k, I) : \A j \in WritesTo(k, I) : j <= i].request]

\* The loop gets commands in the order of the log and each once, whatever
\* snapshots are pushed between them by other threads (raft.cpp:466).
TakenInOrder ==
    \A s \in Server :
        LET coming   == applyChan[s] \o batch[s]
            commands == {i \in DOMAIN coming : coming[i].kind = "command"}
        IN  /\ \A i, j \in commands : i < j => coming[i].index < coming[j].index
            /\ \A d \in done[s], i \in commands : d < coming[i].index

\* A command that a server passed over is in a snapshot its Raft took over: no
\* batch of the applier is lost or skipped for another reason (kvServer.cpp:159).
PassedOverIsCovered ==
    \A s \in Server : \A i \in done[s] : \A j \in 1..(i - 1) : j \in done[s] \/ j <= covered[s]

\* The archive in a server's file is of the index its Raft was compacted to, and
\* has exactly what the server executed up to there: InstallSnapshot may run
\* between MakeSnapShot and Snapshot (kvServer.cpp:336, 337).
ArchiveIsState ==
    \A s \in Server :
        snapshotFile[s].kind = "archive" =>
            /\ snapshotFile[s].index = m_lastSnapshotIncludeIndex[s]
            /\ snapshotFile[s].data = Replay({i \in done[s] : i <= m_lastSnapshotIncludeIndex[s]})

\* The size that decides on the next snapshot is that of the log kept, or 0 from
\* a compaction until the log is saved again (Persister.cpp:6-16, 39-46).
SizeIsOfLog == \A s \in Server : m_raftStateSize[s] \in {0, Entries(s)}

\* What Raft knows of its log and what the persister has of it and of the
\* snapshot stay in step through compaction, installation and restarts
\* (raft.cpp:447-472, 1132-1167).
FilesInStep == TypeOK /\ SizeIsOfLog

\* Time and again all that is committed at a server is at its service, or in a
\* snapshot its Raft took over, or the process has ended: pushes from two threads
\* block nobody.
CommandsReachService ==
    \A s \in Server :
        []<>(exited[s] \/ \A i \in 1..m_commitIndex[s] : i \in done[s] \/ i <= covered[s])
=============================================================================
