----------------------------- MODULE KvSnapshot -----------------------------
\* Snapshots of the key-value service: the apply channel and who pushes to it,
\* the loop that executes what it pops and makes and installs snapshots, and
\* the Persister's snapshot file. Of Raft only the indexes and the compaction
\* are here, over one log of chosen commands; Raft.tla has the rest.
EXTENDS Integers, SequencesExt

CONSTANTS
    Server,
    Keys,
    NoValue,        \* of a key that the skip list does not have
    m_maxRaftState, \* a snapshot is due when the state kept is larger, in entries
    MaxIndex,       \* bound: commands chosen
    MaxSends,       \* bound: snapshots sent
    MaxRestarts     \* bound: processes started again

ASSUME SnapshotAssumption ==
    {m_maxRaftState, MaxIndex, MaxSends, MaxRestarts} \subseteq Nat

VARIABLES
    chosen,         \* the commands chosen, each with its key and request
    \* Raft, per server
    logEnd, m_commitIndex, m_lastApplied, m_lastSnapshotIncludeIndex,
    installs,       \* InstallSnapshot requests under way
    \* Persister
    m_raftStateSize, snapshotFile,
    \* the apply channel, what the applier has still to push, and detached pushes
    applyChan, batch, detached,
    \* the service
    loop, m_skipList, m_lastRequestId, m_lastSnapShotRaftLogIndex,
    exited,         \* the process has ended
    \* history
    done,           \* the indexes whose command the loop took and did not skip
    covered,        \* the largest index of a snapshot taken over from a leader
    sends, restarts

raftVars == <<logEnd, m_commitIndex, m_lastApplied, m_lastSnapshotIncludeIndex>>
fileVars == <<m_raftStateSize, snapshotFile>>
chanVars == <<applyChan, batch, detached>>
kvVars   == <<loop, m_skipList, m_lastRequestId, m_lastSnapShotRaftLogIndex>>
history  == <<done, covered, sends, restarts>>
vars == <<chosen, raftVars, installs, fileVars, chanVars, kvVars, exited, history>>

\* What a snapshot file, or the string read back from one, can be: nothing,
\* one word, or the whole archive.
Empty == [kind |-> "empty"]
Word  == [kind |-> "word"]
Archive(s, i) ==
    [kind |-> "archive", index |-> i, data |-> m_skipList[s], requests |-> m_lastRequestId[s]]

Larger(a, b) == IF a > b THEN a ELSE b

-----------------------------------------------------------------------------
\* The Persister.

\* What the log file has, in entries.
Entries(s) == logEnd[s] - m_lastSnapshotIncludeIndex[s]

\* Mutant of SaveRaftState: the size is added up and not set to 0 first.
SaveRaftStateAdds(s, entries) ==
    m_raftStateSize' = [m_raftStateSize EXCEPT ![s] = @ + entries]

\* clearRaftState sets the size to 0, and what is written is added.
SaveRaftState(s, entries) ==
    m_raftStateSize' = [m_raftStateSize EXCEPT ![s] = entries]

\* Mutant of Save: an archive that the file has already is kept.
SaveKeepsArchive(s, snapshot) ==
    /\ m_raftStateSize' = [m_raftStateSize EXCEPT ![s] = 0]
    /\ snapshotFile' = [snapshotFile EXCEPT ![s] = IF @ = Empty THEN snapshot ELSE @]

\* Save clears both files, writes both, and counts nothing.
Save(s, snapshot) ==
    /\ m_raftStateSize' = [m_raftStateSize EXCEPT ![s] = 0]
    /\ snapshotFile' = [snapshotFile EXCEPT ![s] = snapshot]

\* ReadSnapshot reads up to the first space, and opens the file for writing
\* again, which empties it.
FirstWord(file) == IF file = Empty THEN Empty ELSE Word

ReadSnapshot(s) ==
    /\ snapshotFile' = [snapshotFile EXCEPT ![s] = Empty]
    /\ UNCHANGED m_raftStateSize

-----------------------------------------------------------------------------
\* Raft.

\* A command is chosen: the clerk's next one, or its last once more.
Choose(key, request) ==
    /\ Len(chosen) < MaxIndex
    /\ request \in 1..MaxIndex
    /\ LET last == IF chosen = <<>> THEN 0 ELSE Last(chosen).request
       IN  request \in {last, last + 1}
    /\ chosen' = Append(chosen, [key |-> key, request |-> request])
    /\ UNCHANGED <<raftVars, installs, fileVars, chanVars, kvVars, exited, history>>

\* An entry comes to a server's log from its own Start, or from a leader whose
\* log still has it.
Obtainable(s, i) ==
    \/ \A p \in Server : logEnd[p] < i
    \/ \E p \in Server \ {s} : ~exited[p] /\ m_lastSnapshotIncludeIndex[p] < i /\ i <= logEnd[p]

Replicate(s) ==
    LET i == logEnd[s] + 1
    IN  /\ ~exited[s] /\ i <= Len(chosen) /\ Obtainable(s, i)
        /\ logEnd' = [logEnd EXCEPT ![s] = i]
        /\ SaveRaftState(s, Entries(s) + 1)
        /\ UNCHANGED <<chosen, m_commitIndex, m_lastApplied, m_lastSnapshotIncludeIndex, installs,
                       snapshotFile, chanVars, kvVars, exited, history>>

\* The server learns that entries of its log are chosen.
Learn(s, i) ==
    /\ ~exited[s] /\ m_commitIndex[s] < i /\ i <= logEnd[s]
    /\ m_commitIndex' = [m_commitIndex EXCEPT ![s] = i]
    /\ UNCHANGED <<chosen, logEnd, m_lastApplied, m_lastSnapshotIncludeIndex, installs, fileVars,
                   chanVars, kvVars, exited, history>>

Messages(first, last) ==
    [j \in 1..(last + 1 - first) |-> [kind |-> "command", index |-> first + j - 1]]

\* Mutant of Batch: it starts with the entry applied last.
BatchAgain(s) == Messages(Larger(1, m_lastApplied[s]), m_commitIndex[s])

\* Mutant of Batch: the loop ends before m_commitIndex.
BatchShort(s) == Messages(m_lastApplied[s] + 1, m_commitIndex[s] - 1)

\* The commands committed and not yet applied.
Batch(s) == Messages(m_lastApplied[s] + 1, m_commitIndex[s])

\* The applier takes all of them at once, under the mutex.
getApplyLogs(s) ==
    /\ ~exited[s] /\ batch[s] = <<>>
    /\ m_lastApplied[s] < m_commitIndex[s]
    /\ batch' = [batch EXCEPT ![s] = Batch(s)]
    /\ m_lastApplied' = [m_lastApplied EXCEPT ![s] = m_commitIndex[s]]
    /\ UNCHANGED <<chosen, logEnd, m_commitIndex, m_lastSnapshotIncludeIndex, installs,
                   fileVars, applyChan, detached, kvVars, exited, history>>

\* It pushes them one by one, without the mutex.
applierTicker(s) ==
    /\ ~exited[s] /\ batch[s] # <<>>
    /\ applyChan' = [applyChan EXCEPT ![s] = Append(@, Head(batch[s]))]
    /\ batch' = [batch EXCEPT ![s] = Tail(@)]
    /\ UNCHANGED <<chosen, raftVars, installs, fileVars, detached, kvVars, exited, history>>

\* Raft::Snapshot: the log up to this index is replaced by the snapshot.
Accepted(s, i) == m_lastSnapshotIncludeIndex[s] < i /\ i <= m_commitIndex[s]

Snapshot(s) ==
    LET i == loop[s].index
    IN  /\ ~exited[s] /\ loop[s].at = "snapshot"
        /\ loop' = [loop EXCEPT ![s] = [at |-> "pop"]]
        /\ IF Accepted(s, i)
           THEN /\ m_lastSnapshotIncludeIndex' = [m_lastSnapshotIncludeIndex EXCEPT ![s] = i]
                /\ m_lastApplied' = [m_lastApplied EXCEPT ![s] = Larger(@, i)]
                /\ Save(s, loop[s].snapshot)
           ELSE UNCHANGED <<m_lastSnapshotIncludeIndex, m_lastApplied, fileVars>>
        /\ UNCHANGED <<chosen, logEnd, m_commitIndex, installs, chanVars, m_skipList,
                       m_lastRequestId, m_lastSnapShotRaftLogIndex, exited, history>>

\* A leader sends its snapshot to a server that is behind it.
leaderSendSnapShot(s, p) ==
    /\ ~exited[s] /\ s # p /\ sends < MaxSends
    /\ logEnd[p] < m_lastSnapshotIncludeIndex[s]
    /\ installs' = installs \cup
            {[to |-> p, index |-> m_lastSnapshotIncludeIndex[s], data |-> FirstWord(snapshotFile[s])]}
    /\ ReadSnapshot(s)
    /\ sends' = sends + 1
    /\ UNCHANGED <<chosen, raftVars, chanVars, kvVars, exited, done, covered, restarts>>

\* The receiver takes over the indexes, writes the snapshot to its own file, and
\* leaves the push to a thread of its own.
InstallSnapshot(r) ==
    LET s == r.to
    IN  /\ ~exited[s]
        /\ installs' = installs \ {r}
        /\ IF r.index <= m_lastSnapshotIncludeIndex[s]
           THEN UNCHANGED <<raftVars, fileVars, detached, covered>>
           ELSE /\ logEnd' = [logEnd EXCEPT ![s] = Larger(@, r.index)]
                /\ m_commitIndex' = [m_commitIndex EXCEPT ![s] = Larger(@, r.index)]
                /\ m_lastApplied' = [m_lastApplied EXCEPT ![s] = Larger(@, r.index)]
                /\ m_lastSnapshotIncludeIndex' = [m_lastSnapshotIncludeIndex EXCEPT ![s] = r.index]
                /\ Save(s, r.data)
                /\ detached' = [detached EXCEPT ![s] =
                        @ \cup {[kind |-> "snapshot", index |-> r.index, data |-> r.data]}]
                /\ covered' = [covered EXCEPT ![s] = r.index]
        /\ UNCHANGED <<chosen, applyChan, batch, kvVars, exited, done, sends, restarts>>

pushMsgToKvServer(s, m) ==
    /\ ~exited[s] /\ m \in detached[s]
    /\ applyChan' = [applyChan EXCEPT ![s] = Append(@, m)]
    /\ detached' = [detached EXCEPT ![s] = @ \ {m}]
    /\ UNCHANGED <<chosen, raftVars, installs, fileVars, batch, kvVars, exited, history>>

-----------------------------------------------------------------------------
\* ReadRaftApplyCommandLoop.

Skipped(s, i) == i <= m_lastSnapShotRaftLogIndex[s]

Popped(s, kind) ==
    /\ ~exited[s] /\ loop[s].at = "pop"
    /\ applyChan[s] # <<>> /\ Head(applyChan[s]).kind = kind
    /\ applyChan' = [applyChan EXCEPT ![s] = Tail(@)]

\* A command is executed unless the snapshot has it or it is a duplicate.
GetCommandFromRaft(s) ==
    /\ Popped(s, "command")
    /\ LET i  == Head(applyChan[s]).index
           op == chosen[i]
       IN  IF Skipped(s, i)
           THEN UNCHANGED <<loop, m_skipList, m_lastRequestId, done>>
           ELSE /\ loop' = [loop EXCEPT ![s] = [at |-> "measure", index |-> i]]
                /\ done' = [done EXCEPT ![s] = @ \cup {i}]
                /\ IF op.request <= m_lastRequestId[s]
                   THEN UNCHANGED <<m_skipList, m_lastRequestId>>
                   ELSE /\ m_skipList' = [m_skipList EXCEPT ![s][op.key] = op.request]
                        /\ m_lastRequestId' = [m_lastRequestId EXCEPT ![s] = op.request]
    /\ UNCHANGED <<chosen, raftVars, installs, fileVars, batch, detached,
                   m_lastSnapShotRaftLogIndex, exited, covered, sends, restarts>>

\* The state kept is measured, and the snapshot made of what is executed by now.
IfNeedToSendSnapShotCommand(s) ==
    /\ ~exited[s] /\ loop[s].at = "measure"
    /\ loop' = [loop EXCEPT ![s] =
            IF m_raftStateSize[s] > m_maxRaftState
            THEN [at |-> "snapshot", index |-> @.index, snapshot |-> Archive(s, @.index)]
            ELSE [at |-> "pop"]]
    /\ UNCHANGED <<chosen, raftVars, installs, fileVars, chanVars, m_skipList, m_lastRequestId,
                   m_lastSnapShotRaftLogIndex, exited, history>>

\* A snapshot without bytes installs nothing and counts as installed; one word
\* is no archive: parseFromString throws, and nobody catches.
GetSnapShotFromRaft(s) ==
    /\ Popped(s, "snapshot")
    /\ LET m == Head(applyChan[s])
       IN  IF m.data = Empty
           THEN /\ m_lastSnapShotRaftLogIndex' = [m_lastSnapShotRaftLogIndex EXCEPT ![s] = m.index]
                /\ UNCHANGED exited
           ELSE /\ exited' = [exited EXCEPT ![s] = TRUE]
                /\ UNCHANGED m_lastSnapShotRaftLogIndex
    /\ UNCHANGED <<chosen, raftVars, installs, fileVars, batch, detached, loop, m_skipList,
                   m_lastRequestId, history>>

-----------------------------------------------------------------------------

NoData == [k \in Keys |-> NoValue]

\* The process starts again: the Persister empties both files, so that neither
\* Raft nor the service finds anything.
Restart(s) ==
    /\ exited[s] /\ restarts < MaxRestarts
    /\ restarts' = restarts + 1
    /\ exited' = [exited EXCEPT ![s] = FALSE]
    /\ logEnd' = [logEnd EXCEPT ![s] = 0] /\ m_commitIndex' = [m_commitIndex EXCEPT ![s] = 0]
    /\ m_lastApplied' = [m_lastApplied EXCEPT ![s] = 0]
    /\ m_lastSnapshotIncludeIndex' = [m_lastSnapshotIncludeIndex EXCEPT ![s] = 0]
    /\ Save(s, Empty)
    /\ applyChan' = [applyChan EXCEPT ![s] = <<>>]
    /\ batch' = [batch EXCEPT ![s] = <<>>] /\ detached' = [detached EXCEPT ![s] = {}]
    /\ loop' = [loop EXCEPT ![s] = [at |-> "pop"]]
    /\ m_skipList' = [m_skipList EXCEPT ![s] = NoData]
    /\ m_lastRequestId' = [m_lastRequestId EXCEPT ![s] = 0]
    /\ m_lastSnapShotRaftLogIndex' = [m_lastSnapShotRaftLogIndex EXCEPT ![s] = 0]
    /\ done' = [done EXCEPT ![s] = {}] /\ covered' = [covered EXCEPT ![s] = 0]
    /\ UNCHANGED <<chosen, installs, sends>>

Init ==
    /\ chosen = <<>> /\ installs = {}
    /\ logEnd = [s \in Server |-> 0] /\ m_commitIndex = [s \in Server |-> 0]
    /\ m_lastApplied = [s \in Server |-> 0]
    /\ m_lastSnapshotIncludeIndex = [s \in Server |-> 0]
    /\ m_raftStateSize = [s \in Server |-> 0]
    /\ snapshotFile = [s \in Server |-> Empty]
    /\ applyChan = [s \in Server |-> <<>>] /\ batch = [s \in Server |-> <<>>]
    /\ detached = [s \in Server |-> {}]
    /\ loop = [s \in Server |-> [at |-> "pop"]]
    /\ m_skipList = [s \in Server |-> NoData]
    /\ m_lastRequestId = [s \in Server |-> 0]
    /\ m_lastSnapShotRaftLogIndex = [s \in Server |-> 0]
    /\ exited = [s \in Server |-> FALSE]
    /\ done = [s \in Server |-> {}] /\ covered = [s \in Server |-> 0]
    /\ sends = 0 /\ restarts = 0

\* The threads of a server's process.
applier(s) == getApplyLogs(s) \/ applierTicker(s)

ReadRaftApplyCommandLoop(s) ==
    \/ GetCommandFromRaft(s)
    \/ IfNeedToSendSnapShotCommand(s)
    \/ Snapshot(s)
    \/ GetSnapShotFromRaft(s)

Next ==
    \/ \E key \in Keys, request \in 1..MaxIndex : Choose(key, request)
    \/ \E s \in Server : Replicate(s)
    \/ \E s \in Server, i \in 1..MaxIndex : Learn(s, i)
    \/ \E s \in Server : applier(s)
    \/ \E s, p \in Server : leaderSendSnapShot(s, p)
    \/ \E r \in installs : InstallSnapshot(r)
    \/ \E s \in Server : \E m \in detached[s] : pushMsgToKvServer(s, m)
    \/ \E s \in Server : ReadRaftApplyCommandLoop(s)
    \/ \E s \in Server : Restart(s)

Spec == Init /\ [][Next]_vars

\* The threads of a process that has not ended are scheduled.
Fairness ==
    \A s \in Server :
        /\ WF_vars(applier(s))
        /\ WF_vars(ReadRaftApplyCommandLoop(s))
        /\ WF_vars(\E m \in detached[s] : pushMsgToKvServer(s, m))

FairSpec == Spec /\ Fairness
=============================================================================
