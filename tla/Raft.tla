-------------------------------- MODULE Raft --------------------------------
(***************************************************************************)
(* The consensus core, src/raftCore/raft.cpp: leader election, log         *)
(* replication, commit, apply, and log compaction, with one action per     *)
(* handler.                                                                *)
(*                                                                         *)
(* Every handler of raft.cpp runs under the process's m_mtx, so a handler  *)
(* is one atomic action.  A remote call is not atomic: doElection and      *)
(* doHeartBeat start one detached thread per peer, the thread sends its    *)
(* request without the mutex, and takes it again when the answer arrives.  *)
(* A request waiting for its handler and an answer waiting for its thread  *)
(* are elements of the sets *Calls and *Replies below; they are taken out  *)
(* in any order.  A request or an answer that is lost is one that is never *)
(* taken out: the thread whose call fails does nothing.                    *)
(*                                                                         *)
(* A failed myAssert ends the process (util.cpp: exit).  The one that can  *)
(* fail, matchLog's, sets exited[s]; the conditions of the others are      *)
(* invariants of RaftProps, and a step that would break one is not taken.  *)
(***************************************************************************)
EXTENDS Integers, Sequences, FiniteSets

CONSTANTS
    Server,         \* the processes; m_peers is the same set everywhere
    Cmds,           \* the commands clients submit
    Nil             \* m_votedFor = -1

(* Bounds of the exploration: each one only disables actions. *)
CONSTANTS
    MaxIndex,       \* no entry is appended by Start beyond this index
    Rounds,         \* slots: how many heartbeat rounds of a server overlap
    Elections,      \* <<server, term>>: the elections that may be started
    Compactors,     \* servers whose KV layer calls Snapshot
    MaxCrashes      \* how many processes may be killed

ASSUME ServerAssumption == IsFiniteSet(Server) /\ Nil \notin Server
ASSUME BoundAssumption ==
    /\ MaxIndex \in Nat /\ MaxCrashes \in Nat
    /\ Elections \subseteq Server \X Nat /\ Compactors \subseteq Server

VARIABLES
    \* Raft's members, one value per process
    m_currentTerm, m_votedFor, m_status,
    m_logs, m_lastSnapshotIncludeIndex, m_lastSnapshotIncludeTerm,
    m_commitIndex, m_lastApplied,
    m_nextIndex, m_matchIndex,
    votedNum,       \* doElection's shared counter, of the latest election
    appendNums,     \* doHeartBeat's shared counter, one per round slot
    disk,           \* what m_persister holds
    exited,         \* why the process ended, or "no"
    \* the threads of remote calls and what they carry
    voteCalls, voteReplies,
    appendCalls, appendReplies,
    snapThreads, snapCalls, snapReplies,
    \* history: votes cast and elections won
    votes, leaders

termVars   == <<m_currentTerm, m_votedFor, m_status>>
logVars    == <<m_logs, m_lastSnapshotIncludeIndex, m_lastSnapshotIncludeTerm>>
applyVars  == <<m_commitIndex, m_lastApplied>>
leaderVars == <<m_nextIndex, m_matchIndex>>
voteNet    == <<voteCalls, voteReplies>>
appendNet  == <<appendCalls, appendReplies>>
snapNet    == <<snapThreads, snapCalls, snapReplies>>
history    == <<votes, leaders>>
vars == <<termVars, logVars, applyVars, leaderVars, votedNum, appendNums,
          disk, exited, voteNet, appendNet, snapNet, history>>

-----------------------------------------------------------------------------
(* Helpers *)

\* An exit of the process: not ended, killed, or the failed assertion.
Exits == {"no", "killed", "matchLog"}

Entries == [index : Nat, term : Nat, cmd : Cmds]

Alive(s) == exited[s] = "no"

\* N / 2 + 1, the threshold of both vote and append counting.
Majority == Cardinality(Server) \div 2 + 1

LastLogIndex(s) ==
    IF m_logs[s] = <<>> THEN m_lastSnapshotIncludeIndex[s]
                        ELSE m_logs[s][Len(m_logs[s])].index

LastLogTerm(s) ==
    IF m_logs[s] = <<>> THEN m_lastSnapshotIncludeTerm[s]
                        ELSE m_logs[s][Len(m_logs[s])].term

\* getSlicesIndexFromLogIndex, counting from 1.
SliceIndex(s, i) == i - m_lastSnapshotIncludeIndex[s]

TermAt(s, i) ==
    IF i = m_lastSnapshotIncludeIndex[s] THEN m_lastSnapshotIncludeTerm[s]
    ELSE m_logs[s][SliceIndex(s, i)].term

UpToDate(s, index, term) ==
    \/ term > LastLogTerm(s)
    \/ term = LastLogTerm(s) /\ index >= LastLogIndex(s)

\* Mutant of persist: the vote is left out.
persistWithoutVote(s) ==
    disk' = [disk EXCEPT ![s].term = m_currentTerm'[s],
                         ![s].logs = m_logs'[s],
                         ![s].snapIndex = m_lastSnapshotIncludeIndex'[s],
                         ![s].snapTerm = m_lastSnapshotIncludeTerm'[s]]

\* persist() and the Save of a snapshot: the new volatile state is written
\* before the mutex is released.
persist(s) ==
    disk' = [disk EXCEPT ![s] =
        [term |-> m_currentTerm'[s], votedFor |-> m_votedFor'[s],
         logs |-> m_logs'[s], snapIndex |-> m_lastSnapshotIncludeIndex'[s],
         snapTerm |-> m_lastSnapshotIncludeTerm'[s]]]

\* Mutant of VoteIn: the earlier vote is not looked at.
VoteInForgotten(s, t) == Nil

\* The vote a server has once it has seen term t, at least its own.
VoteIn(s, t) == IF t > m_currentTerm[s] THEN Nil ELSE m_votedFor[s]

\* Mutant of Follow: the receiver keeps its status.
FollowKeepsStatus(s, t) ==
    /\ m_currentTerm' = [m_currentTerm EXCEPT ![s] = t]
    /\ m_votedFor' = [m_votedFor EXCEPT ![s] = VoteIn(s, t)]
    /\ UNCHANGED m_status

\* A handler saw term t, at least its own: it follows the sender, and a
\* larger term erases its vote.
Follow(s, t) ==
    /\ m_currentTerm' = [m_currentTerm EXCEPT ![s] = t]
    /\ m_votedFor' = [m_votedFor EXCEPT ![s] = VoteIn(s, t)]
    /\ m_status' = [m_status EXCEPT ![s] = "Follower"]

\* Mutant of Outdated: any other term counts as larger.
OutdatedByAny(s, t) == t # m_currentTerm[s]

\* The answer carries a larger term than the caller's.
Outdated(s, t) == t > m_currentTerm[s]

\* The caller follows it.
StepDown(s, t) ==
    /\ Outdated(s, t)
    /\ Follow(s, t)
    /\ UNCHANGED <<logVars, applyVars, leaderVars, votedNum, appendNums,
                   exited, history>>
    /\ persist(s)

\* myAssert(false): the process ends where it stands.
Exit(s, assertion) ==
    /\ exited' = [exited EXCEPT ![s] = assertion]
    /\ UNCHANGED <<termVars, logVars, applyVars, leaderVars, votedNum,
                   appendNums, disk, history>>

\* A handler or a caller that returns without changing the process.
Ignore == UNCHANGED <<termVars, logVars, applyVars, leaderVars, votedNum,
                      appendNums, disk, exited, history>>

-----------------------------------------------------------------------------
(* Election *)

\* The election timer fired.  Whether it was reset while the ticker slept is
\* read without the mutex and not looked at again, so it may fire at any time.
doElection(s) ==
    /\ Alive(s)
    /\ m_status[s] # "Leader"
    /\ <<s, m_currentTerm[s] + 1>> \in Elections
    /\ m_status' = [m_status EXCEPT ![s] = "Candidate"]
    /\ m_currentTerm' = [m_currentTerm EXCEPT ![s] = @ + 1]
    /\ m_votedFor' = [m_votedFor EXCEPT ![s] = s]
    /\ votedNum' = [votedNum EXCEPT ![s] = 1]
    /\ voteCalls' = voteCalls \cup
            {[from |-> s, to |-> p, term |-> m_currentTerm[s] + 1,
              lastLogIndex |-> LastLogIndex(s), lastLogTerm |-> LastLogTerm(s)]
                : p \in Server \ {s}}
    /\ votes' = votes \cup
            {[term |-> m_currentTerm[s] + 1, voter |-> s, candidate |-> s]}
    /\ UNCHANGED <<logVars, applyVars, leaderVars, appendNums, exited,
                   voteReplies, appendNet, snapNet, leaders>>
    /\ persist(s)

Grants(s, c) ==
    /\ c.term >= m_currentTerm[s]
    /\ UpToDate(s, c.lastLogIndex, c.lastLogTerm)
    /\ VoteIn(s, c.term) \in {Nil, c.from}

AnswerVote(c, t, granted) ==
    /\ voteCalls' = voteCalls \ {c}
    /\ voteReplies' = voteReplies \cup
            {[from |-> c.from, to |-> c.to, election |-> c.term,
              term |-> t, voteGranted |-> granted]}

RefuseExpired(s, c) ==
    /\ c.term < m_currentTerm[s]
    /\ AnswerVote(c, m_currentTerm[s], FALSE)
    /\ UNCHANGED <<termVars, votes>>

RefuseVote(s, c) ==
    /\ c.term >= m_currentTerm[s]
    /\ ~Grants(s, c)
    /\ IF c.term > m_currentTerm[s] THEN Follow(s, c.term)
                                    ELSE UNCHANGED termVars
    /\ AnswerVote(c, c.term, FALSE)
    /\ UNCHANGED votes

GrantVote(s, c) ==
    /\ Grants(s, c)
    /\ m_currentTerm' = [m_currentTerm EXCEPT ![s] = c.term]
    /\ m_votedFor' = [m_votedFor EXCEPT ![s] = c.from]
    /\ m_status' = [m_status EXCEPT
                      ![s] = IF c.term > m_currentTerm[s] THEN "Follower" ELSE @]
    /\ AnswerVote(c, c.term, TRUE)
    /\ votes' = votes \cup
            {[term |-> c.term, voter |-> s, candidate |-> c.from]}

RequestVote(c) ==
    LET s == c.to IN
    /\ Alive(s)
    /\ RefuseExpired(s, c) \/ RefuseVote(s, c) \/ GrantVote(s, c)
    /\ UNCHANGED <<logVars, applyVars, leaderVars, votedNum, appendNums,
                   exited, appendNet, snapNet, leaders>>
    /\ persist(s)

\* Mutant of ResetVoteCount: the counter is not restarted.
KeepVoteCount(s) == votedNum' = [votedNum EXCEPT ![s] = @ + 1]

ResetVoteCount(s) == votedNum' = [votedNum EXCEPT ![s] = 0]

\* The counter reached the majority: the candidate becomes leader, whether it
\* still is one or follows another; only a leader fails the assertion.
BecomeLeader(s) ==
    /\ votedNum[s] + 1 >= Majority
    /\ m_status[s] # "Leader"
    /\ ResetVoteCount(s)
    /\ m_status' = [m_status EXCEPT ![s] = "Leader"]
    /\ m_nextIndex' = [m_nextIndex EXCEPT
                         ![s] = [p \in Server |-> LastLogIndex(s) + 1]]
    /\ m_matchIndex' = [m_matchIndex EXCEPT ![s] = [p \in Server |-> 0]]
    /\ leaders' = leaders \cup {[term |-> m_currentTerm[s], leader |-> s]}
    /\ UNCHANGED <<m_currentTerm, m_votedFor, logVars, applyVars, appendNums,
                   exited, votes>>
    /\ persist(s)

CountVote(s) ==
    /\ votedNum[s] + 1 < Majority
    /\ votedNum' = [votedNum EXCEPT ![s] = @ + 1]
    /\ UNCHANGED <<termVars, logVars, applyVars, leaderVars, appendNums, disk,
                   exited, history>>

\* The caller's half of a vote request.
sendRequestVote(r) ==
    LET s == r.from
        counts == r.term = m_currentTerm[s] /\ r.voteGranted
    IN  /\ Alive(s)
        /\ voteReplies' = voteReplies \ {r}
        /\ UNCHANGED <<voteCalls, appendNet, snapNet>>
        /\ \/ StepDown(s, r.term)
           \/ r.term <= m_currentTerm[s] /\ ~counts /\ Ignore
           \/ counts /\ CountVote(s)
           \/ counts /\ BecomeLeader(s)

-----------------------------------------------------------------------------
(* Replication *)

\* What is left of round k of s once its calls have failed.
Without(S, s, k) == {m \in S : ~(m.from = s /\ m.round = k)}

\* getPrevLogInfo, and the entries from there to the end of the log.
AppendArgs(s, p, k) ==
    LET prev == m_nextIndex[s][p] - 1 IN
    [from |-> s, to |-> p, round |-> k, term |-> m_currentTerm[s],
     prevLogIndex |-> prev, prevLogTerm |-> TermAt(s, prev),
     entries |-> SubSeq(m_logs[s], SliceIndex(s, prev) + 1, Len(m_logs[s])),
     leaderCommit |-> m_commitIndex[s]]

\* Mutant of StartRound: the leader does not count itself.
StartRoundUncounted(s, k) == appendNums' = [appendNums EXCEPT ![s][k] = 0]

\* The leader counts itself in each round.
StartRound(s, k) == appendNums' = [appendNums EXCEPT ![s][k] = 1]

\* A heartbeat: every peer gets the log from its nextIndex on, or, when that
\* has been compacted, a thread that will send the snapshot.  The new round
\* takes a slot; what the slot's last round left unanswered was lost.
doHeartBeat(s, k) ==
    LET behind == {p \in Server \ {s} :
                     m_nextIndex[s][p] <= m_lastSnapshotIncludeIndex[s]}
    IN  /\ Alive(s)
        /\ m_status[s] = "Leader"
        /\ StartRound(s, k)
        /\ appendCalls' = Without(appendCalls, s, k) \cup
                {AppendArgs(s, p, k) : p \in Server \ ({s} \cup behind)}
        /\ snapThreads' = Without(snapThreads, s, k) \cup
                {[from |-> s, to |-> p, round |-> k] : p \in behind}
        /\ appendReplies' = Without(appendReplies, s, k)
        /\ snapCalls' = Without(snapCalls, s, k)
        /\ snapReplies' = Without(snapReplies, s, k)
        /\ UNCHANGED <<termVars, logVars, applyVars, leaderVars, votedNum, disk,
                       exited, voteNet, history>>

\* The answer to an append request, with what its caller still needs of the
\* arguments: the index they ended at, and the term of their last entry (0
\* when there was none).
AnswerAppend(c, t, success, update) ==
    /\ appendCalls' = appendCalls \ {c}
    /\ appendReplies' = appendReplies \cup
        {[from |-> c.from, to |-> c.to, round |-> c.round,
          upTo |-> c.prevLogIndex + Len(c.entries),
          lastTerm |-> IF c.entries = <<>> THEN 0
                       ELSE c.entries[Len(c.entries)].term,
          term |-> t, success |-> success, updateNextIndex |-> update]}

\* -100 tells the leader to leave nextIndex alone.
NoUpdate == -100

\* The entries of a matching request, one by one: beyond the end they are
\* appended, over an entry of another term they are written, and nothing after
\* them is cut.  es[k] belongs at slice position at + k.
Merged(old, at, es) ==
    [p \in 1..(IF at + Len(es) > Len(old) THEN at + Len(es) ELSE Len(old)) |->
        IF /\ p \in (at + 1)..(at + Len(es))
           /\ p > Len(old) \/ old[p].term # es[p - at].term
        THEN es[p - at] ELSE old[p]]

\* An entry of the same index and term, but another command.
Contradicts(old, at, es) ==
    \E k \in 1..Len(es) : /\ at + k \in 1..Len(old)
                          /\ old[at + k].term = es[k].term
                          /\ old[at + k].cmd # es[k].cmd

\* Where the leader is told to go back to: the first index of the run of equal
\* terms that ends at prev, or prev when the run reaches the snapshot.
BacksOffTo(s, prev, u) ==
    LET same(lo) == \A i \in lo..prev : TermAt(s, i) = TermAt(s, prev) IN
    \/ /\ u > m_lastSnapshotIncludeIndex[s]
       /\ same(u) /\ TermAt(s, u - 1) # TermAt(s, prev)
    \/ u = prev /\ same(m_lastSnapshotIncludeIndex[s])

AppendExpired(s, c) ==
    /\ c.term < m_currentTerm[s]
    /\ AnswerAppend(c, m_currentTerm[s], FALSE, NoUpdate)
    /\ Ignore

\* Mutant of EndOfLog: the index of the last entry.
EndOfLogOffByOne(s) == LastLogIndex(s)

\* Mutant of EndOfLog: one before the end instead of one behind it.
EndOfLogBelow(s) == LastLogIndex(s) - 1

\* Where a leader is told to continue when the log is too short.
EndOfLog(s) == LastLogIndex(s) + 1

\* Mutant of AppendTooShort: the gap is reported as a success.
AppendTooShortAccepted(s, c) ==
    /\ c.prevLogIndex > LastLogIndex(s)
    /\ Follow(s, c.term)
    /\ AnswerAppend(c, c.term, TRUE, NoUpdate)
    /\ UNCHANGED <<logVars, applyVars>>

\* The log ends before prevLogIndex.
AppendTooShort(s, c) ==
    /\ c.prevLogIndex > LastLogIndex(s)
    /\ Follow(s, c.term)
    /\ AnswerAppend(c, c.term, FALSE, EndOfLog(s))
    /\ UNCHANGED <<logVars, applyVars>>

\* prevLogIndex is in the log, with another term.
AppendMismatch(s, c) ==
    /\ c.prevLogIndex \in m_lastSnapshotIncludeIndex[s]..LastLogIndex(s)
    /\ TermAt(s, c.prevLogIndex) # c.prevLogTerm
    /\ Follow(s, c.term)
    /\ \E u \in m_lastSnapshotIncludeIndex[s]..c.prevLogIndex :
            /\ BacksOffTo(s, c.prevLogIndex, u)
            /\ AnswerAppend(c, c.term, FALSE, u)
    /\ UNCHANGED <<logVars, applyVars>>

\* The leader's commit index, as far as the log goes.
FollowerCommit(s, leaderCommit, last) ==
    IF leaderCommit <= m_commitIndex[s] THEN m_commitIndex[s]
    ELSE IF leaderCommit <= last THEN leaderCommit ELSE last

AppendMatch(s, c) ==
    LET at   == SliceIndex(s, c.prevLogIndex)
        new  == Merged(m_logs[s], at, c.entries)
        last == IF new = <<>> THEN m_lastSnapshotIncludeIndex[s]
                              ELSE new[Len(new)].index
    IN  /\ c.prevLogIndex \in m_lastSnapshotIncludeIndex[s]..LastLogIndex(s)
        /\ TermAt(s, c.prevLogIndex) = c.prevLogTerm
        /\ ~Contradicts(m_logs[s], at, c.entries)
        /\ Follow(s, c.term)
        /\ m_logs' = [m_logs EXCEPT ![s] = new]
        /\ m_commitIndex' = [m_commitIndex EXCEPT
                ![s] = FollowerCommit(s, c.leaderCommit, last)]
        /\ AnswerAppend(c, c.term, TRUE, NoUpdate)
        /\ UNCHANGED <<m_lastSnapshotIncludeIndex, m_lastSnapshotIncludeTerm,
                       m_lastApplied>>

\* prevLogIndex has been compacted away.  The handler fills in an answer and
\* goes on to matchLog, whose assertion ends the process.
AppendBehindSnapshot(s, c) ==
    /\ c.prevLogIndex < m_lastSnapshotIncludeIndex[s]
    /\ Exit(s, "matchLog")

AppendEntries1(c) ==
    LET s == c.to IN
    /\ Alive(s)
    /\ UNCHANGED <<voteNet, snapNet>>
    /\ \/ AppendExpired(s, c)
       \/ /\ c.term >= m_currentTerm[s]
          /\ AppendTooShort(s, c) \/ AppendMismatch(s, c) \/ AppendMatch(s, c)
          /\ UNCHANGED <<leaderVars, votedNum, appendNums, exited, history>>
          /\ persist(s)
       \/ /\ c.term >= m_currentTerm[s]
          /\ AppendBehindSnapshot(s, c)
          /\ appendCalls' = appendCalls \ {c}
          /\ UNCHANGED appendReplies

\* Mutant of BackTo: a refusal leaves nextIndex alone.
BackToNowhere(s, r) == m_nextIndex[s][r.to]

\* The index a refusal names, or nextIndex as it is.
BackTo(s, r) ==
    IF r.updateNextIndex = NoUpdate THEN m_nextIndex[s][r.to]
                                    ELSE r.updateNextIndex

Backtrack(s, r) ==
    /\ ~r.success
    /\ m_nextIndex' = [m_nextIndex EXCEPT ![s][r.to] = BackTo(s, r)]
    /\ UNCHANGED <<m_matchIndex, m_commitIndex, appendNums>>

\* Mutant of OfThisTerm: an entry of any term may be committed.
OfAnyTerm(s, r) == TRUE

\* The request carried an entry of the current term as its last.
OfThisTerm(s, r) == r.lastTerm = m_currentTerm[s]

\* A success is counted for its round; the success that completes the
\* majority restarts the count and commits what its own request carried.
Replicated(s, r) ==
    LET match    == IF r.upTo > m_matchIndex[s][r.to] THEN r.upTo
                                                      ELSE m_matchIndex[s][r.to]
        majority == appendNums[s][r.round] + 1 >= Majority
    IN  /\ r.success
        /\ m_matchIndex' = [m_matchIndex EXCEPT ![s][r.to] = match]
        /\ m_nextIndex' = [m_nextIndex EXCEPT ![s][r.to] = match + 1]
        /\ appendNums' = [appendNums EXCEPT
                            ![s][r.round] = IF majority THEN 0 ELSE @ + 1]
        /\ m_commitIndex' = [m_commitIndex EXCEPT ![s] =
                IF majority /\ OfThisTerm(s, r) /\ r.upTo > @
                THEN r.upTo ELSE @]

\* The caller's half of an append request.
sendAppendEntries(r) ==
    LET s == r.from
        counts == r.term = m_currentTerm[s] /\ m_status[s] = "Leader"
    IN  /\ Alive(s)
        /\ appendReplies' = appendReplies \ {r}
        /\ UNCHANGED <<appendCalls, voteNet, snapNet>>
        /\ \/ StepDown(s, r.term)
           \/ r.term <= m_currentTerm[s] /\ ~counts /\ Ignore
           \/ /\ counts
              /\ Backtrack(s, r) \/ Replicated(s, r)
              /\ UNCHANGED <<termVars, logVars, m_lastApplied, votedNum, disk,
                             exited, history>>

-----------------------------------------------------------------------------
(* Compaction *)

KeptAfter(s, index) ==
    SubSeq(m_logs[s], SliceIndex(s, index) + 1, Len(m_logs[s]))

\* The KV layer has applied index and hands over its snapshot of it.
Snapshot(s, index) ==
    /\ Alive(s) /\ s \in Compactors
    /\ m_lastSnapshotIncludeIndex[s] < index /\ index <= m_commitIndex[s]
    /\ m_lastSnapshotIncludeIndex' =
            [m_lastSnapshotIncludeIndex EXCEPT ![s] = index]
    /\ m_lastSnapshotIncludeTerm' =
            [m_lastSnapshotIncludeTerm EXCEPT ![s] = TermAt(s, index)]
    /\ m_logs' = [m_logs EXCEPT ![s] = KeptAfter(s, index)]
    /\ m_lastApplied' = [m_lastApplied EXCEPT
            ![s] = IF index > @ THEN index ELSE @]
    /\ UNCHANGED <<termVars, m_commitIndex, leaderVars, votedNum, appendNums,
                   exited, voteNet, appendNet, snapNet, history>>
    /\ persist(s)

\* The snapshot thread takes the mutex and builds its request from the state
\* of that moment: it does not ask whether its process still leads.
leaderSendSnapShot(t) ==
    LET s == t.from IN
    /\ Alive(s)
    /\ snapThreads' = snapThreads \ {t}
    /\ snapCalls' = snapCalls \cup
        {[from |-> s, to |-> t.to, round |-> t.round,
          term |-> m_currentTerm[s],
          index |-> m_lastSnapshotIncludeIndex[s],
          snapTerm |-> m_lastSnapshotIncludeTerm[s]]}
    /\ UNCHANGED <<voteNet, appendNet, snapReplies>>
    /\ Ignore

\* A reply that was never filled in parses as term 0.
AnswerSnapshot(c, t) ==
    /\ snapCalls' = snapCalls \ {c}
    /\ snapReplies' = snapReplies \cup
        {[from |-> c.from, to |-> c.to, round |-> c.round,
          callTerm |-> c.term, index |-> c.index, term |-> t]}

SnapshotExpired(s, c) ==
    /\ c.term < m_currentTerm[s]
    /\ AnswerSnapshot(c, m_currentTerm[s])
    /\ Ignore

\* Nothing new: the sender is followed and the reply left empty.
SnapshotOutdated(s, c) ==
    /\ c.term >= m_currentTerm[s]
    /\ c.index <= m_lastSnapshotIncludeIndex[s]
    /\ Follow(s, c.term)
    /\ AnswerSnapshot(c, 0)
    /\ UNCHANGED <<logVars, applyVars, leaderVars, votedNum, appendNums,
                   exited, history>>
    /\ IF c.term > m_currentTerm[s] THEN persist(s) ELSE UNCHANGED disk

\* Mutant of LogAfter: the log is always cleared.
NoLogAfter(s, index) == <<>>

\* A longer log keeps what follows the snapshot, whatever its term there.
LogAfter(s, index) ==
    IF LastLogIndex(s) > index THEN KeptAfter(s, index) ELSE <<>>

\* What the snapshot covers is committed.
CommitTo(s, index) ==
    m_commitIndex' = [m_commitIndex EXCEPT
                        ![s] = IF index > @ THEN index ELSE @]

SnapshotInstalled(s, c) ==
    /\ c.term >= m_currentTerm[s]
    /\ c.index > m_lastSnapshotIncludeIndex[s]
    /\ Follow(s, c.term)
    /\ m_logs' = [m_logs EXCEPT ![s] = LogAfter(s, c.index)]
    /\ CommitTo(s, c.index)
    /\ m_lastApplied' = [m_lastApplied EXCEPT
            ![s] = IF c.index > @ THEN c.index ELSE @]
    /\ m_lastSnapshotIncludeIndex' =
            [m_lastSnapshotIncludeIndex EXCEPT ![s] = c.index]
    /\ m_lastSnapshotIncludeTerm' =
            [m_lastSnapshotIncludeTerm EXCEPT ![s] = c.snapTerm]
    /\ AnswerSnapshot(c, c.term)
    /\ UNCHANGED <<leaderVars, votedNum, appendNums, exited, history>>
    /\ persist(s)

InstallSnapshot(c) ==
    LET s == c.to IN
    /\ Alive(s)
    /\ UNCHANGED <<voteNet, appendNet, snapThreads>>
    /\ \/ SnapshotExpired(s, c)
       \/ SnapshotOutdated(s, c)
       \/ SnapshotInstalled(s, c)

\* The peer is gone and its connection closed: the channel reads nothing,
\* reports success, and the empty bytes parse as an empty reply.
SnapshotPeerClosed(c) ==
    /\ ~Alive(c.to)
    /\ AnswerSnapshot(c, 0)
    /\ UNCHANGED <<voteNet, appendNet, snapThreads>>
    /\ Ignore

\* The caller's half of a snapshot request.
SnapshotAnswered(r) ==
    LET s == r.from
        counts == m_status[s] = "Leader" /\ m_currentTerm[s] = r.callTerm
    IN  /\ Alive(s)
        /\ snapReplies' = snapReplies \ {r}
        /\ UNCHANGED <<snapThreads, snapCalls, voteNet, appendNet>>
        /\ \/ ~counts /\ Ignore
           \/ counts /\ StepDown(s, r.term)
           \/ /\ counts /\ r.term <= m_currentTerm[s]
              /\ m_matchIndex' = [m_matchIndex EXCEPT ![s][r.to] = r.index]
              /\ m_nextIndex' = [m_nextIndex EXCEPT ![s][r.to] = r.index + 1]
              /\ UNCHANGED <<termVars, logVars, applyVars, votedNum,
                             appendNums, disk, exited, history>>

-----------------------------------------------------------------------------
(* Clients, the applier, failures *)

\* Mutant of NewEntry: it gets the term of the entry before it.
NewEntryOfLastTerm(s, cmd) ==
    [index |-> LastLogIndex(s) + 1, term |-> LastLogTerm(s), cmd |-> cmd]

\* The entry a leader appends for a client.
NewEntry(s, cmd) ==
    [index |-> LastLogIndex(s) + 1, term |-> m_currentTerm[s], cmd |-> cmd]

Start(s, cmd) ==
    /\ Alive(s)
    /\ m_status[s] = "Leader"
    /\ LastLogIndex(s) < MaxIndex
    /\ m_logs' = [m_logs EXCEPT ![s] = Append(@, NewEntry(s, cmd))]
    /\ UNCHANGED <<termVars, m_lastSnapshotIncludeIndex,
                   m_lastSnapshotIncludeTerm, applyVars, leaderVars, votedNum,
                   appendNums, exited, voteNet, appendNet, snapNet, history>>
    /\ persist(s)

\* applierTicker takes everything committed and not applied.
getApplyLogs(s) ==
    /\ Alive(s)
    /\ m_lastApplied[s] < m_commitIndex[s]
    /\ m_lastApplied' = [m_lastApplied EXCEPT ![s] = m_commitIndex[s]]
    /\ UNCHANGED <<termVars, logVars, m_commitIndex, leaderVars, votedNum,
                   appendNums, disk, exited, voteNet, appendNet, snapNet,
                   history>>

Crash(s) ==
    /\ Alive(s)
    /\ Cardinality({p \in Server : exited[p] = "killed"}) < MaxCrashes
    /\ Exit(s, "killed")
    /\ UNCHANGED <<voteNet, appendNet, snapNet>>

-----------------------------------------------------------------------------
(* The specification *)

Init ==
    /\ m_currentTerm = [s \in Server |-> 0]
    /\ m_votedFor = [s \in Server |-> Nil]
    /\ m_status = [s \in Server |-> "Follower"]
    /\ m_logs = [s \in Server |-> <<>>]
    /\ m_lastSnapshotIncludeIndex = [s \in Server |-> 0]
    /\ m_lastSnapshotIncludeTerm = [s \in Server |-> 0]
    /\ m_commitIndex = [s \in Server |-> 0]
    /\ m_lastApplied = [s \in Server |-> 0]
    /\ m_nextIndex = [s \in Server |-> [p \in Server |-> 0]]
    /\ m_matchIndex = [s \in Server |-> [p \in Server |-> 0]]
    /\ votedNum = [s \in Server |-> 0]
    /\ appendNums = [s \in Server |-> [k \in Rounds |-> 0]]
    /\ disk = [s \in Server |-> [term |-> 0, votedFor |-> Nil, logs |-> <<>>,
                                 snapIndex |-> 0, snapTerm |-> 0]]
    /\ exited = [s \in Server |-> "no"]
    /\ voteCalls = {} /\ voteReplies = {}
    /\ appendCalls = {} /\ appendReplies = {}
    /\ snapThreads = {} /\ snapCalls = {} /\ snapReplies = {}
    /\ votes = {} /\ leaders = {}

Next ==
    \/ \E s \in Server : doElection(s)
    \/ \E c \in voteCalls : RequestVote(c)
    \/ \E r \in voteReplies : sendRequestVote(r)
    \/ \E s \in Server, k \in Rounds : doHeartBeat(s, k)
    \/ \E c \in appendCalls : AppendEntries1(c)
    \/ \E r \in appendReplies : sendAppendEntries(r)
    \/ \E s \in Server : \E i \in 1..m_lastApplied[s] : Snapshot(s, i)
    \/ \E t \in snapThreads : leaderSendSnapShot(t)
    \/ \E c \in snapCalls : InstallSnapshot(c)
    \/ \E c \in snapCalls : SnapshotPeerClosed(c)
    \/ \E r \in snapReplies : SnapshotAnswered(r)
    \/ \E s \in Server, cmd \in Cmds : Start(s, cmd)
    \/ \E s \in Server : getApplyLogs(s)
    \/ \E s \in Server : Crash(s)

Spec == Init /\ [][Next]_vars
=============================================================================
