--------------------------- MODULE RaftLogProofs ---------------------------
(***************************************************************************)
(* The indexes of Raft.tla, for any set of servers and any bounds: every   *)
(* log is contiguous, the four positions of a process stay in order, and a *)
(* leader can always build its next request.                               *)
(*                                                                         *)
(* The argument: the end of a log never moves back.  AppendEntries1 writes *)
(* over entries but cuts nothing, and a snapshot that replaces a log ends  *)
(* at least where the log ended.  So what a request promised of the log of *)
(* its sender stays true while it travels, and nextIndex, which is set     *)
(* from what came back, never points past the log.                         *)
(***************************************************************************)
EXTENDS RaftProps, SequenceTheorems, TLAPS

-----------------------------------------------------------------------------
(* The inductive invariant *)

\* The end of a contiguous log.
End(s) == m_lastSnapshotIncludeIndex[s] + Len(m_logs[s])

PositionsInOrder ==
    \A s \in Server :
        /\ m_lastSnapshotIncludeIndex[s] <= m_lastApplied[s]
        /\ m_lastApplied[s] <= m_commitIndex[s]
        /\ m_commitIndex[s] <= End(s)
        /\ m_lastSnapshotIncludeIndex[s] = 0 => m_lastSnapshotIncludeTerm[s] = 0

PeersInLog ==
    \A s, p \in Server :
        /\ m_nextIndex[s][p] <= End(s) + 1
        /\ m_matchIndex[s][p] <= End(s)
        /\ m_status[s] = "Leader" => m_nextIndex[s][p] >= 1

CallsInLog ==
    \A c \in appendCalls :
        /\ \A k \in 1..Len(c.entries) : c.entries[k].index = c.prevLogIndex + k
        /\ c.prevLogIndex + Len(c.entries) <= End(c.from)
        /\ c.prevLogIndex = 0 => c.prevLogTerm = 0

RepliesInLog ==
    \A r \in appendReplies :
        /\ r.upTo <= End(r.from)
        /\ r.updateNextIndex # NoUpdate => r.updateNextIndex \in 1..r.upTo

SnapshotsInLog ==
    /\ \A c \in snapCalls : c.index <= End(c.from)
    /\ \A r \in snapReplies : r.index <= End(r.from)

LogInv ==
    /\ TypeOK
    /\ LogsContiguous
    /\ PositionsInOrder
    /\ PeersInLog
    /\ CallsInLog
    /\ RepliesInLog
    /\ SnapshotsInLog

-----------------------------------------------------------------------------
(* What the helpers compute *)

\* LastLogIndex reads the index of the last entry, which is the end of a
\* contiguous log (getLastLogIndex).
LEMMA LastIsEnd ==
    ASSUME LogTypes, LogsContiguous, NEW s \in Server
    PROVE  LastLogIndex(s) = End(s) /\ End(s) \in Nat
<1>1. m_logs[s] \in Seq(Entries) /\ m_lastSnapshotIncludeIndex[s] \in Nat
  BY DEF LogTypes
<1>2. CASE m_logs[s] = <<>>
  BY <1>1, <1>2 DEF LastLogIndex, End
<1>3. CASE m_logs[s] # <<>>
  <2>1. Len(m_logs[s]) \in 1..Len(m_logs[s])
    BY <1>1, <1>3
  <2> QED
    BY <1>1, <1>3, <2>1 DEF LogsContiguous, LastLogIndex, End
<1> QED
  BY <1>2, <1>3

\* A term can be read at every index from the snapshot to the end
\* (getLogTermFromLogIndex).
LEMMA TermInLog ==
    ASSUME LogTypes, NEW s \in Server,
           NEW i \in m_lastSnapshotIncludeIndex[s]..End(s)
    PROVE  TermAt(s, i) \in Nat
<1>1. /\ m_logs[s] \in Seq(Entries) /\ m_lastSnapshotIncludeIndex[s] \in Nat
      /\ m_lastSnapshotIncludeTerm[s] \in Nat
  BY DEF LogTypes
<1>2. CASE i # m_lastSnapshotIncludeIndex[s]
  <2>1. SliceIndex(s, i) \in 1..Len(m_logs[s])
    BY <1>1, <1>2 DEF SliceIndex, End
  <2>2. m_logs[s][SliceIndex(s, i)] \in Entries
    BY <1>1, <2>1
  <2> QED
    BY <1>2, <2>2 DEF TermAt, Entries
<1> QED
  BY <1>1, <1>2 DEF TermAt

\* What is left of a sequence from position m on, in order.
LEMMA TailOfSeq ==
    ASSUME NEW S, NEW q \in Seq(S), NEW m \in 1..(Len(q) + 1)
    PROVE  /\ SubSeq(q, m, Len(q)) \in Seq(S)
           /\ Len(SubSeq(q, m, Len(q))) = Len(q) - m + 1
           /\ \A k \in 1..(Len(q) - m + 1) : SubSeq(q, m, Len(q))[k] = q[m + k - 1]
<1>1. m \in Int /\ Len(q) \in Int /\ \A k \in m..Len(q) : q[k] \in S
  OBVIOUS
<1>2. /\ SubSeq(q, m, Len(q)) \in Seq(S)
      /\ Len(SubSeq(q, m, Len(q))) = IF m <= Len(q) THEN Len(q) - m + 1 ELSE 0
      /\ \A k \in 1..(Len(q) - m + 1) : SubSeq(q, m, Len(q))[k] = q[m + k - 1]
  BY <1>1, SubSeqProperties
<1> QED
  BY <1>1, <1>2

\* What compaction keeps is the part after the snapshot, in place (Snapshot,
\* InstallSnapshot).
LEMMA KeptInPlace ==
    ASSUME LogTypes, LogsContiguous, NEW s \in Server,
           NEW i \in m_lastSnapshotIncludeIndex[s]..End(s)
    PROVE  /\ KeptAfter(s, i) \in Seq(Entries)
           /\ i + Len(KeptAfter(s, i)) = End(s)
           /\ \A k \in 1..Len(KeptAfter(s, i)) : KeptAfter(s, i)[k].index = i + k
<1> DEFINE log  == m_logs[s]
           base == m_lastSnapshotIncludeIndex[s]
           m    == i - base + 1
           kept == SubSeq(log, m, Len(log))
<1>1. /\ log \in Seq(Entries) /\ base \in Nat
      /\ \A k \in 1..Len(log) : log[k].index = base + k
  BY DEF LogTypes, LogsContiguous
<1>2. i \in base..(base + Len(log))
  BY DEF End
<1>3. KeptAfter(s, i) = kept /\ End(s) = base + Len(log)
  BY DEF KeptAfter, SliceIndex, End
<1> HIDE DEF log, base
<1>4. m \in 1..(Len(log) + 1)
  BY <1>1, <1>2
<1> HIDE DEF m
<1>5. /\ kept \in Seq(Entries)
      /\ Len(kept) = Len(log) - m + 1
      /\ \A k \in 1..(Len(log) - m + 1) : kept[k] = log[m + k - 1]
  BY <1>1, <1>4, TailOfSeq
<1> HIDE DEF kept
<1>6. ASSUME NEW k \in 1..Len(kept)
      PROVE  kept[k].index = i + k
  <2>1. m + k - 1 \in 1..Len(log) /\ base + (m + k - 1) = i + k
    BY <1>1, <1>2, <1>4, <1>5 DEF m
  <2> QED
    BY <1>1, <1>5, <2>1
<1> QED
  BY <1>1, <1>2, <1>3, <1>5, <1>6 DEF m

\* A function on 1..n is a sequence of length n.
LEMMA FunctionIsSeq ==
    ASSUME NEW S, NEW n \in Nat, NEW f \in [1..n -> S]
    PROVE  f \in Seq(S) /\ Len(f) = n
OBVIOUS

\* Merging a request that fits into a contiguous log leaves it contiguous and
\* no shorter (the loop of AppendEntries1).
LEMMA MergedInPlace ==
    ASSUME NEW base \in Nat, NEW old \in Seq(Entries), NEW es \in Seq(Entries),
           NEW at \in 0..Len(old),
           \A k \in 1..Len(old) : old[k].index = base + k,
           \A k \in 1..Len(es) : es[k].index = base + at + k
    PROVE  /\ Merged(old, at, es) \in Seq(Entries)
           /\ Len(Merged(old, at, es)) >= Len(old)
           /\ Len(Merged(old, at, es)) >= at + Len(es)
           /\ \A k \in 1..Len(Merged(old, at, es)) :
                Merged(old, at, es)[k].index = base + k
<1> DEFINE n == IF at + Len(es) > Len(old) THEN at + Len(es) ELSE Len(old)
<1>1. n \in Nat /\ n >= Len(old) /\ n >= at + Len(es)
  OBVIOUS
<1>2. ASSUME NEW p \in 1..n
      PROVE  Merged(old, at, es)[p] \in Entries
             /\ Merged(old, at, es)[p].index = base + p
  <2>1. CASE p \in (at + 1)..(at + Len(es))
             /\ (p > Len(old) \/ old[p].term # es[p - at].term)
    BY <2>1 DEF Merged
  <2>2. CASE ~(p \in (at + 1)..(at + Len(es))
               /\ (p > Len(old) \/ old[p].term # es[p - at].term))
    <3>1. p \in 1..Len(old)
      BY <2>2
    <3>2. Merged(old, at, es)[p] = old[p]
      BY <2>2 DEF Merged
    <3> QED
      BY <3>1, <3>2
  <2> QED
    BY <2>1, <2>2
<1>3. Merged(old, at, es) \in [1..n -> Entries]
  <2>1. Merged(old, at, es) = [p \in 1..n |->
            IF /\ p \in (at + 1)..(at + Len(es))
               /\ p > Len(old) \/ old[p].term # es[p - at].term
            THEN es[p - at] ELSE old[p]]
    BY DEF Merged
  <2> QED
    BY <1>2, <2>1, Zenon
<1>4. Merged(old, at, es) \in Seq(Entries) /\ Len(Merged(old, at, es)) = n
  <2> HIDE DEF n
  <2> QED
    BY <1>1, <1>3, FunctionIsSeq
<1> QED
  BY <1>1, <1>2, <1>4

-----------------------------------------------------------------------------
(* What a step that leaves part of the state alone preserves *)

NoNewLeader ==
    \A s \in Server : m_status'[s] = "Leader" => m_status[s] = "Leader"

\* No log ends earlier than it did.
EndsGrow == \A s \in Server : End(s)' \in Nat /\ End(s)' >= End(s)

\* The end of a log is a natural number.
LEMMA EndIsNat ==
    ASSUME LogTypes, NEW s \in Server
    PROVE  End(s) \in Nat
BY DEF LogTypes, End

\* A step that leaves the log members alone moves no log's end.
LEMMA LogUntouched ==
    ASSUME LogInv, UNCHANGED logVars
    PROVE  LogTypes' /\ LogsContiguous' /\ EndsGrow
           /\ \A s \in Server : End(s)' = End(s)
<1>1. LogTypes /\ LogsContiguous
  BY DEF LogInv, TypeOK
<1>2. \A s \in Server : End(s)' = End(s)
  BY DEF logVars, End
<1> QED
  BY <1>1, <1>2, EndIsNat DEF logVars, LogTypes, LogsContiguous, EndsGrow

\* Nor does it disturb the order of the four positions.
LEMMA PositionsUntouched ==
    ASSUME LogInv, UNCHANGED <<logVars, applyVars>>
    PROVE  PositionsInOrder'
<1>1. \A s \in Server : End(s)' = End(s)
  BY DEF logVars, End
<1> QED
  BY <1>1 DEF LogInv, PositionsInOrder, logVars, applyVars

\* nextIndex and matchIndex stay inside logs that only grow.
LEMMA PeersUntouched ==
    ASSUME LogInv, EndsGrow, NoNewLeader, UNCHANGED leaderVars
    PROVE  PeersInLog'
<1>1. \A s, p \in Server : m_nextIndex[s][p] \in Nat /\ m_matchIndex[s][p] \in Nat
  BY DEF LogInv, TypeOK, IndexTypes
<1>2. \A s \in Server : End(s) \in Nat
  BY EndIsNat DEF LogInv, TypeOK
<1> QED
  BY <1>1, <1>2 DEF LogInv, PeersInLog, EndsGrow, NoNewLeader, leaderVars

\* A request under way stays inside its sender's growing log.
LEMMA CallsUntouched ==
    ASSUME LogInv, EndsGrow, appendCalls' \subseteq appendCalls
    PROVE  CallsInLog'
<1> SUFFICES ASSUME NEW c \in appendCalls
             PROVE  c.prevLogIndex + Len(c.entries) <= End(c.from)'
  BY DEF LogInv, CallsInLog
<1>1. /\ c.from \in Server /\ c.prevLogIndex \in Nat
      /\ c.entries \in Seq(Entries)
  BY DEF LogInv, TypeOK, AppendTypes, AppendCallType
<1>2. End(c.from) \in Nat
  BY <1>1, EndIsNat DEF LogInv, TypeOK
<1> QED
  BY <1>1, <1>2 DEF LogInv, CallsInLog, EndsGrow

\* So does an answer under way.
LEMMA RepliesUntouched ==
    ASSUME LogInv, EndsGrow, appendReplies' \subseteq appendReplies
    PROVE  RepliesInLog'
<1> SUFFICES ASSUME NEW r \in appendReplies
             PROVE  r.upTo <= End(r.from)'
  BY DEF LogInv, RepliesInLog
<1>1. r.from \in Server /\ r.upTo \in Nat
  BY DEF LogInv, TypeOK, AppendTypes, AppendReplyType
<1>2. End(r.from) \in Nat
  BY <1>1, EndIsNat DEF LogInv, TypeOK
<1> QED
  BY <1>1, <1>2 DEF LogInv, RepliesInLog, EndsGrow

\* So do snapshot requests and their answers.
LEMMA SnapshotsUntouched ==
    ASSUME LogInv, EndsGrow, snapCalls' \subseteq snapCalls,
           snapReplies' \subseteq snapReplies
    PROVE  SnapshotsInLog'
<1>1. \A c \in snapCalls : c.from \in Server /\ c.index \in Nat
  BY DEF LogInv, TypeOK, SnapTypes, SnapCallType
<1>2. \A r \in snapReplies : r.from \in Server /\ r.index \in Nat
  BY DEF LogInv, TypeOK, SnapTypes, SnapReplyType
<1>3. \A s \in Server : End(s) \in Nat
  BY EndIsNat DEF LogInv, TypeOK
<1>4. ASSUME NEW c \in snapCalls PROVE c.index <= End(c.from)'
  BY <1>1, <1>3 DEF LogInv, SnapshotsInLog, EndsGrow
<1>5. ASSUME NEW r \in snapReplies PROVE r.index <= End(r.from)'
  BY <1>2, <1>3 DEF LogInv, SnapshotsInLog, EndsGrow
<1> QED
  BY <1>4, <1>5 DEF SnapshotsInLog

\* Following a term keeps the types and makes nobody a leader.
LEMMA FollowKeeps ==
    ASSUME TermTypes, NEW s \in Server, NEW t \in Nat, Follow(s, t)
    PROVE  TermTypes' /\ NoNewLeader
BY DEF TermTypes, Follow, VoteIn, NoNewLeader

\* persist writes what the members hold, so it writes the right types.
LEMMA PersistKeeps ==
    ASSUME DiskTypes, TermTypes', LogTypes', NEW s \in Server, persist(s)
    PROVE  DiskTypes'
BY DEF DiskTypes, TermTypes, LogTypes, persist

\* What a step does to a process that touches neither its log nor an index.
Quiet ==
    /\ UNCHANGED <<logVars, applyVars, leaderVars>>
    /\ NoNewLeader
    /\ TermTypes' /\ CountTypes' /\ DiskTypes' /\ ExitTypes' /\ HistoryTypes'

\* A handler or a caller that only returns is quiet.
LEMMA IgnoreIsQuiet ==
    ASSUME LogInv, Ignore
    PROVE  Quiet
BY DEF LogInv, TypeOK, Ignore, Quiet, NoNewLeader, termVars, history, TermTypes,
       CountTypes, DiskTypes, ExitTypes, HistoryTypes

\* A failed assertion is quiet: the members stay as they were.
LEMMA ExitIsQuiet ==
    ASSUME LogInv, NEW s \in Server, NEW a \in Exits, Exit(s, a)
    PROVE  Quiet
BY DEF LogInv, TypeOK, Exit, Quiet, NoNewLeader, termVars, history, TermTypes,
       CountTypes, DiskTypes, ExitTypes, HistoryTypes

\* Following a larger term touches no log and no index.
LEMMA StepDownIsQuiet ==
    ASSUME LogInv, NEW s \in Server, NEW t \in Nat, StepDown(s, t)
    PROVE  Quiet
<1>1. /\ UNCHANGED <<logVars, applyVars, leaderVars, votedNum, appendNums,
                     exited, history>>
      /\ Follow(s, t) /\ persist(s)
  BY DEF StepDown
<1>2. TermTypes' /\ NoNewLeader
  BY <1>1, FollowKeeps DEF LogInv, TypeOK
<1>3. DiskTypes'
  BY <1>1, <1>2, LogUntouched, PersistKeeps DEF LogInv, TypeOK
<1> QED
  BY <1>1, <1>2, <1>3 DEF LogInv, TypeOK, Quiet, history, CountTypes, ExitTypes,
                          HistoryTypes

\* A quiet step that sends no request or answer naming a position.
LEMMA QuietStep ==
    ASSUME LogInv, Quiet, VoteTypes',
           appendCalls' \subseteq appendCalls,
           appendReplies' \subseteq appendReplies,
           snapCalls' \subseteq snapCalls, snapReplies' \subseteq snapReplies,
           snapThreads' \subseteq snapThreads
    PROVE  LogInv'
<1>0. UNCHANGED <<logVars, applyVars, leaderVars>> /\ NoNewLeader
  BY DEF Quiet
<1>1. LogTypes' /\ LogsContiguous' /\ EndsGrow
  BY <1>0, LogUntouched
<1>2. IndexTypes'
  BY <1>0 DEF LogInv, TypeOK, IndexTypes, applyVars, leaderVars
<1>3. AppendTypes' /\ SnapTypes'
  BY DEF LogInv, TypeOK, AppendTypes, SnapTypes
<1>4. PositionsInOrder' /\ PeersInLog'
  BY <1>0, <1>1, PositionsUntouched, PeersUntouched
<1>5. CallsInLog' /\ RepliesInLog' /\ SnapshotsInLog'
  BY <1>1, CallsUntouched, RepliesUntouched, SnapshotsUntouched
<1> QED
  BY <1>1, <1>2, <1>3, <1>4, <1>5 DEF LogInv, TypeOK, Quiet

-----------------------------------------------------------------------------
(* Initially, and after each action *)

\* Empty logs satisfy the invariant.
LEMMA InitLogInv == Init => LogInv
<1> SUFFICES ASSUME Init PROVE LogInv
  OBVIOUS
<1>1. TypeOK
  <2>1. TermTypes /\ LogTypes /\ IndexTypes /\ CountTypes /\ DiskTypes /\ ExitTypes
    BY DEF Init, TermTypes, LogTypes, IndexTypes, CountTypes, DiskTypes,
           ExitTypes, Exits
  <2>2. VoteTypes /\ AppendTypes /\ SnapTypes /\ HistoryTypes
    BY DEF Init, VoteTypes, AppendTypes, SnapTypes, HistoryTypes
  <2> QED
    BY <2>1, <2>2 DEF TypeOK
<1>2. \A s \in Server : End(s) = 0
  BY DEF Init, End
<1>3. LogsContiguous /\ PositionsInOrder /\ PeersInLog
  BY <1>2 DEF Init, LogsContiguous, PositionsInOrder, PeersInLog
<1>4. CallsInLog /\ RepliesInLog /\ SnapshotsInLog
  BY DEF Init, CallsInLog, RepliesInLog, SnapshotsInLog
<1> QED
  BY <1>1, <1>3, <1>4 DEF LogInv

\* doElection preserves the invariant.
LEMMA doElectionLogInv ==
    ASSUME LogInv, NEW s \in Server, doElection(s)
    PROVE  LogInv'
<1>1. m_currentTerm[s] \in Nat /\ LastLogIndex(s) \in Nat /\ LastLogTerm(s) \in Nat
  <2>1. LogTypes /\ LogsContiguous
    BY DEF LogInv, TypeOK
  <2>2. LastLogIndex(s) \in Nat
    BY <2>1, LastIsEnd
  <2>3. LastLogTerm(s) \in Nat
    <3>1. CASE m_logs[s] = <<>>
      BY <2>1, <3>1 DEF LogTypes, LastLogTerm
    <3>2. CASE m_logs[s] # <<>>
      <4>1. m_logs[s] \in Seq(Entries)
        BY <2>1 DEF LogTypes
      <4>2. Len(m_logs[s]) \in 1..Len(m_logs[s])
        BY <4>1, <3>2
      <4>3. m_logs[s][Len(m_logs[s])] \in Entries
        BY <4>1, <4>2
      <4> QED
        BY <4>3, <3>2 DEF LastLogTerm, Entries
    <3> QED
      BY <3>1, <3>2
  <2> QED
    BY <2>2, <2>3 DEF LogInv, TypeOK, TermTypes
<1>2. TermTypes' /\ NoNewLeader
  BY DEF LogInv, TypeOK, TermTypes, doElection, NoNewLeader
<1>3. UNCHANGED <<logVars, applyVars, leaderVars, appendNet, snapNet>>
  BY DEF doElection
<1>4. VoteTypes'
  BY <1>1 DEF LogInv, TypeOK, VoteTypes, VoteCallType, VoteReplyType, doElection
<1>5. HistoryTypes'
  BY <1>1 DEF LogInv, TypeOK, HistoryTypes, doElection
<1>6. CountTypes' /\ ExitTypes'
  BY DEF LogInv, TypeOK, CountTypes, ExitTypes, doElection
<1>7. DiskTypes'
  BY <1>2, <1>3, LogUntouched, PersistKeeps DEF LogInv, TypeOK, doElection
<1> QED
  BY <1>2, <1>3, <1>4, <1>5, <1>6, <1>7, QuietStep DEF Quiet, appendNet, snapNet

\* RequestVote preserves the invariant.
LEMMA RequestVoteLogInv ==
    ASSUME LogInv, NEW c \in voteCalls, RequestVote(c)
    PROVE  LogInv'
<1> DEFINE s == c.to
<1>1. /\ s \in Server /\ c.from \in Server /\ c.term \in Nat
      /\ m_currentTerm[s] \in Nat
  BY DEF LogInv, TypeOK, VoteTypes, VoteCallType, TermTypes
<1>2. UNCHANGED <<logVars, applyVars, leaderVars, votedNum, appendNums, exited,
                  appendNet, snapNet, leaders>> /\ persist(s)
  BY DEF RequestVote
<1>3. TermTypes' /\ NoNewLeader /\ VoteTypes' /\ HistoryTypes'
  <2>0. TermTypes /\ VoteTypes /\ HistoryTypes
    BY DEF LogInv, TypeOK
  <2>1. ASSUME NEW t \in Nat, NEW g \in BOOLEAN, AnswerVote(c, t, g)
        PROVE  VoteTypes'
    BY <1>1, <2>0, <2>1 DEF AnswerVote, VoteTypes, VoteCallType, VoteReplyType
  <2>2. CASE RefuseExpired(s, c)
    BY <1>1, <1>2, <2>0, <2>1, <2>2
       DEF RefuseExpired, termVars, TermTypes, NoNewLeader, HistoryTypes
  <2>3. CASE RefuseVote(s, c)
    <3>1. TermTypes' /\ NoNewLeader
      <4>1. CASE c.term > m_currentTerm[s]
        BY <1>1, <2>0, <2>3, <4>1, FollowKeeps DEF RefuseVote
      <4>2. CASE ~(c.term > m_currentTerm[s])
        BY <2>0, <2>3, <4>2 DEF RefuseVote, termVars, TermTypes, NoNewLeader
      <4> QED
        BY <4>1, <4>2
    <3>2. VoteTypes'
      BY <1>1, <2>1, <2>3 DEF RefuseVote
    <3> QED
      BY <1>2, <2>0, <2>3, <3>1, <3>2 DEF RefuseVote, HistoryTypes
  <2>4. CASE GrantVote(s, c)
    <3>1. TermTypes' /\ NoNewLeader
      BY <1>1, <2>0, <2>4 DEF GrantVote, TermTypes, NoNewLeader
    <3>2. VoteTypes'
      BY <1>1, <2>1, <2>4 DEF GrantVote
    <3>3. HistoryTypes'
      BY <1>1, <1>2, <2>0, <2>4 DEF GrantVote, HistoryTypes
    <3> QED
      BY <3>1, <3>2, <3>3
  <2> QED
    BY <2>2, <2>3, <2>4 DEF RequestVote
<1>4. CountTypes' /\ ExitTypes'
  BY <1>2 DEF LogInv, TypeOK, CountTypes, ExitTypes
<1>5. DiskTypes'
  BY <1>1, <1>2, <1>3, LogUntouched, PersistKeeps DEF LogInv, TypeOK
<1> QED
  BY <1>2, <1>3, <1>4, <1>5, QuietStep DEF Quiet, appendNet, snapNet

\* A new leader starts with every index at the end of its log.
LEMMA BecomeLeaderLogInv ==
    ASSUME LogInv, NEW s \in Server, BecomeLeader(s),
           UNCHANGED <<appendNet, snapNet>>, VoteTypes'
    PROVE  LogInv'
<1>1. UNCHANGED <<m_currentTerm, m_votedFor, logVars, applyVars, appendNums,
                  exited, votes>>
  BY DEF BecomeLeader
<1>2. TermTypes'
  BY <1>1 DEF LogInv, TypeOK, TermTypes, BecomeLeader
<1>3. LogTypes' /\ LogsContiguous' /\ EndsGrow
      /\ \A p \in Server : End(p)' = End(p)
  BY <1>1, LogUntouched
<1>4. LastLogIndex(s) = End(s) /\ End(s) \in Nat
  BY LastIsEnd DEF LogInv, TypeOK
<1>5. IndexTypes' /\ PeersInLog'
  <2>1. m_nextIndex' = [m_nextIndex EXCEPT ![s] = [p \in Server |-> End(s) + 1]]
        /\ m_matchIndex' = [m_matchIndex EXCEPT ![s] = [p \in Server |-> 0]]
    BY <1>4 DEF BecomeLeader
  <2>2. IndexTypes'
    BY <1>1, <1>4, <2>1 DEF LogInv, TypeOK, IndexTypes, applyVars
  <2>3. \A q \in Server : q # s => (m_status'[q] = "Leader" => m_status[q] = "Leader")
    BY DEF BecomeLeader, LogInv, TypeOK, TermTypes
  <2>4. ASSUME NEW q \in Server, NEW p \in Server
        PROVE  /\ m_nextIndex'[q][p] <= End(q) + 1
               /\ m_matchIndex'[q][p] <= End(q)
               /\ m_status'[q] = "Leader" => m_nextIndex'[q][p] >= 1
    <3>1. CASE q = s
      BY <1>4, <2>1, <3>1 DEF LogInv, TypeOK, IndexTypes
    <3>2. CASE q # s
      BY <2>1, <2>3, <3>2 DEF LogInv, TypeOK, IndexTypes, PeersInLog
    <3> QED
      BY <3>1, <3>2
  <2> QED
    BY <1>3, <2>2, <2>4 DEF PeersInLog
<1>6. CountTypes' /\ ExitTypes' /\ HistoryTypes'
  BY <1>1 DEF LogInv, TypeOK, TermTypes, CountTypes, ExitTypes, HistoryTypes,
              BecomeLeader, ResetVoteCount
<1>7. DiskTypes'
  BY <1>2, <1>3, PersistKeeps DEF LogInv, TypeOK, BecomeLeader
<1>8. PositionsInOrder'
  BY <1>1, PositionsUntouched
<1>9. AppendTypes' /\ SnapTypes' /\ CallsInLog' /\ RepliesInLog' /\ SnapshotsInLog'
  BY <1>3, CallsUntouched, RepliesUntouched, SnapshotsUntouched
     DEF LogInv, TypeOK, AppendTypes, SnapTypes, appendNet, snapNet
<1> QED
  BY <1>2, <1>3, <1>5, <1>6, <1>7, <1>8, <1>9 DEF LogInv, TypeOK

\* sendRequestVote preserves the invariant.
LEMMA sendRequestVoteLogInv ==
    ASSUME LogInv, NEW r \in voteReplies, sendRequestVote(r)
    PROVE  LogInv'
<1> DEFINE s == r.from
<1>1. s \in Server /\ r.term \in Nat
  BY DEF LogInv, TypeOK, VoteTypes, VoteReplyType
<1>2. UNCHANGED <<appendNet, snapNet>> /\ VoteTypes'
  BY DEF LogInv, TypeOK, VoteTypes, sendRequestVote
<1>3. CASE StepDown(s, r.term)
  BY <1>1, <1>2, <1>3, StepDownIsQuiet, QuietStep DEF appendNet, snapNet
<1>4. CASE Ignore
  BY <1>2, <1>4, IgnoreIsQuiet, QuietStep DEF appendNet, snapNet
<1>5. CASE CountVote(s)
  <2>1. Quiet
    BY <1>1, <1>5 DEF LogInv, TypeOK, CountVote, Quiet, NoNewLeader, termVars,
                      history, TermTypes, CountTypes, DiskTypes, ExitTypes,
                      HistoryTypes
  <2> QED
    BY <1>2, <2>1, QuietStep DEF appendNet, snapNet
<1>6. CASE BecomeLeader(s)
  BY <1>1, <1>2, <1>6, BecomeLeaderLogInv
<1> QED
  BY <1>3, <1>4, <1>5, <1>6 DEF sendRequestVote

\* A request to a peer that is not behind the snapshot carries the part of the
\* log after prevLogIndex (doHeartBeat, getPrevLogInfo).
LEMMA AppendArgsInLog ==
    ASSUME LogInv, NEW s \in Server, NEW p \in Server, NEW k \in Rounds,
           m_nextIndex[s][p] > m_lastSnapshotIncludeIndex[s]
    PROVE  /\ AppendArgs(s, p, k) \in AppendCallType
           /\ AppendArgs(s, p, k).from = s
           /\ LET c == AppendArgs(s, p, k) IN
              /\ \A i \in 1..Len(c.entries) :
                    c.entries[i].index = c.prevLogIndex + i
              /\ c.prevLogIndex + Len(c.entries) = End(s)
              /\ c.prevLogIndex = 0 => c.prevLogTerm = 0
<1> DEFINE prev == m_nextIndex[s][p] - 1
           c    == AppendArgs(s, p, k)
<1>1. LogTypes /\ LogsContiguous
  BY DEF LogInv, TypeOK
<1>2. /\ m_currentTerm[s] \in Nat /\ m_commitIndex[s] \in Nat
      /\ m_nextIndex[s][p] \in Nat /\ m_lastSnapshotIncludeIndex[s] \in Nat
  BY DEF LogInv, TypeOK, TermTypes, IndexTypes, LogTypes
<1>3. prev \in m_lastSnapshotIncludeIndex[s]..End(s) /\ prev \in Nat
  BY <1>1, <1>2, EndIsNat DEF LogInv, PeersInLog
<1>4. TermAt(s, prev) \in Nat
  BY <1>1, <1>3, TermInLog
<1>5. /\ KeptAfter(s, prev) \in Seq(Entries)
      /\ prev + Len(KeptAfter(s, prev)) = End(s)
      /\ \A i \in 1..Len(KeptAfter(s, prev)) : KeptAfter(s, prev)[i].index = prev + i
  BY <1>1, <1>3, KeptInPlace
<1>6. prev = 0 => TermAt(s, prev) = 0
  BY <1>2, <1>3 DEF LogInv, PositionsInOrder, TermAt
<1>7. c = [from |-> s, to |-> p, round |-> k, term |-> m_currentTerm[s],
           prevLogIndex |-> prev, prevLogTerm |-> TermAt(s, prev),
           entries |-> KeptAfter(s, prev), leaderCommit |-> m_commitIndex[s]]
  BY DEF AppendArgs, KeptAfter
<1> QED
  BY <1>2, <1>3, <1>4, <1>5, <1>6, <1>7 DEF AppendCallType

\* doHeartBeat preserves the invariant.
LEMMA doHeartBeatLogInv ==
    ASSUME LogInv, NEW s \in Server, NEW k \in Rounds, doHeartBeat(s, k)
    PROVE  LogInv'
<1> DEFINE sent == {AppendArgs(s, p, k) : p \in {q \in Server :
                        m_nextIndex[s][q] > m_lastSnapshotIncludeIndex[s]}}
<1>1. UNCHANGED <<termVars, logVars, applyVars, leaderVars, votedNum, disk,
                  exited, voteNet, history>>
  BY DEF doHeartBeat
<1>2. /\ appendCalls' \subseteq appendCalls \cup sent
      /\ appendReplies' \subseteq appendReplies
      /\ snapCalls' \subseteq snapCalls /\ snapReplies' \subseteq snapReplies
  <2>1. \A q \in Server : /\ m_nextIndex[s][q] \in Nat
                          /\ m_lastSnapshotIncludeIndex[s] \in Nat
    BY DEF LogInv, TypeOK, IndexTypes, LogTypes
  <2> QED
    BY <2>1 DEF doHeartBeat, Without
<1>3. SnapTypes'
  BY <1>2 DEF LogInv, TypeOK, SnapTypes, SnapThreadType, doHeartBeat, Without
<1>4. \A c \in sent : c \in AppendCallType
  BY AppendArgsInLog
<1>5. AppendTypes'
  BY <1>2, <1>4 DEF LogInv, TypeOK, AppendTypes
<1>6. CountTypes'
  BY <1>1 DEF LogInv, TypeOK, CountTypes, doHeartBeat, StartRound
<1>7. TermTypes' /\ IndexTypes' /\ DiskTypes' /\ ExitTypes' /\ VoteTypes'
      /\ HistoryTypes' /\ NoNewLeader
  BY <1>1 DEF LogInv, TypeOK, TermTypes, IndexTypes, DiskTypes, ExitTypes,
              VoteTypes, HistoryTypes, NoNewLeader, termVars, applyVars,
              leaderVars, voteNet, history
<1>8. LogTypes' /\ LogsContiguous' /\ EndsGrow /\ End(s)' = End(s)
  BY <1>1, LogUntouched
<1>9. CallsInLog'
  <2>1. ASSUME NEW c \in appendCalls
        PROVE  /\ \A i \in 1..Len(c.entries) : c.entries[i].index = c.prevLogIndex + i
               /\ c.prevLogIndex + Len(c.entries) <= End(c.from)'
               /\ c.prevLogIndex = 0 => c.prevLogTerm = 0
    <3>1. c.from \in Server
      BY DEF LogInv, TypeOK, AppendTypes, AppendCallType
    <3> QED
      BY <1>1, <3>1, LogUntouched DEF LogInv, CallsInLog
  <2>2. ASSUME NEW c \in sent
        PROVE  /\ \A i \in 1..Len(c.entries) : c.entries[i].index = c.prevLogIndex + i
               /\ c.prevLogIndex + Len(c.entries) <= End(c.from)'
               /\ c.prevLogIndex = 0 => c.prevLogTerm = 0
    <3>1. End(s) \in Nat
      BY EndIsNat DEF LogInv, TypeOK
    <3> QED
      BY <1>8, <3>1, AppendArgsInLog
  <2> HIDE DEF sent
  <2> QED
    BY <1>2, <2>1, <2>2 DEF CallsInLog
<1>10. PositionsInOrder' /\ PeersInLog' /\ RepliesInLog' /\ SnapshotsInLog'
  BY <1>1, <1>2, <1>7, <1>8, PositionsUntouched, PeersUntouched,
     RepliesUntouched, SnapshotsUntouched
<1> QED
  BY <1>3, <1>5, <1>6, <1>7, <1>8, <1>9, <1>10 DEF LogInv, TypeOK

\* An answer names positions of the log its caller sent from.
LEMMA AnswerAppendInLog ==
    ASSUME LogInv, EndsGrow, NEW c \in appendCalls, NEW t \in Nat,
           NEW ok \in BOOLEAN, NEW u \in Nat \cup {NoUpdate},
           u # NoUpdate => u \in 1..c.prevLogIndex,
           AnswerAppend(c, t, ok, u)
    PROVE  AppendTypes' /\ CallsInLog' /\ RepliesInLog'
<1> DEFINE r == [from |-> c.from, to |-> c.to, round |-> c.round,
                 upTo |-> c.prevLogIndex + Len(c.entries),
                 lastTerm |-> IF c.entries = <<>> THEN 0
                              ELSE c.entries[Len(c.entries)].term,
                 term |-> t, success |-> ok, updateNextIndex |-> u]
<1>1. appendCalls' \subseteq appendCalls /\ appendReplies' = appendReplies \cup {r}
  BY DEF AnswerAppend
<1>2. /\ c.from \in Server /\ c.to \in Server /\ c.round \in Rounds
      /\ c.prevLogIndex \in Nat /\ c.entries \in Seq(Entries)
  BY DEF LogInv, TypeOK, AppendTypes, AppendCallType
<1>3. r.lastTerm \in Nat
  <2>1. CASE c.entries # <<>>
    <3>1. Len(c.entries) \in 1..Len(c.entries)
      BY <1>2, <2>1
    <3>2. c.entries[Len(c.entries)] \in Entries
      BY <1>2, <3>1
    <3> QED
      BY <2>1, <3>2 DEF Entries
  <2> QED
    BY <2>1
<1>4. r \in AppendReplyType
  BY <1>2, <1>3 DEF AppendReplyType
<1>5. End(r.from)' \in Nat /\ r.upTo <= End(r.from)'
  BY <1>2, EndIsNat DEF LogInv, TypeOK, CallsInLog, EndsGrow
<1>6. r.updateNextIndex # NoUpdate => r.updateNextIndex \in 1..r.upTo
  BY <1>2
<1> HIDE DEF r
<1>7. AppendTypes'
  BY <1>1, <1>4 DEF LogInv, TypeOK, AppendTypes
<1>8. CallsInLog'
  BY <1>1, CallsUntouched
<1>9. RepliesInLog'
  <2>1. ASSUME NEW q \in appendReplies
        PROVE  /\ q.upTo <= End(q.from)'
               /\ q.updateNextIndex # NoUpdate => q.updateNextIndex \in 1..q.upTo
    <3>1. q.from \in Server /\ q.upTo \in Nat
      BY DEF LogInv, TypeOK, AppendTypes, AppendReplyType
    <3> QED
      BY <3>1, EndIsNat DEF LogInv, TypeOK, RepliesInLog, EndsGrow
  <2> QED
    BY <1>1, <1>5, <1>6, <2>1 DEF RepliesInLog
<1> QED
  BY <1>7, <1>8, <1>9

\* The three answers to a request of the receiver's term or a later one leave
\* the log contiguous and no shorter, and tell the leader where to continue.
LEMMA AppendTooShortInLog ==
    ASSUME LogInv, NEW c \in appendCalls, c.to \in Server, c.term \in Nat,
           AppendTooShort(c.to, c)
    PROVE  /\ LogTypes' /\ LogsContiguous' /\ EndsGrow /\ PositionsInOrder'
           /\ m_commitIndex' \in [Server -> Nat] /\ UNCHANGED m_lastApplied
           /\ AppendTypes' /\ CallsInLog' /\ RepliesInLog'
<1>1. UNCHANGED <<logVars, applyVars>>
  BY DEF AppendTooShort
<1>2. LogTypes' /\ LogsContiguous' /\ EndsGrow /\ PositionsInOrder'
  BY <1>1, LogUntouched, PositionsUntouched
<1>3. LastLogIndex(c.to) \in Nat
  BY LastIsEnd DEF LogInv, TypeOK
<1>4. c.prevLogIndex \in Nat
  BY DEF LogInv, TypeOK, AppendTypes, AppendCallType
<1>5. EndOfLog(c.to) \in 1..c.prevLogIndex
  BY <1>3, <1>4 DEF AppendTooShort, EndOfLog
<1>6. AppendTypes' /\ CallsInLog' /\ RepliesInLog'
  <2> DEFINE u == EndOfLog(c.to)
  <2>1. u \in Nat \cup {NoUpdate} /\ u \in 1..c.prevLogIndex
    BY <1>4, <1>5
  <2>2. AnswerAppend(c, c.term, FALSE, u)
    BY DEF AppendTooShort
  <2> HIDE DEF u
  <2> QED
    BY <1>2, <2>1, <2>2, AnswerAppendInLog
<1> QED
  BY <1>1, <1>2, <1>6 DEF LogInv, TypeOK, IndexTypes, applyVars

\* The same of a request whose prevLogTerm does not match.
LEMMA AppendMismatchInLog ==
    ASSUME LogInv, NEW c \in appendCalls, c.to \in Server, c.term \in Nat,
           AppendMismatch(c.to, c)
    PROVE  /\ LogTypes' /\ LogsContiguous' /\ EndsGrow /\ PositionsInOrder'
           /\ m_commitIndex' \in [Server -> Nat] /\ UNCHANGED m_lastApplied
           /\ AppendTypes' /\ CallsInLog' /\ RepliesInLog'
<1> DEFINE s == c.to
<1>1. UNCHANGED <<logVars, applyVars>>
  BY DEF AppendMismatch
<1>2. LogTypes' /\ LogsContiguous' /\ EndsGrow /\ PositionsInOrder'
  BY <1>1, LogUntouched, PositionsUntouched
<1>3. /\ c.prevLogIndex \in Nat /\ m_lastSnapshotIncludeIndex[s] \in Nat
      /\ LastLogIndex(s) \in Nat
  BY LastIsEnd DEF LogInv, TypeOK, AppendTypes, AppendCallType, LogTypes
<1>4. PICK u \in m_lastSnapshotIncludeIndex[s]..c.prevLogIndex :
            BacksOffTo(s, c.prevLogIndex, u) /\ AnswerAppend(c, c.term, FALSE, u)
  BY DEF AppendMismatch
<1>5. c.prevLogIndex # 0
  <2> SUFFICES ASSUME c.prevLogIndex = 0 PROVE FALSE
    OBVIOUS
  <2>1. m_lastSnapshotIncludeIndex[s] = 0
    BY <1>3 DEF AppendMismatch
  <2>2. TermAt(s, c.prevLogIndex) = 0
    BY <2>1 DEF LogInv, PositionsInOrder, TermAt
  <2> QED
    BY <2>2 DEF AppendMismatch, LogInv, CallsInLog
<1>6. u \in 1..c.prevLogIndex
  BY <1>3, <1>4, <1>5 DEF BacksOffTo
<1>7. AppendTypes' /\ CallsInLog' /\ RepliesInLog'
  <2>1. u \in Nat \cup {NoUpdate}
    BY <1>3, <1>6
  <2> QED
    BY <1>2, <1>4, <1>6, <2>1, AnswerAppendInLog
<1> QED
  BY <1>1, <1>2, <1>7 DEF LogInv, TypeOK, IndexTypes, applyVars

\* The same of a request that matches and is merged.
LEMMA AppendMatchInLog ==
    ASSUME LogInv, NEW c \in appendCalls, c.to \in Server, c.term \in Nat,
           AppendMatch(c.to, c)
    PROVE  /\ LogTypes' /\ LogsContiguous' /\ EndsGrow /\ PositionsInOrder'
           /\ m_commitIndex' \in [Server -> Nat] /\ UNCHANGED m_lastApplied
           /\ AppendTypes' /\ CallsInLog' /\ RepliesInLog'
           /\ \A p \in Server : m_commitIndex'[p] >= m_commitIndex[p]
<1> DEFINE s    == c.to
           base == m_lastSnapshotIncludeIndex[s]
           at   == c.prevLogIndex - base
           new  == Merged(m_logs[s], at, c.entries)
           last == IF new = <<>> THEN base ELSE new[Len(new)].index
<1>1. /\ m_logs' = [m_logs EXCEPT ![s] = new]
      /\ m_commitIndex' = [m_commitIndex EXCEPT
                            ![s] = FollowerCommit(s, c.leaderCommit, last)]
      /\ UNCHANGED <<m_lastSnapshotIncludeIndex, m_lastSnapshotIncludeTerm,
                     m_lastApplied>>
      /\ c.prevLogIndex \in base..LastLogIndex(s)
      /\ AnswerAppend(c, c.term, TRUE, NoUpdate)
  BY DEF AppendMatch, SliceIndex
<1>2. /\ base \in Nat /\ m_logs[s] \in Seq(Entries) /\ c.entries \in Seq(Entries)
      /\ c.leaderCommit \in Nat /\ m_commitIndex[s] \in Nat
  BY DEF LogInv, TypeOK, LogTypes, AppendTypes, AppendCallType, IndexTypes
<1>3. LastLogIndex(s) = base + Len(m_logs[s])
  BY LastIsEnd DEF LogInv, TypeOK, End
<1>4. at \in 0..Len(m_logs[s]) /\ base + at = c.prevLogIndex
  BY <1>1, <1>2, <1>3
<1>5. /\ \A k \in 1..Len(m_logs[s]) : m_logs[s][k].index = base + k
      /\ \A k \in 1..Len(c.entries) : c.entries[k].index = base + at + k
  BY <1>4 DEF LogInv, LogsContiguous, CallsInLog
<1> HIDE DEF base, at
<1>6. /\ new \in Seq(Entries) /\ Len(new) >= Len(m_logs[s])
      /\ \A k \in 1..Len(new) : new[k].index = base + k
  BY <1>2, <1>4, <1>5, MergedInPlace
<1> HIDE DEF new
<1>7. last = base + Len(new)
  <2>1. CASE new # <<>>
    <3>1. Len(new) \in 1..Len(new)
      BY <1>6, <2>1
    <3> QED
      BY <1>6, <2>1, <3>1
  <2> QED
    BY <1>2, <2>1
<1>8. FollowerCommit(s, c.leaderCommit, last) \in m_commitIndex[s]..last
  <2>1. m_commitIndex[s] <= base + Len(m_logs[s])
    BY DEF LogInv, PositionsInOrder, End, base
  <2>2. m_commitIndex[s] <= last /\ last \in Nat
    BY <1>2, <1>6, <1>7, <2>1
  <2> QED
    BY <1>2, <2>2 DEF FollowerCommit
<1>9. LogTypes'
  BY <1>1, <1>6 DEF LogInv, TypeOK, LogTypes
<1>10. LogsContiguous'
  BY <1>1, <1>6 DEF LogInv, TypeOK, LogTypes, LogsContiguous, base
<1>11. /\ End(s)' = last
       /\ \A p \in Server : p # s => End(p)' = End(p)
  BY <1>1, <1>7 DEF End, base, LogInv, TypeOK, LogTypes
<1>12. EndsGrow
  <2>1. End(s)' >= End(s)
    BY <1>2, <1>6, <1>7, <1>11 DEF End, base
  <2>2. \A p \in Server : End(p) \in Nat
    BY EndIsNat DEF LogInv, TypeOK
  <2>3. End(s)' \in Nat
    BY <1>2, <1>6, <1>7, <1>11
  <2> QED
    BY <1>11, <2>1, <2>2, <2>3 DEF EndsGrow
<1>13. m_commitIndex' \in [Server -> Nat]
  BY <1>1, <1>2, <1>7, <1>8 DEF LogInv, TypeOK, IndexTypes
<1>14. PositionsInOrder'
  <2> SUFFICES ASSUME NEW p \in Server
               PROVE  /\ m_lastApplied[p] <= m_commitIndex'[p]
                      /\ m_commitIndex'[p] <= End(p)'
    BY <1>1 DEF LogInv, PositionsInOrder
  <2>1. CASE p = s
    <3>1. /\ m_lastApplied[s] <= m_commitIndex[s] /\ m_lastApplied[s] \in Nat
      BY DEF LogInv, TypeOK, PositionsInOrder, IndexTypes
    <3>2. m_commitIndex'[s] \in m_commitIndex[s]..last
      BY <1>1, <1>8 DEF LogInv, TypeOK, IndexTypes
    <3> QED
      BY <1>2, <1>7, <1>6, <1>11, <2>1, <3>1, <3>2
  <2>2. CASE p # s
    BY <1>1, <1>11, <2>2 DEF LogInv, TypeOK, PositionsInOrder, IndexTypes
  <2> QED
    BY <2>1, <2>2
<1>15. AppendTypes' /\ CallsInLog' /\ RepliesInLog'
  <2>1. NoUpdate \in Nat \cup {NoUpdate} /\ TRUE \in BOOLEAN
    OBVIOUS
  <2> QED
    BY <1>1, <1>12, <2>1, AnswerAppendInLog
<1>16. \A p \in Server : m_commitIndex'[p] >= m_commitIndex[p]
  <2> SUFFICES ASSUME NEW p \in Server
               PROVE  m_commitIndex'[p] >= m_commitIndex[p]
    OBVIOUS
  <2>1. m_commitIndex \in [Server -> Nat]
    BY DEF LogInv, TypeOK, IndexTypes
  <2>2. CASE p = s
    <3>1. m_commitIndex'[s] \in m_commitIndex[s]..last
      BY <1>1, <1>8, <2>1
    <3>2. m_commitIndex[s] \in Nat /\ last \in Nat
      BY <1>2, <1>6, <1>7, <2>1
    <3> QED
      BY <2>2, <3>1, <3>2
  <2>3. CASE p # s
    BY <1>1, <2>1, <2>3
  <2> QED
    BY <2>2, <2>3
<1> QED
  BY <1>1, <1>9, <1>10, <1>12, <1>13, <1>14, <1>15, <1>16

\* AppendEntries1 preserves the invariant.
LEMMA AppendEntries1LogInv ==
    ASSUME LogInv, NEW c \in appendCalls, AppendEntries1(c)
    PROVE  LogInv'
<1> DEFINE s == c.to
<1>1. s \in Server /\ c.term \in Nat /\ m_currentTerm[s] \in Nat
  BY DEF LogInv, TypeOK, AppendTypes, AppendCallType, TermTypes
<1>2. UNCHANGED <<voteNet, snapNet>>
  BY DEF AppendEntries1
<1>3. VoteTypes' /\ SnapTypes'
  BY <1>2 DEF LogInv, TypeOK, VoteTypes, SnapTypes, voteNet, snapNet
<1>4. CASE AppendExpired(s, c)
  <2>1. Quiet
    BY <1>4, IgnoreIsQuiet DEF AppendExpired
  <2>2. LogTypes' /\ LogsContiguous' /\ EndsGrow /\ PositionsInOrder' /\ PeersInLog'
    BY <2>1, LogUntouched, PositionsUntouched, PeersUntouched DEF Quiet
  <2>3. NoUpdate \in Nat \cup {NoUpdate} /\ FALSE \in BOOLEAN
    OBVIOUS
  <2>4. AppendTypes' /\ CallsInLog' /\ RepliesInLog'
    BY <1>1, <1>4, <2>2, <2>3, AnswerAppendInLog DEF AppendExpired
  <2>5. SnapshotsInLog'
    BY <1>2, <2>2, SnapshotsUntouched DEF snapNet
  <2>6. IndexTypes'
    BY <2>1 DEF Quiet, LogInv, TypeOK, IndexTypes, applyVars, leaderVars
  <2> QED
    BY <1>3, <2>1, <2>2, <2>4, <2>5, <2>6 DEF Quiet, LogInv, TypeOK
<1>5. CASE /\ AppendTooShort(s, c) \/ AppendMismatch(s, c) \/ AppendMatch(s, c)
           /\ UNCHANGED <<leaderVars, votedNum, appendNums, exited, history>>
           /\ persist(s)
  <2>1. /\ LogTypes' /\ LogsContiguous' /\ EndsGrow /\ PositionsInOrder'
        /\ m_commitIndex' \in [Server -> Nat] /\ UNCHANGED m_lastApplied
        /\ AppendTypes' /\ CallsInLog' /\ RepliesInLog'
    BY <1>1, <1>5, AppendTooShortInLog, AppendMismatchInLog, AppendMatchInLog
  <2>2. Follow(s, c.term)
    BY <1>5 DEF AppendTooShort, AppendMismatch, AppendMatch
  <2>3. TermTypes' /\ NoNewLeader
    BY <1>1, <2>2, FollowKeeps DEF LogInv, TypeOK
  <2>4. IndexTypes'
    BY <1>5, <2>1 DEF LogInv, TypeOK, IndexTypes, leaderVars
  <2>5. CountTypes' /\ ExitTypes' /\ HistoryTypes'
    BY <1>5 DEF LogInv, TypeOK, CountTypes, ExitTypes, HistoryTypes, history
  <2>6. DiskTypes'
    BY <1>1, <1>5, <2>1, <2>3, PersistKeeps DEF LogInv, TypeOK
  <2>7. PeersInLog' /\ SnapshotsInLog'
    BY <1>2, <1>5, <2>1, <2>3, PeersUntouched, SnapshotsUntouched DEF snapNet
  <2> QED
    BY <1>3, <2>1, <2>3, <2>4, <2>5, <2>6, <2>7 DEF LogInv, TypeOK
<1>6. CASE /\ AppendBehindSnapshot(s, c)
           /\ appendCalls' = appendCalls \ {c}
           /\ UNCHANGED appendReplies
  <2>1. Quiet
    BY <1>1, <1>6, ExitIsQuiet DEF AppendBehindSnapshot, Exits
  <2> QED
    BY <1>2, <1>3, <1>6, <2>1, QuietStep DEF snapNet
<1> QED
  BY <1>4, <1>5, <1>6 DEF AppendEntries1

\* sendAppendEntries preserves the invariant.
LEMMA sendAppendEntriesLogInv ==
    ASSUME LogInv, NEW r \in appendReplies, sendAppendEntries(r)
    PROVE  LogInv'
<1> DEFINE s == r.from
<1>1. /\ s \in Server /\ r.to \in Server /\ r.round \in Rounds
      /\ r.upTo \in Nat /\ r.term \in Nat
      /\ r.updateNextIndex \in Nat \cup {NoUpdate}
  BY DEF LogInv, TypeOK, AppendTypes, AppendReplyType
<1>2. /\ appendReplies' \subseteq appendReplies
      /\ UNCHANGED <<appendCalls, voteNet, snapNet>>
  BY DEF sendAppendEntries
<1>3. VoteTypes' /\ AppendTypes' /\ SnapTypes'
  BY <1>2 DEF LogInv, TypeOK, VoteTypes, AppendTypes, SnapTypes, voteNet, snapNet
<1>4. CASE StepDown(s, r.term) \/ Ignore
  <2>1. Quiet
    BY <1>1, <1>4, StepDownIsQuiet, IgnoreIsQuiet
  <2> QED
    BY <1>2, <1>3, <2>1, QuietStep DEF snapNet
<1>5. CASE /\ Backtrack(s, r) \/ Replicated(s, r)
           /\ UNCHANGED <<termVars, logVars, m_lastApplied, votedNum, disk,
                          exited, history>>
  <2>1. UNCHANGED logVars
    BY <1>5
  <2>2. /\ LogTypes' /\ LogsContiguous' /\ EndsGrow
        /\ \A p \in Server : End(p)' = End(p) /\ End(p) \in Nat
    BY <2>1, LogUntouched, EndIsNat DEF LogInv, TypeOK
  <2>3. r.upTo <= End(s)
    BY DEF LogInv, RepliesInLog
  <2>4. /\ m_nextIndex \in [Server -> [Server -> Nat]]
        /\ m_matchIndex \in [Server -> [Server -> Nat]]
        /\ m_commitIndex \in [Server -> Nat]
        /\ appendNums \in [Server -> [Rounds -> Nat]]
    BY DEF LogInv, TypeOK, IndexTypes, CountTypes
  <2>5. /\ m_nextIndex' \in [Server -> [Server -> Nat]]
        /\ m_matchIndex' \in [Server -> [Server -> Nat]]
        /\ m_commitIndex' \in [Server -> Nat]
        /\ appendNums' \in [Server -> [Rounds -> Nat]]
        /\ \A p \in Server : /\ m_commitIndex'[p] >= m_commitIndex[p]
                             /\ m_commitIndex'[p] <= End(p)
        /\ PeersInLog'
    <3>1. CASE Backtrack(s, r)
      <4>1. /\ BackTo(s, r) \in Nat /\ BackTo(s, r) <= End(s) + 1
            /\ BackTo(s, r) >= 1 \/ BackTo(s, r) = m_nextIndex[s][r.to]
        BY <1>1, <2>2, <2>3, <2>4 DEF BackTo, LogInv, RepliesInLog, PeersInLog
      <4>2. /\ m_nextIndex' = [m_nextIndex EXCEPT ![s][r.to] = BackTo(s, r)]
            /\ UNCHANGED <<m_matchIndex, m_commitIndex, appendNums, m_status>>
        BY <1>5, <3>1 DEF Backtrack, termVars
      <4>3. m_nextIndex' \in [Server -> [Server -> Nat]]
        BY <1>1, <2>4, <4>1, <4>2
      <4>4. PeersInLog'
        <5> SUFFICES ASSUME NEW q \in Server, NEW p \in Server
                     PROVE  /\ m_nextIndex'[q][p] <= End(q) + 1
                            /\ m_status[q] = "Leader" => m_nextIndex'[q][p] >= 1
          BY <2>2, <4>2 DEF LogInv, PeersInLog
        <5>1. CASE q = s /\ p = r.to
          BY <1>1, <2>4, <4>1, <4>2, <5>1 DEF LogInv, PeersInLog
        <5>2. CASE ~(q = s /\ p = r.to)
          <6>1. m_nextIndex'[q][p] = m_nextIndex[q][p]
            BY <1>1, <2>4, <4>2, <5>2
          <6> QED
            BY <6>1 DEF LogInv, PeersInLog
        <5> QED
          BY <5>1, <5>2
      <4>5. \A p \in Server : m_commitIndex[p] <= End(p)
        BY DEF LogInv, PositionsInOrder
      <4> QED
        BY <2>4, <4>2, <4>3, <4>4, <4>5
    <3>2. CASE Replicated(s, r)
      <4> DEFINE old   == m_matchIndex[s][r.to]
                 match == IF r.upTo > old THEN r.upTo ELSE old
                 count == appendNums[s][r.round]
                 num   == IF count + 1 >= Majority THEN 0 ELSE count + 1
                 upTo  == IF /\ count + 1 >= Majority /\ OfThisTerm(s, r)
                             /\ r.upTo > m_commitIndex[s]
                          THEN r.upTo ELSE m_commitIndex[s]
      <4>1. /\ old \in Nat /\ count \in Nat /\ m_commitIndex[s] \in Nat
        BY <1>1, <2>4
      <4>2. old <= End(s) /\ m_commitIndex[s] <= End(s)
        BY <1>1 DEF LogInv, PeersInLog, PositionsInOrder
      <4>3. /\ match \in Nat /\ match <= End(s) /\ num \in Nat
            /\ upTo \in Nat /\ upTo <= End(s) /\ upTo >= m_commitIndex[s]
        BY <1>1, <2>2, <2>3, <4>1, <4>2
      <4>4. /\ m_matchIndex' = [m_matchIndex EXCEPT ![s][r.to] = match]
            /\ m_nextIndex' = [m_nextIndex EXCEPT ![s][r.to] = match + 1]
            /\ appendNums' = [appendNums EXCEPT ![s][r.round] = num]
            /\ m_commitIndex' = [m_commitIndex EXCEPT ![s] = upTo]
            /\ UNCHANGED m_status
        BY <1>1, <1>5, <2>4, <3>2 DEF Replicated, termVars
      <4> HIDE DEF match, num, upTo
      <4>5. /\ m_nextIndex' \in [Server -> [Server -> Nat]]
            /\ m_matchIndex' \in [Server -> [Server -> Nat]]
            /\ m_commitIndex' \in [Server -> Nat]
            /\ appendNums' \in [Server -> [Rounds -> Nat]]
        BY <1>1, <2>4, <4>3, <4>4
      <4>6. PeersInLog'
        <5> SUFFICES ASSUME NEW q \in Server, NEW p \in Server
                     PROVE  /\ m_nextIndex'[q][p] <= End(q) + 1
                            /\ m_matchIndex'[q][p] <= End(q)
                            /\ m_status[q] = "Leader" => m_nextIndex'[q][p] >= 1
          BY <2>2, <4>4 DEF PeersInLog
        <5>1. CASE q = s /\ p = r.to
          <6>1. m_matchIndex'[q][p] = match /\ m_nextIndex'[q][p] = match + 1
            BY <1>1, <2>4, <4>4, <5>1
          <6> QED
            BY <2>2, <4>3, <5>1, <6>1
        <5>2. CASE ~(q = s /\ p = r.to)
          <6>1. /\ m_nextIndex'[q][p] = m_nextIndex[q][p]
                /\ m_matchIndex'[q][p] = m_matchIndex[q][p]
            BY <1>1, <2>4, <4>4, <5>2
          <6> QED
            BY <6>1 DEF LogInv, PeersInLog
        <5> QED
          BY <5>1, <5>2
      <4>7. \A p \in Server : /\ m_commitIndex'[p] >= m_commitIndex[p]
                              /\ m_commitIndex'[p] <= End(p)
        BY <1>1, <2>4, <4>3, <4>4 DEF LogInv, PositionsInOrder
      <4> QED
        BY <4>5, <4>6, <4>7
    <3> QED
      BY <1>5, <3>1, <3>2
  <2>6. TermTypes' /\ IndexTypes' /\ CountTypes' /\ DiskTypes' /\ ExitTypes'
        /\ HistoryTypes'
    BY <1>5, <2>5 DEF LogInv, TypeOK, TermTypes, IndexTypes, CountTypes, DiskTypes,
                      ExitTypes, HistoryTypes, termVars, history
  <2>7. PositionsInOrder'
    <3> SUFFICES ASSUME NEW p \in Server
                 PROVE  m_lastApplied[p] <= m_commitIndex'[p]
                        /\ m_commitIndex'[p] <= End(p)
      BY <1>5, <2>2 DEF LogInv, PositionsInOrder, logVars
    <3>1. /\ m_lastApplied[p] \in Nat /\ m_commitIndex[p] \in Nat
          /\ m_lastApplied[p] <= m_commitIndex[p]
      BY DEF LogInv, TypeOK, IndexTypes, PositionsInOrder
    <3> QED
      BY <2>5, <3>1
  <2>8. CallsInLog' /\ RepliesInLog' /\ SnapshotsInLog'
    BY <1>2, <2>2, CallsUntouched, RepliesUntouched, SnapshotsUntouched DEF snapNet
  <2> QED
    BY <1>3, <2>2, <2>5, <2>6, <2>7, <2>8 DEF LogInv, TypeOK
<1> QED
  BY <1>4, <1>5 DEF sendAppendEntries

\* A log replaced by a contiguous one that starts at base, with the positions
\* moved up to it (what Snapshot and SnapshotInstalled have in common).
LEMMA LogReplaced ==
    ASSUME LogInv, NEW s \in Server, NEW base \in Nat, NEW term \in Nat,
           NEW log \in Seq(Entries), NEW commit \in Nat, NEW applied \in Nat,
           \A k \in 1..Len(log) : log[k].index = base + k,
           base + Len(log) >= End(s),
           base # 0, base <= applied, applied <= commit,
           commit <= base + Len(log),
           m_logs' = [m_logs EXCEPT ![s] = log],
           m_lastSnapshotIncludeIndex' =
                [m_lastSnapshotIncludeIndex EXCEPT ![s] = base],
           m_lastSnapshotIncludeTerm' =
                [m_lastSnapshotIncludeTerm EXCEPT ![s] = term],
           m_commitIndex' = [m_commitIndex EXCEPT ![s] = commit],
           m_lastApplied' = [m_lastApplied EXCEPT ![s] = applied],
           UNCHANGED leaderVars
    PROVE  LogTypes' /\ IndexTypes' /\ LogsContiguous' /\ PositionsInOrder'
           /\ EndsGrow
<1>1. LogTypes /\ IndexTypes /\ LogsContiguous
  BY DEF LogInv, TypeOK
<1>2. LogTypes'
  BY <1>1 DEF LogTypes
<1>3. IndexTypes'
  BY <1>1 DEF IndexTypes, leaderVars
<1>4. LogsContiguous'
  <2> SUFFICES ASSUME NEW p \in Server, NEW k \in 1..Len(m_logs'[p])
               PROVE  m_logs'[p][k].index = m_lastSnapshotIncludeIndex'[p] + k
    BY DEF LogsContiguous
  <2>1. CASE p = s
    BY <1>1, <2>1 DEF LogTypes
  <2>2. CASE p # s
    BY <1>1, <2>2 DEF LogTypes, LogsContiguous
  <2> QED
    BY <2>1, <2>2
<1>5. /\ End(s)' = base + Len(log)
      /\ \A p \in Server : p # s => End(p)' = End(p)
  BY <1>1 DEF End, LogTypes
<1>6. \A p \in Server : End(p) \in Nat
  BY <1>1, EndIsNat
<1>7. EndsGrow
  BY <1>5, <1>6 DEF EndsGrow
<1>8. PositionsInOrder'
  <2> SUFFICES ASSUME NEW p \in Server
               PROVE  /\ m_lastSnapshotIncludeIndex'[p] <= m_lastApplied'[p]
                      /\ m_lastApplied'[p] <= m_commitIndex'[p]
                      /\ m_commitIndex'[p] <= End(p)'
                      /\ m_lastSnapshotIncludeIndex'[p] = 0
                         => m_lastSnapshotIncludeTerm'[p] = 0
    BY DEF PositionsInOrder
  <2>1. CASE p = s
    BY <1>1, <1>5, <2>1 DEF LogTypes, IndexTypes
  <2>2. CASE p # s
    BY <1>1, <1>5, <2>2 DEF LogInv, PositionsInOrder, LogTypes, IndexTypes
  <2> QED
    BY <2>1, <2>2
<1> QED
  BY <1>2, <1>3, <1>4, <1>7, <1>8

\* Snapshot preserves the invariant.
LEMMA SnapshotLogInv ==
    ASSUME LogInv, NEW s \in Server, NEW i \in 1..m_lastApplied[s],
           Snapshot(s, i)
    PROVE  LogInv' /\ EndsGrow
<1> DEFINE base == m_lastSnapshotIncludeIndex[s]
           kept == KeptAfter(s, i)
<1>1. /\ m_lastApplied[s] \in Nat /\ m_commitIndex[s] \in Nat /\ base \in Nat
      /\ m_lastApplied[s] <= m_commitIndex[s] /\ m_commitIndex[s] <= End(s)
      /\ End(s) \in Nat
  BY EndIsNat DEF LogInv, TypeOK, IndexTypes, LogTypes, PositionsInOrder
<1>2. i \in base..End(s) /\ i \in Nat /\ i # 0
  BY <1>1 DEF Snapshot
<1>3. TermAt(s, i) \in Nat
  BY <1>2, TermInLog DEF LogInv, TypeOK
<1>4. /\ kept \in Seq(Entries) /\ i + Len(kept) = End(s)
      /\ \A k \in 1..Len(kept) : kept[k].index = i + k
  BY <1>2, KeptInPlace DEF LogInv, TypeOK
<1>5. /\ m_logs' = [m_logs EXCEPT ![s] = kept]
      /\ m_lastSnapshotIncludeIndex' = [m_lastSnapshotIncludeIndex EXCEPT ![s] = i]
      /\ m_lastSnapshotIncludeTerm' =
            [m_lastSnapshotIncludeTerm EXCEPT ![s] = TermAt(s, i)]
      /\ m_commitIndex' = [m_commitIndex EXCEPT ![s] = m_commitIndex[s]]
      /\ m_lastApplied' = [m_lastApplied EXCEPT ![s] = m_lastApplied[s]]
      /\ UNCHANGED leaderVars
  <2>1. (IF i > m_lastApplied[s] THEN i ELSE m_lastApplied[s]) = m_lastApplied[s]
    BY <1>1
  <2>2. UNCHANGED m_commitIndex /\ m_commitIndex \in [Server -> Nat]
        /\ UNCHANGED leaderVars
    BY DEF Snapshot, LogInv, TypeOK, IndexTypes
  <2>3. m_lastApplied' = [m_lastApplied EXCEPT
            ![s] = IF i > m_lastApplied[s] THEN i ELSE m_lastApplied[s]]
    BY DEF Snapshot, LogInv, TypeOK, IndexTypes
  <2> QED
    BY <2>1, <2>2, <2>3 DEF Snapshot
<1>6. /\ UNCHANGED <<termVars, votedNum, appendNums, exited, voteNet, appendNet,
                     snapNet, history>>
      /\ persist(s)
  BY DEF Snapshot
<1>7. LogTypes' /\ IndexTypes' /\ LogsContiguous' /\ PositionsInOrder' /\ EndsGrow
  <2> HIDE DEF kept, base
  <2>1. /\ i + Len(kept) >= End(s) /\ i <= m_lastApplied[s]
        /\ m_commitIndex[s] <= i + Len(kept)
    BY <1>1, <1>2, <1>4
  <2> QED
    BY <1>1, <1>2, <1>3, <1>4, <1>5, <2>1, LogReplaced
<1>8. /\ TermTypes' /\ NoNewLeader /\ CountTypes' /\ ExitTypes' /\ HistoryTypes'
      /\ VoteTypes' /\ AppendTypes' /\ SnapTypes'
  BY <1>6 DEF LogInv, TypeOK, TermTypes, NoNewLeader, CountTypes, ExitTypes,
              HistoryTypes, VoteTypes, AppendTypes, SnapTypes, termVars, voteNet,
              appendNet, snapNet, history
<1>9. DiskTypes'
  BY <1>6, <1>7, <1>8, PersistKeeps DEF LogInv, TypeOK
<1>10. PeersInLog' /\ CallsInLog' /\ RepliesInLog' /\ SnapshotsInLog'
  BY <1>5, <1>6, <1>7, <1>8, PeersUntouched, CallsUntouched, RepliesUntouched,
     SnapshotsUntouched DEF appendNet, snapNet
<1> QED
  BY <1>7, <1>8, <1>9, <1>10 DEF LogInv, TypeOK

\* leaderSendSnapShot preserves the invariant.
LEMMA leaderSendSnapShotLogInv ==
    ASSUME LogInv, NEW t \in snapThreads, leaderSendSnapShot(t)
    PROVE  LogInv'
<1> DEFINE s == t.from
<1>1. /\ snapThreads' \subseteq snapThreads
      /\ UNCHANGED <<voteNet, appendNet, snapReplies>> /\ Ignore
  BY DEF leaderSendSnapShot
<1>2. s \in Server /\ t.to \in Server /\ t.round \in Rounds
  BY DEF LogInv, TypeOK, SnapTypes, SnapThreadType
<1>3. PICK c \in SnapCallType : /\ c.from = s
                                /\ c.index = m_lastSnapshotIncludeIndex[s]
                                /\ snapCalls' = snapCalls \cup {c}
  <2> DEFINE new == [from |-> s, to |-> t.to, round |-> t.round,
                     term |-> m_currentTerm[s],
                     index |-> m_lastSnapshotIncludeIndex[s],
                     snapTerm |-> m_lastSnapshotIncludeTerm[s]]
  <2>1. new \in SnapCallType
    BY <1>2 DEF LogInv, TypeOK, TermTypes, LogTypes, SnapCallType
  <2>2. snapCalls' = snapCalls \cup {new}
    BY DEF leaderSendSnapShot
  <2> QED
    BY <2>1, <2>2
<1>4. Quiet
  BY <1>1, IgnoreIsQuiet
<1>5. /\ LogTypes' /\ LogsContiguous' /\ EndsGrow
      /\ \A p \in Server : End(p)' = End(p)
  BY <1>4, LogUntouched DEF Quiet
<1>6. VoteTypes' /\ AppendTypes' /\ SnapTypes' /\ IndexTypes'
  BY <1>1, <1>3, <1>4 DEF LogInv, TypeOK, VoteTypes, AppendTypes, SnapTypes,
     IndexTypes, voteNet, appendNet, Quiet, applyVars, leaderVars
<1>7. PositionsInOrder' /\ PeersInLog' /\ CallsInLog' /\ RepliesInLog'
  BY <1>1, <1>4, <1>5, PositionsUntouched, PeersUntouched, CallsUntouched,
     RepliesUntouched DEF Quiet, appendNet
<1>8. SnapshotsInLog'
  <2>1. c.index <= End(c.from)'
    BY <1>2, <1>3, <1>5 DEF LogInv, TypeOK, LogTypes, End
  <2>2. /\ \A d \in snapCalls : d.from \in Server
        /\ \A r \in snapReplies : r.from \in Server
    BY DEF LogInv, TypeOK, SnapTypes, SnapCallType, SnapReplyType
  <2>3. /\ \A d \in snapCalls : d.index <= End(d.from)'
        /\ \A r \in snapReplies : r.index <= End(r.from)'
    BY <1>5, <2>2 DEF LogInv, SnapshotsInLog
  <2> QED
    BY <1>1, <1>3, <2>1, <2>3 DEF SnapshotsInLog
<1> QED
  BY <1>4, <1>5, <1>6, <1>7, <1>8 DEF LogInv, TypeOK, Quiet

\* An answer to a snapshot names an index of the log its caller sent from.
LEMMA AnswerSnapshotInLog ==
    ASSUME LogInv, EndsGrow, NEW c \in snapCalls, NEW t \in Nat,
           UNCHANGED snapThreads, AnswerSnapshot(c, t)
    PROVE  SnapTypes' /\ SnapshotsInLog'
<1> DEFINE r == [from |-> c.from, to |-> c.to, round |-> c.round,
                 callTerm |-> c.term, index |-> c.index, term |-> t]
<1>1. snapCalls' \subseteq snapCalls /\ snapReplies' = snapReplies \cup {r}
  BY DEF AnswerSnapshot
<1>2. c \in SnapCallType
  BY DEF LogInv, TypeOK, SnapTypes
<1>3. r \in SnapReplyType
  BY <1>2 DEF SnapCallType, SnapReplyType
<1>4. /\ \A d \in snapCalls : d.from \in Server /\ d.index \in Nat
      /\ \A q \in snapReplies : q.from \in Server /\ q.index \in Nat
  BY DEF LogInv, TypeOK, SnapTypes, SnapCallType, SnapReplyType
<1>5. \A p \in Server : End(p) \in Nat
  BY EndIsNat DEF LogInv, TypeOK
<1>6. r.index <= End(r.from)'
  BY <1>4, <1>5 DEF LogInv, SnapshotsInLog, EndsGrow
<1> HIDE DEF r
<1>7. SnapTypes'
  BY <1>1, <1>3 DEF LogInv, TypeOK, SnapTypes
<1>8. \A d \in snapCalls : d.index <= End(d.from)'
  BY <1>4, <1>5 DEF LogInv, SnapshotsInLog, EndsGrow
<1>9. \A q \in snapReplies : q.index <= End(q.from)'
  BY <1>4, <1>5 DEF LogInv, SnapshotsInLog, EndsGrow
<1> QED
  BY <1>1, <1>6, <1>7, <1>8, <1>9 DEF SnapshotsInLog

\* SnapshotInstalled preserves the invariant.
LEMMA SnapshotInstalledLogInv ==
    ASSUME LogInv, NEW c \in snapCalls, SnapshotInstalled(c.to, c),
           UNCHANGED <<voteNet, appendNet, snapThreads>>
    PROVE  LogInv' /\ EndsGrow
<1> DEFINE s       == c.to
           base    == m_lastSnapshotIncludeIndex[s]
           log     == LogAfter(s, c.index)
           commit  == IF c.index > m_commitIndex[s] THEN c.index
                                                    ELSE m_commitIndex[s]
           applied == IF c.index > m_lastApplied[s] THEN c.index
                                                    ELSE m_lastApplied[s]
<1>1. c \in SnapCallType
  BY DEF LogInv, TypeOK, SnapTypes
<1>2. /\ s \in Server /\ c.index \in Nat /\ c.snapTerm \in Nat /\ c.term \in Nat
      /\ base \in Nat /\ m_commitIndex[s] \in Nat /\ m_lastApplied[s] \in Nat
      /\ LastLogIndex(s) = End(s) /\ End(s) \in Nat
  BY <1>1, LastIsEnd DEF SnapCallType, LogInv, TypeOK, LogTypes, IndexTypes
<1>3. /\ m_lastApplied[s] <= m_commitIndex[s] /\ m_commitIndex[s] <= End(s)
  BY <1>2 DEF LogInv, PositionsInOrder
<1>4. c.index > base
  BY DEF SnapshotInstalled
<1>5. /\ log \in Seq(Entries) /\ c.index + Len(log) >= End(s)
      /\ \A k \in 1..Len(log) : log[k].index = c.index + k
  <2>1. CASE LastLogIndex(s) > c.index
    <3>1. c.index \in base..End(s)
      BY <1>2, <1>4, <2>1
    <3>2. log = KeptAfter(s, c.index)
      BY <2>1 DEF LogAfter
    <3> DEFINE kept == KeptAfter(s, c.index)
    <3>3. /\ kept \in Seq(Entries) /\ c.index + Len(kept) = End(s)
          /\ \A k \in 1..Len(kept) : kept[k].index = c.index + k
      BY <1>2, <3>1, KeptInPlace DEF LogInv, TypeOK
    <3> HIDE DEF kept, log
    <3>4. log = kept
      BY <3>2 DEF kept
    <3> QED
      BY <1>2, <3>3, <3>4
  <2>2. CASE ~(LastLogIndex(s) > c.index)
    <3>1. log = <<>>
      BY <2>2 DEF LogAfter
    <3>2. <<>> \in Seq(Entries) /\ Len(<<>>) = 0
      OBVIOUS
    <3> HIDE DEF log
    <3> QED
      BY <1>2, <2>2, <3>1, <3>2
  <2> QED
    BY <2>1, <2>2
<1>6. /\ commit \in Nat /\ applied \in Nat /\ c.index <= applied
      /\ applied <= commit /\ commit <= c.index + Len(log) /\ c.index # 0
  BY <1>2, <1>3, <1>4, <1>5
<1>7. /\ m_logs' = [m_logs EXCEPT ![s] = log]
      /\ m_lastSnapshotIncludeIndex' =
            [m_lastSnapshotIncludeIndex EXCEPT ![s] = c.index]
      /\ m_lastSnapshotIncludeTerm' =
            [m_lastSnapshotIncludeTerm EXCEPT ![s] = c.snapTerm]
      /\ m_commitIndex' = [m_commitIndex EXCEPT ![s] = commit]
      /\ m_lastApplied' = [m_lastApplied EXCEPT ![s] = applied]
      /\ UNCHANGED <<leaderVars, votedNum, appendNums, exited, history>>
      /\ Follow(s, c.term) /\ persist(s)
      /\ AnswerSnapshot(c, c.term)
  <2>1. m_commitIndex \in [Server -> Nat] /\ m_lastApplied \in [Server -> Nat]
    BY DEF LogInv, TypeOK, IndexTypes
  <2> QED
    BY <1>2, <2>1 DEF SnapshotInstalled, CommitTo
<1>8. LogTypes' /\ IndexTypes' /\ LogsContiguous' /\ PositionsInOrder' /\ EndsGrow
  <2> HIDE DEF log, commit, applied
  <2> QED
    BY <1>2, <1>5, <1>6, <1>7, LogReplaced
<1>9. TermTypes' /\ NoNewLeader
  BY <1>2, <1>7, FollowKeeps DEF LogInv, TypeOK
<1>10. DiskTypes'
  BY <1>2, <1>7, <1>8, <1>9, PersistKeeps DEF LogInv, TypeOK
<1>11. CountTypes' /\ ExitTypes' /\ HistoryTypes' /\ VoteTypes' /\ AppendTypes'
  BY <1>7 DEF LogInv, TypeOK, CountTypes, ExitTypes, HistoryTypes, VoteTypes,
     AppendTypes, voteNet, appendNet, history
<1>12. SnapTypes' /\ SnapshotsInLog'
  BY <1>2, <1>7, <1>8, AnswerSnapshotInLog
<1>13. PeersInLog' /\ CallsInLog' /\ RepliesInLog'
  BY <1>7, <1>8, <1>9, PeersUntouched, CallsUntouched, RepliesUntouched
     DEF appendNet
<1> QED
  BY <1>8, <1>9, <1>10, <1>11, <1>12, <1>13 DEF LogInv, TypeOK

\* A quiet step that answers a snapshot request.
LEMMA QuietAnswer ==
    ASSUME LogInv, Quiet, NEW c \in snapCalls, NEW t \in Nat,
           AnswerSnapshot(c, t), UNCHANGED <<voteNet, appendNet, snapThreads>>
    PROVE  LogInv'
<1>1. LogTypes' /\ LogsContiguous' /\ EndsGrow
  BY LogUntouched DEF Quiet
<1>2. SnapTypes' /\ SnapshotsInLog'
  BY <1>1, AnswerSnapshotInLog
<1>3. VoteTypes' /\ AppendTypes' /\ IndexTypes'
  BY DEF LogInv, TypeOK, VoteTypes, AppendTypes, IndexTypes, voteNet, appendNet,
         Quiet, applyVars, leaderVars
<1>4. PositionsInOrder' /\ PeersInLog' /\ CallsInLog' /\ RepliesInLog'
  BY <1>1, PositionsUntouched, PeersUntouched, CallsUntouched, RepliesUntouched
     DEF Quiet, appendNet
<1> QED
  BY <1>1, <1>2, <1>3, <1>4 DEF LogInv, TypeOK, Quiet

\* InstallSnapshot preserves the invariant.
LEMMA InstallSnapshotLogInv ==
    ASSUME LogInv, NEW c \in snapCalls,
           InstallSnapshot(c) \/ SnapshotPeerClosed(c)
    PROVE  LogInv'
<1> DEFINE s == c.to
<1>1. s \in Server /\ c.term \in Nat /\ m_currentTerm[s] \in Nat
  BY DEF LogInv, TypeOK, SnapTypes, SnapCallType, TermTypes
<1>2. UNCHANGED <<voteNet, appendNet, snapThreads>>
  BY DEF InstallSnapshot, SnapshotPeerClosed
<1>3. CASE SnapshotExpired(s, c) \/ SnapshotPeerClosed(c)
  <2>1. Quiet
    BY <1>3, IgnoreIsQuiet DEF SnapshotExpired, SnapshotPeerClosed
  <2>2. PICK t \in Nat : AnswerSnapshot(c, t)
    BY <1>1, <1>3 DEF SnapshotExpired, SnapshotPeerClosed
  <2> QED
    BY <1>2, <2>1, <2>2, QuietAnswer
<1>4. CASE SnapshotOutdated(s, c)
  <2>1. /\ Follow(s, c.term)
        /\ AnswerSnapshot(c, 0)
        /\ UNCHANGED <<logVars, applyVars, leaderVars, votedNum, appendNums,
                       exited, history>>
        /\ persist(s) \/ UNCHANGED disk
    BY <1>4 DEF SnapshotOutdated
  <2>2. TermTypes' /\ NoNewLeader
    BY <1>1, <2>1, FollowKeeps DEF LogInv, TypeOK
  <2>3. LogTypes'
    BY <2>1, LogUntouched
  <2>4. DiskTypes'
    <3>1. CASE persist(s)
      BY <1>1, <2>2, <2>3, <3>1, PersistKeeps DEF LogInv, TypeOK
    <3>2. CASE UNCHANGED disk
      BY <3>2 DEF LogInv, TypeOK, DiskTypes
    <3> QED
      BY <2>1, <3>1, <3>2
  <2>5. Quiet
    BY <2>1, <2>2, <2>4 DEF LogInv, TypeOK, Quiet, CountTypes, ExitTypes,
                            HistoryTypes, history
  <2> QED
    BY <1>2, <2>1, <2>5, QuietAnswer
<1>5. CASE SnapshotInstalled(s, c)
  BY <1>2, <1>5, SnapshotInstalledLogInv
<1> QED
  BY <1>3, <1>4, <1>5 DEF InstallSnapshot

\* SnapshotAnswered preserves the invariant.
LEMMA SnapshotAnsweredLogInv ==
    ASSUME LogInv, NEW r \in snapReplies, SnapshotAnswered(r)
    PROVE  LogInv'
<1> DEFINE s == r.from
<1>1. /\ s \in Server /\ r.to \in Server /\ r.index \in Nat /\ r.term \in Nat
  BY DEF LogInv, TypeOK, SnapTypes, SnapReplyType
<1>2. /\ snapReplies' \subseteq snapReplies
      /\ UNCHANGED <<snapThreads, snapCalls, voteNet, appendNet>>
  BY DEF SnapshotAnswered
<1>3. VoteTypes' /\ AppendTypes' /\ SnapTypes'
  BY <1>2 DEF LogInv, TypeOK, VoteTypes, AppendTypes, SnapTypes, voteNet, appendNet
<1>4. CASE StepDown(s, r.term) \/ Ignore
  <2>1. Quiet
    BY <1>1, <1>4, StepDownIsQuiet, IgnoreIsQuiet
  <2> QED
    BY <1>2, <1>3, <2>1, QuietStep DEF appendNet
<1>5. CASE /\ m_matchIndex' = [m_matchIndex EXCEPT ![s][r.to] = r.index]
           /\ m_nextIndex' = [m_nextIndex EXCEPT ![s][r.to] = r.index + 1]
           /\ UNCHANGED <<termVars, logVars, applyVars, votedNum, appendNums,
                          disk, exited, history>>
  <2>1. /\ LogTypes' /\ LogsContiguous' /\ EndsGrow
        /\ \A p \in Server : End(p)' = End(p) /\ End(p) \in Nat
    BY <1>5, LogUntouched, EndIsNat DEF LogInv, TypeOK
  <2>2. r.index <= End(s)
    BY DEF LogInv, SnapshotsInLog
  <2>3. /\ m_nextIndex \in [Server -> [Server -> Nat]]
        /\ m_matchIndex \in [Server -> [Server -> Nat]]
    BY DEF LogInv, TypeOK, IndexTypes
  <2>4. PeersInLog'
    <3> SUFFICES ASSUME NEW q \in Server, NEW p \in Server
                 PROVE  /\ m_nextIndex'[q][p] <= End(q) + 1
                        /\ m_matchIndex'[q][p] <= End(q)
                        /\ m_status[q] = "Leader" => m_nextIndex'[q][p] >= 1
      BY <1>5, <2>1 DEF PeersInLog, termVars
    <3>1. CASE q = s /\ p = r.to
      <4>1. m_matchIndex'[q][p] = r.index /\ m_nextIndex'[q][p] = r.index + 1
        BY <1>1, <1>5, <2>3, <3>1
      <4> QED
        BY <1>1, <2>1, <2>2, <3>1, <4>1
    <3>2. CASE ~(q = s /\ p = r.to)
      <4>1. /\ m_nextIndex'[q][p] = m_nextIndex[q][p]
            /\ m_matchIndex'[q][p] = m_matchIndex[q][p]
        BY <1>1, <1>5, <2>3, <3>2
      <4> QED
        BY <4>1 DEF LogInv, PeersInLog
    <3> QED
      BY <3>1, <3>2
  <2>5. IndexTypes'
    BY <1>1, <1>5, <2>3 DEF LogInv, TypeOK, IndexTypes, applyVars
  <2>6. TermTypes' /\ CountTypes' /\ DiskTypes' /\ ExitTypes' /\ HistoryTypes'
    BY <1>5 DEF LogInv, TypeOK, TermTypes, CountTypes, DiskTypes, ExitTypes,
                HistoryTypes, termVars, history
  <2>7. PositionsInOrder' /\ CallsInLog' /\ RepliesInLog' /\ SnapshotsInLog'
    BY <1>2, <1>5, <2>1, PositionsUntouched, CallsUntouched, RepliesUntouched,
       SnapshotsUntouched DEF appendNet
  <2> QED
    BY <1>3, <2>1, <2>4, <2>5, <2>6, <2>7 DEF LogInv, TypeOK
<1> QED
  BY <1>4, <1>5 DEF SnapshotAnswered

\* Start preserves the invariant.
LEMMA StartLogInv ==
    ASSUME LogInv, NEW s \in Server, NEW cmd \in Cmds, Start(s, cmd)
    PROVE  LogInv' /\ EndsGrow
<1> DEFINE entry == [index |-> LastLogIndex(s) + 1, term |-> m_currentTerm[s],
                     cmd |-> cmd]
           log   == Append(m_logs[s], entry)
           base  == m_lastSnapshotIncludeIndex[s]
<1>1. /\ m_logs[s] \in Seq(Entries) /\ base \in Nat
      /\ LastLogIndex(s) = base + Len(m_logs[s])
      /\ m_logs \in [Server -> Seq(Entries)]
      /\ m_lastSnapshotIncludeIndex \in [Server -> Nat]
      /\ \A k \in 1..Len(m_logs[s]) : m_logs[s][k].index = base + k
  BY LastIsEnd DEF LogInv, TypeOK, LogTypes, End, LogsContiguous
<1>2. entry \in Entries /\ entry.index = base + Len(m_logs[s]) + 1
  BY <1>1 DEF Entries, LogInv, TypeOK, TermTypes
<1>3. /\ m_logs' = [m_logs EXCEPT ![s] = log]
      /\ UNCHANGED <<termVars, m_lastSnapshotIncludeIndex,
                     m_lastSnapshotIncludeTerm, applyVars, leaderVars, votedNum,
                     appendNums, exited, voteNet, appendNet, snapNet, history>>
      /\ persist(s)
  BY DEF Start, NewEntry
<1> HIDE DEF entry
<1>4. /\ log \in Seq(Entries) /\ Len(log) = Len(m_logs[s]) + 1
      /\ \A k \in 1..Len(log) : log[k].index = base + k
  <2>1. /\ log \in Seq(Entries) /\ Len(log) = Len(m_logs[s]) + 1
        /\ log[Len(m_logs[s]) + 1] = entry
        /\ \A k \in 1..Len(m_logs[s]) : log[k] = m_logs[s][k]
    BY <1>1, <1>2
  <2> DEFINE n == Len(m_logs[s])
  <2>2. n \in Nat /\ base + n + 1 = base + (n + 1)
    BY <1>1
  <2> HIDE DEF log, base, n
  <2>3. ASSUME NEW k \in 1..Len(log)
        PROVE  log[k].index = base + k
    <3>1. CASE k = n + 1
      BY <1>2, <2>1, <2>2, <3>1 DEF n
    <3>2. CASE k \in 1..n
      BY <1>1, <2>1, <3>2 DEF n
    <3>3. k = n + 1 \/ k \in 1..n
      BY <2>1, <2>2 DEF n
    <3> QED
      BY <3>1, <3>2, <3>3
  <2> QED
    BY <2>1, <2>3
<1> HIDE DEF log
<1>5. LogTypes' /\ LogsContiguous'
  BY <1>1, <1>3, <1>4 DEF LogInv, TypeOK, LogTypes, LogsContiguous
<1>6. /\ \A p \in Server : End(p)' \in Nat /\ End(p) \in Nat /\ End(p)' >= End(p)
      /\ EndsGrow
  <2>1. \A p \in Server : End(p) \in Nat /\ End(p)' \in Nat
    BY <1>5, EndIsNat DEF LogInv, TypeOK, LogTypes, End
  <2>2. \A p \in Server : m_logs'[p] = IF p = s THEN log ELSE m_logs[p]
    BY <1>1, <1>3
  <2>3. \A p \in Server : End(p)' >= End(p)
    <3> SUFFICES ASSUME NEW p \in Server PROVE End(p)' >= End(p)
      OBVIOUS
    <3>1. CASE p = s
      BY <1>1, <1>3, <1>4, <2>2, <3>1 DEF End
    <3>2. CASE p # s
      <4>1. End(p)' = End(p)
        BY <1>3, <2>2, <3>2 DEF End
      <4> QED
        BY <2>1, <4>1
    <3> QED
      BY <3>1, <3>2
  <2> QED
    BY <2>1, <2>3 DEF EndsGrow
<1>7. /\ TermTypes' /\ IndexTypes' /\ CountTypes' /\ ExitTypes' /\ HistoryTypes'
      /\ VoteTypes' /\ AppendTypes' /\ SnapTypes' /\ NoNewLeader
  BY <1>3 DEF LogInv, TypeOK, TermTypes, IndexTypes, CountTypes, ExitTypes,
     HistoryTypes, VoteTypes, AppendTypes, SnapTypes, NoNewLeader, termVars,
     applyVars, leaderVars, voteNet, appendNet, snapNet, history
<1>8. DiskTypes'
  BY <1>3, <1>5, <1>7, PersistKeeps DEF LogInv, TypeOK
<1>9. PositionsInOrder'
  <2> SUFFICES ASSUME NEW p \in Server PROVE m_commitIndex[p] <= End(p)'
    BY <1>3 DEF LogInv, PositionsInOrder, applyVars
  <2>1. m_commitIndex[p] \in Nat /\ m_commitIndex[p] <= End(p)
    BY DEF LogInv, TypeOK, IndexTypes, PositionsInOrder
  <2> QED
    BY <1>6, <2>1
<1>10. PeersInLog' /\ CallsInLog' /\ RepliesInLog' /\ SnapshotsInLog'
  BY <1>3, <1>6, <1>7, PeersUntouched, CallsUntouched, RepliesUntouched,
     SnapshotsUntouched DEF appendNet, snapNet
<1> QED
  BY <1>5, <1>6, <1>7, <1>8, <1>9, <1>10 DEF LogInv, TypeOK

\* getApplyLogs preserves the invariant.
LEMMA getApplyLogsLogInv ==
    ASSUME LogInv, NEW s \in Server, getApplyLogs(s)
    PROVE  LogInv'
<1>1. /\ m_lastApplied' = [m_lastApplied EXCEPT ![s] = m_commitIndex[s]]
      /\ UNCHANGED <<termVars, logVars, m_commitIndex, leaderVars, votedNum,
                     appendNums, disk, exited, voteNet, appendNet, snapNet,
                     history>>
  BY DEF getApplyLogs
<1>2. LogTypes' /\ LogsContiguous' /\ EndsGrow /\ \A p \in Server : End(p)' = End(p)
  BY <1>1, LogUntouched
<1>3. IndexTypes'
  BY <1>1 DEF LogInv, TypeOK, IndexTypes, leaderVars
<1>4. PositionsInOrder'
  <2>1. /\ \A p \in Server : m_lastSnapshotIncludeIndex[p] \in Nat
        /\ m_lastApplied \in [Server -> Nat] /\ m_commitIndex \in [Server -> Nat]
    BY DEF LogInv, TypeOK, LogTypes, IndexTypes
  <2> SUFFICES ASSUME NEW p \in Server
               PROVE  /\ m_lastSnapshotIncludeIndex[p] <= m_lastApplied'[p]
                      /\ m_lastApplied'[p] <= m_commitIndex[p]
    BY <1>1, <1>2 DEF LogInv, PositionsInOrder, logVars
  <2>2. /\ m_lastSnapshotIncludeIndex[p] <= m_lastApplied[p]
        /\ m_lastApplied[p] <= m_commitIndex[p]
    BY DEF LogInv, PositionsInOrder
  <2>3. m_lastApplied'[p] \in {m_lastApplied[p], m_commitIndex[p]}
    BY <1>1, <2>1
  <2> QED
    BY <2>1, <2>2, <2>3
<1>5. /\ TermTypes' /\ CountTypes' /\ DiskTypes' /\ ExitTypes' /\ HistoryTypes'
      /\ VoteTypes' /\ AppendTypes' /\ SnapTypes' /\ NoNewLeader
  BY <1>1 DEF LogInv, TypeOK, TermTypes, CountTypes, DiskTypes, ExitTypes,
     HistoryTypes, VoteTypes, AppendTypes, SnapTypes, NoNewLeader, termVars,
     voteNet, appendNet, snapNet, history
<1>6. PeersInLog' /\ CallsInLog' /\ RepliesInLog' /\ SnapshotsInLog'
  BY <1>1, <1>2, <1>5, PeersUntouched, CallsUntouched, RepliesUntouched,
     SnapshotsUntouched DEF appendNet, snapNet
<1> QED
  BY <1>2, <1>3, <1>4, <1>5, <1>6 DEF LogInv, TypeOK

\* Crash preserves the invariant.
LEMMA CrashLogInv ==
    ASSUME LogInv, NEW s \in Server, Crash(s)
    PROVE  LogInv'
<1>1. Quiet
  BY ExitIsQuiet DEF Crash, Exits
<1>2. VoteTypes' /\ UNCHANGED <<appendNet, snapNet>>
  BY DEF Crash, LogInv, TypeOK, VoteTypes, voteNet
<1> QED
  BY <1>1, <1>2, QuietStep DEF appendNet, snapNet

\* A step that changes nothing preserves the invariant.
LEMMA StutterLogInv ==
    ASSUME LogInv, UNCHANGED vars
    PROVE  LogInv'
<1>1. Ignore /\ UNCHANGED <<voteNet, appendNet, snapNet>>
  BY DEF vars, Ignore
<1>2. VoteTypes'
  BY <1>1 DEF LogInv, TypeOK, VoteTypes, voteNet
<1> QED
  BY <1>1, <1>2, IgnoreIsQuiet, QuietStep DEF appendNet, snapNet

\* Every handler and every caller's half preserves the invariant.
LEMMA NextLogInv == LogInv /\ [Next]_vars => LogInv'
<1> SUFFICES ASSUME LogInv, [Next]_vars PROVE LogInv'
  OBVIOUS
<1>1. CASE \E s \in Server : doElection(s)
  BY <1>1, doElectionLogInv
<1>2. CASE \E c \in voteCalls : RequestVote(c)
  BY <1>2, RequestVoteLogInv
<1>3. CASE \E r \in voteReplies : sendRequestVote(r)
  BY <1>3, sendRequestVoteLogInv
<1>4. CASE \E s \in Server, k \in Rounds : doHeartBeat(s, k)
  BY <1>4, doHeartBeatLogInv
<1>5. CASE \E c \in appendCalls : AppendEntries1(c)
  BY <1>5, AppendEntries1LogInv
<1>6. CASE \E r \in appendReplies : sendAppendEntries(r)
  BY <1>6, sendAppendEntriesLogInv
<1>7. CASE \E s \in Server : \E i \in 1..m_lastApplied[s] : Snapshot(s, i)
  BY <1>7, SnapshotLogInv
<1>8. CASE \E t \in snapThreads : leaderSendSnapShot(t)
  BY <1>8, leaderSendSnapShotLogInv
<1>9. CASE \E c \in snapCalls : InstallSnapshot(c) \/ SnapshotPeerClosed(c)
  BY <1>9, InstallSnapshotLogInv
<1>10. CASE \E r \in snapReplies : SnapshotAnswered(r)
  BY <1>10, SnapshotAnsweredLogInv
<1>11. CASE \E s \in Server, cmd \in Cmds : Start(s, cmd)
  BY <1>11, StartLogInv
<1>12. CASE \E s \in Server : getApplyLogs(s) \/ Crash(s)
  BY <1>12, getApplyLogsLogInv, CrashLogInv
<1>13. CASE UNCHANGED vars
  BY <1>13, StutterLogInv
<1> QED
  BY <1>1, <1>2, <1>3, <1>4, <1>5, <1>6, <1>7, <1>8, <1>9, <1>10, <1>11, <1>12,
     <1>13 DEF Next

-----------------------------------------------------------------------------
(* The theorems *)

\* The inductive invariant holds in every state of raft.cpp's handlers.
THEOREM LogInvariant == Spec => []LogInv
<1>1. Init => LogInv
  BY InitLogInv
<1>2. LogInv /\ [Next]_vars => LogInv'
  BY NextLogInv
<1> QED
  BY <1>1, <1>2, PTL DEF Spec

\* Every member of raft.h and every message keeps its type; in particular no
\* nextIndex and no index of a request is ever negative.
THEOREM TypeCorrect == Spec => []TypeOK
<1>1. LogInv => TypeOK
  BY DEF LogInv
<1> QED
  BY <1>1, LogInvariant, PTL

\* The position of an entry in m_logs is always its index minus the snapshot's
\* (getSlicesIndexFromLogIndex), whatever was appended, overwritten, compacted
\* or installed, and in whatever order requests arrived.
THEOREM LogsStayContiguous == Spec => []LogsContiguous
<1>1. LogInv => LogsContiguous
  BY DEF LogInv
<1> QED
  BY <1>1, LogInvariant, PTL

\* Compacted, applied, committed and stored stay in this order, so the
\* assertions on m_commitIndex in AppendEntries1, getApplyLogs and
\* sendAppendEntries hold.
THEOREM IndexesInOrder == Spec => []IndexOrder
<1>1. LogInv => IndexOrder
  BY LastIsEnd DEF LogInv, TypeOK, PositionsInOrder, IndexOrder
<1> QED
  BY <1>1, LogInvariant, PTL

\* A leader's nextIndex always points into its log or just behind it, so
\* doHeartBeat and sendAppendEntries never fail an assertion on it and never
\* read the log outside its bounds.
THEOREM LeaderCanAlwaysSend == Spec => []LeaderCanSend
<1>1. LogInv => LeaderCanSend
  <2> SUFFICES ASSUME LogInv, NEW s \in Server, NEW p \in Server,
                      m_status[s] = "Leader"
               PROVE  /\ m_nextIndex[s][p] \in 1..(LastLogIndex(s) + 1)
                      /\ m_matchIndex[s][p] <= LastLogIndex(s)
    BY DEF LeaderCanSend
  <2>1. LastLogIndex(s) = End(s) /\ End(s) \in Nat
    BY LastIsEnd DEF LogInv, TypeOK
  <2>2. m_nextIndex[s][p] \in Nat
    BY DEF LogInv, TypeOK, IndexTypes
  <2> QED
    BY <2>1, <2>2 DEF LogInv, PeersInLog
<1> QED
  BY <1>1, LogInvariant, PTL
=============================================================================
