--------------------------- MODULE RaftMatchProofs --------------------------
(***************************************************************************)
(* Replication in Raft.tla, for any set of servers: what a leader believes *)
(* a peer has, the peer has, and what a leader commits of its term, a      *)
(* majority has accepted.                                                  *)
(*                                                                         *)
(* The argument: a term has one winner, so as long as a server is in a     *)
(* term, only requests of that term's winner write to its log, and none    *)
(* writes to the winner's own.  A request of the term is a part of the     *)
(* winner's log and stays one.  What a peer once accepted it therefore     *)
(* keeps: a late request writes only what is there already, and nothing is *)
(* cut.  The requests of one round end at the same index, so the answers   *)
(* that a round counts are all of them for the index that is committed.    *)
(*                                                                         *)
(* Of two or three servers one peer and the leader are a majority, so the  *)
(* first success of a round commits what the round brought, unless that    *)
(* does not end with an entry of the leader's term; then it has none. What *)
(* a peer is known to have is therefore committed as far as it is of the   *)
(* leader's term. From four servers on this is false: two rounds can share *)
(* the answers, and neither counts enough of them.                         *)
(***************************************************************************)
EXTENDS RaftStepProofs

-----------------------------------------------------------------------------
(* The inductive invariant *)

\* p reaches index i, and where s and p still have the entry, p has the term
\* that s has there.
Agree(s, p, i) ==
    /\ i <= End(p)
    /\ /\ m_lastSnapshotIncludeIndex[s] < i /\ i <= End(s)
       /\ m_lastSnapshotIncludeIndex[p] < i
       => EntryAt(p, i).term = EntryAt(s, i).term

\* What p once accepted from the winner s of term t, up to i, it has as long as
\* neither of them has moved on.
Accepted(s, p, t, i) ==
    /\ t <= m_currentTerm[p]
    /\ t = m_currentTerm[p] /\ t = m_currentTerm[s] => Agree(s, p, i)

\* The request is a part of its sender's log.
OfItsLog(c) ==
    /\ \A k \in 1..Len(c.entries) :
          m_lastSnapshotIncludeIndex[c.from] < c.prevLogIndex + k
          => EntryAt(c.from, c.prevLogIndex + k).term = c.entries[k].term
    /\ m_lastSnapshotIncludeIndex[c.from] < c.prevLogIndex
       => EntryAt(c.from, c.prevLogIndex).term = c.prevLogTerm

CallsTruthful ==
    \A c \in appendCalls :
        /\ c.from # c.to
        /\ Win(c.term, c.from) \in leaders
        /\ c.term = m_currentTerm[c.from] => OfItsLog(c)

\* The last entry of the request was the sender's at that index.
EndsInItsLog(r) ==
    r.lastTerm # 0 /\ m_lastSnapshotIncludeIndex[r.from] < r.upTo
    => EntryAt(r.from, r.upTo).term = r.lastTerm

RepliesTruthful ==
    \A r \in appendReplies :
        /\ r.from # r.to
        /\ r.success =>
             /\ Win(r.term, r.from) \in leaders
             /\ Accepted(r.from, r.to, r.term, r.upTo)
             /\ r.term = m_currentTerm[r.from] => EndsInItsLog(r)

\* A request with a snapshot is of no later term than its sender's, and an
\* answer without a larger term comes from a peer that has the snapshot, or
\* from one that has ended.
SnapshotsTruthful ==
    /\ \A c \in snapCalls :
          /\ c.term <= m_currentTerm[c.from]
          /\ c.index <= m_lastSnapshotIncludeIndex[c.from]
    /\ \A r \in snapReplies :
          /\ r.callTerm <= m_currentTerm[r.from]
          /\ r.index <= m_lastSnapshotIncludeIndex[r.from]
          /\ Alive(r.to) /\ r.term <= r.callTerm
             => r.callTerm <= m_currentTerm[r.to] /\ r.index <= End(r.to)

PeersTruthful ==
    \A s, p \in Server :
        /\ m_status[s] = "Leader" /\ p # s /\ Alive(p)
        /\ m_matchIndex[s][p] # 0
        => Accepted(s, p, m_currentTerm[s], m_matchIndex[s][p])

MatchInv ==
    CallsTruthful /\ RepliesTruthful /\ SnapshotsTruthful /\ PeersTruthful

-----------------------------------------------------------------------------
(* What a step does to a log *)

\* Merging puts the terms of the request where the request has entries, and
\* leaves the rest of the log (the loop of AppendEntries1).
LEMMA MergedTerms ==
    ASSUME NEW old \in Seq(Entries), NEW es \in Seq(Entries),
           NEW at \in 0..Len(old), NEW j \in Nat,
           j \in 1..Len(old) \/ j \in (at + 1)..(at + Len(es))
    PROVE  /\ j \in (at + 1)..(at + Len(es))
              => Merged(old, at, es)[j].term = es[j - at].term
           /\ j \notin (at + 1)..(at + Len(es)) => Merged(old, at, es)[j] = old[j]
<1> DEFINE n == IF at + Len(es) > Len(old) THEN at + Len(es) ELSE Len(old)
           writes == /\ j \in (at + 1)..(at + Len(es))
                     /\ j > Len(old) \/ old[j].term # es[j - at].term
<1>1. j \in 1..n
  OBVIOUS
<1>2. Merged(old, at, es)[j] = IF writes THEN es[j - at] ELSE old[j]
  BY <1>1 DEF Merged
<1> QED
  BY <1>2

\* Compaction moves the entries it keeps to the front (Snapshot, LogAfter).
LEMMA KeptEntryAt ==
    ASSUME LogInv, NEW s \in Server,
           NEW k \in m_lastSnapshotIncludeIndex[s]..End(s),
           NEW i \in Nat, k < i, i <= End(s)
    PROVE  KeptAfter(s, k)[i - k] = EntryAt(s, i)
<1> DEFINE log  == m_logs[s]
           base == m_lastSnapshotIncludeIndex[s]
           m    == k - base + 1
<1>1. /\ log \in Seq(Entries) /\ base \in Nat
      /\ k \in base..(base + Len(log)) /\ i <= base + Len(log)
  BY DEF LogInv, TypeOK, LogTypes, End
<1>2. KeptAfter(s, k) = SubSeq(log, m, Len(log)) /\ EntryAt(s, i) = log[i - base]
  BY DEF KeptAfter, SliceIndex, EntryAt
<1> HIDE DEF log, base
<1>3. m \in 1..(Len(log) + 1) /\ i - k \in 1..(Len(log) - m + 1) /\ m + (i - k) - 1 = i - base
  BY <1>1
<1> HIDE DEF m
<1>4. SubSeq(log, m, Len(log))[i - k] = log[m + (i - k) - 1]
  BY <1>1, <1>3, TailOfSeq
<1> QED
  BY <1>2, <1>3, <1>4

\* The ways a step may treat the log of p.
LogChange(p) ==
    \/ SameLog(p)
    \/ \E cmd \in Cmds : Start(p, cmd)
    \/ \E k \in 1..m_lastApplied[p] : Snapshot(p, k)
    \/ \E c \in snapCalls : c.to = p /\ SnapshotInstalled(p, c)
    \/ \E c \in appendCalls : /\ c.to = p /\ c.term >= m_currentTerm[p]
                              /\ AppendMatch(p, c)

\* A step that touches no log.
LEMMA NoLogChange ==
    ASSUME UNCHANGED logVars, NEW p \in Server
    PROVE  LogChange(p)
BY DEF LogChange, SameLog, logVars

\* No other step touches a log.
LEMMA NextLogChange ==
    ASSUME LogInv, [Next]_vars, NEW p \in Server
    PROVE  LogChange(p)
<1>1. CASE \/ \E q \in Server, cmd \in Cmds : Start(q, cmd)
           \/ \E q \in Server : \E i \in 1..m_lastApplied[q] : Snapshot(q, i)
  <2>1. /\ m_logs \in [Server -> Seq(Entries)]
        /\ m_lastSnapshotIncludeIndex \in [Server -> Nat]
        /\ m_lastSnapshotIncludeTerm \in [Server -> Nat]
    BY DEF LogInv, TypeOK, LogTypes
  <2>2. ASSUME NEW q \in Server, NEW cmd \in Cmds, Start(q, cmd)
        PROVE  LogChange(p)
    <3>1. CASE q = p
      BY <2>2, <3>1 DEF LogChange
    <3>2. CASE q # p
      BY <2>1, <2>2, <3>2 DEF Start, LogChange, SameLog
    <3> QED
      BY <3>1, <3>2
  <2>3. ASSUME NEW q \in Server, NEW i \in 1..m_lastApplied[q], Snapshot(q, i)
        PROVE  LogChange(p)
    <3>1. CASE q = p
      BY <2>3, <3>1 DEF LogChange
    <3>2. CASE q # p
      BY <2>1, <2>3, <3>2 DEF Snapshot, LogChange, SameLog
    <3> QED
      BY <3>1, <3>2
  <2> QED
    BY <1>1, <2>2, <2>3
<1>2. ASSUME NEW c \in appendCalls, AppendEntries1(c)
      PROVE  LogChange(p)
  <2>1. CASE UNCHANGED logVars
    BY <2>1, NoLogChange
  <2>2. CASE AppendMatch(c.to, c) /\ c.term >= m_currentTerm[c.to]
    BY <2>2 DEF AppendMatch, LogChange, SameLog, LogInv, TypeOK, LogTypes
  <2> QED
    BY <1>2, <2>1, <2>2 DEF AppendEntries1, AppendExpired, AppendTooShort, AppendMismatch,
                            AppendBehindSnapshot, Ignore, Exit
<1>3. ASSUME NEW c \in snapCalls, InstallSnapshot(c)
      PROVE  LogChange(p)
  <2>1. CASE UNCHANGED logVars
    BY <2>1, NoLogChange
  <2>2. CASE SnapshotInstalled(c.to, c)
    BY <2>2 DEF SnapshotInstalled, LogChange, SameLog, LogInv, TypeOK, LogTypes
  <2> QED
    BY <1>3, <2>1, <2>2 DEF InstallSnapshot, SnapshotExpired, SnapshotOutdated, Ignore
<1>4. CASE \/ \E q \in Server : \/ doElection(q) \/ getApplyLogs(q) \/ Crash(q)
                                \/ \E k \in Rounds : doHeartBeat(q, k)
           \/ \E c \in voteCalls : RequestVote(c)
           \/ \E t \in snapThreads : leaderSendSnapShot(t)
           \/ \E c \in snapCalls : SnapshotPeerClosed(c)
  BY <1>4, NoLogChange DEF doElection, getApplyLogs, Crash, Exit, doHeartBeat, RequestVote,
                           leaderSendSnapShot, SnapshotPeerClosed, Ignore
<1>5. CASE \/ \E r \in voteReplies : sendRequestVote(r)
           \/ \E r \in appendReplies : sendAppendEntries(r)
           \/ \E r \in snapReplies : SnapshotAnswered(r)
  BY <1>5, NoLogChange DEF sendRequestVote, sendAppendEntries, SnapshotAnswered, StepDown,
                           CountVote, BecomeLeader, Ignore
<1>6. CASE UNCHANGED vars
  BY <1>6, NoLogChange DEF vars
<1> QED
  BY <1>1, <1>2, <1>3, <1>4, <1>5, <1>6 DEF Next
-----------------------------------------------------------------------------
(* What stays under an index *)

\* No snapshot position goes back.
SnapshotsAdvance ==
    \A p \in Server :
        m_lastSnapshotIncludeIndex'[p] >= m_lastSnapshotIncludeIndex[p]

\* Compaction and installation move it forward, the rest leaves it.
LEMMA NextSnapshotsAdvance ==
    ASSUME LogInv, [Next]_vars
    PROVE  SnapshotsAdvance
<1> SUFFICES ASSUME NEW p \in Server
             PROVE  m_lastSnapshotIncludeIndex'[p] >= m_lastSnapshotIncludeIndex[p]
  BY DEF SnapshotsAdvance
<1>1. m_lastSnapshotIncludeIndex[p] \in Nat /\ LogTypes /\ IndexTypes
  BY DEF LogInv, TypeOK, LogTypes
<1>2. CASE SameLog(p) \/ \E cmd \in Cmds : Start(p, cmd)
  BY <1>1, <1>2 DEF SameLog, Start
<1>3. ASSUME NEW k \in 1..m_lastApplied[p], Snapshot(p, k)
      PROVE  m_lastSnapshotIncludeIndex'[p] >= m_lastSnapshotIncludeIndex[p]
  BY <1>1, <1>3 DEF Snapshot, LogTypes, IndexTypes
<1>4. ASSUME NEW c \in snapCalls, SnapshotInstalled(p, c)
      PROVE  m_lastSnapshotIncludeIndex'[p] >= m_lastSnapshotIncludeIndex[p]
  <2>1. c.index \in Nat
    BY DEF LogInv, TypeOK, SnapTypes, SnapCallType
  <2> QED
    BY <1>1, <1>4, <2>1 DEF SnapshotInstalled, LogTypes
<1>5. CASE \E c \in appendCalls : AppendMatch(p, c)
  BY <1>1, <1>5 DEF AppendMatch
<1> QED
  BY <1>2, <1>3, <1>4, <1>5, NextLogChange DEF LogChange

\* The request c put an entry of its own under index i of p.
Overwrites(c, p, i) ==
    /\ c.to = p /\ c.term >= m_currentTerm[p] /\ c.term = m_currentTerm'[p]
    /\ c.prevLogIndex < i /\ i <= c.prevLogIndex + Len(c.entries)
    /\ EntryAt(p, i)'.term = c.entries[i - c.prevLogIndex].term

\* A request that matches writes its terms under the indexes it has entries
\* for, and keeps what else the log has.
LEMMA MatchKeepsTerms ==
    ASSUME LogInv, NEW p \in Server, NEW c \in appendCalls, c.to = p,
           AppendMatch(p, c), NEW i \in Nat, m_lastSnapshotIncludeIndex[p] < i,
           i <= End(p) \/ (c.prevLogIndex < i /\ i <= c.prevLogIndex + Len(c.entries))
    PROVE  /\ c.prevLogIndex < i /\ i <= c.prevLogIndex + Len(c.entries)
              => EntryAt(p, i)'.term = c.entries[i - c.prevLogIndex].term
           /\ ~(c.prevLogIndex < i /\ i <= c.prevLogIndex + Len(c.entries))
              => EntryAt(p, i)' = EntryAt(p, i)
<1> DEFINE old  == m_logs[p]
           base == m_lastSnapshotIncludeIndex[p]
           at   == c.prevLogIndex - base
           es   == c.entries
           j    == i - base
<1>1. /\ old \in Seq(Entries) /\ base \in Nat /\ es \in Seq(Entries)
      /\ c.prevLogIndex \in Nat
  BY DEF LogInv, TypeOK, LogTypes, AppendTypes, AppendCallType
<1>2. c.prevLogIndex \in base..(base + Len(old))
  BY <1>1, LastIsEnd DEF AppendMatch, LogInv, TypeOK, End
<1>3. /\ m_logs'[p] = Merged(old, at, es)
      /\ m_lastSnapshotIncludeIndex'[p] = base
  BY DEF AppendMatch, SliceIndex, LogInv, TypeOK, LogTypes
<1>4. EntryAt(p, i) = old[j] /\ EntryAt(p, i)' = Merged(old, at, es)[j]
  BY <1>3 DEF EntryAt, SliceIndex
<1>5. base < i /\ (i <= base + Len(old) \/ (c.prevLogIndex < i
                                            /\ i <= c.prevLogIndex + Len(es)))
  BY DEF End
<1>6. /\ at \in 0..Len(old) /\ j \in Nat
      /\ j \in 1..Len(old) \/ j \in (at + 1)..(at + Len(es))
      /\ j \in (at + 1)..(at + Len(es))
         <=> c.prevLogIndex < i /\ i <= c.prevLogIndex + Len(es)
      /\ j - at = i - c.prevLogIndex
  <2> HIDE DEF base, old, es
  <2>1. Len(old) \in Nat /\ Len(es) \in Nat
    BY <1>1
  <2>2. /\ base \in Nat /\ c.prevLogIndex \in Nat
        /\ base <= c.prevLogIndex /\ c.prevLogIndex <= base + Len(old)
    BY <1>1, <1>2, <2>1
  <2>3. at \in 0..Len(old) /\ j \in Nat /\ j - at = i - c.prevLogIndex
    BY <1>5, <2>1, <2>2
  <2>4. j \in (at + 1)..(at + Len(es))
          <=> c.prevLogIndex < i /\ i <= c.prevLogIndex + Len(es)
    BY <2>1, <2>2
  <2>5. j \in 1..Len(old) \/ j \in (at + 1)..(at + Len(es))
    BY <1>5, <2>1, <2>2, <2>4
  <2> QED
    BY <2>3, <2>4, <2>5
<1> HIDE DEF base, old, es, at, j
<1>7. /\ j \in (at + 1)..(at + Len(es)) => Merged(old, at, es)[j].term = es[j - at].term
      /\ j \notin (at + 1)..(at + Len(es)) => Merged(old, at, es)[j] = old[j]
  BY <1>1, <1>6, MergedTerms
<1> QED
  BY <1>4, <1>6, <1>7 DEF es

\* Under an index that a log keeps stays the same entry, or comes one of a
\* request of the term the server is in after the step.
LEMMA EntryStays ==
    ASSUME LogInv, [Next]_vars, NEW p \in Server, NEW i \in Nat,
           m_lastSnapshotIncludeIndex'[p] < i, i <= End(p)
    PROVE  EntryAt(p, i)'.term = EntryAt(p, i).term
           \/ \E c \in appendCalls : Overwrites(c, p, i)
<1>1. /\ LogTypes /\ IndexTypes /\ m_lastSnapshotIncludeIndex[p] \in Nat
      /\ m_lastSnapshotIncludeIndex'[p] \in Nat /\ End(p) \in Nat
      /\ m_lastSnapshotIncludeIndex[p] < i
  <2>1. LogTypes /\ IndexTypes /\ LogTypes'
    BY NextLogInv DEF LogInv, TypeOK
  <2>2. m_lastSnapshotIncludeIndex[p] \in Nat /\ m_lastSnapshotIncludeIndex'[p] \in Nat
    BY <2>1 DEF LogTypes
  <2> QED
    BY <2>1, <2>2, EndIsNat, NextSnapshotsAdvance DEF SnapshotsAdvance
<1>2. CASE SameLog(p)
  BY <1>2 DEF SameLog, EntryAt, SliceIndex
<1>3. CASE \E cmd \in Cmds : Start(p, cmd)
  BY <1>1, <1>3, StartKeepsEntries
<1>4. ASSUME NEW k \in 1..m_lastApplied[p], Snapshot(p, k)
      PROVE  EntryAt(p, i)' = EntryAt(p, i)
  <2>1. m_lastSnapshotIncludeIndex'[p] = k
    BY <1>1, <1>4 DEF Snapshot, LogTypes
  <2> QED
    BY <1>4, <2>1, SnapshotKeepsEntries
<1>5. ASSUME NEW c \in snapCalls, SnapshotInstalled(p, c)
      PROVE  EntryAt(p, i)' = EntryAt(p, i)
  <2>1. /\ m_lastSnapshotIncludeIndex'[p] = c.index /\ c.index \in Nat
        /\ m_logs'[p] = LogAfter(p, c.index) /\ c.index > m_lastSnapshotIncludeIndex[p]
    BY <1>1, <1>5 DEF SnapshotInstalled, LogTypes, LogInv, TypeOK, SnapTypes, SnapCallType
  <2>2. LastLogIndex(p) = End(p)
    BY LastIsEnd DEF LogInv, TypeOK
  <2>3. m_logs'[p] = KeptAfter(p, c.index)
    BY <1>1, <2>1, <2>2 DEF LogAfter
  <2>4. c.index \in m_lastSnapshotIncludeIndex[p]..End(p)
    BY <1>1, <2>1
  <2>5. KeptAfter(p, c.index)[i - c.index] = EntryAt(p, i)
    BY <2>1, <2>4, KeptEntryAt
  <2> QED
    BY <2>1, <2>3, <2>5 DEF EntryAt, SliceIndex
<1>6. ASSUME NEW c \in appendCalls, c.to = p, c.term >= m_currentTerm[p], AppendMatch(p, c)
      PROVE  EntryAt(p, i)'.term = EntryAt(p, i).term \/ Overwrites(c, p, i)
  <2>1. c.term = m_currentTerm'[p]
    BY <1>6 DEF AppendMatch, Follow, LogInv, TypeOK, TermTypes
  <2> QED
    BY <1>1, <1>6, <2>1, MatchKeepsTerms DEF Overwrites
<1> QED
  BY <1>2, <1>3, <1>4, <1>5, <1>6, NextLogChange DEF LogChange

-----------------------------------------------------------------------------
(* What a step leaves true *)

\* Nobody overwrites the log of a term's winner while it is in that term.
LEMMA WinnersEntryStays ==
    ASSUME LogInv, ElectionSafety, CallsTruthful, [Next]_vars,
           NEW s \in Server, NEW t \in Nat, Win(t, s) \in leaders, t = m_currentTerm'[s],
           NEW i \in Nat, m_lastSnapshotIncludeIndex'[s] < i, i <= End(s)
    PROVE  EntryAt(s, i)'.term = EntryAt(s, i).term
<1>1. ASSUME NEW c \in appendCalls, Overwrites(c, s, i)
      PROVE  FALSE
  <2>1. Win(t, c.from) \in leaders /\ c.from # s
    BY <1>1 DEF Overwrites, CallsTruthful
  <2> QED
    BY <2>1 DEF ElectionSafety, Win
<1> QED
  BY <1>1, EntryStays

\* Terms of a process are natural numbers and do not go back; its snapshot and
\* the end of its log do not either.
LEMMA ServerAdvances ==
    ASSUME LogInv, [Next]_vars, NEW p \in Server
    PROVE  /\ m_currentTerm[p] \in Nat /\ m_currentTerm'[p] \in Nat
           /\ m_currentTerm[p] <= m_currentTerm'[p]
           /\ m_lastSnapshotIncludeIndex[p] \in Nat /\ m_lastSnapshotIncludeIndex'[p] \in Nat
           /\ m_lastSnapshotIncludeIndex[p] <= m_lastSnapshotIncludeIndex'[p]
           /\ End(p) \in Nat /\ End(p)' \in Nat /\ End(p) <= End(p)'
           /\ m_lastSnapshotIncludeIndex[p] <= End(p)
<1>1. LogTypes /\ TermTypes /\ LogTypes' /\ TermTypes'
  BY NextLogInv DEF LogInv, TypeOK
<1>2. /\ m_currentTerm[p] \in Nat /\ m_currentTerm'[p] \in Nat
      /\ m_lastSnapshotIncludeIndex[p] \in Nat /\ m_lastSnapshotIncludeIndex'[p] \in Nat
      /\ m_logs[p] \in Seq(Entries)
  BY <1>1 DEF LogTypes, TermTypes
<1>3. m_lastSnapshotIncludeIndex[p] <= End(p)
  BY <1>2 DEF End
<1> QED
  BY <1>1, <1>2, <1>3, EndIsNat, NextAdvances, NextSnapshotsAdvance
     DEF Advance, TermsAdvance, EndsGrow, SnapshotsAdvance

\* What a peer accepted from the winner of a term it keeps.
LEMMA AcceptedStays ==
    ASSUME LogInv, ElectionInv, ElectionSafety, CallsTruthful, [Next]_vars,
           NEW s \in Server, NEW p \in Server, NEW t \in Nat, NEW i \in Nat,
           Win(t, s) \in leaders, i <= End(s), Accepted(s, p, t, i)
    PROVE  Accepted(s, p, t, i)'
<1>1. t <= m_currentTerm[s]
  BY DEF ElectionInv, LeadersElected, Win
<1>2. t <= m_currentTerm'[p]
  BY ServerAdvances DEF Accepted
<1>3. ASSUME t = m_currentTerm'[p], t = m_currentTerm'[s]
      PROVE  Agree(s, p, i)'
  <2>1. t = m_currentTerm[s] /\ t = m_currentTerm[p]
    <3>1. m_currentTerm[s] \in Nat /\ m_currentTerm[s] <= t
      BY <1>3, ServerAdvances
    <3>2. m_currentTerm[p] \in Nat /\ m_currentTerm[p] <= t
      BY <1>3, ServerAdvances
    <3>3. t <= m_currentTerm[p]
      BY DEF Accepted
    <3> QED
      BY <1>1, <3>1, <3>2, <3>3
  <2>2. Agree(s, p, i)
    BY <2>1 DEF Accepted
  <2>3. i <= End(p) /\ i <= End(p)'
    BY <2>2, ServerAdvances DEF Agree
  <2>4. ASSUME m_lastSnapshotIncludeIndex'[s] < i, m_lastSnapshotIncludeIndex'[p] < i
        PROVE  EntryAt(p, i)'.term = EntryAt(s, i)'.term
    <3>1. m_lastSnapshotIncludeIndex[s] < i /\ m_lastSnapshotIncludeIndex[p] < i
      BY <2>4, ServerAdvances
    <3>2. EntryAt(s, i)'.term = EntryAt(s, i).term
      BY <1>3, <2>4, WinnersEntryStays
    <3>3. EntryAt(p, i).term = EntryAt(s, i).term
      BY <2>2, <3>1 DEF Agree
    <3>4. ASSUME NEW c \in appendCalls, Overwrites(c, p, i)
          PROVE  EntryAt(p, i)'.term = EntryAt(s, i).term
      <4>1. c.term = t /\ c.from = s
        <5>1. c.term = t /\ Win(t, c.from) \in leaders
          BY <1>3, <3>4 DEF Overwrites, CallsTruthful
        <5> QED
          BY <5>1 DEF ElectionSafety, Win
      <4>2. OfItsLog(c)
        BY <2>1, <4>1 DEF CallsTruthful
      <4>3. /\ c.prevLogIndex \in Nat /\ Len(c.entries) \in Nat
        BY DEF LogInv, TypeOK, AppendTypes, AppendCallType
      <4> DEFINE k == i - c.prevLogIndex
      <4>4. k \in 1..Len(c.entries) /\ c.prevLogIndex + k = i
        BY <3>4, <4>3 DEF Overwrites
      <4>5. EntryAt(p, i)'.term = c.entries[k].term
        BY <3>4 DEF Overwrites
      <4> HIDE DEF k
      <4>6. EntryAt(s, c.prevLogIndex + k).term = c.entries[k].term
        BY <3>1, <4>1, <4>2, <4>4 DEF OfItsLog
      <4> QED
        BY <4>4, <4>5, <4>6
    <3> QED
      BY <2>3, <2>4, <3>2, <3>3, <3>4, EntryStays
  <2> QED
    BY <2>3, <2>4 DEF Agree
<1> QED
  BY <1>2, <1>3 DEF Accepted

\* A request under way stays a part of its sender's log.
LEMMA OfItsLogStays ==
    ASSUME LogInv, ElectionInv, ElectionSafety, CallsTruthful, [Next]_vars,
           NEW c \in appendCalls, c.term = m_currentTerm'[c.from]
    PROVE  OfItsLog(c)'
<1> DEFINE s == c.from
<1>1. /\ s \in Server /\ c.term \in Nat /\ c.prevLogIndex \in Nat
      /\ Len(c.entries) \in Nat /\ Win(c.term, s) \in leaders
  BY DEF LogInv, TypeOK, AppendTypes, AppendCallType, CallsTruthful
<1>2. c.term <= m_currentTerm[s]
  BY <1>1 DEF ElectionInv, LeadersElected, Win
<1>3. OfItsLog(c)
  BY <1>1, <1>2, ServerAdvances DEF CallsTruthful
<1>4. c.prevLogIndex + Len(c.entries) <= End(s) /\ End(s) \in Nat
  BY <1>1, ServerAdvances DEF LogInv, CallsInLog
<1>5. ASSUME NEW i \in Nat, i <= c.prevLogIndex + Len(c.entries),
             m_lastSnapshotIncludeIndex'[s] < i
      PROVE  /\ EntryAt(s, i)'.term = EntryAt(s, i).term
             /\ m_lastSnapshotIncludeIndex[s] < i
  BY <1>1, <1>4, <1>5, WinnersEntryStays, ServerAdvances
<1>6. ASSUME NEW k \in 1..Len(c.entries), m_lastSnapshotIncludeIndex'[s] < c.prevLogIndex + k
      PROVE  EntryAt(s, c.prevLogIndex + k)'.term = c.entries[k].term
  <2> DEFINE i == c.prevLogIndex + k
  <2>1. i \in Nat /\ i <= c.prevLogIndex + Len(c.entries)
    BY <1>1
  <2>2. m_lastSnapshotIncludeIndex[s] < i => EntryAt(s, i).term = c.entries[k].term
    BY <1>3 DEF OfItsLog
  <2> QED
    BY <1>5, <1>6, <2>1, <2>2
<1>7. ASSUME m_lastSnapshotIncludeIndex'[s] < c.prevLogIndex
      PROVE  EntryAt(s, c.prevLogIndex)'.term = c.prevLogTerm
  <2>1. c.prevLogIndex <= c.prevLogIndex + Len(c.entries)
    BY <1>1
  <2> QED
    BY <1>1, <1>3, <1>5, <1>7, <2>1 DEF OfItsLog
<1> QED
  BY <1>6, <1>7 DEF OfItsLog

-----------------------------------------------------------------------------
(* Requests *)

\* What doHeartBeat sends is a part of the leader's log.
LEMMA ArgsOfItsLog ==
    ASSUME LogInv, NEW s \in Server, NEW p \in Server, NEW k \in Rounds,
           m_nextIndex[s][p] > m_lastSnapshotIncludeIndex[s]
    PROVE  OfItsLog(AppendArgs(s, p, k))
<1> DEFINE c    == AppendArgs(s, p, k)
           log  == m_logs[s]
           base == m_lastSnapshotIncludeIndex[s]
           prev == m_nextIndex[s][p] - 1
           m    == prev - base + 1
<1>1. /\ c.from = s /\ c.prevLogIndex = prev /\ c.prevLogTerm = TermAt(s, prev)
      /\ c.entries = SubSeq(log, m, Len(log))
  BY DEF AppendArgs, SliceIndex
<1>2. /\ log \in Seq(Entries) /\ base \in Nat /\ prev \in base..(base + Len(log))
      /\ m_nextIndex[s][p] \in Nat
  <2>1. log \in Seq(Entries) /\ base \in Nat /\ m_nextIndex[s][p] \in Nat
    BY DEF LogInv, TypeOK, LogTypes, IndexTypes
  <2>2. m_nextIndex[s][p] <= base + Len(log) + 1
    BY DEF LogInv, PeersInLog, End
  <2> QED
    BY <2>1, <2>2
<1>3. TermAt(s, prev) = IF prev = base THEN m_lastSnapshotIncludeTerm[s]
                        ELSE EntryAt(s, prev).term
  BY DEF TermAt, EntryAt
<1> HIDE DEF c, log, base, prev
<1>5. m \in 1..(Len(log) + 1)
  BY <1>2
<1> HIDE DEF m
<1>6. /\ Len(c.entries) = Len(log) - m + 1
      /\ \A i \in 1..(Len(log) - m + 1) : c.entries[i] = log[m + i - 1]
  BY <1>1, <1>2, <1>5, TailOfSeq
<1>7. ASSUME NEW j \in 1..Len(c.entries)
      PROVE  EntryAt(s, prev + j).term = c.entries[j].term
  <2>1. m + j - 1 = prev + j - base
    BY <1>2, <1>5, <1>6 DEF m
  <2>2. EntryAt(s, prev + j) = log[prev + j - base]
    BY <1>2 DEF EntryAt, SliceIndex, log, base
  <2>3. EntryAt(s, prev + j) = c.entries[j]
    BY <1>6, <2>1, <2>2
  <2> QED
    BY <2>3
<1>8. base < prev => EntryAt(s, prev).term = TermAt(s, prev)
  BY <1>2, <1>3
<1>9. OfItsLog(c)
  BY <1>1, <1>7, <1>8 DEF OfItsLog, base
<1> QED
  BY <1>9 DEF c

\* A request under way was there before, or a leader has just sent it.
LEMMA CallsComeFrom ==
    ASSUME [Next]_vars, NEW c \in appendCalls', c \notin appendCalls
    PROVE  \E s \in Server, p \in Server, k \in Rounds :
               /\ doHeartBeat(s, k) /\ p # s
               /\ ~(m_nextIndex[s][p] <= m_lastSnapshotIncludeIndex[s])
               /\ c = AppendArgs(s, p, k)
<1>1. CASE \E s \in Server, k \in Rounds : doHeartBeat(s, k)
  <2>1. PICK s \in Server, k \in Rounds : doHeartBeat(s, k)
    BY <1>1
  <2>2. \E p \in Server : /\ p # s /\ c = AppendArgs(s, p, k)
                          /\ ~(m_nextIndex[s][p] <= m_lastSnapshotIncludeIndex[s])
    BY <2>1 DEF doHeartBeat, Without
  <2> QED
    BY <2>1, <2>2
<1>2. CASE \/ \E s \in Server : \/ doElection(s) \/ getApplyLogs(s) \/ Crash(s)
                                \/ \E i \in 1..m_lastApplied[s] : Snapshot(s, i)
                                \/ \E cmd \in Cmds : Start(s, cmd)
           \/ \E t \in snapThreads : leaderSendSnapShot(t)
           \/ \E d \in snapCalls : SnapshotPeerClosed(d) \/ InstallSnapshot(d)
           \/ \E d \in voteCalls : RequestVote(d)
  BY <1>2 DEF doElection, getApplyLogs, Crash, Snapshot, Start, leaderSendSnapShot,
              SnapshotPeerClosed, InstallSnapshot, RequestVote, appendNet
<1>3. CASE \/ \E d \in appendCalls : AppendEntries1(d)
           \/ \E r \in voteReplies : sendRequestVote(r)
           \/ \E r \in appendReplies : sendAppendEntries(r)
           \/ \E r \in snapReplies : SnapshotAnswered(r)
  BY <1>3 DEF AppendEntries1, AppendExpired, AppendTooShort, AppendMismatch, AppendMatch,
              AnswerAppend, sendRequestVote, sendAppendEntries, SnapshotAnswered, appendNet
<1>4. CASE UNCHANGED vars
  BY <1>4 DEF vars, appendNet
<1> QED
  BY <1>1, <1>2, <1>3, <1>4 DEF Next

\* Every request under way is of its sender's log.
LEMMA NextCallsTruthful ==
    ASSUME LogInv, ElectionInv, ElectionSafety, CallsTruthful, [Next]_vars
    PROVE  CallsTruthful'
<1>1. leaders \subseteq leaders'
  BY WinnersStay
<1>2. ASSUME NEW c \in appendCalls
      PROVE  /\ c.from # c.to
             /\ Win(c.term, c.from) \in leaders'
             /\ c.term = m_currentTerm'[c.from] => OfItsLog(c)'
  BY <1>1, OfItsLogStays DEF CallsTruthful
<1>3. ASSUME NEW c \in appendCalls', c \notin appendCalls
      PROVE  /\ c.from # c.to
             /\ Win(c.term, c.from) \in leaders'
             /\ OfItsLog(c)'
  <2>1. PICK s \in Server, p \in Server, k \in Rounds :
                  /\ doHeartBeat(s, k) /\ p # s
                  /\ ~(m_nextIndex[s][p] <= m_lastSnapshotIncludeIndex[s])
                  /\ c = AppendArgs(s, p, k)
    BY <1>3, CallsComeFrom
  <2>2. /\ c.from = s /\ c.to = p /\ c.term = m_currentTerm[s]
    BY <2>1 DEF AppendArgs
  <2>3. Win(m_currentTerm[s], s) \in leaders
    BY <2>1 DEF doHeartBeat, ElectionInv, LeadersWon
  <2>4. OfItsLog(c)
    <3>1. m_nextIndex[s][p] \in Nat /\ m_lastSnapshotIncludeIndex[s] \in Nat
      BY DEF LogInv, TypeOK, IndexTypes, LogTypes
    <3>2. m_nextIndex[s][p] > m_lastSnapshotIncludeIndex[s]
      BY <2>1, <3>1
    <3> QED
      BY <2>1, <3>2, ArgsOfItsLog
  <2>5. OfItsLog(c)'
    BY <2>1, <2>4 DEF doHeartBeat, logVars, OfItsLog, EntryAt, SliceIndex
  <2> QED
    BY <1>1, <2>1, <2>2, <2>3, <2>5
<1> QED
  BY <1>2, <1>3 DEF CallsTruthful

-----------------------------------------------------------------------------
(* Answers *)

\* The index a request ends at.
EndOfCall(c) == c.prevLogIndex + Len(c.entries)

LastTerm(c) == IF c.entries = <<>> THEN 0 ELSE c.entries[Len(c.entries)].term

\* r is the answer to c that the step gives.
Answers(r, c) ==
    /\ r.from = c.from /\ r.to = c.to /\ r.round = c.round
    /\ r.upTo = EndOfCall(c) /\ r.lastTerm = LastTerm(c)
    /\ r.success => /\ r.term = c.term /\ c.term >= m_currentTerm[c.to]
                    /\ AppendMatch(c.to, c)

\* An answer under way was there before, or its request has just been handled.
LEMMA RepliesComeFrom ==
    ASSUME [Next]_vars, NEW r \in appendReplies', r \notin appendReplies
    PROVE  \E c \in appendCalls :
              AppendEntries1(c) /\ Answers(r, c) /\ appendCalls' = appendCalls \ {c}
<1>1. ASSUME NEW c \in appendCalls, AppendEntries1(c)
      PROVE  Answers(r, c) /\ appendCalls' = appendCalls \ {c}
  <2>1. CASE AppendExpired(c.to, c)
    BY <2>1 DEF AppendExpired, AnswerAppend, Answers, EndOfCall, LastTerm
  <2>2. CASE AppendTooShort(c.to, c)
    BY <2>2 DEF AppendTooShort, AnswerAppend, Answers, EndOfCall, LastTerm
  <2>3. CASE AppendMismatch(c.to, c)
    BY <2>3 DEF AppendMismatch, AnswerAppend, Answers, EndOfCall, LastTerm
  <2>4. CASE AppendMatch(c.to, c) /\ c.term >= m_currentTerm[c.to]
    <3>1. \E u : AnswerAppend(c, c.term, TRUE, u)
      BY <2>4 DEF AppendMatch
    <3> QED
      BY <2>4, <3>1 DEF AnswerAppend, Answers, EndOfCall, LastTerm
  <2>5. CASE UNCHANGED appendReplies
    BY <2>5
  <2> QED
    BY <1>1, <2>1, <2>2, <2>3, <2>4, <2>5 DEF AppendEntries1
<1>2. CASE \/ \E s \in Server : \/ doElection(s) \/ getApplyLogs(s) \/ Crash(s)
                                \/ \E i \in 1..m_lastApplied[s] : Snapshot(s, i)
                                \/ \E cmd \in Cmds : Start(s, cmd)
                                \/ \E k \in Rounds : doHeartBeat(s, k)
           \/ \E t \in snapThreads : leaderSendSnapShot(t)
           \/ \E d \in snapCalls : SnapshotPeerClosed(d) \/ InstallSnapshot(d)
           \/ \E d \in voteCalls : RequestVote(d)
  BY <1>2 DEF doElection, getApplyLogs, Crash, Snapshot, Start, leaderSendSnapShot,
              SnapshotPeerClosed, InstallSnapshot, RequestVote, appendNet, doHeartBeat, Without
<1>3. CASE \/ \E q \in voteReplies : sendRequestVote(q)
           \/ \E q \in appendReplies : sendAppendEntries(q)
           \/ \E q \in snapReplies : SnapshotAnswered(q)
  BY <1>3 DEF sendRequestVote, sendAppendEntries, SnapshotAnswered, appendNet
<1>4. CASE UNCHANGED vars
  BY <1>4 DEF vars, appendNet
<1> QED
  BY <1>1, <1>2, <1>3, <1>4 DEF Next

\* The receiver of a matching request has its last entry afterwards, and nobody
\* else is touched.
LEMMA MatchReaches ==
    ASSUME LogInv, NEW c \in appendCalls, c.to \in Server, AppendMatch(c.to, c)
    PROVE  /\ EndOfCall(c) <= End(c.to)'
           /\ m_currentTerm'[c.to] = c.term
           /\ m_lastSnapshotIncludeIndex' = m_lastSnapshotIncludeIndex
           /\ \A q \in Server : q # c.to =>
                m_logs'[q] = m_logs[q] /\ m_currentTerm'[q] = m_currentTerm[q]
<1> DEFINE p    == c.to
           old  == m_logs[p]
           base == m_lastSnapshotIncludeIndex[p]
           at   == c.prevLogIndex - base
           es   == c.entries
<1>1. /\ old \in Seq(Entries) /\ base \in Nat /\ es \in Seq(Entries)
      /\ c.prevLogIndex \in Nat
  BY DEF LogInv, TypeOK, LogTypes, AppendTypes, AppendCallType
<1>2. c.prevLogIndex \in base..(base + Len(old))
  BY <1>1, LastIsEnd DEF AppendMatch, LogInv, TypeOK, End
<1>3. /\ m_logs'[p] = Merged(old, at, es)
      /\ m_lastSnapshotIncludeIndex' = m_lastSnapshotIncludeIndex
      /\ \A q \in Server : q # p => m_logs'[q] = m_logs[q]
  BY DEF AppendMatch, SliceIndex, LogInv, TypeOK, LogTypes
<1>4. /\ m_currentTerm'[p] = c.term
      /\ \A q \in Server : q # p => m_currentTerm'[q] = m_currentTerm[q]
  BY DEF AppendMatch, Follow, LogInv, TypeOK, TermTypes
<1>5. /\ \A k \in 1..Len(old) : old[k].index = base + k
      /\ \A k \in 1..Len(es) : es[k].index = c.prevLogIndex + k
  BY DEF LogInv, LogsContiguous, CallsInLog
<1>6. End(p)' = base + Len(Merged(old, at, es))
  BY <1>3 DEF End
<1>7. EndOfCall(c) = c.prevLogIndex + Len(es)
  BY DEF EndOfCall
<1> HIDE DEF base, old, es
<1>8. /\ at \in 0..Len(old) /\ c.prevLogIndex = base + at
  BY <1>1, <1>2
<1> HIDE DEF at
<1>9. /\ Merged(old, at, es) \in Seq(Entries)
      /\ Len(Merged(old, at, es)) >= at + Len(es)
  <2>1. \A k \in 1..Len(es) : es[k].index = base + at + k
    BY <1>1, <1>5, <1>8
  <2> QED
    BY <1>1, <1>5, <1>8, <2>1, MergedInPlace
<1>10. EndOfCall(c) <= End(p)'
  <2> DEFINE n == Len(Merged(old, at, es))
  <2>1. n \in Nat /\ n >= at + Len(es)
    BY <1>9
  <2>2. Len(es) \in Nat
    BY <1>1
  <2> HIDE DEF n
  <2>3. base + at + Len(es) <= base + n
    BY <1>1, <1>8, <2>1, <2>2
  <2> QED
    BY <1>6, <1>7, <1>8, <2>3 DEF n
<1> QED
  BY <1>3, <1>4, <1>10

\* The term a request claims for the index it ends at.
EndTerm(c) == IF c.entries = <<>> THEN c.prevLogTerm ELSE LastTerm(c)

\* The sender has that term there.
LEMMA EndOfItsLog ==
    ASSUME LogInv, NEW c \in appendCalls, OfItsLog(c),
           m_lastSnapshotIncludeIndex[c.from] < EndOfCall(c)
    PROVE  EntryAt(c.from, EndOfCall(c)).term = EndTerm(c)
<1> DEFINE n == Len(c.entries)
<1>1. c.entries \in Seq(Entries) /\ c.prevLogIndex \in Nat /\ n \in Nat
  BY DEF LogInv, TypeOK, AppendTypes, AppendCallType
<1>2. CASE c.entries = <<>>
  <2>1. EndOfCall(c) = c.prevLogIndex
    BY <1>1, <1>2 DEF EndOfCall
  <2> QED
    BY <1>2, <2>1 DEF OfItsLog, EndTerm
<1>3. CASE c.entries # <<>>
  <2>1. n \in 1..n /\ EndTerm(c) = c.entries[n].term /\ EndOfCall(c) = c.prevLogIndex + n
    BY <1>1, <1>3 DEF EndTerm, LastTerm, EndOfCall
  <2> QED
    BY <2>1 DEF OfItsLog
<1> QED
  BY <1>2, <1>3

\* And so has the receiver after a match.
LEMMA EndMatched ==
    ASSUME LogInv, NEW c \in appendCalls, AppendMatch(c.to, c),
           m_lastSnapshotIncludeIndex[c.to] < EndOfCall(c)
    PROVE  EntryAt(c.to, EndOfCall(c))'.term = EndTerm(c)
<1> DEFINE p == c.to
           n == Len(c.entries)
           i == EndOfCall(c)
<1>1. /\ c.entries \in Seq(Entries) /\ c.prevLogIndex \in Nat /\ n \in Nat
      /\ p \in Server /\ i = c.prevLogIndex + n /\ i \in Nat
  BY DEF LogInv, TypeOK, AppendTypes, AppendCallType, EndOfCall
<1>2. CASE c.entries = <<>>
  <2>1. n = 0 /\ i = c.prevLogIndex
    BY <1>1, <1>2
  <2>2. /\ c.prevLogIndex <= End(p) /\ TermAt(p, c.prevLogIndex) = c.prevLogTerm
        /\ m_lastSnapshotIncludeIndex[p] \in Nat /\ End(p) \in Nat
    BY <1>1, LastIsEnd DEF AppendMatch, LogInv, TypeOK, LogTypes
  <2>3. EntryAt(p, c.prevLogIndex).term = c.prevLogTerm
    BY <1>1, <2>1, <2>2 DEF TermAt, EntryAt
  <2>4. EntryAt(p, c.prevLogIndex)' = EntryAt(p, c.prevLogIndex)
    BY <1>1, <2>1, <2>2, MatchKeepsTerms
  <2> QED
    BY <1>2, <2>1, <2>3, <2>4 DEF EndTerm
<1>3. CASE c.entries # <<>>
  <2>1. n \in 1..n /\ EndTerm(c) = c.entries[n].term
    BY <1>1, <1>3 DEF EndTerm, LastTerm
  <2>2. /\ c.prevLogIndex < i /\ i <= c.prevLogIndex + n /\ i - c.prevLogIndex = n
    BY <1>1, <2>1
  <2> HIDE DEF i
  <2>3. EntryAt(p, i)'.term = c.entries[i - c.prevLogIndex].term
    BY <1>1, <2>2, MatchKeepsTerms DEF i
  <2> QED
    BY <2>1, <2>2, <2>3 DEF i
<1> QED
  BY <1>2, <1>3

\* Who answers with a success has accepted the request.
LEMMA MatchAccepts ==
    ASSUME LogInv, CallsTruthful, NEW c \in appendCalls, AppendMatch(c.to, c)
    PROVE  Accepted(c.from, c.to, c.term, EndOfCall(c))'
<1> DEFINE s == c.from
           p == c.to
           i == EndOfCall(c)
<1>1. s \in Server /\ p \in Server /\ s # p /\ c.term \in Nat
  BY DEF LogInv, TypeOK, AppendTypes, AppendCallType, CallsTruthful
<1>2. /\ i <= End(p)' /\ m_currentTerm'[p] = c.term
      /\ m_lastSnapshotIncludeIndex' = m_lastSnapshotIncludeIndex
      /\ m_logs'[s] = m_logs[s] /\ m_currentTerm'[s] = m_currentTerm[s]
  BY <1>1, MatchReaches
<1>3. ASSUME c.term = m_currentTerm'[s], m_lastSnapshotIncludeIndex'[s] < i,
             m_lastSnapshotIncludeIndex'[p] < i
      PROVE  EntryAt(p, i)'.term = EntryAt(s, i)'.term
  <2>1. EntryAt(s, i)' = EntryAt(s, i)
    BY <1>2 DEF EntryAt, SliceIndex
  <2>2. OfItsLog(c)
    BY <1>2, <1>3 DEF CallsTruthful
  <2>3. EntryAt(s, i).term = EndTerm(c)
    BY <1>2, <1>3, <2>2, EndOfItsLog
  <2>4. EntryAt(p, i)'.term = EndTerm(c)
    BY <1>2, <1>3, EndMatched
  <2> QED
    BY <2>1, <2>3, <2>4
<1> HIDE DEF i
<1>4. c.term <= m_currentTerm'[p]
  BY <1>1, <1>2
<1>5. c.term = m_currentTerm'[s] => Agree(s, p, i)'
  BY <1>2, <1>3 DEF Agree
<1> QED
  BY <1>4, <1>5 DEF Accepted, i

\* Every success under way is of what its receiver has accepted.
LEMMA NextRepliesTruthful ==
    ASSUME LogInv, ElectionInv, ElectionSafety, CallsTruthful, RepliesTruthful,
           [Next]_vars
    PROVE  RepliesTruthful'
<1>1. leaders \subseteq leaders'
  BY WinnersStay
<1>2. ASSUME NEW r \in appendReplies
      PROVE  /\ r.from # r.to
             /\ r.success =>
                  /\ Win(r.term, r.from) \in leaders'
                  /\ Accepted(r.from, r.to, r.term, r.upTo)'
                  /\ r.term = m_currentTerm'[r.from] => EndsInItsLog(r)'
  <2> SUFFICES ASSUME r.success
               PROVE  /\ Win(r.term, r.from) \in leaders'
                      /\ Accepted(r.from, r.to, r.term, r.upTo)'
                      /\ r.term = m_currentTerm'[r.from] => EndsInItsLog(r)'
    BY DEF RepliesTruthful
  <2>1. /\ r.from \in Server /\ r.to \in Server /\ r.term \in Nat /\ r.upTo \in Nat
        /\ r.upTo <= End(r.from)
    BY DEF LogInv, TypeOK, AppendTypes, AppendReplyType, RepliesInLog
  <2>2. /\ Win(r.term, r.from) \in leaders
        /\ Accepted(r.from, r.to, r.term, r.upTo)
        /\ r.term = m_currentTerm[r.from] => EndsInItsLog(r)
    BY DEF RepliesTruthful
  <2>3. Accepted(r.from, r.to, r.term, r.upTo)'
    BY <2>1, <2>2, AcceptedStays
  <2>4. ASSUME r.term = m_currentTerm'[r.from], r.lastTerm # 0,
               m_lastSnapshotIncludeIndex'[r.from] < r.upTo
        PROVE  EntryAt(r.from, r.upTo)'.term = r.lastTerm
    <3>1. r.term <= m_currentTerm[r.from]
      BY <2>2 DEF ElectionInv, LeadersElected, Win
    <3>2. /\ r.term = m_currentTerm[r.from]
          /\ m_lastSnapshotIncludeIndex[r.from] < r.upTo
      BY <2>1, <2>4, <3>1, ServerAdvances
    <3>3. EntryAt(r.from, r.upTo).term = r.lastTerm
      BY <2>2, <2>4, <3>2 DEF EndsInItsLog
    <3> QED
      BY <2>1, <2>2, <2>4, <3>3, WinnersEntryStays
  <2> QED
    BY <1>1, <2>2, <2>3, <2>4 DEF EndsInItsLog
<1>3. ASSUME NEW r \in appendReplies', r \notin appendReplies
      PROVE  /\ r.from # r.to
             /\ r.success =>
                  /\ Win(r.term, r.from) \in leaders'
                  /\ Accepted(r.from, r.to, r.term, r.upTo)'
                  /\ r.term = m_currentTerm'[r.from] => EndsInItsLog(r)'
  <2>1. PICK c \in appendCalls : AppendEntries1(c) /\ Answers(r, c)
    BY <1>3, RepliesComeFrom
  <2>2. r.from # r.to
    BY <2>1 DEF Answers, CallsTruthful
  <2>3. ASSUME r.success
        PROVE  /\ Win(r.term, r.from) \in leaders'
               /\ Accepted(r.from, r.to, r.term, r.upTo)'
               /\ r.term = m_currentTerm'[r.from] => EndsInItsLog(r)'
    <3>1. /\ r.from = c.from /\ r.to = c.to /\ r.term = c.term /\ r.upTo = EndOfCall(c)
          /\ r.lastTerm = LastTerm(c) /\ AppendMatch(c.to, c)
      BY <2>1, <2>3 DEF Answers
    <3>2. Win(r.term, r.from) \in leaders'
      BY <1>1, <3>1 DEF CallsTruthful
    <3>3. Accepted(r.from, r.to, r.term, r.upTo)'
      BY <3>1, MatchAccepts
    <3>4. ASSUME r.term = m_currentTerm'[r.from], r.lastTerm # 0,
                 m_lastSnapshotIncludeIndex'[r.from] < r.upTo
          PROVE  EntryAt(r.from, r.upTo)'.term = r.lastTerm
      <4>1. c.from \in Server /\ c.to \in Server /\ c.from # c.to
        BY DEF LogInv, TypeOK, AppendTypes, AppendCallType, CallsTruthful
      <4>2. /\ m_lastSnapshotIncludeIndex' = m_lastSnapshotIncludeIndex
            /\ m_logs'[c.from] = m_logs[c.from]
            /\ m_currentTerm'[c.from] = m_currentTerm[c.from]
        BY <3>1, <4>1, MatchReaches
      <4>3. OfItsLog(c)
        BY <3>1, <3>4, <4>2 DEF CallsTruthful
      <4>4. EntryAt(c.from, EndOfCall(c)).term = EndTerm(c)
        BY <3>1, <3>4, <4>2, <4>3, EndOfItsLog
      <4>5. EndTerm(c) = LastTerm(c)
        BY <3>1, <3>4 DEF EndTerm, LastTerm
      <4>6. EntryAt(c.from, EndOfCall(c))' = EntryAt(c.from, EndOfCall(c))
        BY <4>2 DEF EntryAt, SliceIndex
      <4> QED
        BY <3>1, <4>4, <4>5, <4>6
    <3> QED
      BY <3>2, <3>3, <3>4 DEF EndsInItsLog
  <2> QED
    BY <2>2, <2>3
<1> QED
  BY <1>2, <1>3 DEF RepliesTruthful

-----------------------------------------------------------------------------
(* Snapshots *)

\* A process that has ended does not come back.
LEMMA EndedStays ==
    ASSUME LogInv, [Next]_vars, NEW p \in Server, Alive(p)'
    PROVE  Alive(p)
<1>1. CASE UNCHANGED exited
  BY <1>1 DEF Alive
<1>2. ASSUME NEW s \in Server, NEW a, a # "no", Exit(s, a)
      PROVE  Alive(p)
  BY <1>2 DEF Exit, Alive, LogInv, TypeOK, ExitTypes
<1>3. CASE \/ \E s \in Server : \/ doElection(s) \/ getApplyLogs(s) \/ Crash(s)
                                \/ \E i \in 1..m_lastApplied[s] : Snapshot(s, i)
                                \/ \E cmd \in Cmds : Start(s, cmd)
                                \/ \E k \in Rounds : doHeartBeat(s, k)
           \/ \E t \in snapThreads : leaderSendSnapShot(t)
           \/ \E d \in snapCalls : SnapshotPeerClosed(d)
           \/ \E d \in voteCalls : RequestVote(d)
  BY <1>1, <1>2, <1>3 DEF doElection, getApplyLogs, Crash, Snapshot, Start,
              leaderSendSnapShot, SnapshotPeerClosed, RequestVote, doHeartBeat, Ignore
<1>4. CASE \E d \in appendCalls : AppendEntries1(d)
  <2>1. PICK d \in appendCalls : AppendEntries1(d)
    BY <1>4
  <2>2. d.to \in Server
    BY DEF LogInv, TypeOK, AppendTypes, AppendCallType
  <2> QED
    BY <1>1, <1>2, <2>1, <2>2 DEF AppendEntries1, AppendExpired, AppendBehindSnapshot, Ignore
<1>5. CASE \E d \in snapCalls : InstallSnapshot(d)
  BY <1>1, <1>5 DEF InstallSnapshot, SnapshotExpired, SnapshotOutdated, SnapshotInstalled,
                    Ignore
<1>6. CASE \/ \E q \in voteReplies : sendRequestVote(q)
           \/ \E q \in appendReplies : sendAppendEntries(q)
           \/ \E q \in snapReplies : SnapshotAnswered(q)
  BY <1>1, <1>6 DEF sendRequestVote, sendAppendEntries, SnapshotAnswered, StepDown, Ignore,
                    CountVote, BecomeLeader
<1>7. CASE UNCHANGED vars
  BY <1>1, <1>7 DEF vars
<1> QED
  BY <1>3, <1>4, <1>5, <1>6, <1>7 DEF Next

\* Where the requests with snapshots and their answers come from.
LEMMA SnapshotsComeFrom ==
    ASSUME [Next]_vars
    PROVE  /\ \A c \in snapCalls' : c \in snapCalls
                \/ \E t \in snapThreads :
                      /\ leaderSendSnapShot(t) /\ c.from = t.from
                      /\ c.term = m_currentTerm[t.from]
                      /\ c.index = m_lastSnapshotIncludeIndex[t.from]
           /\ \A r \in snapReplies' : r \in snapReplies
                \/ \E c \in snapCalls :
                      /\ InstallSnapshot(c) \/ SnapshotPeerClosed(c)
                      /\ \E t : AnswerSnapshot(c, t)
                      /\ r.from = c.from /\ r.to = c.to /\ r.callTerm = c.term
                      /\ r.index = c.index
<1>1. CASE \E t \in snapThreads : leaderSendSnapShot(t)
  BY <1>1 DEF leaderSendSnapShot
<1>2. ASSUME NEW c \in snapCalls, InstallSnapshot(c) \/ SnapshotPeerClosed(c)
      PROVE  /\ \E t : AnswerSnapshot(c, t)
             /\ \A d \in snapCalls' : d \in snapCalls
             /\ \A r \in snapReplies' : r \in snapReplies
                  \/ /\ r.from = c.from /\ r.to = c.to /\ r.callTerm = c.term
                     /\ r.index = c.index
  <2>1. PICK t : AnswerSnapshot(c, t)
    BY <1>2 DEF InstallSnapshot, SnapshotExpired, SnapshotOutdated, SnapshotInstalled,
                SnapshotPeerClosed
  <2> QED
    BY <2>1 DEF AnswerSnapshot
<1>3. CASE \/ \E s \in Server : \/ doElection(s) \/ getApplyLogs(s) \/ Crash(s)
                                \/ \E i \in 1..m_lastApplied[s] : Snapshot(s, i)
                                \/ \E cmd \in Cmds : Start(s, cmd)
                                \/ \E k \in Rounds : doHeartBeat(s, k)
           \/ \E d \in voteCalls : RequestVote(d)
  BY <1>3 DEF doElection, getApplyLogs, Crash, Snapshot, Start, RequestVote, doHeartBeat,
              Without, snapNet
<1>4. CASE \/ \E d \in appendCalls : AppendEntries1(d)
           \/ \E q \in voteReplies : sendRequestVote(q)
           \/ \E q \in appendReplies : sendAppendEntries(q)
           \/ \E q \in snapReplies : SnapshotAnswered(q)
  BY <1>4 DEF AppendEntries1, sendRequestVote, sendAppendEntries, SnapshotAnswered, snapNet
<1>5. CASE UNCHANGED vars
  BY <1>5 DEF vars, snapNet
<1> QED
  BY <1>1, <1>2, <1>3, <1>4, <1>5 DEF Next

\* An answer without a larger term comes from a peer that has the snapshot, or
\* is the empty reply of a closed connection.
LEMMA NextSnapshotsTruthful ==
    ASSUME LogInv, SnapshotsTruthful, [Next]_vars
    PROVE  SnapshotsTruthful'
<1>1. ASSUME NEW c \in snapCalls'
      PROVE  /\ c.term <= m_currentTerm'[c.from]
             /\ c.index <= m_lastSnapshotIncludeIndex'[c.from]
  <2>1. CASE c \in snapCalls
    <3>1. c.from \in Server /\ c.term \in Nat /\ c.index \in Nat
      BY <2>1 DEF LogInv, TypeOK, SnapTypes, SnapCallType
    <3> QED
      BY <2>1, <3>1, ServerAdvances DEF SnapshotsTruthful
  <2>2. ASSUME NEW t \in snapThreads, c.from = t.from, c.term = m_currentTerm[t.from],
               c.index = m_lastSnapshotIncludeIndex[t.from]
        PROVE  /\ c.term <= m_currentTerm'[c.from]
               /\ c.index <= m_lastSnapshotIncludeIndex'[c.from]
    <3>1. t.from \in Server
      BY DEF LogInv, TypeOK, SnapTypes, SnapThreadType
    <3> QED
      BY <2>2, <3>1, ServerAdvances
  <2> QED
    BY <2>1, <2>2, SnapshotsComeFrom
<1>2. ASSUME NEW r \in snapReplies
      PROVE  /\ r.callTerm <= m_currentTerm'[r.from]
             /\ r.index <= m_lastSnapshotIncludeIndex'[r.from]
             /\ Alive(r.to)' /\ r.term <= r.callTerm
                => r.callTerm <= m_currentTerm'[r.to] /\ r.index <= End(r.to)'
  <2>1. r.from \in Server /\ r.to \in Server /\ r.callTerm \in Nat /\ r.index \in Nat
    BY DEF LogInv, TypeOK, SnapTypes, SnapReplyType
  <2>2. /\ r.callTerm <= m_currentTerm'[r.from]
        /\ r.index <= m_lastSnapshotIncludeIndex'[r.from]
    BY <2>1, ServerAdvances DEF SnapshotsTruthful
  <2>3. ASSUME Alive(r.to)', r.term <= r.callTerm
        PROVE  r.callTerm <= m_currentTerm'[r.to] /\ r.index <= End(r.to)'
    <3>1. r.callTerm <= m_currentTerm[r.to] /\ r.index <= End(r.to)
      BY <2>1, <2>3, EndedStays DEF SnapshotsTruthful
    <3> QED
      BY <2>1, <3>1, ServerAdvances
  <2> QED
    BY <2>2, <2>3
<1>3. ASSUME NEW r \in snapReplies', r \notin snapReplies
      PROVE  /\ r.callTerm <= m_currentTerm'[r.from]
             /\ r.index <= m_lastSnapshotIncludeIndex'[r.from]
             /\ Alive(r.to)' /\ r.term <= r.callTerm
                => r.callTerm <= m_currentTerm'[r.to] /\ r.index <= End(r.to)'
  <2>1. PICK c \in snapCalls : /\ InstallSnapshot(c) \/ SnapshotPeerClosed(c)
                               /\ r.from = c.from /\ r.to = c.to /\ r.callTerm = c.term
                               /\ r.index = c.index
    BY <1>3, SnapshotsComeFrom
  <2>2. c.from \in Server /\ c.to \in Server /\ c.term \in Nat /\ c.index \in Nat
    BY DEF LogInv, TypeOK, SnapTypes, SnapCallType
  <2>3. /\ r.callTerm <= m_currentTerm'[r.from]
        /\ r.index <= m_lastSnapshotIncludeIndex'[r.from]
    BY <2>1, <2>2, ServerAdvances DEF SnapshotsTruthful
  <2>4. CASE SnapshotPeerClosed(c)
    <3>1. ~Alive(r.to)'
      BY <2>1, <2>4 DEF SnapshotPeerClosed, Ignore, Alive
    <3> QED
      BY <2>3, <3>1
  <2>5. CASE SnapshotExpired(c.to, c)
    <3>1. r.term = m_currentTerm[c.to] /\ m_currentTerm[c.to] \in Nat
      BY <1>3, <2>2, <2>5 DEF SnapshotExpired, AnswerSnapshot, LogInv, TypeOK, TermTypes
    <3> QED
      BY <2>1, <2>2, <2>3, <2>5, <3>1 DEF SnapshotExpired
  <2>6. CASE SnapshotOutdated(c.to, c)
    <3>1. m_currentTerm'[c.to] = c.term
      BY <2>2, <2>6 DEF SnapshotOutdated, Follow, LogInv, TypeOK, TermTypes
    <3>2. c.index <= End(c.to)'
      BY <2>2, <2>6, ServerAdvances DEF SnapshotOutdated
    <3> QED
      BY <2>1, <2>2, <2>3, <3>1, <3>2
  <2>7. CASE SnapshotInstalled(c.to, c)
    <3>1. m_currentTerm'[c.to] = c.term /\ m_lastSnapshotIncludeIndex'[c.to] = c.index
      BY <2>2, <2>7 DEF SnapshotInstalled, Follow, LogInv, TypeOK, TermTypes, LogTypes
    <3>2. LogTypes'
      BY NextLogInv DEF LogInv, TypeOK
    <3>3. m_logs'[c.to] \in Seq(Entries)
      BY <2>2, <3>2 DEF LogTypes
    <3>4. c.index <= End(c.to)'
      BY <2>2, <3>1, <3>3 DEF End
    <3> QED
      BY <2>1, <2>2, <2>3, <3>1, <3>4
  <2> QED
    BY <2>1, <2>4, <2>5, <2>6, <2>7 DEF InstallSnapshot
<1> QED
  BY <1>1, <1>2, <1>3 DEF SnapshotsTruthful

-----------------------------------------------------------------------------
(* matchIndex *)

\* What a step may do to the matchIndex of a server that leads after it.
PeersStep(s) ==
    \/ /\ m_status[s] = "Leader" /\ m_currentTerm'[s] = m_currentTerm[s]
       /\ m_matchIndex'[s] = m_matchIndex[s]
    \/ m_matchIndex'[s] = [p \in Server |-> 0]
    \/ \E r \in appendReplies :
          /\ r.from = s /\ r.term = m_currentTerm[s] /\ m_status[s] = "Leader"
          /\ Replicated(s, r) /\ m_currentTerm'[s] = m_currentTerm[s]
    \/ \E r \in snapReplies :
          /\ r.from = s /\ r.callTerm = m_currentTerm[s] /\ m_status[s] = "Leader"
          /\ r.term <= m_currentTerm[s] /\ m_currentTerm'[s] = m_currentTerm[s]
          /\ m_matchIndex' = [m_matchIndex EXCEPT ![s][r.to] = r.index]

\* A server that follows does not lead, and nobody else is touched.
LEMMA FollowLeaders ==
    ASSUME LogInv, NEW q \in Server, NEW t, Follow(q, t), UNCHANGED m_matchIndex,
           NEW s \in Server, m_status'[s] = "Leader"
    PROVE  PeersStep(s)
BY DEF Follow, PeersStep, LogInv, TypeOK, TermTypes

\* A step that leaves terms, status and matchIndex alone.
LEMMA NoPeersStep ==
    ASSUME UNCHANGED <<m_currentTerm, m_status, m_matchIndex>>,
           NEW s \in Server, m_status'[s] = "Leader"
    PROVE  PeersStep(s)
BY DEF PeersStep

\* No other step changes what a leader knows of its peers.
LEMMA NextPeersStep ==
    ASSUME LogInv, [Next]_vars, NEW s \in Server, m_status'[s] = "Leader"
    PROVE  PeersStep(s)
<1>1. CASE \/ \E q \in Server : \/ getApplyLogs(q) \/ Crash(q)
                                \/ \E i \in 1..m_lastApplied[q] : Snapshot(q, i)
                                \/ \E cmd \in Cmds : Start(q, cmd)
                                \/ \E k \in Rounds : doHeartBeat(q, k)
           \/ \E t \in snapThreads : leaderSendSnapShot(t)
           \/ \E d \in snapCalls : SnapshotPeerClosed(d)
  BY <1>1, NoPeersStep DEF getApplyLogs, Crash, Exit, Snapshot, Start, doHeartBeat,
              leaderSendSnapShot, SnapshotPeerClosed, Ignore, termVars, leaderVars
<1>2. CASE \E q \in Server : doElection(q)
  BY <1>2 DEF doElection, PeersStep, leaderVars, LogInv, TypeOK, TermTypes
<1>3. ASSUME NEW c \in voteCalls, RequestVote(c)
      PROVE  PeersStep(s)
  <2>1. c.to \in Server /\ UNCHANGED m_matchIndex
    BY <1>3 DEF RequestVote, leaderVars, LogInv, TypeOK, VoteTypes, VoteCallType
  <2>2. CASE UNCHANGED termVars
    BY <2>1, <2>2, NoPeersStep DEF termVars
  <2>3. CASE Follow(c.to, c.term)
    BY <2>1, <2>3, FollowLeaders
  <2>4. CASE GrantVote(c.to, c)
    <3>1. c.term \in Nat /\ m_currentTerm[c.to] \in Nat /\ c.term >= m_currentTerm[c.to]
      BY <2>1, <2>4 DEF GrantVote, Grants, LogInv, TypeOK, VoteTypes, VoteCallType, TermTypes
    <3>2. /\ m_currentTerm' = [m_currentTerm EXCEPT ![c.to] = c.term]
          /\ m_status' = [m_status EXCEPT
                  ![c.to] = IF c.term > m_currentTerm[c.to] THEN "Follower" ELSE @]
      BY <2>4 DEF GrantVote
    <3>3. m_currentTerm \in [Server -> Nat] /\ DOMAIN m_status = Server
      BY DEF LogInv, TypeOK, TermTypes
    <3>4. m_status[s] = "Leader" /\ m_currentTerm'[s] = m_currentTerm[s]
      BY <1>3, <2>1, <3>1, <3>2, <3>3
    <3> QED
      BY <2>1, <3>4 DEF PeersStep
  <2> QED
    BY <1>3, <2>2, <2>3, <2>4 DEF RequestVote, RefuseExpired, RefuseVote
<1>4. ASSUME NEW r \in voteReplies, sendRequestVote(r)
      PROVE  PeersStep(s)
  <2>1. r.from \in Server
    BY DEF LogInv, TypeOK, VoteTypes, VoteReplyType
  <2>2. CASE StepDown(r.from, r.term)
    BY <2>1, <2>2, FollowLeaders DEF StepDown, leaderVars
  <2>3. CASE Ignore \/ CountVote(r.from)
    BY <2>3, NoPeersStep DEF Ignore, CountVote, termVars, leaderVars
  <2>4. CASE BecomeLeader(r.from)
    BY <2>1, <2>4 DEF BecomeLeader, PeersStep, LogInv, TypeOK, TermTypes, IndexTypes
  <2> QED
    BY <1>4, <2>2, <2>3, <2>4 DEF sendRequestVote
<1>5. ASSUME NEW c \in appendCalls, AppendEntries1(c)
      PROVE  PeersStep(s)
  <2>1. c.to \in Server
    BY DEF LogInv, TypeOK, AppendTypes, AppendCallType
  <2>2. CASE AppendExpired(c.to, c) \/ AppendBehindSnapshot(c.to, c)
    BY <2>2, NoPeersStep DEF AppendExpired, AppendBehindSnapshot, Exit, Ignore, termVars,
                             leaderVars
  <2>3. CASE /\ AppendTooShort(c.to, c) \/ AppendMismatch(c.to, c) \/ AppendMatch(c.to, c)
             /\ UNCHANGED leaderVars
    BY <2>1, <2>3, FollowLeaders DEF AppendTooShort, AppendMismatch, AppendMatch, leaderVars
  <2> QED
    BY <1>5, <2>2, <2>3 DEF AppendEntries1
<1>6. ASSUME NEW c \in snapCalls, InstallSnapshot(c)
      PROVE  PeersStep(s)
  <2>1. c.to \in Server
    BY DEF LogInv, TypeOK, SnapTypes, SnapCallType
  <2>2. CASE SnapshotExpired(c.to, c)
    BY <2>2, NoPeersStep DEF SnapshotExpired, Ignore, termVars, leaderVars
  <2>3. CASE SnapshotOutdated(c.to, c) \/ SnapshotInstalled(c.to, c)
    BY <2>1, <2>3, FollowLeaders DEF SnapshotOutdated, SnapshotInstalled, leaderVars
  <2> QED
    BY <1>6, <2>2, <2>3 DEF InstallSnapshot
<1>7. ASSUME NEW r \in appendReplies, sendAppendEntries(r)
      PROVE  PeersStep(s)
  <2>1. r.from \in Server
    BY DEF LogInv, TypeOK, AppendTypes, AppendReplyType
  <2>2. CASE StepDown(r.from, r.term)
    BY <2>1, <2>2, FollowLeaders DEF StepDown, leaderVars
  <2>3. CASE Ignore \/ (Backtrack(r.from, r) /\ UNCHANGED termVars)
    BY <2>3, NoPeersStep DEF Ignore, Backtrack, termVars, leaderVars
  <2>4. CASE /\ r.term = m_currentTerm[r.from] /\ m_status[r.from] = "Leader"
             /\ Replicated(r.from, r) /\ UNCHANGED termVars
    <3>1. CASE s = r.from
      BY <2>4, <3>1 DEF PeersStep, termVars
    <3>2. CASE s # r.from
      BY <2>4, <3>2 DEF PeersStep, Replicated, termVars, LogInv, TypeOK, IndexTypes
    <3> QED
      BY <3>1, <3>2
  <2> QED
    BY <1>7, <2>2, <2>3, <2>4 DEF sendAppendEntries
<1>8. ASSUME NEW r \in snapReplies, SnapshotAnswered(r)
      PROVE  PeersStep(s)
  <2>1. r.from \in Server
    BY DEF LogInv, TypeOK, SnapTypes, SnapReplyType
  <2>2. CASE StepDown(r.from, r.term)
    BY <2>1, <2>2, FollowLeaders DEF StepDown, leaderVars
  <2>3. CASE Ignore
    BY <2>3, NoPeersStep DEF Ignore, termVars, leaderVars
  <2>4. CASE /\ r.callTerm = m_currentTerm[r.from] /\ m_status[r.from] = "Leader"
             /\ r.term <= m_currentTerm[r.from] /\ UNCHANGED termVars
             /\ m_matchIndex' = [m_matchIndex EXCEPT ![r.from][r.to] = r.index]
    <3>1. CASE s = r.from
      BY <2>4, <3>1 DEF PeersStep, termVars
    <3>2. CASE s # r.from
      BY <2>4, <3>2 DEF PeersStep, termVars, LogInv, TypeOK, IndexTypes
    <3> QED
      BY <3>1, <3>2
  <2> QED
    BY <1>8, <2>2, <2>3, <2>4 DEF SnapshotAnswered
<1>9. CASE UNCHANGED vars
  BY <1>9, NoPeersStep DEF vars, termVars, leaderVars
<1> QED
  BY <1>1, <1>2, <1>3, <1>4, <1>5, <1>6, <1>7, <1>8, <1>9 DEF Next

\* What a leader believes of its peers they have accepted.
LEMMA NextPeersTruthful ==
    ASSUME LogInv, ElectionInv, ElectionSafety, MatchInv, [Next]_vars
    PROVE  PeersTruthful'
<1> SUFFICES ASSUME NEW s \in Server, NEW p \in Server, m_status'[s] = "Leader", p # s,
                    Alive(p)', m_matchIndex'[s][p] # 0
             PROVE  Accepted(s, p, m_currentTerm[s], m_matchIndex[s][p])'
  BY DEF PeersTruthful
<1>1. Alive(p) /\ CallsTruthful
  BY EndedStays DEF MatchInv
<1>2. ASSUME m_status[s] = "Leader", m_currentTerm'[s] = m_currentTerm[s],
             NEW i \in Nat, i = m_matchIndex'[s][p], i <= End(s),
             Accepted(s, p, m_currentTerm[s], i)
      PROVE  Accepted(s, p, m_currentTerm[s], m_matchIndex[s][p])'
  <2>1. PICK t \in Nat : t = m_currentTerm[s]
    BY ServerAdvances
  <2>2. Win(t, s) \in leaders
    BY <1>2, <2>1 DEF ElectionInv, LeadersWon
  <2>3. Accepted(s, p, t, i)
    BY <1>2, <2>1
  <2>4. Accepted(s, p, t, i)'
    BY <1>1, <1>2, <2>2, <2>3, AcceptedStays
  <2>5. t = m_currentTerm'[s]
    BY <1>2, <2>1
  <2> QED
    BY <1>2, <2>4, <2>5 DEF Accepted, Agree
<1>3. /\ m_matchIndex[s][p] \in Nat /\ m_matchIndex[s][p] <= End(s)
      /\ m_matchIndex \in [Server -> [Server -> Nat]]
  BY DEF LogInv, TypeOK, IndexTypes, PeersInLog
<1>4. m_status[s] = "Leader" /\ m_matchIndex[s][p] # 0
      => Accepted(s, p, m_currentTerm[s], m_matchIndex[s][p])
  BY <1>1 DEF MatchInv, PeersTruthful
<1>5. CASE /\ m_status[s] = "Leader" /\ m_currentTerm'[s] = m_currentTerm[s]
           /\ m_matchIndex'[s][p] = m_matchIndex[s][p]
  BY <1>2, <1>3, <1>4, <1>5
<1>6. CASE m_matchIndex'[s] = [q \in Server |-> 0]
  BY <1>6
<1>7. ASSUME NEW r \in appendReplies, r.from = s, r.term = m_currentTerm[s],
             m_status[s] = "Leader", Replicated(s, r), m_currentTerm'[s] = m_currentTerm[s]
      PROVE  Accepted(s, p, m_currentTerm[s], m_matchIndex[s][p])'
  <2>1. r.upTo \in Nat /\ r.to \in Server /\ r.upTo <= End(s)
    BY <1>7 DEF LogInv, TypeOK, AppendTypes, AppendReplyType, RepliesInLog
  <2>2. CASE m_matchIndex'[s][p] = m_matchIndex[s][p]
    BY <1>5, <1>7, <2>2
  <2>3. CASE m_matchIndex'[s][p] # m_matchIndex[s][p]
    <3>1. p = r.to /\ m_matchIndex'[s][p] = r.upTo
      BY <1>3, <1>7, <2>1, <2>3 DEF Replicated
    <3>2. Accepted(s, p, m_currentTerm[s], r.upTo)
      BY <1>7, <3>1 DEF MatchInv, RepliesTruthful, Replicated
    <3> QED
      BY <1>2, <1>7, <2>1, <3>1, <3>2
  <2> QED
    BY <2>2, <2>3
<1>8. ASSUME NEW r \in snapReplies, r.from = s, r.callTerm = m_currentTerm[s],
             m_status[s] = "Leader", r.term <= m_currentTerm[s],
             m_currentTerm'[s] = m_currentTerm[s],
             m_matchIndex' = [m_matchIndex EXCEPT ![s][r.to] = r.index]
      PROVE  Accepted(s, p, m_currentTerm[s], m_matchIndex[s][p])'
  <2>1. /\ r.index \in Nat /\ r.to \in Server /\ r.index <= End(s)
        /\ r.index <= m_lastSnapshotIncludeIndex[s]
    BY <1>8 DEF LogInv, TypeOK, SnapTypes, SnapReplyType, SnapshotsInLog, MatchInv,
                SnapshotsTruthful
  <2>2. CASE p # r.to
    BY <1>3, <1>5, <1>8, <2>2
  <2>3. CASE p = r.to
    <3>1. m_matchIndex'[s][p] = r.index
      BY <1>3, <1>8, <2>3
    <3>2. m_currentTerm[s] <= m_currentTerm[p] /\ r.index <= End(p)
      BY <1>1, <1>8, <2>3 DEF MatchInv, SnapshotsTruthful
    <3>3. ~(m_lastSnapshotIncludeIndex[s] < r.index)
      BY <2>1, ServerAdvances
    <3>4. Accepted(s, p, m_currentTerm[s], r.index)
      BY <3>2, <3>3 DEF Accepted, Agree
    <3> QED
      BY <1>2, <1>8, <2>1, <3>1, <3>4
  <2> QED
    BY <2>2, <2>3
<1> QED
  BY <1>5, <1>6, <1>7, <1>8, NextPeersStep DEF PeersStep

\* In the beginning nothing is under way and nobody leads.
LEMMA InitMatchInv == Init => MatchInv
BY DEF Init, MatchInv, CallsTruthful, RepliesTruthful, SnapshotsTruthful, PeersTruthful

\* The invariant of replication.
THEOREM MatchInvariant == Spec => []MatchInv
<1>1. MatchInv /\ LogInv /\ ElectionInv /\ [Next]_vars => MatchInv'
  <2> SUFFICES ASSUME MatchInv, LogInv, ElectionInv, [Next]_vars PROVE MatchInv'
    OBVIOUS
  <2>1. ElectionSafety /\ CallsTruthful /\ RepliesTruthful /\ SnapshotsTruthful
    BY InvElectionSafety DEF LogInv, MatchInv
  <2> QED
    BY <2>1, NextCallsTruthful, NextRepliesTruthful, NextSnapshotsTruthful,
       NextPeersTruthful DEF MatchInv
<1>2. UNCHANGED vars => [Next]_vars
  OBVIOUS
<1> QED
  BY <1>1, InitMatchInv, LogInvariant, ElectionInvariant, PTL DEF Spec

\* Entries of the same index and term are the same entry.
LEMMA SameTermSameEntry ==
    ASSUME LogInv, EntryIdentity, NEW s \in Server, NEW p \in Server, NEW i \in Nat,
           m_lastSnapshotIncludeIndex[s] < i, i <= End(s),
           m_lastSnapshotIncludeIndex[p] < i, i <= End(p),
           EntryAt(s, i).term = EntryAt(p, i).term
    PROVE  EntryAt(s, i) = EntryAt(p, i)
<1>1. ASSUME NEW q \in Server, m_lastSnapshotIncludeIndex[q] < i, i <= End(q)
      PROVE  /\ EntryAt(q, i) \in AllEntries /\ EntryAt(q, i) \in Entries
             /\ EntryAt(q, i).index = i
  <2> DEFINE k == SliceIndex(q, i)
  <2>1. m_logs[q] \in Seq(Entries) /\ m_lastSnapshotIncludeIndex[q] \in Nat
    BY DEF LogInv, TypeOK, LogTypes
  <2>2. k \in 1..Len(m_logs[q]) /\ m_lastSnapshotIncludeIndex[q] + k = i
    BY <1>1, <2>1 DEF SliceIndex, End
  <2>3. EntryAt(q, i) = m_logs[q][k]
    BY DEF EntryAt
  <2> HIDE DEF k
  <2>4. m_logs[q][k] \in AllEntries
    BY <2>2, LogIsOfEntries
  <2>5. m_logs[q][k] \in Entries /\ m_logs[q][k].index = i
    BY <2>1, <2>2 DEF LogInv, LogsContiguous
  <2> QED
    BY <2>3, <2>4, <2>5
<1>2. EntryAt(s, i).cmd = EntryAt(p, i).cmd
  BY <1>1 DEF EntryIdentity
<1>3. \A e, f \in Entries :
          e.index = f.index /\ e.term = f.term /\ e.cmd = f.cmd => e = f
  BY DEF Entries
<1> QED
  BY <1>1, <1>2, <1>3

\* What a leader believes a peer has, the peer has, as long as it is in the
\* leader's term: a late request of the same leader takes nothing from a log that
\* a later one has written, and AppendEntries1 may leave the tail uncut.
THEOREM MatchIndexIsTruthful == Spec => []MatchIndexTruthful
<1>1. LogInv /\ MatchInv /\ EntryIdentity => MatchIndexTruthful
  <2> SUFFICES ASSUME LogInv, MatchInv, EntryIdentity, NEW s \in Server, NEW p \in Server,
                      Alive(p), p # s, m_status[s] = "Leader",
                      m_currentTerm[p] = m_currentTerm[s]
               PROVE  LET i == m_matchIndex[s][p] IN
                      /\ i <= LastLogIndex(p)
                      /\ i \in Retained(s) \cap Retained(p)
                         => EntryAt(s, i) = EntryAt(p, i)
    BY DEF MatchIndexTruthful
  <2> DEFINE i == m_matchIndex[s][p]
  <2>1. /\ LastLogIndex(p) = End(p) /\ End(p) \in Nat
        /\ LastLogIndex(s) = End(s) /\ End(s) \in Nat
        /\ i \in Nat /\ m_lastSnapshotIncludeIndex[s] \in Nat
        /\ m_lastSnapshotIncludeIndex[p] \in Nat
    BY LastIsEnd DEF LogInv, TypeOK, IndexTypes, LogTypes
  <2>2. i # 0 => Agree(s, p, i)
    BY DEF MatchInv, PeersTruthful, Accepted
  <2> HIDE DEF i
  <2>3. i <= End(p)
    BY <2>1, <2>2 DEF Agree
  <2>4. ASSUME i \in Retained(s) \cap Retained(p)
        PROVE  EntryAt(s, i) = EntryAt(p, i)
    <3>1. /\ m_lastSnapshotIncludeIndex[s] < i /\ i <= End(s)
          /\ m_lastSnapshotIncludeIndex[p] < i /\ i <= End(p) /\ i # 0
      BY <2>1, <2>4 DEF Retained
    <3>2. EntryAt(s, i).term = EntryAt(p, i).term
      BY <2>2, <3>1 DEF Agree
    <3> QED
      BY <2>1, <3>1, <3>2, SameTermSameEntry
  <2> QED
    BY <2>1, <2>3, <2>4 DEF i
<1> QED
  BY <1>1, LogInvariant, MatchInvariant, OneCommandPerEntry, PTL

-----------------------------------------------------------------------------
(* Rounds *)

\* The peers of round k of s whose answer has not come back.
Awaited(s, k) ==
    {p \in Server :
        \/ \E c \in appendCalls : c.from = s /\ c.round = k /\ c.to = p
        \/ \E r \in appendReplies : r.from = s /\ r.round = k /\ r.to = p}

\* As many servers as round k of s has counted are no longer awaited and have
\* accepted index i of term t.
Counted(s, k, t, i) ==
    \E W \in SUBSET Server :
        /\ appendNums[s][k] <= Cardinality(W)
        /\ \A p \in W : p \notin Awaited(s, k) /\ (p = s \/ Accepted(s, p, t, i))

SameRound(m, n) == m.from = n.from /\ m.round = n.round

\* The requests of a round end at one index, and each peer has one.
OneEachPerRound ==
    /\ \A c, d \in appendCalls :
          SameRound(c, d) => EndOfCall(c) = EndOfCall(d) /\ (c.to = d.to => c = d)
    /\ \A c \in appendCalls, r \in appendReplies :
          SameRound(c, r) => EndOfCall(c) = r.upTo /\ c.to # r.to
    /\ \A q, r \in appendReplies :
          SameRound(q, r) => q.upTo = r.upTo /\ (q.to = r.to => q = r)

\* What is still under way of a round is for the index that it counts.
CountsTruthful ==
    /\ \A c \in appendCalls :
          c.term = m_currentTerm[c.from]
          => Counted(c.from, c.round, c.term, EndOfCall(c))
    /\ \A r \in appendReplies :
          r.success /\ r.term = m_currentTerm[r.from]
          => Counted(r.from, r.round, r.term, r.upTo)

\* Nobody votes in the term that all start with.
VotesHaveTerms == \A v \in votes : v.term >= 1

RoundInv == OneEachPerRound /\ CountsTruthful /\ VotesHaveTerms

\* A request that doHeartBeat sends ends where the log does.
LEMMA ArgsEndInLog ==
    ASSUME LogInv, NEW s \in Server, NEW p \in Server, NEW k \in Rounds,
           ~(m_nextIndex[s][p] <= m_lastSnapshotIncludeIndex[s])
    PROVE  EndOfCall(AppendArgs(s, p, k)) = End(s)
<1>1. m_nextIndex[s][p] \in Nat /\ m_lastSnapshotIncludeIndex[s] \in Nat
  BY DEF LogInv, TypeOK, IndexTypes, LogTypes
<1>2. m_nextIndex[s][p] > m_lastSnapshotIncludeIndex[s]
  BY <1>1
<1> QED
  BY <1>2, AppendArgsInLog DEF EndOfCall

\* A new round sends each peer one request, all to the end of the log, and
\* forgets what the slot's last round left.
LEMMA HeartBeatRound ==
    ASSUME LogInv, NEW s \in Server, NEW k \in Rounds, doHeartBeat(s, k)
    PROVE  /\ \A c \in appendCalls' :
                \/ c \in appendCalls /\ ~(c.from = s /\ c.round = k)
                \/ /\ c.from = s /\ c.round = k /\ EndOfCall(c) = End(s)
                   /\ c.to \in Server /\ c = AppendArgs(s, c.to, k)
           /\ \A r \in appendReplies' :
                r \in appendReplies /\ ~(r.from = s /\ r.round = k)
<1> DEFINE behind == {p \in Server \ {s} :
                        m_nextIndex[s][p] <= m_lastSnapshotIncludeIndex[s]}
<1>1. appendCalls' = Without(appendCalls, s, k) \cup
                {AppendArgs(s, p, k) : p \in Server \ ({s} \cup behind)}
  BY DEF doHeartBeat
<1>2. ASSUME NEW p \in Server \ ({s} \cup behind)
      PROVE  LET c == AppendArgs(s, p, k) IN
             /\ c.from = s /\ c.round = k /\ EndOfCall(c) = End(s)
             /\ c.to = p
  <2>1. ~(m_nextIndex[s][p] <= m_lastSnapshotIncludeIndex[s])
    OBVIOUS
  <2>2. EndOfCall(AppendArgs(s, p, k)) = End(s)
    BY <2>1, ArgsEndInLog
  <2> QED
    BY <2>2 DEF AppendArgs
<1> HIDE DEF behind
<1>3. ASSUME NEW c \in appendCalls'
      PROVE  \/ c \in appendCalls /\ ~(c.from = s /\ c.round = k)
             \/ \E p \in Server \ ({s} \cup behind) : c = AppendArgs(s, p, k)
  BY <1>1 DEF Without
<1>4. \A r \in appendReplies' : r \in appendReplies /\ ~(r.from = s /\ r.round = k)
  BY DEF doHeartBeat, Without
<1>5. ASSUME NEW c \in appendCalls'
      PROVE  \/ c \in appendCalls /\ ~(c.from = s /\ c.round = k)
             \/ /\ c.from = s /\ c.round = k /\ EndOfCall(c) = End(s)
                /\ c.to \in Server /\ c = AppendArgs(s, c.to, k)
  <2>1. CASE \E p \in Server \ ({s} \cup behind) : c = AppendArgs(s, p, k)
    <3>1. PICK p \in Server \ ({s} \cup behind) : c = AppendArgs(s, p, k)
      BY <2>1
    <3> QED
      BY <1>2, <3>1
  <2> QED
    BY <1>3, <2>1
<1> QED
  BY <1>4, <1>5

\* Without a new round only its answers come, and nobody is awaited anew.
LEMMA RoundGoesOn ==
    ASSUME LogInv, [Next]_vars, NEW s \in Server, NEW k \in Rounds, ~doHeartBeat(s, k)
    PROVE  /\ \A c \in appendCalls' : c.from = s /\ c.round = k => c \in appendCalls
           /\ Awaited(s, k)' \subseteq Awaited(s, k)
<1>1. ASSUME NEW c \in appendCalls', c.from = s, c.round = k
      PROVE  c \in appendCalls
  <2> SUFFICES ASSUME c \notin appendCalls PROVE FALSE
    OBVIOUS
  <2>1. PICK q \in Server, p \in Server, j \in Rounds :
            doHeartBeat(q, j) /\ c = AppendArgs(q, p, j)
    BY CallsComeFrom
  <2>2. q = s /\ j = k
    BY <1>1, <2>1 DEF AppendArgs
  <2> QED
    BY <2>1, <2>2
<1>2. ASSUME NEW r \in appendReplies', r.from = s, r.round = k
      PROVE  \/ r \in appendReplies
             \/ \E c \in appendCalls : c.from = s /\ c.round = k /\ c.to = r.to
  BY <1>2, RepliesComeFrom DEF Answers
<1> QED
  BY <1>1, <1>2 DEF Awaited

\* The requests of a round end at one index and go to different peers.
LEMMA NextOneEach ==
    ASSUME LogInv, OneEachPerRound, [Next]_vars
    PROVE  OneEachPerRound'
<1>1. ASSUME NEW s \in Server, NEW k \in Rounds, doHeartBeat(s, k)
      PROVE  OneEachPerRound'
  <2>1. ASSUME NEW c \in appendCalls', NEW d \in appendCalls', SameRound(c, d)
        PROVE  EndOfCall(c) = EndOfCall(d) /\ (c.to = d.to => c = d)
    BY <1>1, <2>1, HeartBeatRound DEF SameRound, OneEachPerRound
  <2>2. ASSUME NEW c \in appendCalls', NEW r \in appendReplies', SameRound(c, r)
        PROVE  EndOfCall(c) = r.upTo /\ c.to # r.to
    BY <1>1, <2>2, HeartBeatRound DEF SameRound, OneEachPerRound
  <2>3. ASSUME NEW q \in appendReplies', NEW r \in appendReplies', SameRound(q, r)
        PROVE  q.upTo = r.upTo /\ (q.to = r.to => q = r)
    BY <1>1, <2>3, HeartBeatRound DEF SameRound, OneEachPerRound
  <2> QED
    BY <2>1, <2>2, <2>3 DEF OneEachPerRound, EndOfCall
<1>2. CASE ~\E s \in Server, k \in Rounds : doHeartBeat(s, k)
  <2>1. appendCalls' \subseteq appendCalls
    BY <1>2, CallsComeFrom
  <2>2. CASE appendReplies' \subseteq appendReplies
    BY <2>1, <2>2 DEF OneEachPerRound, SameRound, EndOfCall
  <2>3. ASSUME NEW r \in appendReplies', r \notin appendReplies
        PROVE  OneEachPerRound'
    <3>1. PICK c \in appendCalls :
              AppendEntries1(c) /\ Answers(r, c) /\ appendCalls' = appendCalls \ {c}
      BY <2>3, RepliesComeFrom
    <3>2. \A q \in appendReplies' : q \in appendReplies \/ q = r
      <4>1. \/ UNCHANGED appendReplies
            \/ \E a : appendReplies' = appendReplies \cup {a}
        <5>1. \/ UNCHANGED appendReplies
              \/ \E t, ok, u : AnswerAppend(c, t, ok, u)
          BY <3>1 DEF AppendEntries1, AppendExpired, AppendTooShort, AppendMismatch,
                      AppendMatch
        <5> QED
          BY <5>1 DEF AnswerAppend
      <4> QED
        BY <2>3, <4>1
    <3>3. ASSUME NEW d \in appendCalls', NEW e \in appendCalls', SameRound(d, e)
          PROVE  EndOfCall(d) = EndOfCall(e) /\ (d.to = e.to => d = e)
      BY <2>1, <3>3 DEF OneEachPerRound
    <3>4. ASSUME NEW d \in appendCalls', NEW q \in appendReplies', SameRound(d, q)
          PROVE  EndOfCall(d) = q.upTo /\ d.to # q.to
      <4>1. CASE q = r
        <5>1. SameRound(d, c) /\ d \in appendCalls /\ d # c
          BY <3>1, <3>4, <4>1 DEF SameRound, Answers
        <5>2. EndOfCall(d) = EndOfCall(c) /\ d.to # c.to
          BY <5>1 DEF OneEachPerRound
        <5> QED
          BY <3>1, <4>1, <5>2 DEF Answers
      <4>2. CASE q \in appendReplies
        BY <2>1, <3>4, <4>2 DEF OneEachPerRound
      <4> QED
        BY <3>2, <4>1, <4>2
    <3>5. ASSUME NEW q \in appendReplies, SameRound(q, r)
          PROVE  q.upTo = r.upTo /\ q.to # r.to
      <4>1. SameRound(c, q)
        BY <3>1, <3>5 DEF SameRound, Answers
      <4>2. EndOfCall(c) = q.upTo /\ c.to # q.to
        BY <4>1 DEF OneEachPerRound
      <4> QED
        BY <3>1, <4>2 DEF Answers
    <3>6. ASSUME NEW p \in appendReplies', NEW q \in appendReplies', SameRound(p, q)
          PROVE  p.upTo = q.upTo /\ (p.to = q.to => p = q)
      <4>1. CASE p \in appendReplies /\ q \in appendReplies
        BY <3>6, <4>1 DEF OneEachPerRound
      <4>2. CASE p = r /\ q = r
        BY <4>2
      <4>3. CASE p = r /\ q \in appendReplies
        BY <3>5, <3>6, <4>3 DEF SameRound
      <4>4. CASE p \in appendReplies /\ q = r
        BY <3>5, <3>6, <4>4
      <4> QED
        BY <3>2, <4>1, <4>2, <4>3, <4>4
    <3> QED
      BY <3>3, <3>4, <3>6 DEF OneEachPerRound, EndOfCall
  <2> QED
    BY <2>2, <2>3
<1> QED
  BY <1>1, <1>2

-----------------------------------------------------------------------------
(* Counts *)

\* The success that the caller of round k of s has just counted.
Counts(s, k, r) ==
    /\ r.from = s /\ r.round = k /\ r.term = m_currentTerm[s] /\ r.success
    /\ appendReplies' = appendReplies \ {r} /\ UNCHANGED appendCalls
    /\ appendNums'[s][k] = 0 \/ appendNums'[s][k] = appendNums[s][k] + 1

\* Counters move by new rounds and by successes only.
LEMMA NextCounts ==
    ASSUME LogInv, [Next]_vars, NEW s \in Server, NEW k \in Rounds, ~doHeartBeat(s, k)
    PROVE  \/ appendNums'[s][k] = appendNums[s][k]
           \/ \E r \in appendReplies : Counts(s, k, r)
<1>1. appendNums \in [Server -> [Rounds -> Nat]]
  BY DEF LogInv, TypeOK, CountTypes
<1>2. ASSUME NEW q \in Server, NEW j \in Rounds, doHeartBeat(q, j)
      PROVE  appendNums'[s][k] = appendNums[s][k]
  <2>1. q # s \/ j # k
    BY <1>2
  <2> QED
    BY <1>1, <1>2, <2>1 DEF doHeartBeat, StartRound
<1>3. ASSUME NEW r \in appendReplies, sendAppendEntries(r)
      PROVE  \/ appendNums'[s][k] = appendNums[s][k]
             \/ \E q \in appendReplies : Counts(s, k, q)
  <2>1. r.from \in Server /\ r.round \in Rounds
    BY DEF LogInv, TypeOK, AppendTypes, AppendReplyType
  <2>2. CASE StepDown(r.from, r.term) \/ Ignore \/ Backtrack(r.from, r)
    BY <2>2 DEF StepDown, Ignore, Backtrack
  <2>3. CASE r.term = m_currentTerm[r.from] /\ Replicated(r.from, r)
    <3>1. CASE r.from = s /\ r.round = k
      BY <1>1, <1>3, <2>3, <3>1 DEF sendAppendEntries, Replicated, Counts, appendNet
    <3>2. CASE ~(r.from = s /\ r.round = k)
      BY <1>1, <2>1, <2>3, <3>2 DEF Replicated
    <3> QED
      BY <3>1, <3>2
  <2> QED
    BY <1>3, <2>2, <2>3 DEF sendAppendEntries
<1>4. CASE \/ \E q \in Server : \/ doElection(q) \/ getApplyLogs(q) \/ Crash(q)
                                \/ \E i \in 1..m_lastApplied[q] : Snapshot(q, i)
                                \/ \E cmd \in Cmds : Start(q, cmd)
           \/ \E t \in snapThreads : leaderSendSnapShot(t)
           \/ \E d \in snapCalls : SnapshotPeerClosed(d) \/ InstallSnapshot(d)
           \/ \E d \in voteCalls : RequestVote(d)
  BY <1>4 DEF doElection, getApplyLogs, Crash, Exit, Snapshot, Start, leaderSendSnapShot,
              SnapshotPeerClosed, InstallSnapshot, SnapshotExpired, SnapshotOutdated,
              SnapshotInstalled, RequestVote, Ignore
<1>5. CASE \/ \E d \in appendCalls : AppendEntries1(d)
           \/ \E r \in voteReplies : sendRequestVote(r)
           \/ \E r \in snapReplies : SnapshotAnswered(r)
  BY <1>5 DEF AppendEntries1, AppendExpired, AppendBehindSnapshot, Exit, Ignore,
              sendRequestVote, CountVote, BecomeLeader, SnapshotAnswered, StepDown
<1>6. CASE UNCHANGED vars
  BY <1>6 DEF vars
<1> QED
  BY <1>2, <1>3, <1>4, <1>5, <1>6 DEF Next

\* A new round has counted its leader.
LEMMA CountedAnew ==
    ASSUME LogInv, CallsTruthful', RepliesTruthful',
           NEW s \in Server, NEW k \in Rounds, doHeartBeat(s, k), NEW t, NEW i
    PROVE  Counted(s, k, t, i)'
<1>1. appendNums'[s][k] = 1
  BY DEF doHeartBeat, StartRound, LogInv, TypeOK, CountTypes
<1>2. s \notin Awaited(s, k)'
  BY DEF Awaited, CallsTruthful, RepliesTruthful
<1>3. Cardinality({s}) = 1
  BY FS_Singleton
<1>4. {s} \in SUBSET Server /\ appendNums'[s][k] <= Cardinality({s})
  BY <1>1, <1>3
<1> QED
  BY <1>2, <1>4 DEF Counted

\* A round that goes on has counted whom it has counted, and the peer whose
\* answer is taken is one more.
LEMMA CountedOn ==
    ASSUME LogInv, ElectionInv, ElectionSafety, CallsTruthful, RepliesTruthful,
           OneEachPerRound, [Next]_vars,
           NEW s \in Server, NEW k \in Rounds, NEW t \in Nat, NEW i \in Nat,
           ~doHeartBeat(s, k), Win(t, s) \in leaders, t = m_currentTerm[s], i <= End(s),
           \A r \in appendReplies : r.from = s /\ r.round = k => r.upTo = i,
           Counted(s, k, t, i)
    PROVE  Counted(s, k, t, i)'
<1>1. PICK W \in SUBSET Server :
          /\ appendNums[s][k] <= Cardinality(W)
          /\ \A p \in W : p \notin Awaited(s, k) /\ (p = s \/ Accepted(s, p, t, i))
  BY DEF Counted
<1>2. Awaited(s, k)' \subseteq Awaited(s, k)
  BY RoundGoesOn
<1>3. \A p \in Server : Accepted(s, p, t, i) => Accepted(s, p, t, i)'
  BY AcceptedStays
<1>4. \A p \in W : p \notin Awaited(s, k)' /\ (p = s \/ Accepted(s, p, t, i)')
  BY <1>1, <1>2, <1>3
<1>5. CASE appendNums'[s][k] = appendNums[s][k]
  BY <1>1, <1>4, <1>5 DEF Counted
<1>6. ASSUME NEW r \in appendReplies, Counts(s, k, r)
      PROVE  Counted(s, k, t, i)'
  <2>1. r.to \in Server /\ r.to \in Awaited(s, k) /\ r.upTo = i
    BY <1>6 DEF Counts, Awaited, LogInv, TypeOK, AppendTypes, AppendReplyType
  <2>2. Accepted(s, r.to, t, i)'
    BY <1>3, <1>6, <2>1 DEF Counts, RepliesTruthful
  <2>3. r.to \notin Awaited(s, k)'
    BY <1>6 DEF Counts, Awaited, OneEachPerRound, SameRound
  <2> DEFINE V == W \cup {r.to}
  <2>4. Cardinality(V) = Cardinality(W) + 1
    BY <1>1, <2>1, OneMoreVoter
  <2>5. Cardinality(W) \in Nat /\ appendNums[s][k] \in Nat
    BY VotersAreFinite DEF LogInv, TypeOK, CountTypes
  <2>6. appendNums'[s][k] <= Cardinality(V)
    BY <1>1, <1>6, <2>4, <2>5 DEF Counts
  <2>7. /\ V \in SUBSET Server
        /\ \A p \in V : p \notin Awaited(s, k)' /\ (p = s \/ Accepted(s, p, t, i)')
    BY <1>4, <2>1, <2>2, <2>3
  <2> HIDE DEF V
  <2> QED
    BY <2>6, <2>7 DEF Counted
<1> QED
  BY <1>5, <1>6, NextCounts

\* Every request and success under way is for what its round counts.
LEMMA NextCountsTruthful ==
    ASSUME LogInv, ElectionInv, ElectionSafety, MatchInv, MatchInv', OneEachPerRound,
           CountsTruthful, [Next]_vars
    PROVE  CountsTruthful'
<1>1. CallsTruthful /\ RepliesTruthful /\ CallsTruthful' /\ RepliesTruthful'
  BY DEF MatchInv
<1>2. ASSUME NEW s \in Server, NEW k \in Rounds, NEW c \in appendCalls,
             c.from = s, c.round = k, c.term = m_currentTerm'[s], ~doHeartBeat(s, k)
      PROVE  Counted(s, k, c.term, EndOfCall(c))'
  <2>1. /\ c.term \in Nat /\ EndOfCall(c) \in Nat /\ EndOfCall(c) <= End(s)
        /\ Win(c.term, s) \in leaders
    BY <1>1, <1>2 DEF LogInv, TypeOK, AppendTypes, AppendCallType, CallsInLog, EndOfCall,
                      CallsTruthful
  <2>2. c.term <= m_currentTerm[s]
    BY <2>1 DEF ElectionInv, LeadersElected, Win
  <2>3. c.term = m_currentTerm[s]
    BY <1>2, <2>1, <2>2, ServerAdvances
  <2>4. Counted(s, k, c.term, EndOfCall(c))
    BY <1>2, <2>3 DEF CountsTruthful
  <2>5. \A r \in appendReplies : r.from = s /\ r.round = k => r.upTo = EndOfCall(c)
    BY <1>2 DEF OneEachPerRound, SameRound
  <2> QED
    BY <1>1, <1>2, <2>1, <2>3, <2>4, <2>5, CountedOn
<1>3. ASSUME NEW s \in Server, NEW k \in Rounds, NEW r \in appendReplies, r.success,
             r.from = s, r.round = k, r.term = m_currentTerm'[s], ~doHeartBeat(s, k)
      PROVE  Counted(s, k, r.term, r.upTo)'
  <2>1. /\ r.term \in Nat /\ r.upTo \in Nat /\ r.upTo <= End(s)
        /\ Win(r.term, s) \in leaders
    BY <1>1, <1>3 DEF LogInv, TypeOK, AppendTypes, AppendReplyType, RepliesInLog,
                      RepliesTruthful
  <2>2. r.term <= m_currentTerm[s]
    BY <2>1 DEF ElectionInv, LeadersElected, Win
  <2>3. r.term = m_currentTerm[s]
    BY <1>3, <2>1, <2>2, ServerAdvances
  <2>4. Counted(s, k, r.term, r.upTo)
    BY <1>3, <2>3 DEF CountsTruthful
  <2>5. \A q \in appendReplies : q.from = s /\ q.round = k => q.upTo = r.upTo
    BY <1>3 DEF OneEachPerRound, SameRound
  <2> QED
    BY <1>1, <1>3, <2>1, <2>3, <2>4, <2>5, CountedOn
<1>4. ASSUME NEW c \in appendCalls', c.term = m_currentTerm'[c.from]
      PROVE  Counted(c.from, c.round, c.term, EndOfCall(c))'
  <2>1. c.from \in Server /\ c.round \in Rounds
    <3>1. AppendTypes'
      BY NextLogInv DEF LogInv, TypeOK
    <3> QED
      BY <3>1 DEF AppendTypes, AppendCallType
  <2>2. CASE doHeartBeat(c.from, c.round)
    BY <1>1, <2>1, <2>2, CountedAnew
  <2>3. CASE ~doHeartBeat(c.from, c.round)
    BY <1>2, <1>4, <2>1, <2>3, RoundGoesOn
  <2> QED
    BY <2>2, <2>3
<1>5. ASSUME NEW r \in appendReplies', r.success, r.term = m_currentTerm'[r.from]
      PROVE  Counted(r.from, r.round, r.term, r.upTo)'
  <2>1. r.from \in Server /\ r.round \in Rounds
    <3>1. AppendTypes'
      BY NextLogInv DEF LogInv, TypeOK
    <3> QED
      BY <3>1 DEF AppendTypes, AppendReplyType
  <2>2. CASE doHeartBeat(r.from, r.round)
    BY <1>1, <2>1, <2>2, CountedAnew
  <2>3. CASE ~doHeartBeat(r.from, r.round) /\ r \in appendReplies
    BY <1>3, <1>5, <2>1, <2>3
  <2>4. CASE ~doHeartBeat(r.from, r.round) /\ r \notin appendReplies
    <3>1. PICK c \in appendCalls : Answers(r, c)
      BY <2>4, RepliesComeFrom
    <3>2. /\ c.from = r.from /\ c.round = r.round /\ c.term = r.term
          /\ EndOfCall(c) = r.upTo
      BY <1>5, <3>1 DEF Answers
    <3> QED
      BY <1>2, <1>5, <2>1, <2>4, <3>2
  <2> QED
    BY <2>2, <2>3, <2>4
<1> QED
  BY <1>4, <1>5 DEF CountsTruthful, EndOfCall

\* Votes are cast in the term of an election, which doElection has counted up.
LEMMA NextVotesHaveTerms ==
    ASSUME LogInv, ElectionInv, VotesHaveTerms, [Next]_vars
    PROVE  VotesHaveTerms'
<1>1. CASE UNCHANGED votes
  BY <1>1 DEF VotesHaveTerms
<1>2. ASSUME NEW s \in Server, doElection(s)
      PROVE  VotesHaveTerms'
  <2>1. m_currentTerm[s] \in Nat
    BY DEF LogInv, TypeOK, TermTypes
  <2> QED
    BY <1>2, <2>1 DEF doElection, VotesHaveTerms
<1>3. ASSUME NEW c \in voteCalls, RequestVote(c)
      PROVE  VotesHaveTerms'
  <2>1. c.term >= 1
    BY DEF ElectionInv, CallsOfCandidates, VotesHaveTerms, Vote
  <2>2. votes' \subseteq
           votes \cup {[term |-> c.term, voter |-> c.to, candidate |-> c.from]}
    <3>1. CASE votes' = votes
      BY <3>1
    <3>2. CASE GrantVote(c.to, c)
      BY <3>2 DEF GrantVote
    <3> QED
      BY <1>3, <3>1, <3>2 DEF RequestVote, RefuseExpired, RefuseVote
  <2>3. ASSUME NEW v \in votes' PROVE v.term >= 1
    <3>1. CASE v \in votes
      BY <3>1 DEF VotesHaveTerms
    <3>2. CASE v = [term |-> c.term, voter |-> c.to, candidate |-> c.from]
      BY <2>1, <3>2
    <3> QED
      BY <2>2, <3>1, <3>2
  <2> QED
    BY <2>3 DEF VotesHaveTerms
<1>4. CASE \/ \E q \in Server : \/ getApplyLogs(q) \/ Crash(q)
                                \/ \E i \in 1..m_lastApplied[q] : Snapshot(q, i)
                                \/ \E cmd \in Cmds : Start(q, cmd)
                                \/ \E k \in Rounds : doHeartBeat(q, k)
           \/ \E t \in snapThreads : leaderSendSnapShot(t)
           \/ \E d \in snapCalls : SnapshotPeerClosed(d) \/ InstallSnapshot(d)
  BY <1>1, <1>4 DEF getApplyLogs, Crash, Exit, Snapshot, Start, doHeartBeat, history,
              leaderSendSnapShot, SnapshotPeerClosed, InstallSnapshot, SnapshotExpired,
              SnapshotOutdated, SnapshotInstalled, Ignore
<1>5. CASE \/ \E d \in appendCalls : AppendEntries1(d)
           \/ \E r \in voteReplies : sendRequestVote(r)
           \/ \E r \in appendReplies : sendAppendEntries(r)
           \/ \E r \in snapReplies : SnapshotAnswered(r)
  BY <1>1, <1>5 DEF AppendEntries1, AppendExpired, AppendBehindSnapshot, Exit, Ignore,
              sendRequestVote, CountVote, BecomeLeader, sendAppendEntries, SnapshotAnswered,
              StepDown, history
<1>6. CASE UNCHANGED vars
  BY <1>1, <1>6 DEF vars, history
<1> QED
  BY <1>2, <1>3, <1>4, <1>5, <1>6 DEF Next

\* So no server leads the term that all start with.
LEMMA LeadersHaveTerms ==
    ASSUME LogInv, ElectionInv, VotesHaveTerms, NEW s \in Server, m_status[s] = "Leader"
    PROVE  m_currentTerm[s] # 0
<1> SUFFICES ASSUME m_currentTerm[s] = 0 PROVE FALSE
  OBVIOUS
<1>1. VotersFor(s, 0) = {}
  BY DEF VotersFor, VotesHaveTerms, Vote
<1>2. Cardinality(VotersFor(s, 0)) = 0
  BY <1>1, FS_EmptySet
<1>3. Cardinality(VotersFor(s, 0)) >= Majority
  BY DEF ElectionInv, LeadersWon, LeadersElected, Win
<1> QED
  BY <1>2, <1>3, MajorityIsHalf

\* The invariant of the rounds.
THEOREM RoundInvariant == Spec => []RoundInv
<1>1. Init => RoundInv
  BY DEF Init, RoundInv, OneEachPerRound, CountsTruthful, VotesHaveTerms
<1>2. RoundInv /\ MatchInv /\ MatchInv' /\ LogInv /\ ElectionInv /\ [Next]_vars
      => RoundInv'
  <2> SUFFICES ASSUME RoundInv, MatchInv, MatchInv', LogInv, ElectionInv, [Next]_vars
               PROVE  RoundInv'
    OBVIOUS
  <2>1. ElectionSafety
    BY InvElectionSafety DEF LogInv
  <2> QED
    BY <2>1, NextOneEach, NextCountsTruthful, NextVotesHaveTerms DEF RoundInv
<1> QED
  BY <1>1, <1>2, LogInvariant, ElectionInvariant, MatchInvariant, PTL DEF Spec

\* The step with which a leader that stays one advances its commit index.
LEMMA CommitStep ==
    ASSUME LogInv, [Next]_vars, NEW s \in Server, m_status'[s] = "Leader",
           m_commitIndex'[s] # m_commitIndex[s]
    PROVE  \E r \in appendReplies :
              /\ r.from = s /\ r.term = m_currentTerm[s] /\ r.success
              /\ appendNums[s][r.round] + 1 >= Majority
              /\ r.lastTerm = m_currentTerm[s]
              /\ r.upTo > m_commitIndex[s] /\ m_commitIndex'[s] = r.upTo
<1>1. m_commitIndex \in [Server -> Nat]
  BY DEF LogInv, TypeOK, IndexTypes
<1>2. CASE m_commitIndex' = m_commitIndex
  BY <1>2
<1>3. ASSUME NEW r \in appendReplies, sendAppendEntries(r)
      PROVE  \/ UNCHANGED m_commitIndex
             \/ /\ r.from = s /\ r.term = m_currentTerm[s] /\ r.success
                /\ appendNums[s][r.round] + 1 >= Majority
                /\ r.lastTerm = m_currentTerm[s]
                /\ r.upTo > m_commitIndex[s] /\ m_commitIndex'[s] = r.upTo
  <2>1. CASE StepDown(r.from, r.term) \/ Ignore \/ Backtrack(r.from, r)
    BY <2>1 DEF StepDown, Ignore, Backtrack, applyVars
  <2>2. CASE r.term = m_currentTerm[r.from] /\ Replicated(r.from, r)
    <3>1. r.from = s
      BY <1>1, <2>2 DEF Replicated
    <3> QED
      BY <1>1, <2>2, <3>1 DEF Replicated, OfThisTerm
  <2> QED
    BY <1>3, <2>1, <2>2 DEF sendAppendEntries
<1>4. ASSUME NEW c \in appendCalls, AppendEntries1(c)
      PROVE  UNCHANGED m_commitIndex
  <2>1. c.to \in Server
    BY DEF LogInv, TypeOK, AppendTypes, AppendCallType
  <2>2. ~(AppendMatch(c.to, c) /\ c.to = s)
    BY <2>1 DEF AppendMatch, Follow, LogInv, TypeOK, TermTypes
  <2>3. AppendMatch(c.to, c) => c.to = s
    BY <1>1, <2>1 DEF AppendMatch
  <2> QED
    BY <1>4, <2>2, <2>3 DEF AppendEntries1, AppendExpired, AppendTooShort, AppendMismatch,
                            AppendBehindSnapshot, Ignore, Exit, applyVars
<1>5. ASSUME NEW c \in snapCalls, InstallSnapshot(c)
      PROVE  UNCHANGED m_commitIndex
  <2>1. c.to \in Server
    BY DEF LogInv, TypeOK, SnapTypes, SnapCallType
  <2>2. ~(SnapshotInstalled(c.to, c) /\ c.to = s)
    BY <2>1 DEF SnapshotInstalled, Follow, LogInv, TypeOK, TermTypes
  <2>3. SnapshotInstalled(c.to, c) => c.to = s
    BY <1>1, <2>1 DEF SnapshotInstalled, CommitTo
  <2> QED
    BY <1>5, <2>2, <2>3 DEF InstallSnapshot, SnapshotExpired, SnapshotOutdated, Ignore,
                            applyVars
<1>6. CASE \/ \E q \in Server : \/ doElection(q) \/ getApplyLogs(q) \/ Crash(q)
                                \/ \E i \in 1..m_lastApplied[q] : Snapshot(q, i)
                                \/ \E cmd \in Cmds : Start(q, cmd)
                                \/ \E k \in Rounds : doHeartBeat(q, k)
           \/ \E t \in snapThreads : leaderSendSnapShot(t)
           \/ \E d \in snapCalls : SnapshotPeerClosed(d)
           \/ \E d \in voteCalls : RequestVote(d)
  BY <1>2, <1>6 DEF doElection, getApplyLogs, Crash, Exit, Snapshot, Start, doHeartBeat,
              leaderSendSnapShot, SnapshotPeerClosed, RequestVote, Ignore, applyVars
<1>7. CASE \/ \E r \in voteReplies : sendRequestVote(r)
           \/ \E r \in snapReplies : SnapshotAnswered(r)
  BY <1>2, <1>7 DEF sendRequestVote, CountVote, BecomeLeader, SnapshotAnswered, StepDown,
              Ignore, applyVars
<1>8. CASE UNCHANGED vars
  BY <1>2, <1>8 DEF vars, applyVars
<1> QED
  BY <1>3, <1>4, <1>5, <1>6, <1>7, <1>8 DEF Next

\* Whoever has accepted what the leader still has under an index holds it, or has
\* moved on.
LEMMA AcceptedHolds ==
    ASSUME LogInv, NEW s \in Server, NEW p \in Server, NEW i \in Nat,
           m_lastSnapshotIncludeIndex[s] < i, i <= End(s),
           EntryAt(s, i).term = m_currentTerm[s],
           p = s \/ Accepted(s, p, m_currentTerm[s], i)
    PROVE  HoldsOrMovedOn(p, i, m_currentTerm[s])
<1>1. /\ LastLogIndex(p) = End(p) /\ End(p) \in Nat
      /\ m_currentTerm[p] \in Nat /\ m_currentTerm[s] \in Nat
      /\ m_lastSnapshotIncludeIndex[p] \in Nat
  BY LastIsEnd DEF LogInv, TypeOK, TermTypes, LogTypes
<1>2. CASE p = s
  BY <1>1, <1>2 DEF HoldsOrMovedOn, Retained
<1>3. CASE /\ m_currentTerm[s] <= m_currentTerm[p]
           /\ m_currentTerm[s] = m_currentTerm[p] => Agree(s, p, i)
  <2>1. CASE m_currentTerm[p] > m_currentTerm[s]
    BY <2>1 DEF HoldsOrMovedOn
  <2>2. CASE Agree(s, p, i) /\ m_lastSnapshotIncludeIndex[p] < i
    BY <1>1, <2>2 DEF Agree, HoldsOrMovedOn, Retained
  <2>3. CASE ~(m_lastSnapshotIncludeIndex[p] < i)
    BY <1>1, <2>3 DEF HoldsOrMovedOn
  <2> QED
    BY <1>1, <1>3, <2>1, <2>2, <2>3
<1> QED
  BY <1>2, <1>3 DEF Accepted

\* A leader advances its commit index only to an entry of its own term that a
\* majority has accepted: sendAppendEntries counts the answers of one round, not
\* the holders of an entry, and what they count for is the end its requests had.
THEOREM CommittedByMajority == Spec => CommitsOnMajority
<1>1. LogInv /\ ElectionInv /\ MatchInv /\ RoundInv /\ [Next]_vars
      => [\A s \in Server :
            /\ m_status[s] = "Leader"
            /\ m_commitIndex'[s] > m_commitIndex[s]
            /\ m_currentTerm'[s] = m_currentTerm[s] /\ m_status'[s] = "Leader"
            => Cardinality({p \in Server :
                  HoldsOrMovedOn(p, m_commitIndex'[s], m_currentTerm[s])})
               >= Majority]_vars
  <2> SUFFICES ASSUME LogInv, ElectionInv, MatchInv, RoundInv, [Next]_vars,
                      NEW s \in Server, m_status[s] = "Leader",
                      m_commitIndex'[s] > m_commitIndex[s], m_status'[s] = "Leader"
               PROVE  Cardinality({p \in Server :
                         HoldsOrMovedOn(p, m_commitIndex'[s], m_currentTerm[s])})
                      >= Majority
    OBVIOUS
  <2>1. m_commitIndex[s] \in Nat /\ m_commitIndex'[s] # m_commitIndex[s]
    BY DEF LogInv, TypeOK, IndexTypes
  <2>2. PICK r \in appendReplies :
              /\ r.from = s /\ r.term = m_currentTerm[s] /\ r.success
              /\ appendNums[s][r.round] + 1 >= Majority
              /\ r.lastTerm = m_currentTerm[s]
              /\ r.upTo > m_commitIndex[s] /\ m_commitIndex'[s] = r.upTo
    BY <2>1, CommitStep
  <2>3. /\ r.upTo \in Nat /\ r.to \in Server /\ r.round \in Rounds /\ r.upTo <= End(s)
        /\ m_lastSnapshotIncludeIndex[s] \in Nat /\ m_lastApplied[s] \in Nat
        /\ appendNums[s][r.round] \in Nat /\ m_currentTerm[s] \in Nat
    BY <2>2 DEF LogInv, TypeOK, AppendTypes, AppendReplyType, RepliesInLog, LogTypes,
                IndexTypes, CountTypes, TermTypes
  <2>4. m_lastSnapshotIncludeIndex[s] < r.upTo
    BY <2>1, <2>2, <2>3 DEF LogInv, PositionsInOrder
  <2>5. EntryAt(s, r.upTo).term = m_currentTerm[s]
    <3>1. r.lastTerm # 0
      BY <2>2, LeadersHaveTerms DEF RoundInv
    <3>2. EndsInItsLog(r)
      BY <2>2 DEF MatchInv, RepliesTruthful
    <3> QED
      BY <2>2, <2>4, <3>1, <3>2 DEF EndsInItsLog
  <2>6. PICK W \in SUBSET Server :
            /\ appendNums[s][r.round] <= Cardinality(W)
            /\ \A p \in W : /\ p \notin Awaited(s, r.round)
                            /\ p = s \/ Accepted(s, p, m_currentTerm[s], r.upTo)
    BY <2>2 DEF RoundInv, CountsTruthful, Counted
  <2> DEFINE V == W \cup {r.to}
             H == {p \in Server : HoldsOrMovedOn(p, r.upTo, m_currentTerm[s])}
  <2>7. r.to \notin W
    BY <2>2, <2>3, <2>6 DEF Awaited
  <2>8. Cardinality(V) = Cardinality(W) + 1 /\ Cardinality(W) \in Nat
    BY <2>3, <2>6, <2>7, OneMoreVoter, VotersAreFinite
  <2>9. ASSUME NEW p \in V
        PROVE  HoldsOrMovedOn(p, r.upTo, m_currentTerm[s])
    <3>1. p \in Server
      BY <2>3
    <3>2. p = s \/ Accepted(s, p, m_currentTerm[s], r.upTo)
      BY <2>2, <2>6 DEF MatchInv, RepliesTruthful
    <3> QED
      BY <2>3, <2>4, <2>5, <3>1, <3>2, AcceptedHolds
  <2>10. V \in SUBSET H /\ H \in SUBSET Server
    BY <2>3, <2>9
  <2> HIDE DEF V, H
  <2>11. Cardinality(V) <= Cardinality(H) /\ Cardinality(H) \in Nat
    BY <2>10, VotersAreFinite
  <2>12. Cardinality(H) >= Majority
    BY <2>2, <2>3, <2>6, <2>8, <2>11, MajorityIsHalf
  <2> QED
    BY <2>2, <2>12 DEF H
<1> QED
  BY <1>1, LogInvariant, ElectionInvariant, MatchInvariant, RoundInvariant, PTL
     DEF Spec, CommitsOnMajority

-----------------------------------------------------------------------------
(* What is replicated is committed: the inductive invariant *)

\* The leader s has committed what it has of its own term up to index i.
NothingDue(s, i) ==
    \A j \in (m_commitIndex[s] + 1)..i : EntryAt(s, j).term # m_currentTerm[s]

\* Behind an entry of its own term a leader has only such entries.
OwnAreLast(s) ==
    \A i, j \in (m_lastSnapshotIncludeIndex[s] + 1)..End(s) :
        i < j /\ EntryAt(s, i).term = m_currentTerm[s]
        => EntryAt(s, j).term = m_currentTerm[s]

\* Of what a peer is known to have, and of what it has been sent, nothing is due.
PeersSettled(s) ==
    \A p \in Server \ {s} :
        NothingDue(s, m_matchIndex[s][p]) /\ NothingDue(s, m_nextIndex[s][p] - 1)

\* A request brings something that is due only behind prevLogIndex and only if
\* it ends with it; once one success of the round is counted nothing is due.
CallsSettled(s) ==
    \A c \in appendCalls : c.from = s /\ c.term = m_currentTerm[s] =>
        /\ NothingDue(s, c.prevLogIndex)
        /\ LastTerm(c) # c.term => NothingDue(s, EndOfCall(c))
        /\ appendNums[s][c.round] = 1 \/ NothingDue(s, EndOfCall(c))

\* The same of answers; a refusal leads back to where nothing is due.
RepliesSettled(s) ==
    \A r \in appendReplies : r.from = s /\ r.term = m_currentTerm[s] =>
        /\ r.success /\ r.lastTerm # r.term => NothingDue(s, r.upTo)
        /\ r.success => appendNums[s][r.round] = 1 \/ NothingDue(s, r.upTo)
        /\ ~r.success /\ r.updateNextIndex # NoUpdate
           => NothingDue(s, r.updateNextIndex - 1)

Settled(s) ==
    OwnAreLast(s) /\ PeersSettled(s) /\ CallsSettled(s) /\ RepliesSettled(s)

\* Only a winner of the term is told where to go back to.
RefusalsToWinners ==
    \A r \in appendReplies :
        ~r.success /\ r.updateNextIndex # NoUpdate => Win(r.term, r.from) \in leaders

\* What an answer that is counted leaves uncommitted of a leader's term: nothing.
CommitInv ==
    /\ RefusalsToWinners
    /\ \A s \in Server : m_status[s] = "Leader" => Settled(s)

\* Two or three servers: every success is a majority's.
ThreeServers == Cardinality(Server) \in {2, 3}

\* With them, one success and the leader are a majority.
LEMMA TwoAreMajority ==
    ASSUME ThreeServers
    PROVE  Majority = 2
<1>1. 2 \div 2 = 1 /\ 3 \div 2 = 1
  OBVIOUS
<1> QED
  BY <1>1 DEF ThreeServers, Majority

-----------------------------------------------------------------------------
(* What stays settled *)

\* Indexes of a process in order, before and after a step.
LEMMA CommitAdvances ==
    ASSUME LogInv, [Next]_vars, NEW s \in Server
    PROVE  /\ m_commitIndex[s] \in Nat /\ m_commitIndex'[s] \in Nat
           /\ m_commitIndex[s] <= m_commitIndex'[s]
           /\ m_lastSnapshotIncludeIndex[s] <= m_commitIndex[s]
           /\ m_lastSnapshotIncludeIndex'[s] <= m_commitIndex'[s]
           /\ m_commitIndex[s] <= End(s)
<1>1. LogInv'
  BY NextLogInv
<1>2. /\ m_commitIndex[s] \in Nat /\ m_commitIndex'[s] \in Nat
      /\ m_lastApplied[s] \in Nat /\ m_lastApplied'[s] \in Nat
  BY <1>1 DEF LogInv, TypeOK, IndexTypes
<1>3. /\ m_lastSnapshotIncludeIndex[s] <= m_lastApplied[s]
      /\ m_lastApplied[s] <= m_commitIndex[s] /\ m_commitIndex[s] <= End(s)
  BY DEF LogInv, PositionsInOrder
<1>4. /\ m_lastSnapshotIncludeIndex'[s] <= m_lastApplied'[s]
      /\ m_lastApplied'[s] <= m_commitIndex'[s]
  BY <1>1 DEF LogInv, PositionsInOrder
<1>5. m_commitIndex[s] <= m_commitIndex'[s]
  BY NextAdvances DEF Advance, PositionsAdvance
<1> QED
  BY <1>2, <1>3, <1>4, <1>5, ServerAdvances

\* A lower index is settled with a higher one.
LEMMA LowerSettled ==
    ASSUME NEW s \in Server, m_commitIndex[s] \in Nat, NEW i \in Int, NEW j \in Int, j <= i,
           NothingDue(s, i)
    PROVE  NothingDue(s, j)
<1>1. \A k \in (m_commitIndex[s] + 1)..j : k \in (m_commitIndex[s] + 1)..i
  OBVIOUS
<1> QED
  BY <1>1 DEF NothingDue

\* What is committed is settled.
LEMMA CommittedSettled ==
    ASSUME NEW s \in Server, m_commitIndex[s] \in Nat, NEW i \in Int, i <= m_commitIndex[s]
    PROVE  NothingDue(s, i)
<1>1. (m_commitIndex[s] + 1)..i = {}
  OBVIOUS
<1> QED
  BY <1>1 DEF NothingDue

\* The server leads its term before and after the step.
Stays(s) ==
    m_status[s] = "Leader" /\ m_status'[s] = "Leader" /\ m_currentTerm'[s] = m_currentTerm[s]

\* What a leader has settled stays so: its log keeps its entries, and a new one
\* comes behind them.
LEMMA SettledStays ==
    ASSUME LogInv, ElectionInv, CallsTruthful, [Next]_vars, NEW s \in Server, Stays(s),
           NEW i \in Int, i <= End(s), NothingDue(s, i)
    PROVE  NothingDue(s, i)'
<1>1. PICK t \in Nat : t = m_currentTerm[s]
  BY ServerAdvances
<1>2. Win(t, s) \in leaders /\ t = m_currentTerm'[s]
  BY <1>1 DEF Stays, ElectionInv, LeadersWon
<1>3. ElectionSafety
  BY InvElectionSafety DEF LogInv
<1>4. ASSUME NEW j \in (m_commitIndex'[s] + 1)..i
      PROVE  EntryAt(s, j)'.term # m_currentTerm'[s]
  <2>1. /\ j \in Nat /\ m_lastSnapshotIncludeIndex'[s] < j /\ j <= End(s)
        /\ j \in (m_commitIndex[s] + 1)..i
    BY CommitAdvances, ServerAdvances
  <2>2. EntryAt(s, j)'.term = EntryAt(s, j).term
    BY <1>2, <1>3, <2>1, WinnersEntryStays
  <2>3. EntryAt(s, j).term # m_currentTerm[s]
    BY <2>1 DEF NothingDue
  <2> QED
    BY <1>1, <1>2, <2>2, <2>3
<1> QED
  BY <1>4 DEF NothingDue

\* A leader appends entries of its own term only.
LEMMA OwnStayLast ==
    ASSUME LogInv, ElectionInv, CallsTruthful, [Next]_vars, NEW s \in Server, Stays(s),
           OwnAreLast(s)
    PROVE  OwnAreLast(s)'
<1>1. PICK t \in Nat : t = m_currentTerm[s]
  BY ServerAdvances
<1>2. Win(t, s) \in leaders /\ t = m_currentTerm'[s]
  BY <1>1 DEF Stays, ElectionInv, LeadersWon
<1>3. ElectionSafety
  BY InvElectionSafety DEF LogInv
<1>4. ASSUME NEW j \in Nat, m_lastSnapshotIncludeIndex'[s] < j, j <= End(s)
      PROVE  EntryAt(s, j)'.term = EntryAt(s, j).term
  BY <1>2, <1>3, <1>4, WinnersEntryStays
<1>5. ASSUME NEW j \in Nat, End(s) < j, j <= End(s)'
      PROVE  EntryAt(s, j)'.term = t
  <2>1. /\ m_logs[s] \in Seq(Entries) /\ m_lastSnapshotIncludeIndex[s] \in Nat
        /\ m_logs \in [Server -> Seq(Entries)]
        /\ m_lastSnapshotIncludeIndex \in [Server -> Nat]
    BY DEF LogInv, TypeOK, LogTypes
  <2>2. CASE SameLog(s)
    <3>1. End(s)' = End(s)
      BY <2>2 DEF SameLog, End
    <3> QED
      BY <1>5, <3>1, ServerAdvances
  <2>3. ASSUME NEW cmd \in Cmds, Start(s, cmd)
        PROVE  EntryAt(s, j)'.term = t
    <3>1. /\ m_logs'[s] = Append(m_logs[s], NewEntry(s, cmd))
          /\ m_lastSnapshotIncludeIndex'[s] = m_lastSnapshotIncludeIndex[s]
      BY <2>1, <2>3 DEF Start
    <3>2. PICK n \in Nat : n = Len(m_logs[s])
      BY <2>1
    <3>3. End(s)' = End(s) + 1
      BY <2>1, <3>1 DEF End
    <3>4. End(s) = m_lastSnapshotIncludeIndex[s] + n
      BY <3>2 DEF End
    <3>5. j - m_lastSnapshotIncludeIndex[s] = n + 1
      BY <1>5, <2>1, <3>2, <3>3, <3>4
    <3>6. EntryAt(s, j)' = Append(m_logs[s], NewEntry(s, cmd))[n + 1]
      BY <3>1, <3>5 DEF EntryAt, SliceIndex
    <3>7. EntryAt(s, j)' = NewEntry(s, cmd)
      BY <2>1, <3>2, <3>6
    <3> QED
      BY <1>1, <3>7 DEF NewEntry
  <2>4. ASSUME NEW k \in 1..m_lastApplied[s], Snapshot(s, k)
        PROVE  EntryAt(s, j)'.term = t
    <3>1. /\ m_logs'[s] = KeptAfter(s, k) /\ m_lastSnapshotIncludeIndex'[s] = k
          /\ m_lastSnapshotIncludeIndex[s] < k /\ k <= m_commitIndex[s]
      BY <2>1, <2>4 DEF Snapshot
    <3>2. k \in m_lastSnapshotIncludeIndex[s]..End(s)
      BY <3>1, CommitAdvances, ServerAdvances
    <3>3. k + Len(KeptAfter(s, k)) = End(s)
      BY <3>2, KeptInPlace DEF LogInv, TypeOK
    <3>4. End(s)' = End(s)
      BY <3>1, <3>3 DEF End
    <3> QED
      BY <1>5, <3>4, ServerAdvances
  <2> QED
    BY <2>2, <2>3, <2>4, NextLogStep DEF LogStep, Stays
<1>6. ASSUME NEW i \in (m_lastSnapshotIncludeIndex'[s] + 1)..End(s)',
             NEW j \in (m_lastSnapshotIncludeIndex'[s] + 1)..End(s)',
             i < j, EntryAt(s, i)'.term = t
      PROVE  EntryAt(s, j)'.term = t
  <2>1. /\ i \in Nat /\ j \in Nat /\ m_lastSnapshotIncludeIndex'[s] < i
        /\ m_lastSnapshotIncludeIndex'[s] < j /\ i <= End(s)' /\ j <= End(s)'
    BY ServerAdvances
  <2>2. CASE End(s) < j
    BY <1>5, <2>1, <2>2
  <2>3. CASE ~(End(s) < j)
    <3>1. j <= End(s) /\ i <= End(s)
      BY <1>6, <2>1, <2>3, ServerAdvances
    <3>2. EntryAt(s, i).term = t
      BY <1>4, <1>6, <2>1, <3>1
    <3>3. /\ i \in (m_lastSnapshotIncludeIndex[s] + 1)..End(s)
          /\ j \in (m_lastSnapshotIncludeIndex[s] + 1)..End(s)
      BY <2>1, <3>1, ServerAdvances
    <3>4. EntryAt(s, j).term = t
      BY <1>1, <1>6, <3>2, <3>3 DEF OwnAreLast
    <3> QED
      BY <1>4, <2>1, <3>1, <3>4
  <2> QED
    BY <2>2, <2>3
<1> QED
  BY <1>2, <1>6 DEF OwnAreLast

-----------------------------------------------------------------------------
(* What a step does to a leader *)

\* The server takes the answer r to a request of its term.
Takes(s, r) ==
    /\ r.from = s /\ r.term = m_currentTerm[s]
    /\ appendReplies' = appendReplies \ {r} /\ UNCHANGED appendCalls

\* The answer to a snapshot sets the indexes of its peer.
TakesSnapshot(s, r) ==
    /\ r.from = s
    /\ m_matchIndex' = [m_matchIndex EXCEPT ![s][r.to] = r.index]
    /\ m_nextIndex' = [m_nextIndex EXCEPT ![s][r.to] = r.index + 1]
    /\ UNCHANGED <<appendNums, appendCalls, appendReplies>>

\* The ways a step may treat the indexes and counters of s.
IndexStep(s) ==
    \/ /\ m_nextIndex'[s] = m_nextIndex[s] /\ m_matchIndex'[s] = m_matchIndex[s]
       /\ \A k \in Rounds : ~doHeartBeat(s, k) => appendNums'[s][k] = appendNums[s][k]
    \/ \E r \in appendReplies : Takes(s, r) /\ (Backtrack(s, r) \/ Replicated(s, r))
    \/ \E r \in snapReplies : TakesSnapshot(s, r)

\* The server wins with the vote it takes.
Elected(s) ==
    /\ BecomeLeader(s) /\ UNCHANGED appendCalls /\ UNCHANGED appendReplies
    /\ \E r \in Granted : r.from = s /\ r.term = m_currentTerm[s]

\* A server that leads after a step has just been elected or did before.
LeaderStep(s) ==
    \/ Elected(s)
    \/ Stays(s) /\ IndexStep(s)

\* A step that leaves terms, status, indexes and counters alone.
LEMMA NoLeaderStep ==
    ASSUME UNCHANGED <<m_currentTerm, m_status, m_nextIndex, m_matchIndex, appendNums>>,
           NEW s \in Server, m_status'[s] = "Leader"
    PROVE  LeaderStep(s)
BY DEF LeaderStep, Stays, IndexStep

\* A server that follows does not lead, and nobody else is touched.
LEMMA FollowLeaderStep ==
    ASSUME LogInv, NEW q \in Server, NEW t, Follow(q, t), UNCHANGED leaderVars,
           UNCHANGED appendNums, NEW s \in Server, m_status'[s] = "Leader"
    PROVE  LeaderStep(s)
BY DEF Follow, LeaderStep, Stays, IndexStep, leaderVars, LogInv, TypeOK, TermTypes

\* A new round sets its own counter and no index.
LEMMA HeartBeatLeaderStep ==
    ASSUME LogInv, NEW q \in Server, NEW j \in Rounds, doHeartBeat(q, j),
           NEW s \in Server, m_status'[s] = "Leader"
    PROVE  LeaderStep(s)
<1>1. /\ UNCHANGED <<m_currentTerm, m_status, m_nextIndex, m_matchIndex>>
      /\ appendNums' = [appendNums EXCEPT ![q][j] = 1]
      /\ appendNums \in [Server -> [Rounds -> Nat]]
  BY DEF doHeartBeat, StartRound, termVars, leaderVars, LogInv, TypeOK, CountTypes
<1>2. ASSUME NEW k \in Rounds, ~doHeartBeat(s, k)
      PROVE  appendNums'[s][k] = appendNums[s][k]
  <2>1. q # s \/ j # k
    BY <1>2
  <2> QED
    BY <1>1, <2>1
<1> QED
  BY <1>1, <1>2 DEF LeaderStep, Stays, IndexStep

\* The answers to requests for votes.
LEMMA VoteLeaderStep ==
    ASSUME LogInv, NEW r \in voteReplies, sendRequestVote(r),
           NEW s \in Server, m_status'[s] = "Leader"
    PROVE  LeaderStep(s)
<1>1. r.from \in Server
  BY DEF LogInv, TypeOK, VoteTypes, VoteReplyType
<1>2. CASE StepDown(r.from, r.term)
  BY <1>1, <1>2, FollowLeaderStep DEF StepDown
<1>3. CASE Ignore \/ CountVote(r.from)
  BY <1>3, NoLeaderStep DEF Ignore, CountVote, termVars, leaderVars
<1>4. CASE BecomeLeader(r.from) /\ r.term = m_currentTerm[r.from] /\ r.voteGranted
  <2>1. CASE s = r.from
    BY <1>4, <2>1 DEF sendRequestVote, appendNet, LeaderStep, Elected, Granted
  <2>2. CASE s # r.from
    BY <1>1, <1>4, <2>2 DEF BecomeLeader, LeaderStep, Stays, IndexStep, LogInv, TypeOK,
                            TermTypes, IndexTypes
  <2> QED
    BY <2>1, <2>2
<1> QED
  BY <1>2, <1>3, <1>4 DEF sendRequestVote

\* The answers to append requests.
LEMMA AppendLeaderStep ==
    ASSUME LogInv, NEW r \in appendReplies, sendAppendEntries(r),
           NEW s \in Server, m_status'[s] = "Leader"
    PROVE  LeaderStep(s)
<1>1. r.from \in Server /\ r.round \in Rounds
  BY DEF LogInv, TypeOK, AppendTypes, AppendReplyType
<1>2. CASE StepDown(r.from, r.term)
  BY <1>1, <1>2, FollowLeaderStep DEF StepDown
<1>3. CASE Ignore
  BY <1>3, NoLeaderStep DEF Ignore, termVars, leaderVars
<1>4. CASE /\ r.term = m_currentTerm[r.from] /\ m_status[r.from] = "Leader"
           /\ Backtrack(r.from, r) \/ Replicated(r.from, r)
           /\ UNCHANGED termVars
  <2>1. /\ appendReplies' = appendReplies \ {r} /\ UNCHANGED appendCalls
        /\ m_status[s] = "Leader" /\ Stays(s)
    BY <1>4 DEF sendAppendEntries, termVars, Stays
  <2>2. CASE s = r.from
    BY <1>4, <2>1, <2>2 DEF LeaderStep, IndexStep, Takes
  <2>3. CASE s # r.from
    <3>1. m_nextIndex'[s] = m_nextIndex[s] /\ m_matchIndex'[s] = m_matchIndex[s]
      BY <1>1, <1>4, <2>3 DEF Backtrack, Replicated, LogInv, TypeOK, IndexTypes
    <3>2. appendNums'[s] = appendNums[s]
      BY <1>1, <1>4, <2>3 DEF Backtrack, Replicated, LogInv, TypeOK, CountTypes
    <3> QED
      BY <2>1, <3>1, <3>2 DEF LeaderStep, IndexStep
  <2> QED
    BY <2>2, <2>3
<1> QED
  BY <1>2, <1>3, <1>4 DEF sendAppendEntries

\* The answers to snapshots.
LEMMA SnapshotLeaderStep ==
    ASSUME LogInv, NEW r \in snapReplies, SnapshotAnswered(r),
           NEW s \in Server, m_status'[s] = "Leader"
    PROVE  LeaderStep(s)
<1>1. r.from \in Server
  BY DEF LogInv, TypeOK, SnapTypes, SnapReplyType
<1>2. CASE StepDown(r.from, r.term)
  BY <1>1, <1>2, FollowLeaderStep DEF StepDown
<1>3. CASE Ignore
  BY <1>3, NoLeaderStep DEF Ignore, termVars, leaderVars
<1>4. CASE TakesSnapshot(r.from, r) /\ UNCHANGED termVars
  <2>1. Stays(s)
    BY <1>4 DEF termVars, Stays
  <2>2. CASE s = r.from
    BY <1>4, <2>1, <2>2 DEF LeaderStep, IndexStep
  <2>3. CASE s # r.from
    BY <1>1, <1>4, <2>1, <2>3 DEF LeaderStep, IndexStep, TakesSnapshot, LogInv, TypeOK,
                                  IndexTypes
  <2> QED
    BY <2>2, <2>3
<1> QED
  BY <1>2, <1>3, <1>4 DEF SnapshotAnswered, TakesSnapshot, appendNet

\* Nobody comes to lead, or learns of a peer, in another way.
LEMMA NextLeaderStep ==
    ASSUME LogInv, [Next]_vars, NEW s \in Server, m_status'[s] = "Leader"
    PROVE  LeaderStep(s)
<1>1. CASE \/ \E q \in Server : \/ getApplyLogs(q) \/ Crash(q)
                                \/ \E i \in 1..m_lastApplied[q] : Snapshot(q, i)
                                \/ \E cmd \in Cmds : Start(q, cmd)
           \/ \E t \in snapThreads : leaderSendSnapShot(t)
           \/ \E d \in snapCalls : SnapshotPeerClosed(d)
  BY <1>1, NoLeaderStep DEF getApplyLogs, Crash, Exit, Snapshot, Start,
              leaderSendSnapShot, SnapshotPeerClosed, Ignore, termVars, leaderVars
<1>2. CASE \E q \in Server : doElection(q)
  BY <1>2 DEF doElection, LeaderStep, Stays, IndexStep, leaderVars, LogInv, TypeOK, TermTypes
<1>3. ASSUME NEW c \in voteCalls, RequestVote(c)
      PROVE  LeaderStep(s)
  <2>1. c.to \in Server /\ UNCHANGED leaderVars /\ UNCHANGED appendNums
    BY <1>3 DEF RequestVote, LogInv, TypeOK, VoteTypes, VoteCallType
  <2>2. CASE UNCHANGED termVars
    BY <2>1, <2>2, NoLeaderStep DEF termVars, leaderVars
  <2>3. CASE Follow(c.to, c.term)
    BY <2>1, <2>3, FollowLeaderStep
  <2>4. CASE GrantVote(c.to, c)
    <3>1. c.term \in Nat /\ m_currentTerm[c.to] \in Nat /\ c.term >= m_currentTerm[c.to]
      BY <2>1, <2>4 DEF GrantVote, Grants, LogInv, TypeOK, VoteTypes, VoteCallType, TermTypes
    <3>2. /\ m_currentTerm' = [m_currentTerm EXCEPT ![c.to] = c.term]
          /\ m_status' = [m_status EXCEPT
                  ![c.to] = IF c.term > m_currentTerm[c.to] THEN "Follower" ELSE @]
      BY <2>4 DEF GrantVote
    <3>3. m_currentTerm \in [Server -> Nat] /\ DOMAIN m_status = Server
      BY DEF LogInv, TypeOK, TermTypes
    <3>4. m_status[s] = "Leader" /\ m_currentTerm'[s] = m_currentTerm[s]
      BY <1>3, <2>1, <3>1, <3>2, <3>3
    <3> QED
      BY <2>1, <3>4 DEF LeaderStep, Stays, IndexStep, leaderVars
  <2> QED
    BY <1>3, <2>2, <2>3, <2>4 DEF RequestVote, RefuseExpired, RefuseVote
<1>4. ASSUME NEW c \in appendCalls, AppendEntries1(c)
      PROVE  LeaderStep(s)
  <2>1. c.to \in Server
    BY DEF LogInv, TypeOK, AppendTypes, AppendCallType
  <2>2. CASE AppendExpired(c.to, c) \/ AppendBehindSnapshot(c.to, c)
    BY <2>2, NoLeaderStep DEF AppendExpired, AppendBehindSnapshot, Exit, Ignore, termVars,
                             leaderVars
  <2>3. CASE /\ AppendTooShort(c.to, c) \/ AppendMismatch(c.to, c) \/ AppendMatch(c.to, c)
             /\ UNCHANGED leaderVars /\ UNCHANGED appendNums
    BY <2>1, <2>3, FollowLeaderStep DEF AppendTooShort, AppendMismatch, AppendMatch
  <2> QED
    BY <1>4, <2>2, <2>3 DEF AppendEntries1
<1>5. ASSUME NEW c \in snapCalls, InstallSnapshot(c)
      PROVE  LeaderStep(s)
  <2>1. c.to \in Server
    BY DEF LogInv, TypeOK, SnapTypes, SnapCallType
  <2>2. CASE SnapshotExpired(c.to, c)
    BY <2>2, NoLeaderStep DEF SnapshotExpired, Ignore, termVars, leaderVars
  <2>3. CASE SnapshotOutdated(c.to, c) \/ SnapshotInstalled(c.to, c)
    BY <2>1, <2>3, FollowLeaderStep DEF SnapshotOutdated, SnapshotInstalled
  <2> QED
    BY <1>5, <2>2, <2>3 DEF InstallSnapshot
<1>6. CASE UNCHANGED vars
  BY <1>6, NoLeaderStep DEF vars, termVars, leaderVars
<1>7. ASSUME NEW q \in Server, NEW k \in Rounds, doHeartBeat(q, k)
      PROVE  LeaderStep(s)
  BY <1>7, HeartBeatLeaderStep
<1> QED
  BY <1>1, <1>2, <1>3, <1>4, <1>5, <1>6, <1>7, VoteLeaderStep, AppendLeaderStep,
     SnapshotLeaderStep DEF Next

-----------------------------------------------------------------------------
(* A new leader *)

\* Who is elected has not won its term before.
LEMMA ElectedAnew ==
    ASSUME LogInv, ElectionInv, NEW s \in Server, Elected(s)
    PROVE  Win(m_currentTerm[s], s) \notin leaders
<1> SUFFICES ASSUME Win(m_currentTerm[s], s) \in leaders PROVE FALSE
  OBVIOUS
<1>1. PICK r \in Granted : r.from = s /\ r.term = m_currentTerm[s]
  BY DEF Elected
<1>2. /\ AllCounted(s) <= Cardinality(Taken(s))
      /\ Cardinality(Taken(s)) + 1 <= Cardinality(Server)
      /\ Cardinality(Taken(s)) \in Nat
  BY <1>1, TakenOnce DEF LogInv
<1>3. AllCounted(s) = votedNum[s] + Majority
  BY DEF AllCounted
<1>4. votedNum[s] \in Nat /\ votedNum[s] + 1 >= Majority
  BY DEF Elected, BecomeLeader, LogInv, TypeOK, CountTypes
<1> QED
  BY <1>2, <1>3, <1>4, MajorityIsHalf

\* So it has no entry of its term.
LEMMA NoneOfItsTerm ==
    ASSUME LogInv, ElectionInv, ElectionInv', EntryInv, [Next]_vars, NEW s \in Server,
           Elected(s), NEW j \in (m_lastSnapshotIncludeIndex[s] + 1)..End(s)
    PROVE  EntryAt(s, j).term # m_currentTerm[s]
<1> SUFFICES ASSUME EntryAt(s, j).term = m_currentTerm[s] PROVE FALSE
  OBVIOUS
<1>1. EntryAt(s, j) \in AllEntries
  <2>1. PICK n \in Nat : n = Len(m_logs[s])
    BY DEF LogInv, TypeOK, LogTypes
  <2>2. End(s) = m_lastSnapshotIncludeIndex[s] + n /\ m_lastSnapshotIncludeIndex[s] \in Nat
    BY <2>1 DEF End, LogInv, TypeOK, LogTypes
  <2>3. j - m_lastSnapshotIncludeIndex[s] \in 1..n
    BY <2>2
  <2> QED
    BY <2>1, <2>3, LogIsOfEntries DEF EntryAt, SliceIndex
<1>2. PICK l \in leaders : l.term = m_currentTerm[s]
  BY <1>1 DEF EntryInv, EntriesOwned
<1>3. Win(m_currentTerm[s], s) \in leaders' /\ l \in leaders'
  BY DEF Elected, BecomeLeader, Win
<1>4. ElectionSafety'
  <2>1. TypeOK'
    BY NextLogInv DEF LogInv
  <2>2. (TypeOK /\ ElectionInv => ElectionSafety)'
    BY InvElectionSafety, PTL
  <2> QED
    BY <2>1, <2>2
<1>5. l.leader = s
  BY <1>2, <1>3, <1>4 DEF ElectionSafety, Win
<1>6. l \in [term : Nat, leader : Server]
  BY DEF LogInv, TypeOK, HistoryTypes
<1>7. l = Win(m_currentTerm[s], s)
  BY <1>2, <1>5, <1>6 DEF Win
<1> QED
  BY <1>7, ElectedAnew

\* Nothing of the new leader's term is under way or in its log.
LEMMA ElectedSettled ==
    ASSUME LogInv, ElectionInv, ElectionInv', EntryInv, MatchInv, RefusalsToWinners,
           [Next]_vars, NEW s \in Server, Elected(s)
    PROVE  Settled(s)'
<1>1. /\ m_currentTerm' = m_currentTerm /\ m_logs' = m_logs /\ m_commitIndex' = m_commitIndex
      /\ m_lastSnapshotIncludeIndex' = m_lastSnapshotIncludeIndex
      /\ appendCalls' = appendCalls /\ appendReplies' = appendReplies
  BY DEF Elected, BecomeLeader, logVars, applyVars
<1>2. End(s)' = End(s) /\ \A j : EntryAt(s, j)' = EntryAt(s, j)
  BY <1>1 DEF End, EntryAt, SliceIndex
<1>3. \A j \in (m_lastSnapshotIncludeIndex[s] + 1)..End(s) :
          EntryAt(s, j).term # m_currentTerm[s]
  BY NoneOfItsTerm
<1>4. Win(m_currentTerm[s], s) \notin leaders
  BY ElectedAnew
<1>5. OwnAreLast(s)'
  BY <1>1, <1>2, <1>3 DEF OwnAreLast
<1>6. NothingDue(s, End(s))'
  <2>1. ASSUME NEW j \in (m_commitIndex[s] + 1)..End(s)
        PROVE  EntryAt(s, j).term # m_currentTerm[s]
    <3>1. j \in (m_lastSnapshotIncludeIndex[s] + 1)..End(s)
      BY CommitAdvances, ServerAdvances
    <3> QED
      BY <1>3, <3>1
  <2> QED
    BY <1>1, <1>2, <2>1 DEF NothingDue
<1>7. NothingDue(s, 0)'
  <2>1. (m_commitIndex[s] + 1)..0 = {}
    BY CommitAdvances
  <2> QED
    BY <1>1, <2>1 DEF NothingDue
<1>8. PeersSettled(s)'
  <2>1. LastLogIndex(s) = End(s) /\ End(s) \in Nat
    BY LastIsEnd DEF LogInv, TypeOK
  <2>2. /\ m_matchIndex'[s] = [p \in Server |-> 0]
        /\ m_nextIndex'[s] = [p \in Server |-> End(s) + 1]
    BY <2>1 DEF Elected, BecomeLeader, LogInv, TypeOK, IndexTypes
  <2>3. ASSUME NEW p \in Server
        PROVE  m_matchIndex'[s][p] = 0 /\ m_nextIndex'[s][p] - 1 = End(s)'
    BY <1>2, <2>1, <2>2
  <2> QED
    BY <1>6, <1>7, <2>3 DEF PeersSettled, NothingDue
<1>9. CallsSettled(s)'
  <2>1. \A c \in appendCalls : ~(c.from = s /\ c.term = m_currentTerm[s])
    BY <1>4 DEF MatchInv, CallsTruthful
  <2> QED
    BY <1>1, <2>1 DEF CallsSettled
<1>10. RepliesSettled(s)'
  <2>1. \A r \in appendReplies :
            r.from = s /\ r.term = m_currentTerm[s]
            => ~r.success /\ r.updateNextIndex = NoUpdate
    BY <1>4 DEF MatchInv, RepliesTruthful, RefusalsToWinners
  <2> QED
    BY <1>1, <2>1 DEF RepliesSettled
<1> QED
  BY <1>5, <1>8, <1>9, <1>10 DEF Settled

-----------------------------------------------------------------------------
(* Requests and answers of a leader *)

\* A refusal tells the sender to go back to behind prevLogIndex or before, in
\* the sender's term.
LEMMA RefusalGoesBack ==
    ASSUME LogInv, NEW c \in appendCalls, AppendEntries1(c),
           NEW r \in appendReplies', r \notin appendReplies, ~r.success,
           r.updateNextIndex # NoUpdate
    PROVE  /\ r.term = c.term /\ r.from = c.from
           /\ r.updateNextIndex \in Nat /\ r.updateNextIndex - 1 <= c.prevLogIndex
<1>1. /\ c.to \in Server /\ c.prevLogIndex \in Nat /\ End(c.to) \in Nat
      /\ LastLogIndex(c.to) = End(c.to) /\ m_lastSnapshotIncludeIndex[c.to] \in Nat
  BY LastIsEnd DEF LogInv, TypeOK, AppendTypes, AppendCallType, LogTypes
<1>2. CASE AppendExpired(c.to, c)
  BY <1>2 DEF AppendExpired, AnswerAppend
<1>3. CASE AppendTooShort(c.to, c)
  <2>1. /\ c.prevLogIndex > LastLogIndex(c.to)
        /\ r.term = c.term /\ r.from = c.from /\ r.updateNextIndex = LastLogIndex(c.to) + 1
    BY <1>3 DEF AppendTooShort, AnswerAppend, EndOfLog
  <2> QED
    BY <1>1, <2>1
<1>4. CASE AppendMismatch(c.to, c)
  <2>1. PICK u \in m_lastSnapshotIncludeIndex[c.to]..c.prevLogIndex :
            AnswerAppend(c, c.term, FALSE, u)
    BY <1>4 DEF AppendMismatch
  <2>2. r.term = c.term /\ r.from = c.from /\ r.updateNextIndex = u
    BY <2>1 DEF AnswerAppend
  <2> QED
    BY <1>1, <2>1, <2>2
<1>5. CASE AppendMatch(c.to, c)
  BY <1>5 DEF AppendMatch, AnswerAppend
<1>6. CASE UNCHANGED appendReplies
  BY <1>6
<1> QED
  BY <1>2, <1>3, <1>4, <1>5, <1>6 DEF AppendEntries1

\* Refusals stay with winners.
LEMMA NextRefusals ==
    ASSUME LogInv, CallsTruthful, RefusalsToWinners, [Next]_vars
    PROVE  RefusalsToWinners'
<1> SUFFICES ASSUME NEW r \in appendReplies', ~r.success, r.updateNextIndex # NoUpdate
             PROVE  Win(r.term, r.from) \in leaders'
  BY DEF RefusalsToWinners, NoUpdate
<1>1. leaders \subseteq leaders'
  BY WinnersStay
<1>2. CASE r \in appendReplies
  BY <1>1, <1>2 DEF RefusalsToWinners
<1>3. CASE r \notin appendReplies
  <2>1. PICK c \in appendCalls : AppendEntries1(c)
    BY <1>3, RepliesComeFrom
  <2>2. r.term = c.term /\ r.from = c.from
    BY <1>3, <2>1, RefusalGoesBack
  <2> QED
    BY <1>1, <2>2 DEF CallsTruthful
<1> QED
  BY <1>2, <1>3

\* A request that does not end with an entry of the leader's term has none, and
\* what is before it is settled.
LEMMA NewCallSettled ==
    ASSUME LogInv, NEW s \in Server, NEW p \in Server \ {s}, NEW k \in Rounds,
           m_status[s] = "Leader", OwnAreLast(s), PeersSettled(s),
           m_nextIndex[s][p] > m_lastSnapshotIncludeIndex[s]
    PROVE  LET c == AppendArgs(s, p, k) IN
           /\ NothingDue(s, c.prevLogIndex)
           /\ LastTerm(c) # c.term => NothingDue(s, EndOfCall(c))
<1>1. PICK c : c = AppendArgs(s, p, k)
  OBVIOUS
<1>2. /\ c.prevLogIndex = m_nextIndex[s][p] - 1 /\ c.from = s /\ c.term = m_currentTerm[s]
  BY <1>1 DEF AppendArgs
<1>3. NothingDue(s, c.prevLogIndex)
  BY <1>2 DEF PeersSettled
<1>4. /\ m_nextIndex[s][p] \in Nat /\ m_lastSnapshotIncludeIndex[s] \in Nat
      /\ m_commitIndex[s] \in Nat /\ End(s) \in Nat
      /\ m_lastSnapshotIncludeIndex[s] <= m_commitIndex[s]
  BY EndIsNat DEF LogInv, TypeOK, LogTypes, IndexTypes, PositionsInOrder
<1>5. EndOfCall(c) = End(s)
  BY <1>1, <1>4, ArgsEndInLog
<1>6. c.entries \in Seq(Entries)
  <2>1. m_nextIndex[s][p] <= End(s) + 1
    BY DEF LogInv, PeersInLog
  <2>2. m_logs[s] \in Seq(Entries)
    BY DEF LogInv, TypeOK, LogTypes
  <2>3. PICK m : m = SliceIndex(s, m_nextIndex[s][p] - 1) + 1
    OBVIOUS
  <2>4. PICK n \in Nat : n = Len(m_logs[s])
    BY <2>2
  <2>5. m \in 1..(n + 1)
    <3>1. m = m_nextIndex[s][p] - 1 - m_lastSnapshotIncludeIndex[s] + 1
      BY <2>3 DEF SliceIndex
    <3>2. End(s) = m_lastSnapshotIncludeIndex[s] + n
      BY <2>4 DEF End
    <3> QED
      BY <1>4, <2>1, <3>1, <3>2
  <2>6. c.entries = SubSeq(m_logs[s], m, Len(m_logs[s]))
    BY <1>1, <2>3 DEF AppendArgs
  <2> QED
    BY <2>2, <2>4, <2>5, <2>6, TailOfSeq
<1>7. ASSUME LastTerm(c) # c.term
      PROVE  NothingDue(s, EndOfCall(c))
  <2>1. CASE c.entries = <<>>
    BY <1>3, <1>4, <1>2, <2>1 DEF EndOfCall
  <2>2. CASE c.entries # <<>>
    <3>1. PICK n \in Nat : n = Len(c.entries) /\ n >= 1 /\ n \in 1..Len(c.entries)
      BY <1>6, <2>2
    <3>2. End(s) = c.prevLogIndex + n /\ m_lastSnapshotIncludeIndex[s] < End(s)
      BY <1>2, <1>4, <1>5, <3>1 DEF EndOfCall
    <3>3. OfItsLog(c)
      BY <1>1, ArgsOfItsLog
    <3>4. EntryAt(s, End(s)).term = c.entries[n].term
      BY <1>2, <3>1, <3>2, <3>3 DEF OfItsLog
    <3>5. EntryAt(s, End(s)).term # m_currentTerm[s]
      BY <1>2, <1>7, <2>2, <3>1, <3>4 DEF LastTerm
    <3>6. ASSUME NEW j \in (m_commitIndex[s] + 1)..End(s)
          PROVE  EntryAt(s, j).term # m_currentTerm[s]
      <4>1. CASE j = End(s)
        BY <3>5, <4>1
      <4>2. CASE j # End(s)
        <5>1. /\ j \in (m_lastSnapshotIncludeIndex[s] + 1)..End(s)
              /\ End(s) \in (m_lastSnapshotIncludeIndex[s] + 1)..End(s) /\ j < End(s)
          BY <1>4, <4>2
        <5> QED
          BY <3>5, <5>1 DEF OwnAreLast
      <4> QED
        BY <4>1, <4>2
    <3> QED
      BY <1>5, <3>6 DEF NothingDue
  <2> QED
    BY <2>1, <2>2
<1> QED
  BY <1>1, <1>3, <1>7

\* A success that is counted settles what its round is for: it is the majority
\* and commits, or an earlier one was, or there was nothing of the term in it.
LEMMA CountSettles ==
    ASSUME ThreeServers, LogInv, ElectionInv, CallsTruthful, [Next]_vars,
           NEW s \in Server, Stays(s), RepliesSettled(s),
           NEW r \in appendReplies, Takes(s, r), Replicated(s, r)
    PROVE  NothingDue(s, r.upTo)'
<1>1. /\ r.upTo \in Nat /\ r.upTo <= End(s) /\ r.round \in Rounds
      /\ m_commitIndex \in [Server -> Nat] /\ appendNums[s][r.round] \in Nat
  BY DEF Takes, LogInv, TypeOK, AppendTypes, AppendReplyType, RepliesInLog, IndexTypes,
         CountTypes
<1>2. CASE NothingDue(s, r.upTo)
  BY <1>1, <1>2, SettledStays
<1>3. CASE ~NothingDue(s, r.upTo)
  <2>1. appendNums[s][r.round] = 1 /\ r.lastTerm = m_currentTerm[s]
    BY <1>3 DEF RepliesSettled, Takes, Replicated
  <2>2. appendNums[s][r.round] + 1 >= Majority
    BY <2>1, TwoAreMajority
  <2>3. m_commitIndex'[s] = IF r.upTo > m_commitIndex[s] THEN r.upTo ELSE m_commitIndex[s]
    BY <1>1, <2>1, <2>2 DEF Replicated, OfThisTerm
  <2>4. (m_commitIndex'[s] + 1)..r.upTo = {}
    BY <1>1, <2>3
  <2> QED
    BY <2>4 DEF NothingDue
<1> QED
  BY <1>2, <1>3

-----------------------------------------------------------------------------
(* A leader that stays one *)

\* A request lies in its sender's log.
LEMMA CallWithinLog ==
    ASSUME LogInv, NEW c \in appendCalls
    PROVE  /\ c.prevLogIndex \in Nat /\ c.prevLogIndex <= End(c.from)
           /\ EndOfCall(c) \in Nat /\ EndOfCall(c) <= End(c.from)
<1>1. c.prevLogIndex \in Nat /\ c.entries \in Seq(Entries) /\ c.from \in Server
  BY DEF LogInv, TypeOK, AppendTypes, AppendCallType
<1>2. c.prevLogIndex + Len(c.entries) <= End(c.from) /\ End(c.from) \in Nat
  BY <1>1, EndIsNat DEF LogInv, TypeOK, CallsInLog
<1>3. Len(c.entries) \in Nat
  BY <1>1
<1> QED
  BY <1>1, <1>2, <1>3 DEF EndOfCall

\* What is under way stays settled, unless its round counts.
LEMMA KeptCallSettled ==
    ASSUME LogInv, ElectionInv, CallsTruthful, [Next]_vars,
           NEW s \in Server, Stays(s), CallsSettled(s),
           NEW c \in appendCalls, c.from = s, c.term = m_currentTerm[s],
           \/ appendNums'[s][c.round] = appendNums[s][c.round]
           \/ NothingDue(s, EndOfCall(c))'
    PROVE  /\ NothingDue(s, c.prevLogIndex)'
           /\ LastTerm(c) # c.term => NothingDue(s, EndOfCall(c))'
           /\ appendNums'[s][c.round] = 1 \/ NothingDue(s, EndOfCall(c))'
<1>1. /\ NothingDue(s, c.prevLogIndex)
      /\ LastTerm(c) # c.term => NothingDue(s, EndOfCall(c))
      /\ appendNums[s][c.round] = 1 \/ NothingDue(s, EndOfCall(c))
  BY DEF CallsSettled
<1>2. /\ c.prevLogIndex \in Int /\ c.prevLogIndex <= End(s)
      /\ EndOfCall(c) \in Int /\ EndOfCall(c) <= End(s)
  BY CallWithinLog
<1>3. NothingDue(s, c.prevLogIndex)'
  BY <1>1, <1>2, SettledStays
<1>4. NothingDue(s, EndOfCall(c)) => NothingDue(s, EndOfCall(c))'
  BY <1>2, SettledStays
<1> QED
  BY <1>1, <1>3, <1>4

\* The same of an answer under way.
LEMMA KeptReplySettled ==
    ASSUME LogInv, ElectionInv, CallsTruthful, [Next]_vars,
           NEW s \in Server, Stays(s), RepliesSettled(s),
           NEW r \in appendReplies, r.from = s, r.term = m_currentTerm[s],
           \/ appendNums'[s][r.round] = appendNums[s][r.round]
           \/ NothingDue(s, r.upTo)'
    PROVE  /\ r.success /\ r.lastTerm # r.term => NothingDue(s, r.upTo)'
           /\ r.success => appendNums'[s][r.round] = 1 \/ NothingDue(s, r.upTo)'
           /\ ~r.success /\ r.updateNextIndex # NoUpdate
              => NothingDue(s, r.updateNextIndex - 1)'
<1>1. /\ r.success /\ r.lastTerm # r.term => NothingDue(s, r.upTo)
      /\ r.success => appendNums[s][r.round] = 1 \/ NothingDue(s, r.upTo)
      /\ ~r.success /\ r.updateNextIndex # NoUpdate
         => NothingDue(s, r.updateNextIndex - 1)
  BY DEF RepliesSettled
<1>2. r.upTo \in Int /\ r.upTo <= End(s) /\ End(s) \in Int
  BY EndIsNat DEF LogInv, TypeOK, AppendTypes, AppendReplyType, RepliesInLog
<1>3. NothingDue(s, r.upTo) => NothingDue(s, r.upTo)'
  BY <1>2, SettledStays
<1>4. ASSUME ~r.success, r.updateNextIndex # NoUpdate
      PROVE  NothingDue(s, r.updateNextIndex - 1)'
  <2>1. r.updateNextIndex \in 1..r.upTo
    BY <1>4 DEF LogInv, RepliesInLog
  <2>2. PICK u \in Int : u = r.updateNextIndex - 1 /\ u <= End(s)
    BY <1>2, <2>1
  <2>3. NothingDue(s, u)'
    BY <1>1, <1>4, <2>2, SettledStays
  <2> QED
    BY <2>2, <2>3
<1> QED
  BY <1>1, <1>3, <1>4

\* So do the indexes that a step leaves.
LEMMA KeptPeerSettled ==
    ASSUME LogInv, ElectionInv, CallsTruthful, [Next]_vars,
           NEW s \in Server, Stays(s), PeersSettled(s), NEW p \in Server \ {s}
    PROVE  /\ m_matchIndex'[s][p] = m_matchIndex[s][p]
              => NothingDue(s, m_matchIndex[s][p])'
           /\ m_nextIndex'[s][p] = m_nextIndex[s][p]
              => NothingDue(s, m_nextIndex[s][p] - 1)'
<1>1. PICK i \in Int : i = m_matchIndex[s][p] /\ i <= End(s) /\ NothingDue(s, i)
  BY DEF PeersSettled, LogInv, TypeOK, IndexTypes, PeersInLog
<1>2. PICK j \in Int : j = m_nextIndex[s][p] - 1 /\ j <= End(s) /\ NothingDue(s, j)
  <2>1. m_nextIndex[s][p] \in Nat /\ m_nextIndex[s][p] <= End(s) + 1 /\ End(s) \in Nat
    BY EndIsNat DEF LogInv, TypeOK, IndexTypes, PeersInLog
  <2> QED
    BY <2>1 DEF PeersSettled
<1>3. NothingDue(s, i)' /\ NothingDue(s, j)'
  BY <1>1, <1>2, SettledStays
<1> QED
  BY <1>1, <1>2, <1>3 DEF NothingDue

\* Where no answer is taken, indexes stay, and the counter of every round but a
\* new one does.
LEMMA UncountedSettled ==
    ASSUME ThreeServers, LogInv, ElectionInv, MatchInv, [Next]_vars,
           NEW s \in Server, Stays(s), Settled(s),
           m_nextIndex'[s] = m_nextIndex[s], m_matchIndex'[s] = m_matchIndex[s],
           \A k \in Rounds : ~doHeartBeat(s, k) => appendNums'[s][k] = appendNums[s][k]
    PROVE  Settled(s)'
<1>1. CallsTruthful /\ RepliesTruthful
  BY DEF MatchInv
<1>2. \A i \in Int : i <= End(s) /\ NothingDue(s, i) => NothingDue(s, i)'
  BY <1>1, SettledStays
<1>3. PICK t : t = m_currentTerm[s] /\ t = m_currentTerm'[s]
  BY DEF Stays
<1>4. OwnAreLast(s)'
  BY <1>1, OwnStayLast DEF Settled
<1>5. PeersSettled(s)'
  BY <1>1, KeptPeerSettled DEF Settled, PeersSettled, NothingDue
<1>6. ASSUME NEW c \in appendCalls', c.from = s, c.term = t
      PROVE  /\ NothingDue(s, c.prevLogIndex)'
             /\ LastTerm(c) # c.term => NothingDue(s, EndOfCall(c))'
             /\ appendNums'[s][c.round] = 1 \/ NothingDue(s, EndOfCall(c))'
  <2>1. c.round \in Rounds
    BY NextLogInv DEF LogInv, TypeOK, AppendTypes, AppendCallType
  <2>2. CASE c \in appendCalls /\ appendNums'[s][c.round] = appendNums[s][c.round]
    BY <1>1, <1>3, <1>6, <2>2, KeptCallSettled DEF Settled
  <2>3. ASSUME NEW k \in Rounds, doHeartBeat(s, k), c.round = k
        PROVE  /\ NothingDue(s, c.prevLogIndex)'
               /\ LastTerm(c) # c.term => NothingDue(s, EndOfCall(c))'
               /\ appendNums'[s][c.round] = 1
    <3>1. PICK p \in Server \ {s} :
              /\ ~(m_nextIndex[s][p] <= m_lastSnapshotIncludeIndex[s])
              /\ c = AppendArgs(s, p, k)
      BY <1>6, <2>3 DEF doHeartBeat, Without
    <3>2. m_nextIndex[s][p] > m_lastSnapshotIncludeIndex[s]
      BY <3>1 DEF LogInv, TypeOK, IndexTypes, LogTypes
    <3>3. /\ NothingDue(s, c.prevLogIndex)
          /\ LastTerm(c) # c.term => NothingDue(s, EndOfCall(c))
      BY <3>1, <3>2, NewCallSettled DEF Stays, Settled
    <3>4. /\ m_currentTerm' = m_currentTerm /\ m_logs' = m_logs
          /\ m_commitIndex' = m_commitIndex
          /\ m_lastSnapshotIncludeIndex' = m_lastSnapshotIncludeIndex
      BY <2>3 DEF doHeartBeat, termVars, logVars, applyVars
    <3>5. appendNums'[s][k] = 1
      BY <2>3 DEF doHeartBeat, StartRound, LogInv, TypeOK, CountTypes
    <3> QED
      BY <2>3, <3>3, <3>4, <3>5 DEF NothingDue, EntryAt, SliceIndex
  <2>4. CASE ~doHeartBeat(s, c.round)
    BY <1>6, <2>1, <2>2, <2>4, RoundGoesOn
  <2> QED
    BY <2>1, <2>3, <2>4
<1>7. ASSUME NEW r \in appendReplies', r.from = s, r.term = t
      PROVE  /\ r.success /\ r.lastTerm # r.term => NothingDue(s, r.upTo)'
             /\ r.success => appendNums'[s][r.round] = 1 \/ NothingDue(s, r.upTo)'
             /\ ~r.success /\ r.updateNextIndex # NoUpdate
                => NothingDue(s, r.updateNextIndex - 1)'
  <2>1. r.round \in Rounds
    BY NextLogInv DEF LogInv, TypeOK, AppendTypes, AppendReplyType
  <2>2. ~doHeartBeat(s, r.round)
    BY <1>7, HeartBeatRound, <2>1
  <2>3. appendNums'[s][r.round] = appendNums[s][r.round]
    BY <2>1, <2>2
  <2>4. CASE r \in appendReplies
    BY <1>1, <1>3, <1>7, <2>3, <2>4, KeptReplySettled DEF Settled
  <2>5. CASE r \notin appendReplies
    <3>1. PICK c \in appendCalls :
              AppendEntries1(c) /\ Answers(r, c) /\ appendCalls' = appendCalls \ {c}
      BY <2>5, RepliesComeFrom
    <3>2. c.from = s /\ c.round = r.round /\ r.upTo = EndOfCall(c) /\ r.lastTerm = LastTerm(c)
      BY <1>7, <3>1 DEF Answers
    <3>3. /\ c.prevLogIndex \in Nat /\ c.prevLogIndex <= End(s)
          /\ EndOfCall(c) \in Int /\ EndOfCall(c) <= End(s)
      BY <3>2, CallWithinLog
    <3>4. ASSUME r.success
          PROVE  /\ r.lastTerm # r.term => NothingDue(s, r.upTo)'
                 /\ appendNums'[s][r.round] = 1 \/ NothingDue(s, r.upTo)'
      <4>1. c.term = t /\ c.term = r.term
        BY <1>7, <3>1, <3>4 DEF Answers
      <4>2. /\ LastTerm(c) # c.term => NothingDue(s, EndOfCall(c))
            /\ appendNums[s][c.round] = 1 \/ NothingDue(s, EndOfCall(c))
        BY <1>3, <3>2, <4>1 DEF Settled, CallsSettled
      <4> QED
        BY <1>2, <2>3, <3>2, <3>3, <4>1, <4>2
    <3>5. ASSUME ~r.success, r.updateNextIndex # NoUpdate
          PROVE  NothingDue(s, r.updateNextIndex - 1)'
      <4>1. /\ r.term = c.term /\ r.updateNextIndex \in Nat
            /\ r.updateNextIndex - 1 <= c.prevLogIndex
        BY <2>5, <3>1, <3>5, RefusalGoesBack
      <4>2. NothingDue(s, c.prevLogIndex)
        BY <1>3, <1>7, <3>2, <4>1 DEF Settled, CallsSettled
      <4>3. PICK u \in Int : u = r.updateNextIndex - 1 /\ u <= c.prevLogIndex /\ u <= End(s)
        BY <3>3, <4>1, EndIsNat DEF LogInv, TypeOK
      <4>4. NothingDue(s, u)
        BY <3>3, <4>2, <4>3, CommitAdvances, LowerSettled
      <4>5. NothingDue(s, u)'
        BY <1>2, <4>3, <4>4
      <4> QED
        BY <4>3, <4>5
    <3> QED
      BY <3>4, <3>5
  <2> QED
    BY <2>4, <2>5
<1>8. CallsSettled(s)'
  BY <1>3, <1>6 DEF CallsSettled, EndOfCall
<1>9. RepliesSettled(s)'
  BY <1>3, <1>7 DEF RepliesSettled
<1> QED
  BY <1>4, <1>5, <1>8, <1>9 DEF Settled

\* An answer that is taken leaves the rest of its kind, and of its round what has
\* the same end.
LEMMA TakenSettled ==
    ASSUME LogInv, ElectionInv, MatchInv, RoundInv, [Next]_vars,
           NEW s \in Server, Stays(s), Settled(s), PeersSettled(s)',
           appendCalls' = appendCalls, appendReplies' \subseteq appendReplies,
           \/ appendNums' = appendNums
           \/ \E r \in appendReplies : /\ Takes(s, r) /\ Replicated(s, r)
                                       /\ NothingDue(s, r.upTo)'
    PROVE  Settled(s)'
<1>1. CallsTruthful
  BY DEF MatchInv
<1>2. PICK t : t = m_currentTerm[s] /\ t = m_currentTerm'[s]
  BY DEF Stays
<1>3. OwnAreLast(s)'
  BY <1>1, OwnStayLast DEF Settled
<1>4. ASSUME NEW c \in appendCalls, c.from = s, c.term = t
      PROVE  /\ NothingDue(s, c.prevLogIndex)'
             /\ LastTerm(c) # c.term => NothingDue(s, EndOfCall(c))'
             /\ appendNums'[s][c.round] = 1 \/ NothingDue(s, EndOfCall(c))'
  <2>1. ASSUME NEW r \in appendReplies, Takes(s, r), Replicated(s, r), NothingDue(s, r.upTo)'
        PROVE  \/ appendNums'[s][c.round] = appendNums[s][c.round]
               \/ NothingDue(s, EndOfCall(c))'
    <3>1. CASE c.round = r.round
      <4>1. EndOfCall(c) = r.upTo
        BY <1>4, <2>1, <3>1 DEF Takes, RoundInv, OneEachPerRound, SameRound
      <4> QED
        BY <2>1, <4>1
    <3>2. CASE c.round # r.round
      BY <2>1, <3>2 DEF Replicated, LogInv, TypeOK, CountTypes
    <3> QED
      BY <3>1, <3>2
  <2> QED
    BY <1>1, <1>2, <1>4, <2>1, KeptCallSettled DEF Settled
<1>5. ASSUME NEW q \in appendReplies, q.from = s, q.term = t
      PROVE  /\ q.success /\ q.lastTerm # q.term => NothingDue(s, q.upTo)'
             /\ q.success => appendNums'[s][q.round] = 1 \/ NothingDue(s, q.upTo)'
             /\ ~q.success /\ q.updateNextIndex # NoUpdate
                => NothingDue(s, q.updateNextIndex - 1)'
  <2>1. ASSUME NEW r \in appendReplies, Takes(s, r), Replicated(s, r), NothingDue(s, r.upTo)'
        PROVE  \/ appendNums'[s][q.round] = appendNums[s][q.round]
               \/ NothingDue(s, q.upTo)'
    <3>1. CASE q.round = r.round
      <4>1. q.upTo = r.upTo
        BY <1>5, <2>1, <3>1 DEF Takes, RoundInv, OneEachPerRound, SameRound
      <4> QED
        BY <2>1, <4>1
    <3>2. CASE q.round # r.round
      BY <2>1, <3>2 DEF Replicated, LogInv, TypeOK, CountTypes
    <3> QED
      BY <3>1, <3>2
  <2> QED
    BY <1>1, <1>2, <1>5, <2>1, KeptReplySettled DEF Settled
<1>6. CallsSettled(s)'
  BY <1>2, <1>4 DEF CallsSettled, EndOfCall
<1>7. RepliesSettled(s)'
  BY <1>2, <1>5 DEF RepliesSettled
<1> QED
  BY <1>3, <1>6, <1>7 DEF Settled

\* A refusal sends the leader back to where nothing is due.
LEMMA BacktrackSettled ==
    ASSUME LogInv, ElectionInv, MatchInv, RoundInv, [Next]_vars,
           NEW s \in Server, Stays(s), Settled(s),
           NEW r \in appendReplies, Takes(s, r), Backtrack(s, r)
    PROVE  Settled(s)'
<1>1. CallsTruthful
  BY DEF MatchInv
<1>2. /\ m_nextIndex \in [Server -> [Server -> Nat]] /\ r.to \in Server /\ End(s) \in Nat
      /\ m_nextIndex' = [m_nextIndex EXCEPT ![s][r.to] = BackTo(s, r)]
      /\ m_matchIndex' = m_matchIndex /\ appendNums' = appendNums
  BY EndIsNat DEF Backtrack, LogInv, TypeOK, IndexTypes, AppendTypes, AppendReplyType
<1>3. ASSUME NEW p \in Server \ {s}
      PROVE  NothingDue(s, m_matchIndex[s][p])' /\ NothingDue(s, m_nextIndex[s][p] - 1)'
  <2>1. NothingDue(s, m_matchIndex[s][p])'
    BY <1>1, <1>2, KeptPeerSettled DEF Settled
  <2>2. CASE m_nextIndex'[s][p] = m_nextIndex[s][p]
    BY <1>1, <2>1, <2>2, KeptPeerSettled DEF Settled
  <2>3. CASE m_nextIndex'[s][p] # m_nextIndex[s][p]
    <3>1. /\ p = r.to /\ r.updateNextIndex # NoUpdate
          /\ m_nextIndex'[s][p] = r.updateNextIndex
      BY <1>2, <2>3 DEF BackTo
    <3>2. NothingDue(s, r.updateNextIndex - 1)'
      BY <1>1, <3>1, <1>2, KeptReplySettled DEF Settled, Takes, Backtrack
    <3> QED
      BY <2>1, <3>1, <3>2 DEF NothingDue
  <2> QED
    BY <2>2, <2>3
<1>4. PeersSettled(s)'
  BY <1>3 DEF PeersSettled
<1> QED
  BY <1>2, <1>4, TakenSettled DEF Takes

\* A success settles its round.
LEMMA ReplicatedSettled ==
    ASSUME ThreeServers, LogInv, ElectionInv, MatchInv, RoundInv, [Next]_vars,
           NEW s \in Server, Stays(s), Settled(s),
           NEW r \in appendReplies, Takes(s, r), Replicated(s, r)
    PROVE  Settled(s)'
<1>1. CallsTruthful
  BY DEF MatchInv
<1>2. NothingDue(s, r.upTo)'
  BY <1>1, CountSettles DEF Settled
<1>3. /\ m_nextIndex \in [Server -> [Server -> Nat]] /\ r.to \in Server /\ r.upTo \in Nat
      /\ m_matchIndex \in [Server -> [Server -> Nat]]
  BY DEF LogInv, TypeOK, IndexTypes, AppendTypes, AppendReplyType
<1>4. PICK n \in Nat :
          /\ n = r.upTo \/ n = m_matchIndex[s][r.to]
          /\ m_matchIndex' = [m_matchIndex EXCEPT ![s][r.to] = n]
          /\ m_nextIndex' = [m_nextIndex EXCEPT ![s][r.to] = n + 1]
  BY <1>3 DEF Replicated
<1>5. ASSUME NEW p \in Server \ {s}
      PROVE  NothingDue(s, m_matchIndex[s][p])' /\ NothingDue(s, m_nextIndex[s][p] - 1)'
  <2>1. CASE p # r.to
    BY <1>1, <1>3, <1>4, <2>1, KeptPeerSettled DEF Settled
  <2>2. CASE p = r.to
    <3>1. m_matchIndex'[s][p] = n /\ m_nextIndex'[s][p] - 1 = n
      BY <1>3, <1>4, <2>2
    <3>2. NothingDue(s, n)'
      <4>1. CASE n = r.upTo
        BY <1>2, <4>1
      <4>2. CASE n = m_matchIndex[s][p]
        BY <1>1, <3>1, <4>2, KeptPeerSettled DEF Settled, NothingDue
      <4> QED
        BY <1>4, <2>2, <4>1, <4>2
    <3> QED
      BY <3>1, <3>2 DEF NothingDue
  <2> QED
    BY <2>1, <2>2
<1>6. PeersSettled(s)'
  BY <1>5 DEF PeersSettled
<1> QED
  BY <1>2, <1>6, TakenSettled DEF Takes

\* What a snapshot covers is committed.
LEMMA SnapshotSettled ==
    ASSUME LogInv, ElectionInv, MatchInv, RoundInv, [Next]_vars,
           NEW s \in Server, Stays(s), Settled(s), NEW r \in snapReplies, TakesSnapshot(s, r)
    PROVE  Settled(s)'
<1>1. CallsTruthful
  BY DEF MatchInv
<1>2. /\ m_nextIndex \in [Server -> [Server -> Nat]] /\ r.to \in Server /\ r.index \in Nat
      /\ m_matchIndex \in [Server -> [Server -> Nat]]
      /\ r.index <= m_lastSnapshotIncludeIndex[s]
  BY DEF LogInv, TypeOK, IndexTypes, SnapTypes, SnapReplyType, MatchInv, SnapshotsTruthful,
         TakesSnapshot
<1>3. NothingDue(s, r.index)'
  <2>1. (m_commitIndex'[s] + 1)..r.index = {}
    BY <1>2, CommitAdvances, ServerAdvances
  <2> QED
    BY <2>1 DEF NothingDue
<1>4. ASSUME NEW p \in Server \ {s}
      PROVE  NothingDue(s, m_matchIndex[s][p])' /\ NothingDue(s, m_nextIndex[s][p] - 1)'
  <2>1. CASE p # r.to
    <3>1. m_matchIndex'[s][p] = m_matchIndex[s][p] /\ m_nextIndex'[s][p] = m_nextIndex[s][p]
      BY <1>2, <2>1 DEF TakesSnapshot
    <3> QED
      BY <1>1, <3>1, KeptPeerSettled DEF Settled
  <2>2. CASE p = r.to
    <3>1. m_matchIndex'[s][p] = r.index
      BY <1>2, <2>2 DEF TakesSnapshot
    <3>2. m_nextIndex'[s][p] = r.index + 1
      BY <1>2, <2>2 DEF TakesSnapshot
    <3>3. m_nextIndex'[s][p] - 1 = r.index
      BY <1>2, <3>2
    <3> QED
      BY <1>3, <3>1, <3>3 DEF NothingDue
  <2> QED
    BY <2>1, <2>2
<1>5. PeersSettled(s)'
  BY <1>4 DEF PeersSettled
<1> QED
  BY <1>5, TakenSettled DEF TakesSnapshot

-----------------------------------------------------------------------------
(* The theorem *)

\* The invariant of commits.
THEOREM CommitInvariant == ThreeServers => (Spec => []CommitInv)
<1> SUFFICES ASSUME ThreeServers PROVE Spec => []CommitInv
  OBVIOUS
<1>1. Init => CommitInv
  BY DEF Init, CommitInv, RefusalsToWinners
<1>2. /\ CommitInv /\ LogInv /\ ElectionInv /\ ElectionInv' /\ EntryInv /\ MatchInv
      /\ RoundInv /\ [Next]_vars
      => CommitInv'
  <2> SUFFICES ASSUME CommitInv, LogInv, ElectionInv, ElectionInv', EntryInv, MatchInv,
                      RoundInv, [Next]_vars
               PROVE  CommitInv'
    OBVIOUS
  <2>1. RefusalsToWinners /\ RefusalsToWinners'
    BY NextRefusals DEF CommitInv, MatchInv
  <2>2. ASSUME NEW s \in Server, m_status'[s] = "Leader"
        PROVE  Settled(s)'
    <3>1. CASE Elected(s)
      BY <2>1, <3>1, ElectedSettled
    <3>2. CASE Stays(s) /\ IndexStep(s)
      <4>1. Settled(s)
        BY <3>2 DEF CommitInv, Stays
      <4> QED
        BY <3>2, <4>1, UncountedSettled, BacktrackSettled, ReplicatedSettled, SnapshotSettled
           DEF IndexStep
    <3> QED
      BY <2>2, <3>1, <3>2, NextLeaderStep DEF LeaderStep
  <2> QED
    BY <2>1, <2>2 DEF CommitInv
<1> QED
  BY <1>1, <1>2, LogInvariant, ElectionInvariant, EntryInvariant, MatchInvariant,
     RoundInvariant, PTL DEF Spec

\* With two or three servers an entry of the leader's term that a majority is
\* known to hold is committed when the answer that made the majority has been
\* handled (sendAppendEntries).  Each success is then a majority's, so the one
\* that reports an entry commits it; with more servers two rounds can share the
\* answers, and neither counts enough of them.
THEOREM ReplicationCommits == ThreeServers => (Spec => []ReplicatedIsCommitted)
<1> SUFFICES ASSUME ThreeServers PROVE Spec => []ReplicatedIsCommitted
  OBVIOUS
<1>1. LogInv /\ CommitInv => ReplicatedIsCommitted
  <2> SUFFICES ASSUME LogInv, CommitInv, NEW s \in Server, m_status[s] = "Leader",
                      NEW i \in Retained(s), EntryAt(s, i).term = m_currentTerm[s],
                      Cardinality({p \in Server \ {s} : m_matchIndex[s][p] >= i}) + 1
                        >= Majority
               PROVE  m_commitIndex[s] >= i
    BY DEF ReplicatedIsCommitted
  <2>1. PICK p \in Server \ {s} : m_matchIndex[s][p] >= i
    <3> SUFFICES ASSUME {p \in Server \ {s} : m_matchIndex[s][p] >= i} = {} PROVE FALSE
      OBVIOUS
    <3>1. Cardinality({p \in Server \ {s} : m_matchIndex[s][p] >= i}) = 0
      BY FS_EmptySet
    <3> QED
      BY <3>1, TwoAreMajority
  <2>2. NothingDue(s, m_matchIndex[s][p])
    BY DEF CommitInv, Settled, PeersSettled
  <2>3. /\ i \in Nat /\ m_matchIndex[s][p] \in Nat /\ m_commitIndex[s] \in Nat
    <3>1. m_lastSnapshotIncludeIndex[s] \in Nat
      BY DEF LogInv, TypeOK, LogTypes
    <3>2. i \in Int /\ i >= m_lastSnapshotIncludeIndex[s] + 1
      BY <3>1, LastIsEnd DEF Retained, LogInv, TypeOK
    <3> QED
      BY <3>1, <3>2 DEF LogInv, TypeOK, IndexTypes
  <2>4. i \notin (m_commitIndex[s] + 1)..m_matchIndex[s][p]
    BY <2>2 DEF NothingDue
  <2> QED
    BY <2>1, <2>3, <2>4
<1>2. Spec => []CommitInv
  BY CommitInvariant
<1> QED
  BY <1>1, <1>2, LogInvariant, PTL
=============================================================================
