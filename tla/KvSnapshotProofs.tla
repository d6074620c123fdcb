-------------------------- MODULE KvSnapshotProofs --------------------------
(***************************************************************************)
(* Proofs about snapshots: the order in which commands reach the service,  *)
(* that only a snapshot makes it pass one over, that indexes and files     *)
(* stay in step, and that an archive in a file is the state at its index.  *)
(***************************************************************************)
EXTENDS KvSnapshotProps, TLAPS

Ops == [key : Keys, request : 1..MaxIndex]
Data == [Keys -> 1..MaxIndex \cup {NoValue}]
Requests == [to : Server, index : 1..MaxIndex, data : {Empty, Word}]

\* What the loop is at.
Loops ==
    [at : {"pop"}] \cup [at : {"measure"}, index : 1..MaxIndex]
        \cup [at : {"snapshot"}, index : 1..MaxIndex, snapshot : Archives]

RaftTypes ==
    /\ chosen \in Seq(Ops) /\ Len(chosen) <= MaxIndex
    /\ logEnd \in [Server -> Nat] /\ m_commitIndex \in [Server -> Nat]
    /\ m_lastApplied \in [Server -> Nat] /\ m_lastSnapshotIncludeIndex \in [Server -> Nat]
    /\ installs \subseteq Requests
    /\ \A r \in installs : r.index <= Len(chosen)

FileTypes ==
    /\ m_raftStateSize \in [Server -> Nat]
    /\ snapshotFile \in [Server -> {Empty, Word} \cup Archives]

ChanTypes ==
    /\ applyChan \in [Server -> Seq(Commands \cup Snapshots)]
    /\ batch \in [Server -> Seq(Commands)]
    /\ detached \in [Server -> SUBSET Snapshots]

KvTypes ==
    /\ loop \in [Server -> Loops]
    /\ m_skipList \in [Server -> Data]
    /\ m_lastRequestId \in [Server -> 0..MaxIndex]
    /\ m_lastSnapShotRaftLogIndex \in [Server -> 0..MaxIndex]
    /\ exited \in [Server -> BOOLEAN]
    /\ done \in [Server -> SUBSET Nat] /\ covered \in [Server -> Nat]
    /\ sends \in Nat /\ restarts \in Nat

Types == RaftTypes /\ FileTypes /\ ChanTypes /\ KvTypes

\* The indexes of server s, in this order.
Indexes(s) ==
    /\ m_lastSnapShotRaftLogIndex[s] <= covered[s]
    /\ covered[s] <= m_lastSnapshotIncludeIndex[s]
    /\ m_lastSnapshotIncludeIndex[s] <= m_lastApplied[s]
    /\ m_lastApplied[s] <= m_commitIndex[s]
    /\ m_commitIndex[s] <= logEnd[s]
    /\ logEnd[s] <= Len(chosen)
    /\ loop[s].at # "pop" => loop[s].index <= m_lastApplied[s]
    /\ m_raftStateSize[s] \in {0, Entries(s)}

\* A snapshot on its way to the service was taken over by Raft.
SnapshotsCovered(s) ==
    /\ \A m \in detached[s] : m.index <= covered[s]
    /\ \A i \in DOMAIN applyChan[s] :
            applyChan[s][i].kind = "snapshot" => applyChan[s][i].index <= covered[s]

\* The commands on their way: in order, applied by Raft, beyond all that is done.
IsCommand(s, i) == applyChan[s][i].kind = "command"

ChanInOrder(s) ==
    /\ \A i \in DOMAIN applyChan[s] :
            IsCommand(s, i) => applyChan[s][i].index <= m_lastApplied[s]
    /\ \A i, j \in DOMAIN applyChan[s] :
            IsCommand(s, i) /\ IsCommand(s, j) /\ i < j
                => applyChan[s][i].index < applyChan[s][j].index
    /\ \A d \in done[s] : \A i \in DOMAIN applyChan[s] :
            IsCommand(s, i) => d < applyChan[s][i].index

BatchInOrder(s) ==
    /\ \A i \in DOMAIN batch[s] : batch[s][i].index <= m_lastApplied[s]
    /\ \A i, j \in DOMAIN batch[s] : i < j => batch[s][i].index < batch[s][j].index
    /\ \A d \in done[s] : \A i \in DOMAIN batch[s] : d < batch[s][i].index
    /\ \A i \in DOMAIN applyChan[s] : \A j \in DOMAIN batch[s] :
            IsCommand(s, i) => applyChan[s][i].index < batch[s][j].index

\* What Raft has applied is done, covered by a snapshot, or on its way.
DoneApplied(s) == \A d \in done[s] : d \in 1..m_lastApplied[s]

Accounted(s) ==
    \A j \in 1..m_lastApplied[s] :
        \/ j \in done[s] \/ j <= covered[s]
        \/ \E i \in DOMAIN applyChan[s] : IsCommand(s, i) /\ applyChan[s][i].index = j
        \/ \E i \in DOMAIN batch[s] : batch[s][i].index = j

ServerInv(s) ==
    /\ Indexes(s) /\ SnapshotsCovered(s)
    /\ ChanInOrder(s) /\ BatchInOrder(s)
    /\ DoneApplied(s) /\ Accounted(s)

SnapshotInv == Types /\ \A s \in Server : ServerInv(s)

\* What a step does not change of server p.
SameRaft(p) ==
    /\ logEnd'[p] = logEnd[p] /\ m_commitIndex'[p] = m_commitIndex[p]
    /\ m_lastApplied'[p] = m_lastApplied[p]
    /\ m_lastSnapshotIncludeIndex'[p] = m_lastSnapshotIncludeIndex[p]

SameChan(p) ==
    /\ applyChan'[p] = applyChan[p] /\ batch'[p] = batch[p] /\ detached'[p] = detached[p]

SameKv(p) ==
    /\ m_lastSnapShotRaftLogIndex'[p] = m_lastSnapShotRaftLogIndex[p]
    /\ done'[p] = done[p] /\ covered'[p] = covered[p]

Same(p) ==
    /\ SameRaft(p) /\ SameChan(p) /\ SameKv(p)
    /\ loop'[p] = loop[p] /\ m_raftStateSize'[p] = m_raftStateSize[p]

-----------------------------------------------------------------------------
(* Lemmas on parts of the invariant that a step leaves alone.              *)

\* Parts of the invariant speak of variables of server p only.
LEMMA ChanKept ==
    ASSUME NEW p \in Server, ServerInv(p), SameChan(p), SameKv(p),
           m_lastApplied'[p] = m_lastApplied[p]
    PROVE  /\ SnapshotsCovered(p)' /\ ChanInOrder(p)' /\ BatchInOrder(p)'
           /\ DoneApplied(p)' /\ Accounted(p)'
  BY DEF ServerInv, SameChan, SameKv, SnapshotsCovered, ChanInOrder, BatchInOrder,
         DoneApplied, Accounted, IsCommand

LEMMA Untouched ==
    ASSUME NEW p \in Server, SnapshotInv, Same(p), chosen' = chosen
    PROVE  ServerInv(p)'
  <1>0. ServerInv(p)
    BY DEF SnapshotInv
  <1>1. Indexes(p)'
    BY <1>0 DEF ServerInv, Same, SameRaft, SameKv, Indexes, Entries
  <1>. QED
    BY <1>0, <1>1, ChanKept DEF ServerInv, Same, SameRaft

\* The variables that the steps read and write, without what is in them.
LEMMA Functions ==
    ASSUME SnapshotInv
    PROVE  /\ Len(chosen) \in Nat
           /\ logEnd \in [Server -> Nat] /\ m_commitIndex \in [Server -> Nat]
           /\ m_lastApplied \in [Server -> Nat] /\ m_lastSnapshotIncludeIndex \in [Server -> Nat]
           /\ m_lastSnapShotRaftLogIndex \in [Server -> Nat]
           /\ m_raftStateSize \in [Server -> Nat]
           /\ covered \in [Server -> Nat] /\ done \in [Server -> SUBSET Nat]
           /\ \A s \in Server : ServerInv(s)
  BY SnapshotAssumption DEF SnapshotInv, Types, RaftTypes, FileTypes, KvTypes

\* The indexes in the queues and of the loop are numbers.
LEMMA Numbers ==
    ASSUME SnapshotInv, NEW s \in Server
    PROVE  /\ \A i \in DOMAIN applyChan[s] : applyChan[s][i].index \in 1..MaxIndex
           /\ \A i \in DOMAIN batch[s] : batch[s][i].index \in 1..MaxIndex
           /\ loop[s].at # "pop" => loop[s].index \in 1..MaxIndex
           /\ MaxIndex \in Nat
  <1>1. \A m \in Commands \cup Snapshots : m.index \in 1..MaxIndex
    BY DEF Commands, Snapshots
  <1>2. applyChan[s] \in Seq(Commands \cup Snapshots) /\ batch[s] \in Seq(Commands)
    BY DEF SnapshotInv, Types, ChanTypes
  <1>3. \A l \in Loops : l.at # "pop" => l.index \in 1..MaxIndex
    BY DEF Loops
  <1>4. loop[s] \in Loops
    BY DEF SnapshotInv, Types, KvTypes
  <1>. QED
    BY <1>1, <1>2, <1>3, <1>4, SnapshotAssumption

\* The parts of the invariant of one server, and that its indexes are numbers.
LEMMA PartsOf ==
    ASSUME SnapshotInv, NEW s \in Server
    PROVE  /\ Indexes(s) /\ SnapshotsCovered(s) /\ ChanInOrder(s) /\ BatchInOrder(s)
           /\ DoneApplied(s) /\ Accounted(s)
           /\ logEnd[s] \in Nat /\ m_commitIndex[s] \in Nat /\ m_lastApplied[s] \in Nat
           /\ m_lastSnapshotIncludeIndex[s] \in Nat /\ m_lastSnapShotRaftLogIndex[s] \in Nat
           /\ m_raftStateSize[s] \in Nat /\ covered[s] \in Nat
           /\ done[s] \subseteq Nat /\ Len(chosen) \in Nat
  <1>1. ServerInv(s)
    BY DEF SnapshotInv
  <1>2. /\ Indexes(s) /\ SnapshotsCovered(s) /\ ChanInOrder(s) /\ BatchInOrder(s)
        /\ DoneApplied(s) /\ Accounted(s)
    BY <1>1 DEF ServerInv
  <1>3. /\ logEnd[s] \in Nat /\ m_commitIndex[s] \in Nat /\ m_lastApplied[s] \in Nat
        /\ m_lastSnapshotIncludeIndex[s] \in Nat /\ m_lastSnapShotRaftLogIndex[s] \in Nat
        /\ m_raftStateSize[s] \in Nat /\ covered[s] \in Nat
    BY Functions
  <1>4. done[s] \subseteq Nat /\ Len(chosen) \in Nat
    BY Functions
  <1>. QED
    BY <1>2, <1>3, <1>4

\* The initial state.
LEMMA InitInv == Init => SnapshotInv
  <1>. SUFFICES ASSUME Init PROVE SnapshotInv
    OBVIOUS
  <1>1. Types
    BY SnapshotAssumption
       DEF Init, Types, RaftTypes, FileTypes, ChanTypes, KvTypes, Loops, Data, NoData
  <1>2. ASSUME NEW s \in Server PROVE ServerInv(s)
    BY SnapshotAssumption DEF Init, ServerInv, Indexes, SnapshotsCovered, ChanInOrder, BatchInOrder,
       DoneApplied, Accounted, Entries
  <1>. QED
    BY <1>1, <1>2 DEF SnapshotInv

-----------------------------------------------------------------------------
(* One lemma per step: what it does to the types, then to its own server;  *)
(* the other servers are untouched.                                        *)

\* A command is chosen.
LEMMA ChooseStep ==
    ASSUME SnapshotInv, NEW key \in Keys, NEW request \in 1..MaxIndex, Choose(key, request)
    PROVE  SnapshotInv'
  <1>1. chosen \in Seq(Ops) /\ Len(chosen) \in Nat /\ Len(chosen) < MaxIndex /\ MaxIndex \in Nat
    BY SnapshotAssumption DEF SnapshotInv, Types, RaftTypes, Choose
  <1>2. [key |-> key, request |-> request] \in Ops
    BY DEF Ops
  <1>3. /\ chosen' \in Seq(Ops) /\ Len(chosen') = Len(chosen) + 1
        /\ Len(chosen') <= MaxIndex
    BY <1>1, <1>2 DEF Choose
  <1>4. RaftTypes'
    BY <1>1, <1>3 DEF SnapshotInv, Types, RaftTypes, Requests, Choose, raftVars
  <1>5. FileTypes' /\ ChanTypes' /\ KvTypes'
    BY DEF SnapshotInv, Types, FileTypes, ChanTypes, KvTypes, Choose, fileVars, chanVars, kvVars,
       history
  <1>6. ASSUME NEW p \in Server PROVE ServerInv(p)'
    <2>1. /\ ServerInv(p) /\ SameChan(p) /\ SameKv(p) /\ m_lastApplied'[p] = m_lastApplied[p]
      BY DEF SnapshotInv, Choose, SameChan, SameKv, raftVars, chanVars, kvVars, history
    <2>2. Indexes(p)'
      BY <1>1, <1>3, Functions DEF ServerInv, Indexes, Entries, Choose, raftVars, fileVars,
         kvVars, history
    <2>. QED
      BY <2>1, <2>2, ChanKept DEF ServerInv
  <1>. QED
    BY <1>4, <1>5, <1>6 DEF SnapshotInv, Types

\* An entry comes to a server's log.
LEMMA ReplicateStep ==
    ASSUME SnapshotInv, NEW s \in Server, Replicate(s)
    PROVE  SnapshotInv'
  <1>. USE DEF Replicate, SaveRaftState, Entries
  <1>0. Indexes(s)
    BY DEF SnapshotInv, ServerInv
  <1>1. RaftTypes'
    BY Functions DEF SnapshotInv, Types, RaftTypes
  <1>2. FileTypes'
    BY <1>0, Functions DEF SnapshotInv, Types, FileTypes, Indexes
  <1>3. ChanTypes' /\ KvTypes'
    BY DEF SnapshotInv, Types, ChanTypes, KvTypes, chanVars, kvVars, history
  <1>4. ASSUME NEW p \in Server PROVE ServerInv(p)'
    <2>1. CASE p = s
      <3>1. Indexes(p)'
        BY <1>0, <2>1, Functions DEF Indexes, kvVars, history
      <3>2. SameChan(p) /\ SameKv(p) /\ m_lastApplied'[p] = m_lastApplied[p]
        BY <2>1 DEF SameChan, SameKv, chanVars, kvVars, history
      <3>. QED
        BY <3>1, <3>2, ChanKept DEF ServerInv, SnapshotInv
    <2>2. CASE p # s
      <3>1. Same(p)
        BY <2>2, Functions DEF Same, SameRaft, SameChan, SameKv, chanVars, kvVars, history
      <3>. QED
        BY <3>1, Untouched
    <2>. QED
      BY <2>1, <2>2
  <1>. QED
    BY <1>1, <1>2, <1>3, <1>4 DEF SnapshotInv, Types

\* A server learns that entries are chosen.
LEMMA LearnStep ==
    ASSUME SnapshotInv, NEW s \in Server, NEW i \in 1..MaxIndex, Learn(s, i)
    PROVE  SnapshotInv'
  <1>. USE DEF Learn
  <1>1. RaftTypes'
    BY SnapshotAssumption, Functions DEF SnapshotInv, Types, RaftTypes
  <1>2. FileTypes' /\ ChanTypes' /\ KvTypes'
    BY DEF SnapshotInv, Types, FileTypes, ChanTypes, KvTypes, fileVars, chanVars, kvVars, history
  <1>3. ASSUME NEW p \in Server PROVE ServerInv(p)'
    <2>1. CASE p = s
      <3>1. Indexes(p)'
        BY <2>1, SnapshotAssumption, Functions DEF ServerInv, Indexes, Entries, fileVars, kvVars,
           history
      <3>2. SameChan(p) /\ SameKv(p) /\ m_lastApplied'[p] = m_lastApplied[p]
        BY <2>1 DEF SameChan, SameKv, chanVars, kvVars, history
      <3>. QED
        BY <3>1, <3>2, ChanKept DEF ServerInv, SnapshotInv
    <2>2. CASE p # s
      <3>1. Same(p)
        BY <2>2, Functions DEF Same, SameRaft, SameChan, SameKv, fileVars, chanVars, kvVars,
           history
      <3>. QED
        BY <3>1, Untouched
    <2>. QED
      BY <2>1, <2>2
  <1>. QED
    BY <1>1, <1>2, <1>3 DEF SnapshotInv, Types

\* A leader sends its snapshot, and reading its file empties it.
LEMMA SendStep ==
    ASSUME SnapshotInv, NEW s \in Server, NEW p \in Server, leaderSendSnapShot(s, p)
    PROVE  SnapshotInv'
  <1>. USE DEF leaderSendSnapShot, ReadSnapshot
  <1>1. /\ m_lastSnapshotIncludeIndex[s] \in 1..MaxIndex
        /\ m_lastSnapshotIncludeIndex[s] <= Len(chosen)
    <2>1. Len(chosen) <= MaxIndex /\ MaxIndex \in Nat
      BY SnapshotAssumption DEF SnapshotInv, Types, RaftTypes
    <2>. QED
      BY <2>1, Functions DEF ServerInv, Indexes
  <1>2. FirstWord(snapshotFile[s]) \in {Empty, Word}
    BY DEF FirstWord
  <1>3. [to |-> p, index |-> m_lastSnapshotIncludeIndex[s], data |-> FirstWord(snapshotFile[s])]
            \in Requests
    BY <1>1, <1>2 DEF Requests
  <1>4. RaftTypes'
    <2>1. installs' \subseteq Requests
      BY <1>3 DEF SnapshotInv, Types, RaftTypes
    <2>2. \A r \in installs' : r.index <= Len(chosen)
      BY <1>1 DEF SnapshotInv, Types, RaftTypes
    <2>. QED
      BY <2>1, <2>2 DEF SnapshotInv, Types, RaftTypes, raftVars
  <1>5. FileTypes'
    BY DEF SnapshotInv, Types, FileTypes
  <1>6. sends' \in Nat
    BY DEF SnapshotInv, Types, KvTypes
  <1>7. ChanTypes' /\ KvTypes'
    BY <1>6 DEF SnapshotInv, Types, ChanTypes, KvTypes, chanVars, kvVars
  <1>8. ASSUME NEW q \in Server PROVE ServerInv(q)'
    <2>1. Same(q)
      BY DEF Same, SameRaft, SameChan, SameKv, raftVars, chanVars, kvVars
    <2>. QED
      BY <2>1, Untouched
  <1>. QED
    BY <1>4, <1>5, <1>7, <1>8 DEF SnapshotInv, Types

\* The state kept is measured, and perhaps a snapshot made.
LEMMA MeasureStep ==
    ASSUME SnapshotInv, NEW s \in Server, IfNeedToSendSnapShotCommand(s)
    PROVE  SnapshotInv'
  <1>. USE DEF IfNeedToSendSnapShotCommand
  <1>1. loop \in [Server -> Loops] /\ loop[s].index \in 1..MaxIndex
    BY DEF SnapshotInv, Types, KvTypes, Loops
  <1>2. Archive(s, loop[s].index) \in Archives
    BY <1>1 DEF SnapshotInv, Types, KvTypes, Archive, Archives, Data
  <1>3. loop'[s] \in Loops /\ (loop'[s].at # "pop" => loop'[s].index = loop[s].index)
    BY <1>1, <1>2 DEF Loops
  <1>4. loop' \in [Server -> Loops]
    BY <1>1, <1>3
  <1>5. RaftTypes' /\ FileTypes' /\ ChanTypes'
    BY DEF SnapshotInv, Types, RaftTypes, FileTypes, ChanTypes, raftVars, fileVars, chanVars
  <1>6. KvTypes'
    BY <1>4 DEF SnapshotInv, Types, KvTypes, history
  <1>7. ASSUME NEW p \in Server PROVE ServerInv(p)'
    <2>1. CASE p = s
      <3>1. Indexes(p)'
        BY <1>3, <2>1, Functions DEF ServerInv, Indexes, Entries, raftVars, fileVars, history
      <3>2. SameChan(p) /\ SameKv(p) /\ m_lastApplied'[p] = m_lastApplied[p]
        BY <2>1 DEF SameChan, SameKv, raftVars, chanVars, history
      <3>. QED
        BY <3>1, <3>2, ChanKept DEF ServerInv, SnapshotInv
    <2>2. CASE p # s
      <3>1. Same(p)
        BY <1>1, <2>2 DEF Same, SameRaft, SameChan, SameKv, raftVars, fileVars, chanVars,
           history
      <3>. QED
        BY <3>1, Untouched
    <2>. QED
      BY <2>1, <2>2
  <1>. QED
    BY <1>5, <1>6, <1>7 DEF SnapshotInv, Types

\* Raft compacts its log to the snapshot, or refuses.
LEMMA CompactStep ==
    ASSUME SnapshotInv, NEW s \in Server, Snapshot(s)
    PROVE  SnapshotInv'
  <1>. USE DEF Snapshot
  <1>1. /\ loop \in [Server -> Loops] /\ loop[s].index \in 1..MaxIndex
        /\ loop[s].snapshot \in Archives
    BY DEF SnapshotInv, Types, KvTypes, Loops
  <1>2. Indexes(s) /\ loop[s].index <= m_lastApplied[s]
    BY DEF SnapshotInv, ServerInv, Indexes
  <1>3. MaxIndex \in Nat
    BY SnapshotAssumption
  <1>4. m_lastApplied' = m_lastApplied
    BY <1>1, <1>2, <1>3, Functions DEF Larger
  <1>5. RaftTypes'
    <2>1. loop[s].index \in Nat
      BY <1>1, <1>3
    <2>2. m_lastSnapshotIncludeIndex' \in [Server -> Nat]
      BY <2>1, Functions
    <2>. QED
      BY <1>4, <2>2 DEF SnapshotInv, Types, RaftTypes
  <1>6. FileTypes'
    <2>1. CASE Accepted(s, loop[s].index)
      BY <1>1, <2>1 DEF SnapshotInv, Types, FileTypes, Save
    <2>2. CASE ~Accepted(s, loop[s].index)
      BY <2>2 DEF SnapshotInv, Types, FileTypes, fileVars
    <2>. QED
      BY <2>1, <2>2
  <1>7. [at |-> "pop"] \in Loops
    BY DEF Loops
  <1>8. ChanTypes' /\ KvTypes'
    BY <1>7 DEF SnapshotInv, Types, ChanTypes, KvTypes, chanVars, history
  <1>9. ASSUME NEW p \in Server PROVE ServerInv(p)'
    <2>1. CASE p = s
      <3>1. /\ loop'[p].at = "pop" /\ m_lastSnapShotRaftLogIndex'[p] = m_lastSnapShotRaftLogIndex[p]
            /\ covered'[p] = covered[p]
        BY <1>1, <2>1 DEF history
      <3>2. Indexes(p)'
        <4>1. CASE Accepted(s, loop[s].index)
          <5>1. m_lastSnapshotIncludeIndex'[p] = loop[p].index /\ m_raftStateSize'[p] = 0
            BY <2>1, <4>1, Functions DEF Save
          <5>. QED
            BY <1>1, <1>2, <1>3, <1>4, <2>1, <3>1, <4>1, <5>1, Functions DEF Indexes, Accepted
        <4>2. CASE ~Accepted(s, loop[s].index)
          BY <1>2, <1>4, <2>1, <3>1, <4>2 DEF Indexes, Entries, fileVars
        <4>. QED
          BY <4>1, <4>2
      <3>3. SameChan(p) /\ SameKv(p) /\ m_lastApplied'[p] = m_lastApplied[p]
        BY <1>4 DEF SameChan, SameKv, chanVars, history
      <3>. QED
        BY <3>2, <3>3, ChanKept DEF ServerInv, SnapshotInv
    <2>2. CASE p # s
      <3>1. Same(p)
        BY <1>1, <1>4, <2>2, Functions DEF Same, SameRaft, SameChan, SameKv, Save, fileVars,
           chanVars, history
      <3>. QED
        BY <3>1, Untouched
    <2>. QED
      BY <2>1, <2>2
  <1>. QED
    BY <1>5, <1>6, <1>8, <1>9 DEF SnapshotInv, Types

-----------------------------------------------------------------------------
(* Queues.                                                                 *)

\* What is in a queue after a push.
LEMMA Pushed ==
    ASSUME NEW S, NEW q \in Seq(S), NEW e \in S
    PROVE  /\ Append(q, e) \in Seq(S)
           /\ DOMAIN q = 1..Len(q) /\ Len(q) \in Nat
           /\ DOMAIN Append(q, e) = 1..(Len(q) + 1)
           /\ \A i \in 1..Len(q) : Append(q, e)[i] = q[i]
           /\ Append(q, e)[Len(q) + 1] = e
  OBVIOUS

\* What is in a queue after a pop.
LEMMA Shifted ==
    ASSUME NEW S, NEW q \in Seq(S), q # <<>>
    PROVE  /\ Tail(q) \in Seq(S) /\ Head(q) \in S /\ Head(q) = q[1]
           /\ DOMAIN q = 1..Len(q) /\ Len(q) \in Nat \ {0}
           /\ DOMAIN Tail(q) = 1..(Len(q) - 1)
           /\ \A i \in 1..(Len(q) - 1) : Tail(q)[i] = q[i + 1]
  OBVIOUS

\* What is in two queues, one after the other.
LEMMA Joined ==
    ASSUME NEW S, NEW p \in Seq(S), NEW q \in Seq(S)
    PROVE  /\ Len(p) \in Nat /\ DOMAIN p = 1..Len(p)
           /\ Len(q) \in Nat /\ DOMAIN q = 1..Len(q)
           /\ DOMAIN (p \o q) = 1..(Len(p) + Len(q))
           /\ \A i \in DOMAIN (p \o q) :
                 \/ i \in DOMAIN p /\ (p \o q)[i] = p[i]
                 \/ i > Len(p) /\ i - Len(p) \in DOMAIN q /\ (p \o q)[i] = q[i - Len(p)]
  OBVIOUS

\* The messages made of the commands between two indexes.
LEMMA MessagesOf ==
    ASSUME NEW a \in Nat, NEW b \in 1..MaxIndex, a < b
    PROVE  /\ Messages(a + 1, b) \in Seq(Commands)
           /\ DOMAIN Messages(a + 1, b) = 1..(b - a)
           /\ \A i \in 1..(b - a) : Messages(a + 1, b)[i].index = a + i
  <1>1. MaxIndex \in Nat
    BY SnapshotAssumption
  <1>2. (b + 1) - (a + 1) = b - a /\ b - a \in Nat
    BY <1>1
  <1>3. \A i \in 1..(b - a) : (a + 1) + i - 1 = a + i /\ a + i \in 1..MaxIndex
    BY <1>1
  <1>4. Messages(a + 1, b) = [i \in 1..(b - a) |-> [kind |-> "command", index |-> a + i]]
    BY <1>2, <1>3 DEF Messages
  <1>5. \A i \in 1..(b - a) : [kind |-> "command", index |-> a + i] \in Commands
    BY <1>3 DEF Commands
  <1>. DEFINE n == b - a
              f == [i \in 1..n |-> [kind |-> "command", index |-> a + i]]
  <1>6. n \in Nat /\ DOMAIN f = 1..n /\ \A i \in 1..n : f[i] \in Commands /\ f[i].index = a + i
    BY <1>2, <1>5
  <1>7. f \in [1..n -> Commands]
    BY <1>6
  <1>8. f \in Seq(Commands)
    BY <1>6, <1>7
  <1>. QED
    BY <1>4, <1>6, <1>8

-----------------------------------------------------------------------------
(* The applier takes what is committed and pushes it.                      *)

\* All that is committed and not yet applied becomes the batch.
LEMMA TakeStep ==
    ASSUME SnapshotInv, NEW s \in Server, getApplyLogs(s)
    PROVE  SnapshotInv'
  <1>. USE DEF getApplyLogs
  <1>. DEFINE a == m_lastApplied[s]
              b == m_commitIndex[s]
  <1>1. a \in Nat /\ b \in Nat /\ b \in 1..MaxIndex /\ a < b
    <2>1. MaxIndex \in Nat /\ Len(chosen) <= MaxIndex
      BY SnapshotAssumption DEF SnapshotInv, Types, RaftTypes
    <2>. QED
      BY <2>1, Functions DEF ServerInv, Indexes
  <1>2. batch \in [Server -> Seq(Commands)] /\ batch'[s] = Messages(a + 1, b)
    BY DEF SnapshotInv, Types, ChanTypes, Batch
  <1>3. /\ batch'[s] \in Seq(Commands) /\ DOMAIN batch'[s] = 1..(b - a)
        /\ \A i \in 1..(b - a) : batch'[s][i].index = a + i
    BY <1>1, <1>2, MessagesOf
  <1>4. m_lastApplied' \in [Server -> Nat] /\ m_lastApplied'[s] = b
    BY <1>1, Functions
  <1>5. RaftTypes' /\ FileTypes' /\ KvTypes'
    BY <1>4 DEF SnapshotInv, Types, RaftTypes, FileTypes, KvTypes, fileVars, kvVars, history
  <1>6. ChanTypes'
    BY <1>2, <1>3 DEF SnapshotInv, Types, ChanTypes
  <1>7. ASSUME NEW p \in Server PROVE ServerInv(p)'
    <2>1. CASE p = s
      <3>0. /\ applyChan'[s] = applyChan[s] /\ done'[s] = done[s] /\ covered'[s] = covered[s]
            /\ detached'[s] = detached[s] /\ batch[s] = <<>> /\ done[s] \subseteq Nat
        BY Functions DEF kvVars, history
      <3>1. Indexes(s)'
        <4>1. /\ logEnd' = logEnd /\ m_commitIndex' = m_commitIndex /\ covered' = covered
              /\ m_lastSnapshotIncludeIndex' = m_lastSnapshotIncludeIndex /\ chosen' = chosen
              /\ m_lastSnapShotRaftLogIndex' = m_lastSnapShotRaftLogIndex
              /\ loop' = loop /\ m_raftStateSize' = m_raftStateSize
          BY DEF fileVars, kvVars, history
        <4>2. loop[s].at # "pop" => loop[s].index \in Nat /\ loop[s].index <= b
          BY <1>1, PartsOf, Numbers DEF Indexes
        <4>3. m_lastSnapshotIncludeIndex[s] <= b
          BY <1>1, PartsOf DEF Indexes
        <4>. QED
          BY <1>1, <1>4, <4>1, <4>2, <4>3, PartsOf DEF Indexes, Entries
      <3>2. SnapshotsCovered(s)'
        BY <3>0, Functions DEF ServerInv, SnapshotsCovered
      <3>3. ChanInOrder(s)'
        <4>1. \A i \in DOMAIN applyChan[s] : IsCommand(s, i) => applyChan[s][i].index <= b
          <5>. SUFFICES ASSUME NEW i \in DOMAIN applyChan[s], IsCommand(s, i)
                        PROVE  applyChan[s][i].index <= b
            OBVIOUS
          <5>1. applyChan[s][i].index \in Nat
            BY Numbers
          <5>2. applyChan[s][i].index <= a
            BY PartsOf DEF ChanInOrder
          <5>. QED
            BY <1>1, <5>1, <5>2
        <4>2. ChanInOrder(s)
          BY PartsOf
        <4>. QED
          BY <1>4, <3>0, <4>1, <4>2 DEF ChanInOrder, IsCommand
      <3>4. BatchInOrder(s)'
        <4>0. \A i \in 1..(b - a) : i \in Nat /\ a + i <= b /\ a + i > a
          BY <1>1
        <4>1. \A i \in DOMAIN batch'[s] : batch'[s][i].index = a + i /\ i \in Nat /\ a + i <= b
                                             /\ a + i > a
          BY <1>3, <4>0
        <4>2. \A d \in done[s] : d \in Nat /\ d <= a
          BY <1>1, Functions DEF ServerInv, DoneApplied
        <4>3. \A i \in DOMAIN applyChan[s] :
                IsCommand(s, i) => applyChan[s][i].index \in Nat /\ applyChan[s][i].index <= a
          <5>1. \A i \in DOMAIN applyChan[s] : applyChan[s][i].index \in Nat
            BY Numbers
          <5>2. ChanInOrder(s)
            BY PartsOf
          <5>. QED
            BY <5>1, <5>2 DEF ChanInOrder
        <4>. QED
          BY <1>1, <1>4, <3>0, <4>1, <4>2, <4>3 DEF BatchInOrder, IsCommand
      <3>5. DoneApplied(s)'
        BY <1>1, <1>4, <3>0, Functions DEF ServerInv, DoneApplied
      <3>6. Accounted(s)'
        <4>. SUFFICES ASSUME NEW j \in 1..b
                      PROVE  \/ j \in done[s] \/ j <= covered[s]
                             \/ \E i \in DOMAIN applyChan[s] :
                                    IsCommand(s, i) /\ applyChan[s][i].index = j
                             \/ \E i \in DOMAIN batch'[s] : batch'[s][i].index = j
          BY <1>4, <3>0 DEF Accounted, IsCommand
        <4>1. CASE j <= a
          <5>1. j \in 1..a /\ Accounted(s) /\ ~ \E i \in DOMAIN batch[s] : batch[s][i].index = j
            BY <1>1, <3>0, <4>1, Functions DEF ServerInv
          <5>. QED
            BY <5>1 DEF Accounted
        <4>2. CASE j > a
          <5>1. j - a \in 1..(b - a) /\ a + (j - a) = j
            BY <1>1, <4>2
          <5>. QED
            BY <1>3, <5>1
        <4>. QED
          BY <1>1, <4>1, <4>2
      <3>. QED
        BY <2>1, <3>1, <3>2, <3>3, <3>4, <3>5, <3>6 DEF ServerInv
    <2>2. CASE p # s
      <3>1. Same(p)
        BY <1>2, <2>2, Functions DEF Same, SameRaft, SameChan, SameKv, fileVars, kvVars, history
      <3>. QED
        BY <3>1, Untouched
    <2>. QED
      BY <2>1, <2>2
  <1>. QED
    BY <1>5, <1>6, <1>7 DEF SnapshotInv, Types

\* The applier pushes the first command of its batch.
LEMMA PushStep ==
    ASSUME SnapshotInv, NEW s \in Server, applierTicker(s)
    PROVE  SnapshotInv'
  <1>. DEFINE c == applyChan[s]
              b == batch[s]
              n == Len(applyChan[s])
  <1>1. /\ applyChan \in [Server -> Seq(Commands \cup Snapshots)]
        /\ batch \in [Server -> Seq(Commands)] /\ b # <<>>
        /\ applyChan' = [applyChan EXCEPT ![s] = Append(c, Head(b))]
        /\ batch' = [batch EXCEPT ![s] = Tail(b)]
    BY DEF SnapshotInv, Types, ChanTypes, applierTicker
  <1>2. /\ Tail(b) \in Seq(Commands) /\ Head(b) \in Commands /\ Head(b) = b[1]
        /\ DOMAIN b = 1..Len(b) /\ Len(b) \in Nat \ {0} /\ DOMAIN Tail(b) = 1..(Len(b) - 1)
        /\ \A i \in 1..(Len(b) - 1) : Tail(b)[i] = b[i + 1]
    BY <1>1, Shifted
  <1>3. b[1].kind = "command"
    BY <1>2 DEF Commands
  <1>4. /\ Append(c, b[1]) \in Seq(Commands \cup Snapshots) /\ DOMAIN c = 1..n /\ n \in Nat
        /\ DOMAIN Append(c, b[1]) = 1..(n + 1) /\ Append(c, b[1])[n + 1] = b[1]
        /\ \A i \in 1..n : Append(c, b[1])[i] = c[i]
    BY <1>1, <1>2, Pushed
  <1>5. applyChan'[s] = Append(c, b[1]) /\ batch'[s] = Tail(b)
    BY <1>1, <1>2
  <1>6. ChanTypes'
    BY <1>1, <1>2, <1>4 DEF SnapshotInv, Types, ChanTypes, applierTicker
  <1>7. RaftTypes' /\ FileTypes' /\ KvTypes'
    BY DEF SnapshotInv, Types, RaftTypes, FileTypes, KvTypes, applierTicker, raftVars, fileVars,
       kvVars, history
  <1>8. ASSUME NEW p \in Server PROVE ServerInv(p)'
    <2>1. CASE p = s
      <3>0. /\ done' = done /\ covered' = covered /\ detached' = detached
            /\ m_lastApplied' = m_lastApplied
        BY DEF applierTicker, raftVars, kvVars, history
      <3>1. ServerInv(s) /\ m_lastApplied[s] \in Nat
        BY Functions
      <3>2. Indexes(s)'
        BY <3>1 DEF ServerInv, Indexes, Entries, applierTicker, raftVars, fileVars, kvVars, history
      <3>3. SnapshotsCovered(s)'
        BY <1>3, <1>4, <1>5, <3>0, <3>1 DEF ServerInv, SnapshotsCovered
      <3>. DEFINE C == applyChan'[s]
                  IsCom(i) == C[i].kind = "command"
      <3>c. /\ DOMAIN C = 1..(n + 1) /\ C[n + 1] = b[1]
            /\ \A i \in 1..n : C[i] = c[i]
            /\ \A i \in 1..(n + 1) : i \in 1..n \/ i = n + 1
        BY <1>4, <1>5
      <3>b. \A i \in 1..n : c[i].kind = "command" => \A j \in 1..Len(b) : c[i].index < b[j].index
        BY <1>2, <1>4, <3>1 DEF ServerInv, BatchInOrder, IsCommand
      <3>f. 1 \in 1..Len(b) /\ \A j \in 1..(Len(b) - 1) : j + 1 \in 1..Len(b) /\ 1 < j + 1
        BY <1>2
      <3>4. ChanInOrder(s)'
        <4>1. \A i \in 1..(n + 1) : IsCom(i) => C[i].index <= m_lastApplied[s]
          BY <1>2, <1>4, <3>1, <3>c, <3>f DEF ServerInv, ChanInOrder, BatchInOrder, IsCommand
        <4>2. ASSUME NEW i \in 1..(n + 1), NEW j \in 1..(n + 1), IsCom(i), IsCom(j), i < j
              PROVE  C[i].index < C[j].index
          <5>1. i \in 1..n
            BY <1>4, <4>2
          <5>2. CASE j \in 1..n
            BY <1>4, <3>1, <3>c, <4>2, <5>1, <5>2 DEF ServerInv, ChanInOrder, IsCommand
          <5>3. CASE j = n + 1
            BY <3>b, <3>c, <3>f, <4>2, <5>1, <5>3
          <5>. QED
            BY <3>c, <5>2, <5>3
        <4>3. \A d \in done[s] : \A i \in 1..(n + 1) : IsCom(i) => d < C[i].index
          BY <1>2, <1>4, <3>1, <3>c, <3>f DEF ServerInv, ChanInOrder, BatchInOrder, IsCommand
        <4>. QED
          BY <3>0, <3>c, <4>1, <4>2, <4>3 DEF ChanInOrder, IsCommand
      <3>5. BatchInOrder(s)'
        <4>. DEFINE B == batch'[s]
        <4>0. DOMAIN B = 1..(Len(b) - 1) /\ \A j \in 1..(Len(b) - 1) : B[j] = b[j + 1]
          BY <1>2, <1>5
        <4>1. \A i \in DOMAIN B : B[i].index <= m_lastApplied[s]
          BY <1>2, <3>1, <3>f, <4>0 DEF ServerInv, BatchInOrder
        <4>a. \A k, l \in 1..Len(b) : k < l => b[k].index < b[l].index
          BY <1>2, <3>1 DEF ServerInv, BatchInOrder
        <4>2. \A i, j \in DOMAIN B : i < j => B[i].index < B[j].index
          <5>1. \A i, j \in 1..(Len(b) - 1) : i < j => i + 1 < j + 1
            BY <1>2
          <5>. QED
            BY <3>f, <4>0, <4>a, <5>1
        <4>3. \A d \in done[s] : \A i \in DOMAIN B : d < B[i].index
          BY <1>2, <3>1, <3>f, <4>0 DEF ServerInv, BatchInOrder
        <4>4. ASSUME NEW i \in 1..(n + 1), NEW j \in DOMAIN B, IsCom(i)
              PROVE  C[i].index < B[j].index
          <5>1. j + 1 \in 1..Len(b) /\ 1 < j + 1 /\ B[j] = b[j + 1]
            BY <3>f, <4>0
          <5>2. CASE i \in 1..n
            BY <3>b, <3>c, <4>4, <5>1, <5>2
          <5>3. CASE i = n + 1
            BY <3>c, <3>f, <4>a, <5>1, <5>3
          <5>. QED
            BY <3>c, <5>2, <5>3
        <4>. QED
          BY <3>0, <3>c, <4>1, <4>2, <4>3, <4>4 DEF BatchInOrder, IsCommand
      <3>6. Accounted(s)'
        <4>. SUFFICES ASSUME NEW j \in 1..m_lastApplied[s],
                             ~(j \in done[s] \/ j <= covered[s])
                      PROVE  \/ \E i \in 1..(n + 1) :
                                    /\ applyChan'[s][i].kind = "command"
                                    /\ applyChan'[s][i].index = j
                             \/ \E i \in 1..(Len(b) - 1) : Tail(b)[i].index = j
          BY <1>2, <1>4, <1>5, <3>0 DEF Accounted, IsCommand
        <4>1. CASE \E i \in 1..n : c[i].kind = "command" /\ c[i].index = j
          BY <1>4, <1>5, <4>1
        <4>2. CASE \E i \in 1..Len(b) : b[i].index = j
          <5>1. PICK i \in 1..Len(b) : b[i].index = j
            BY <4>2
          <5>2. CASE i = 1
            BY <1>3, <1>4, <1>5, <5>1, <5>2
          <5>3. CASE i # 1
            <6>1. i - 1 \in 1..(Len(b) - 1) /\ (i - 1) + 1 = i
              BY <1>2, <5>3
            <6>. QED
              BY <1>2, <5>1, <6>1
          <5>. QED
            BY <5>2, <5>3
        <4>. QED
          BY <1>2, <1>4, <3>1, <4>1, <4>2 DEF ServerInv, Accounted, IsCommand
      <3>. QED
        BY <2>1, <3>0, <3>1, <3>2, <3>3, <3>4, <3>5, <3>6 DEF ServerInv, DoneApplied
    <2>2. CASE p # s
      <3>1. Same(p)
        BY <1>1, <2>2 DEF Same, SameRaft, SameChan, SameKv, applierTicker, raftVars, fileVars,
           kvVars, history
      <3>. QED
        BY <3>1, Untouched DEF applierTicker
    <2>. QED
      BY <2>1, <2>2
  <1>. QED
    BY <1>6, <1>7, <1>8 DEF SnapshotInv, Types

\* The thread that an installation left the snapshot to pushes it.
LEMMA PushSnapshotStep ==
    ASSUME SnapshotInv, NEW s \in Server, NEW m \in detached[s], pushMsgToKvServer(s, m)
    PROVE  SnapshotInv'
  <1>. DEFINE c == applyChan[s]
              n == Len(applyChan[s])
  <1>1. /\ applyChan \in [Server -> Seq(Commands \cup Snapshots)]
        /\ detached \in [Server -> SUBSET Snapshots]
        /\ applyChan' = [applyChan EXCEPT ![s] = Append(c, m)]
        /\ detached' = [detached EXCEPT ![s] = @ \ {m}]
    BY DEF SnapshotInv, Types, ChanTypes, pushMsgToKvServer
  <1>2. m \in Snapshots /\ m.kind = "snapshot"
    BY <1>1 DEF Snapshots
  <1>3. /\ Append(c, m) \in Seq(Commands \cup Snapshots) /\ DOMAIN c = 1..n /\ n \in Nat
        /\ DOMAIN Append(c, m) = 1..(n + 1) /\ Append(c, m)[n + 1] = m
        /\ \A i \in 1..n : Append(c, m)[i] = c[i]
    BY <1>1, <1>2, Pushed
  <1>4. applyChan'[s] = Append(c, m) /\ detached'[s] = detached[s] \ {m}
    BY <1>1
  <1>5. ChanTypes'
    BY <1>1, <1>3 DEF SnapshotInv, Types, ChanTypes, pushMsgToKvServer
  <1>6. RaftTypes' /\ FileTypes' /\ KvTypes'
    BY DEF SnapshotInv, Types, RaftTypes, FileTypes, KvTypes, pushMsgToKvServer, raftVars,
       fileVars, kvVars, history
  <1>7. ASSUME NEW p \in Server PROVE ServerInv(p)'
    <2>1. CASE p = s
      <3>0. /\ done' = done /\ covered' = covered /\ batch' = batch
            /\ m_lastApplied' = m_lastApplied
        BY DEF pushMsgToKvServer, raftVars, kvVars, history
      <3>1. ServerInv(s) /\ m_lastApplied[s] \in Nat
        BY Functions
      <3>2. Indexes(s)'
        BY <3>1 DEF ServerInv, Indexes, Entries, pushMsgToKvServer, raftVars, fileVars, kvVars,
           history
      <3>3. SnapshotsCovered(s)'
        BY <1>3, <1>4, <3>0, <3>1 DEF ServerInv, SnapshotsCovered
      <3>4. ChanInOrder(s)'
        BY <1>2, <1>3, <1>4, <3>0, <3>1 DEF ServerInv, ChanInOrder, IsCommand
      <3>5. BatchInOrder(s)'
        BY <1>2, <1>3, <1>4, <3>0, <3>1 DEF ServerInv, BatchInOrder, IsCommand
      <3>6. Accounted(s)'
        BY <1>3, <1>4, <3>0, <3>1 DEF ServerInv, Accounted, IsCommand
      <3>. QED
        BY <2>1, <3>0, <3>1, <3>2, <3>3, <3>4, <3>5, <3>6 DEF ServerInv, DoneApplied
    <2>2. CASE p # s
      <3>1. Same(p)
        BY <1>1, <2>2 DEF Same, SameRaft, SameChan, SameKv, pushMsgToKvServer, raftVars, fileVars,
           kvVars, history
      <3>. QED
        BY <3>1, Untouched DEF pushMsgToKvServer
    <2>. QED
      BY <2>1, <2>2
  <1>. QED
    BY <1>5, <1>6, <1>7 DEF SnapshotInv, Types

-----------------------------------------------------------------------------
(* The loop takes what is first in the channel.                            *)

\* What is left in the channel is in order; what went is its first message.
LEMMA PoppedChan ==
    ASSUME SnapshotInv, NEW s \in Server, NEW kind, Popped(s, kind)
    PROVE  /\ applyChan' \in [Server -> Seq(Commands \cup Snapshots)]
           /\ \A p \in Server \ {s} : applyChan'[p] = applyChan[p]
           /\ 1 \in DOMAIN applyChan[s] /\ Head(applyChan[s]) = applyChan[s][1]
           /\ applyChan[s][1] \in Commands \cup Snapshots /\ applyChan[s][1].kind = kind
           /\ \A i \in DOMAIN applyChan'[s] :
                 /\ i \in Nat /\ i + 1 \in DOMAIN applyChan[s] /\ 1 < i + 1
                 /\ applyChan'[s][i] = applyChan[s][i + 1]
           /\ \A i \in DOMAIN applyChan[s] :
                 i = 1 \/ \E j \in DOMAIN applyChan'[s] : applyChan'[s][j] = applyChan[s][i]
  <1>. DEFINE c == applyChan[s]
              n == Len(applyChan[s])
  <1>1. /\ applyChan \in [Server -> Seq(Commands \cup Snapshots)] /\ c # <<>>
        /\ applyChan' = [applyChan EXCEPT ![s] = Tail(c)] /\ Head(c).kind = kind
    BY DEF SnapshotInv, Types, ChanTypes, Popped
  <1>2. /\ Tail(c) \in Seq(Commands \cup Snapshots) /\ Head(c) \in Commands \cup Snapshots
        /\ Head(c) = c[1] /\ DOMAIN c = 1..n /\ n \in Nat \ {0} /\ DOMAIN Tail(c) = 1..(n - 1)
        /\ \A i \in 1..(n - 1) : Tail(c)[i] = c[i + 1]
    BY <1>1, Shifted
  <1>3. applyChan'[s] = Tail(c)
    BY <1>1
  <1>4. \A i \in 1..(n - 1) : i \in Nat /\ i + 1 \in 1..n /\ 1 < i + 1
    BY <1>2
  <1>5. ASSUME NEW i \in 1..n, i # 1
        PROVE  \E j \in 1..(n - 1) : Tail(c)[j] = c[i]
    <2>1. i - 1 \in 1..(n - 1) /\ (i - 1) + 1 = i
      BY <1>2, <1>5
    <2>. QED
      BY <1>2, <2>1
  <1>6. /\ applyChan' \in [Server -> Seq(Commands \cup Snapshots)]
        /\ \A p \in Server \ {s} : applyChan'[p] = applyChan[p]
    BY <1>1, <1>2
  <1>7. 1 \in DOMAIN c /\ Head(c) = c[1] /\ c[1] \in Commands \cup Snapshots /\ c[1].kind = kind
    BY <1>1, <1>2
  <1>8. \A i \in DOMAIN applyChan'[s] :
            /\ i \in Nat /\ i + 1 \in DOMAIN c /\ 1 < i + 1
            /\ applyChan'[s][i] = c[i + 1]
    BY <1>2, <1>3, <1>4
  <1>9. \A i \in DOMAIN c : i = 1 \/ \E j \in DOMAIN applyChan'[s] : applyChan'[s][j] = c[i]
    BY <1>2, <1>3, <1>5
  <1>. QED
    BY <1>6, <1>7, <1>8, <1>9

\* What the order of the channel becomes when its first message is taken.
LEMMA PoppedInOrder ==
    ASSUME SnapshotInv, NEW s \in Server, NEW kind, Popped(s, kind), UNCHANGED m_lastApplied
    PROVE  /\ \A i \in DOMAIN applyChan'[s] :
                IsCommand(s, i)' => applyChan'[s][i].index <= m_lastApplied'[s]
           /\ \A i, j \in DOMAIN applyChan'[s] :
                IsCommand(s, i)' /\ IsCommand(s, j)' /\ i < j
                    => applyChan'[s][i].index < applyChan'[s][j].index
           /\ \A i \in DOMAIN applyChan'[s] : \A d \in done[s] :
                IsCommand(s, i)' => d < applyChan'[s][i].index
           /\ kind = "command" => \A i \in DOMAIN applyChan'[s] :
                IsCommand(s, i)' => applyChan[s][1].index < applyChan'[s][i].index
  <1>1. ChanInOrder(s)
    BY DEF SnapshotInv, ServerInv
  <1>2. \A i, j \in DOMAIN applyChan'[s] : i < j => i + 1 < j + 1
    BY PoppedChan
  <1>3. \A i \in DOMAIN applyChan'[s] :
            /\ i \in Nat /\ i + 1 \in DOMAIN applyChan[s] /\ 1 < i + 1
            /\ applyChan'[s][i] = applyChan[s][i + 1]
    BY PoppedChan
  <1>4. 1 \in DOMAIN applyChan[s] /\ applyChan[s][1].kind = kind
    BY PoppedChan
  <1>5. \A i, j \in DOMAIN applyChan'[s] :
                IsCommand(s, i)' /\ IsCommand(s, j)' /\ i < j
                    => applyChan'[s][i].index < applyChan'[s][j].index
    BY <1>1, <1>2, <1>3 DEF ChanInOrder, IsCommand
  <1>6. \A i \in DOMAIN applyChan'[s] :
                IsCommand(s, i)' => applyChan'[s][i].index <= m_lastApplied'[s]
    BY <1>1, <1>3 DEF ChanInOrder, IsCommand
  <1>7. \A i \in DOMAIN applyChan'[s] : \A d \in done[s] :
                IsCommand(s, i)' => d < applyChan'[s][i].index
    BY <1>1, <1>3 DEF ChanInOrder, IsCommand
  <1>8. kind = "command" => \A i \in DOMAIN applyChan'[s] :
                IsCommand(s, i)' => applyChan[s][1].index < applyChan'[s][i].index
    BY <1>1, <1>3, <1>4 DEF ChanInOrder, IsCommand
  <1>. QED
    BY <1>5, <1>6, <1>7, <1>8

\* A command is passed over or executed.
LEMMA CommandStep ==
    ASSUME SnapshotInv, NEW s \in Server, GetCommandFromRaft(s)
    PROVE  SnapshotInv'
  <1>. DEFINE i == applyChan[s][1].index
  <1>1. Popped(s, "command") /\ UNCHANGED <<chosen, raftVars, installs, fileVars, batch, detached,
                   m_lastSnapShotRaftLogIndex, exited, covered, sends, restarts>>
    BY DEF GetCommandFromRaft
  <1>2. /\ applyChan' \in [Server -> Seq(Commands \cup Snapshots)]
        /\ applyChan[s][1] \in Commands
        /\ 1 \in DOMAIN applyChan[s] /\ Head(applyChan[s]) = applyChan[s][1]
    BY <1>1, PoppedChan DEF Commands, Snapshots
  <1>3. i \in 1..MaxIndex /\ MaxIndex \in Nat /\ i <= m_lastApplied[s] /\ i <= Len(chosen)
    <2>1. i \in 1..MaxIndex /\ MaxIndex \in Nat
      BY <1>2, Numbers
    <2>2. i <= m_lastApplied[s]
      BY <1>2, Functions DEF ServerInv, ChanInOrder, IsCommand, Commands
    <2>. QED
      BY <2>1, <2>2, Functions DEF ServerInv, Indexes
  <1>4. chosen[i] \in Ops
    BY <1>3 DEF SnapshotInv, Types, RaftTypes
  <1>5. /\ loop \in [Server -> Loops] /\ done \in [Server -> SUBSET Nat]
        /\ m_skipList \in [Server -> Data] /\ m_lastRequestId \in [Server -> 0..MaxIndex]
    BY DEF SnapshotInv, Types, KvTypes
  <1>6. IF Skipped(s, i)
        THEN UNCHANGED <<loop, m_skipList, m_lastRequestId, done>>
        ELSE /\ loop' = [loop EXCEPT ![s] = [at |-> "measure", index |-> i]]
             /\ done' = [done EXCEPT ![s] = @ \cup {i}]
             /\ m_skipList' \in [Server -> Data] /\ m_lastRequestId' \in [Server -> 0..MaxIndex]
    <2>1. /\ chosen[i].request \in 1..MaxIndex /\ chosen[i].key \in Keys
          /\ chosen[i].request \in 0..MaxIndex
      BY <1>3, <1>4 DEF Ops
    <2>2. [m_skipList[s] EXCEPT ![chosen[i].key] = chosen[i].request] \in Data
      BY <1>5, <2>1 DEF Data
    <2>3. /\ [m_skipList EXCEPT ![s][chosen[i].key] = chosen[i].request] \in [Server -> Data]
          /\ [m_lastRequestId EXCEPT ![s] = chosen[i].request] \in [Server -> 0..MaxIndex]
      BY <1>5, <2>1, <2>2
    <2>4. IF Skipped(s, i)
          THEN UNCHANGED <<loop, m_skipList, m_lastRequestId, done>>
          ELSE /\ loop' = [loop EXCEPT ![s] = [at |-> "measure", index |-> i]]
               /\ done' = [done EXCEPT ![s] = @ \cup {i}]
               /\ IF chosen[i].request <= m_lastRequestId[s]
                  THEN UNCHANGED <<m_skipList, m_lastRequestId>>
                  ELSE /\ m_skipList' = [m_skipList EXCEPT ![s][chosen[i].key] = chosen[i].request]
                       /\ m_lastRequestId' = [m_lastRequestId EXCEPT ![s] = chosen[i].request]
      BY <1>2 DEF GetCommandFromRaft
    <2>. QED
      BY <1>5, <2>3, <2>4
  <1>7. loop' \in [Server -> Loops] /\ done' \in [Server -> SUBSET Nat]
    <2>1. [at |-> "measure", index |-> i] \in Loops
      BY <1>3 DEF Loops
    <2>2. i \in Nat /\ done[s] \cup {i} \in SUBSET Nat
      BY <1>3, <1>5
    <2>3. loop' = loop \/ loop' = [loop EXCEPT ![s] = [at |-> "measure", index |-> i]]
      BY <1>6
    <2>4. done' = done \/ done' = [done EXCEPT ![s] = done[s] \cup {i}]
      BY <1>6
    <2>. QED
      BY <1>5, <2>1, <2>2, <2>3, <2>4
  <1>8. RaftTypes' /\ FileTypes' /\ ChanTypes'
    BY <1>1, <1>2 DEF SnapshotInv, Types, RaftTypes, FileTypes, ChanTypes, raftVars, fileVars
  <1>9. KvTypes'
    BY <1>1, <1>5, <1>6, <1>7 DEF SnapshotInv, Types, KvTypes
  <1>10. ASSUME NEW p \in Server PROVE ServerInv(p)'
    <2>1. CASE p = s
      <3>1. ServerInv(s)
        BY Functions
      <3>2. Indexes(s)'
        BY <1>1, <1>3, <1>5, <1>6, <3>1 DEF ServerInv, Indexes, Entries, raftVars, fileVars
      <3>3. SnapshotsCovered(s)'
        BY <1>1, <3>1, PoppedChan DEF ServerInv, SnapshotsCovered
      <3>4. done'[s] = done[s] \/ (done'[s] = done[s] \cup {i} /\ ~Skipped(s, i))
        BY <1>5, <1>6
      <3>5. m_lastApplied' = m_lastApplied /\ batch' = batch /\ covered' = covered
        BY <1>1 DEF raftVars
      <3>6. ChanInOrder(s)'
        BY <1>1, <3>4, <3>5, PoppedInOrder DEF ChanInOrder
      <3>7. BatchInOrder(s)'
        <4>1. \A j \in DOMAIN batch[s] : i < batch[s][j].index
          BY <1>1, <3>1, PoppedChan DEF ServerInv, BatchInOrder, IsCommand
        <4>2. \A k \in DOMAIN applyChan'[s] : \A j \in DOMAIN batch[s] :
                IsCommand(s, k)' => applyChan'[s][k].index < batch[s][j].index
          BY <1>1, <3>1, PoppedChan DEF ServerInv, BatchInOrder, IsCommand
        <4>. QED
          BY <3>1, <3>4, <3>5, <4>1, <4>2 DEF ServerInv, BatchInOrder
      <3>8. DoneApplied(s)'
        BY <1>3, <3>1, <3>4, <3>5 DEF ServerInv, DoneApplied
      <3>9. Accounted(s)'
        <4>1. i \in done'[s] \/ i <= covered[s]
          <5>1. CASE Skipped(s, i)
            <6>1. i \in Nat /\ i <= m_lastSnapShotRaftLogIndex[s]
              BY <1>3, <5>1 DEF Skipped
            <6>2. m_lastSnapShotRaftLogIndex[s] <= covered[s]
              BY PartsOf DEF Indexes
            <6>3. m_lastSnapShotRaftLogIndex[s] \in Nat /\ covered[s] \in Nat
              BY PartsOf
            <6>. QED
              BY <6>1, <6>2, <6>3
          <5>2. CASE ~Skipped(s, i)
            BY <1>5, <1>6, <5>2
          <5>. QED
            BY <5>1, <5>2
        <4>2. ASSUME NEW k \in DOMAIN applyChan[s], IsCommand(s, k), applyChan[s][k].index # i
              PROVE  \E j \in DOMAIN applyChan'[s] :
                        IsCommand(s, j)' /\ applyChan'[s][j].index = applyChan[s][k].index
          <5>1. k # 1
            BY <4>2
          <5>2. \A q \in DOMAIN applyChan[s] :
                    q = 1 \/ \E j \in DOMAIN applyChan'[s] : applyChan'[s][j] = applyChan[s][q]
            BY <1>1, PoppedChan
          <5>3. PICK j \in DOMAIN applyChan'[s] : applyChan'[s][j] = applyChan[s][k]
            BY <5>1, <5>2
          <5>. QED
            BY <4>2, <5>3 DEF IsCommand
        <4>. SUFFICES ASSUME NEW j \in 1..m_lastApplied[s]
                      PROVE  \/ j \in done'[s] \/ j <= covered[s]
                             \/ \E k \in DOMAIN applyChan'[s] :
                                    IsCommand(s, k)' /\ applyChan'[s][k].index = j
                             \/ \E k \in DOMAIN batch[s] : batch[s][k].index = j
          BY <3>5 DEF Accounted
        <4>3. Accounted(s)
          BY PartsOf
        <4>4. done[s] \subseteq done'[s]
          BY <3>4
        <4>5. CASE j = i
          BY <4>1, <4>5
        <4>6. CASE j # i
          BY <4>2, <4>3, <4>4, <4>6 DEF Accounted
        <4>. QED
          BY <4>5, <4>6
      <3>. QED
        BY <2>1, <3>2, <3>3, <3>6, <3>7, <3>8, <3>9 DEF ServerInv
    <2>2. CASE p # s
      <3>1. Same(p)
        BY <1>1, <1>5, <1>6, <2>2, PoppedChan DEF Same, SameRaft, SameChan, SameKv, raftVars,
           fileVars
      <3>. QED
        BY <1>1, <3>1, Untouched
    <2>. QED
      BY <2>1, <2>2
  <1>. QED
    BY <1>8, <1>9, <1>10 DEF SnapshotInv, Types

\* A snapshot without bytes counts as installed; another one ends the process.
LEMMA InstalledStep ==
    ASSUME SnapshotInv, NEW s \in Server, GetSnapShotFromRaft(s)
    PROVE  SnapshotInv'
  <1>. DEFINE m == applyChan[s][1]
  <1>1. Popped(s, "snapshot") /\ UNCHANGED <<chosen, raftVars, installs, fileVars, batch, detached,
                   loop, m_skipList, m_lastRequestId, history>>
    BY DEF GetSnapShotFromRaft
  <1>2. /\ applyChan' \in [Server -> Seq(Commands \cup Snapshots)]
        /\ 1 \in DOMAIN applyChan[s] /\ Head(applyChan[s]) = m /\ m.kind = "snapshot"
    BY <1>1, PoppedChan
  <1>3. m.index \in 1..MaxIndex /\ m.index \in 0..MaxIndex
    BY <1>2, Numbers
  <1>4. /\ m_lastSnapShotRaftLogIndex \in [Server -> 0..MaxIndex] /\ exited \in [Server -> BOOLEAN]
        /\ \/ /\ m_lastSnapShotRaftLogIndex' = [m_lastSnapShotRaftLogIndex EXCEPT ![s] = m.index]
              /\ exited' = exited
           \/ /\ exited' = [exited EXCEPT ![s] = TRUE]
              /\ m_lastSnapShotRaftLogIndex' = m_lastSnapShotRaftLogIndex
    BY <1>2 DEF SnapshotInv, Types, KvTypes, GetSnapShotFromRaft
  <1>5. /\ m_lastSnapShotRaftLogIndex' \in [Server -> 0..MaxIndex]
        /\ exited' \in [Server -> BOOLEAN]
    BY <1>3, <1>4
  <1>6. RaftTypes' /\ FileTypes' /\ ChanTypes'
    BY <1>1, <1>2 DEF SnapshotInv, Types, RaftTypes, FileTypes, ChanTypes, raftVars, fileVars
  <1>7. KvTypes'
    BY <1>1, <1>5 DEF SnapshotInv, Types, KvTypes, history
  <1>8. ASSUME NEW p \in Server PROVE ServerInv(p)'
    <2>1. CASE p = s
      <3>1. ServerInv(s) /\ m.index <= covered[s]
        BY <1>2, Functions DEF ServerInv, SnapshotsCovered
      <3>2. Indexes(s)'
        BY <1>1, <1>4, <3>1 DEF ServerInv, Indexes, Entries, raftVars, fileVars, history
      <3>3. SnapshotsCovered(s)'
        BY <1>1, <3>1, PoppedChan DEF ServerInv, SnapshotsCovered, history
      <3>4. /\ m_lastApplied' = m_lastApplied /\ batch' = batch /\ covered' = covered
            /\ done' = done
        BY <1>1 DEF raftVars, history
      <3>5. ChanInOrder(s)'
        BY <1>1, <3>4, PoppedInOrder DEF ChanInOrder
      <3>6. BatchInOrder(s)'
        <4>1. \A k \in DOMAIN applyChan'[s] : \A j \in DOMAIN batch[s] :
                IsCommand(s, k)' => applyChan'[s][k].index < batch[s][j].index
          BY <1>1, <3>1, PoppedChan DEF ServerInv, BatchInOrder, IsCommand
        <4>. QED
          BY <3>1, <3>4, <4>1 DEF ServerInv, BatchInOrder
      <3>7. DoneApplied(s)'
        BY <3>1, <3>4 DEF ServerInv, DoneApplied
      <3>8. Accounted(s)'
        <4>1. ASSUME NEW k \in DOMAIN applyChan[s], IsCommand(s, k)
              PROVE  \E j \in DOMAIN applyChan'[s] :
                        IsCommand(s, j)' /\ applyChan'[s][j].index = applyChan[s][k].index
          <5>1. k # 1
            BY <1>2, <4>1 DEF IsCommand
          <5>2. \A q \in DOMAIN applyChan[s] :
                    q = 1 \/ \E j \in DOMAIN applyChan'[s] : applyChan'[s][j] = applyChan[s][q]
            BY <1>1, PoppedChan
          <5>3. PICK j \in DOMAIN applyChan'[s] : applyChan'[s][j] = applyChan[s][k]
            BY <5>1, <5>2
          <5>. QED
            BY <4>1, <5>3 DEF IsCommand
        <4>. SUFFICES ASSUME NEW j \in 1..m_lastApplied[s]
                      PROVE  \/ j \in done'[s] \/ j <= covered[s]
                             \/ \E k \in DOMAIN applyChan'[s] :
                                    IsCommand(s, k)' /\ applyChan'[s][k].index = j
                             \/ \E k \in DOMAIN batch[s] : batch[s][k].index = j
          BY <3>4 DEF Accounted
        <4>2. Accounted(s)
          BY PartsOf
        <4>. QED
          BY <3>4, <4>1, <4>2 DEF Accounted
      <3>. QED
        BY <2>1, <3>2, <3>3, <3>5, <3>6, <3>7, <3>8 DEF ServerInv
    <2>2. CASE p # s
      <3>1. Same(p)
        BY <1>1, <1>4, <2>2, PoppedChan DEF Same, SameRaft, SameChan, SameKv, raftVars,
           fileVars, history
      <3>. QED
        BY <1>1, <3>1, Untouched
    <2>. QED
      BY <2>1, <2>2
  <1>. QED
    BY <1>6, <1>7, <1>8 DEF SnapshotInv, Types

-----------------------------------------------------------------------------
(* Installation and restart write many variables of one server.            *)

\* A snapshot of an older index is dropped; another one moves the indexes.
LEMMA InstallStep ==
    ASSUME SnapshotInv, NEW r \in installs, InstallSnapshot(r)
    PROVE  SnapshotInv'
  <1>. DEFINE s == r.to
              i == r.index
              m == [kind |-> "snapshot", index |-> i, data |-> r.data]
  <1>1. /\ s \in Server /\ i \in 1..MaxIndex /\ i \in Nat /\ r.data \in {Empty, Word}
        /\ i <= Len(chosen)
    BY SnapshotAssumption DEF SnapshotInv, Types, RaftTypes, Requests
  <1>2. m \in Snapshots /\ m.index = i
    BY <1>1 DEF Snapshots
  <1>3. /\ installs' \subseteq installs
        /\ UNCHANGED <<chosen, applyChan, batch, kvVars, exited, done, sends, restarts>>
    BY DEF InstallSnapshot
  <1>4. CASE i <= m_lastSnapshotIncludeIndex[s]
    <2>1. UNCHANGED <<raftVars, fileVars, detached, covered>>
      BY <1>4 DEF InstallSnapshot
    <2>2. Types'
      BY <1>3, <2>1 DEF SnapshotInv, Types, RaftTypes, FileTypes, ChanTypes, KvTypes, raftVars,
         fileVars, kvVars
    <2>3. ASSUME NEW p \in Server PROVE ServerInv(p)'
      <3>1. Same(p)
        BY <1>3, <2>1 DEF Same, SameRaft, SameChan, SameKv, raftVars, fileVars, kvVars
      <3>. QED
        BY <1>3, <3>1, Untouched
    <2>. QED
      BY <2>2, <2>3 DEF SnapshotInv
  <1>5. CASE ~(i <= m_lastSnapshotIncludeIndex[s])
    <2>1. /\ logEnd' = [logEnd EXCEPT ![s] = Larger(@, i)]
          /\ m_commitIndex' = [m_commitIndex EXCEPT ![s] = Larger(@, i)]
          /\ m_lastApplied' = [m_lastApplied EXCEPT ![s] = Larger(@, i)]
          /\ m_lastSnapshotIncludeIndex' = [m_lastSnapshotIncludeIndex EXCEPT ![s] = i]
          /\ m_raftStateSize' = [m_raftStateSize EXCEPT ![s] = 0]
          /\ snapshotFile' = [snapshotFile EXCEPT ![s] = r.data]
          /\ detached' = [detached EXCEPT ![s] = @ \cup {m}]
          /\ covered' = [covered EXCEPT ![s] = i]
      BY <1>5 DEF InstallSnapshot, Save
    <2>2. /\ logEnd' \in [Server -> Nat] /\ m_commitIndex' \in [Server -> Nat]
          /\ m_lastApplied' \in [Server -> Nat] /\ m_lastSnapshotIncludeIndex' \in [Server -> Nat]
          /\ covered' \in [Server -> Nat] /\ m_raftStateSize' \in [Server -> Nat]
      BY <1>1, <2>1, Functions DEF Larger
    <2>3. RaftTypes'
      BY <1>3, <2>2 DEF SnapshotInv, Types, RaftTypes
    <2>4. FileTypes'
      BY <1>1, <2>1, <2>2 DEF SnapshotInv, Types, FileTypes
    <2>5. ChanTypes'
      BY <1>2, <1>3, <2>1 DEF SnapshotInv, Types, ChanTypes
    <2>6. KvTypes'
      BY <1>3, <2>2 DEF SnapshotInv, Types, KvTypes, kvVars
    <2>7. ASSUME NEW p \in Server PROVE ServerInv(p)'
      <3>1. CASE p = s
        <4>1. /\ ServerInv(s) /\ m_lastApplied[s] \in Nat /\ covered[s] \in Nat
              /\ m_lastSnapshotIncludeIndex[s] \in Nat /\ m_commitIndex[s] \in Nat
              /\ logEnd[s] \in Nat /\ done[s] \subseteq Nat
              /\ m_lastSnapShotRaftLogIndex[s] \in Nat /\ Len(chosen) \in Nat
          BY <1>1, Functions
        <4>2. /\ logEnd'[s] = Larger(logEnd[s], i) /\ m_commitIndex'[s] = Larger(m_commitIndex[s], i)
              /\ m_lastApplied'[s] = Larger(m_lastApplied[s], i)
              /\ m_lastSnapshotIncludeIndex'[s] = i /\ m_raftStateSize'[s] = 0 /\ covered'[s] = i
          BY <1>1, <2>1, Functions
        <4>3. /\ done' = done /\ applyChan' = applyChan /\ batch' = batch
              /\ m_lastSnapShotRaftLogIndex' = m_lastSnapShotRaftLogIndex /\ loop' = loop
              /\ chosen' = chosen
          BY <1>3 DEF kvVars
        <4>4. covered[s] <= covered'[s] /\ m_lastApplied[s] <= m_lastApplied'[s]
              /\ i <= m_lastApplied'[s] /\ (m_lastApplied'[s] = m_lastApplied[s] \/ m_lastApplied'[s] = i)
              /\ m_lastApplied'[s] \in Nat
          BY <1>1, <1>5, <4>1, <4>2 DEF ServerInv, Indexes, Larger
        <4>5. Indexes(s)'
          BY <1>1, <1>5, <4>1, <4>2, <4>3, Numbers DEF ServerInv, Indexes, Larger
        <4>6. SnapshotsCovered(s)'
          <5>1. detached \in [Server -> SUBSET Snapshots] /\ detached'[s] = detached[s] \cup {m}
            BY <1>1, <2>1 DEF SnapshotInv, Types, ChanTypes
          <5>2. \A x \in detached[s] : x.index \in Nat
            BY <1>1, <5>1, SnapshotAssumption DEF Snapshots
          <5>3. \A x \in detached'[s] : x.index <= i
            BY <1>1, <1>2, <4>1, <4>2, <4>4, <5>1, <5>2 DEF ServerInv, SnapshotsCovered
          <5>4. \A k \in DOMAIN applyChan[s] :
                    applyChan[s][k].kind = "snapshot" => applyChan[s][k].index <= i
            BY <1>1, <4>1, <4>2, <4>4, Numbers DEF ServerInv, SnapshotsCovered
          <5>. QED
            BY <4>2, <4>3, <5>3, <5>4 DEF SnapshotsCovered
        <4>7. ChanInOrder(s)'
          BY <1>1, <4>1, <4>3, <4>4, Numbers DEF ServerInv, ChanInOrder, IsCommand
        <4>8. BatchInOrder(s)'
          BY <1>1, <4>1, <4>3, <4>4, Numbers DEF ServerInv, BatchInOrder, IsCommand
        <4>9. DoneApplied(s)'
          BY <4>1, <4>3, <4>4 DEF ServerInv, DoneApplied
        <4>10. Accounted(s)'
          <5>. SUFFICES ASSUME NEW j \in 1..m_lastApplied'[s], ~(j <= i)
                        PROVE  \/ j \in done[s]
                               \/ \E k \in DOMAIN applyChan[s] :
                                        IsCommand(s, k) /\ applyChan[s][k].index = j
                               \/ \E k \in DOMAIN batch[s] : batch[s][k].index = j
            BY <4>2, <4>3 DEF Accounted, IsCommand
          <5>1. j \in 1..m_lastApplied[s] /\ ~(j <= covered[s])
            BY <1>1, <4>1, <4>2, <4>4
          <5>. QED
            BY <4>1, <5>1 DEF ServerInv, Accounted
        <4>. QED
          BY <3>1, <4>5, <4>6, <4>7, <4>8, <4>9, <4>10 DEF ServerInv
      <3>2. CASE p # s
        <4>1. detached'[p] = detached[p]
          BY <2>1, <3>2 DEF SnapshotInv, Types, ChanTypes
        <4>2. Same(p)
          BY <1>3, <2>1, <3>2, <4>1, Functions DEF Same, SameRaft, SameChan, SameKv, kvVars
        <4>. QED
          BY <1>3, <4>2, Untouched
      <3>. QED
        BY <3>1, <3>2
    <2>. QED
      BY <2>3, <2>4, <2>5, <2>6, <2>7 DEF SnapshotInv, Types
  <1>. QED
    BY <1>4, <1>5

\* A process starts again, with nothing.
LEMMA RestartStep ==
    ASSUME SnapshotInv, NEW s \in Server, Restart(s)
    PROVE  SnapshotInv'
  <1>1. RaftTypes'
    BY DEF SnapshotInv, Types, RaftTypes, Restart
  <1>2. FileTypes'
    BY DEF SnapshotInv, Types, FileTypes, Restart, Save
  <1>3. ChanTypes'
    BY DEF SnapshotInv, Types, ChanTypes, Restart
  <1>4. KvTypes'
    <2>1. [at |-> "pop"] \in Loops /\ NoData \in Data
      BY DEF Loops, Data, NoData
    <2>2. 0 \in 0..MaxIndex
      BY SnapshotAssumption
    <2>3. loop' \in [Server -> Loops] /\ m_skipList' \in [Server -> Data]
      BY <2>1 DEF SnapshotInv, Types, KvTypes, Restart
    <2>. QED
      BY <2>2, <2>3 DEF SnapshotInv, Types, KvTypes, Restart
  <1>5. ASSUME NEW p \in Server PROVE ServerInv(p)'
    <2>1. CASE p = s
      <3>1. /\ loop'[s].at = "pop" /\ applyChan'[s] = <<>> /\ batch'[s] = <<>> /\ detached'[s] = {}
            /\ m_lastSnapShotRaftLogIndex'[s] = 0 /\ done'[s] = {} /\ covered'[s] = 0
        BY DEF SnapshotInv, Types, ChanTypes, KvTypes, Restart
      <3>2. /\ logEnd'[s] = 0 /\ m_commitIndex'[s] = 0 /\ m_lastApplied'[s] = 0
            /\ m_lastSnapshotIncludeIndex'[s] = 0 /\ m_raftStateSize'[s] = 0 /\ chosen' = chosen
        BY Functions DEF Restart, Save
      <3>3. Indexes(s)'
        BY <3>1, <3>2, Functions DEF Indexes
      <3>4. SnapshotsCovered(s)' /\ ChanInOrder(s)' /\ BatchInOrder(s)' /\ DoneApplied(s)'
        BY <3>1, <3>2 DEF SnapshotsCovered, ChanInOrder, BatchInOrder, DoneApplied
      <3>5. Accounted(s)'
        BY <3>2 DEF Accounted
      <3>. QED
        BY <2>1, <3>3, <3>4, <3>5 DEF ServerInv
    <2>2. CASE p # s
      <3>1. SameChan(p) /\ SameKv(p) /\ loop'[p] = loop[p]
        BY <2>2, Functions DEF SnapshotInv, Types, ChanTypes, KvTypes, SameChan, SameKv, Restart
      <3>2. SameRaft(p) /\ m_raftStateSize'[p] = m_raftStateSize[p]
        BY <2>2, Functions DEF SameRaft, Restart, Save
      <3>. QED
        BY <3>1, <3>2, Untouched DEF Same, Restart
    <2>. QED
      BY <2>1, <2>2
  <1>. QED
    BY <1>1, <1>2, <1>3, <1>4, <1>5 DEF SnapshotInv, Types

-----------------------------------------------------------------------------
(* The invariant, and what follows from it.                                *)

\* Every step keeps the invariant.
LEMMA StepInv == SnapshotInv /\ [Next]_vars => SnapshotInv'
  <1>. SUFFICES ASSUME SnapshotInv, [Next]_vars PROVE SnapshotInv'
    OBVIOUS
  <1>1. CASE UNCHANGED vars
    BY <1>1 DEF vars, raftVars, fileVars, chanVars, kvVars, history, SnapshotInv, Types, RaftTypes,
       FileTypes, ChanTypes, KvTypes, ServerInv, Indexes, SnapshotsCovered, ChanInOrder,
       BatchInOrder, DoneApplied, Accounted, IsCommand, Entries
  <1>2. ASSUME NEW key \in Keys, NEW request \in 1..MaxIndex, Choose(key, request)
        PROVE  SnapshotInv'
    BY <1>2, ChooseStep
  <1>3. ASSUME NEW s \in Server,
               Replicate(s) \/ applier(s) \/ ReadRaftApplyCommandLoop(s) \/ Restart(s)
        PROVE  SnapshotInv'
    BY <1>3, ReplicateStep, TakeStep, PushStep, CommandStep, MeasureStep, CompactStep,
       InstalledStep, RestartStep DEF applier, ReadRaftApplyCommandLoop
  <1>4. ASSUME NEW s \in Server, NEW i \in 1..MaxIndex, Learn(s, i) PROVE SnapshotInv'
    BY <1>4, LearnStep
  <1>5. ASSUME NEW s \in Server, NEW p \in Server, leaderSendSnapShot(s, p) PROVE SnapshotInv'
    BY <1>5, SendStep
  <1>6. ASSUME NEW r \in installs, InstallSnapshot(r) PROVE SnapshotInv'
    BY <1>6, InstallStep
  <1>7. ASSUME NEW s \in Server, NEW m \in detached[s], pushMsgToKvServer(s, m)
        PROVE  SnapshotInv'
    BY <1>7, PushSnapshotStep
  <1>. QED
    BY <1>1, <1>2, <1>3, <1>4, <1>5, <1>6, <1>7 DEF Next

\* The invariant holds in every state.
LEMMA AlwaysInv == Spec => []SnapshotInv
  BY InitInv, StepInv, PTL DEF Spec

\* Every command of an index that the loop will see comes after all that it has
\* executed and in the order of the log, though snapshots of other threads are
\* pushed between them.
THEOREM CommandsInOrder == Spec => []TakenInOrder
  <1>1. SnapshotInv => TakenInOrder
    <2>. SUFFICES ASSUME SnapshotInv, NEW s \in Server
                  PROVE  LET coming   == applyChan[s] \o batch[s]
                             commands == {i \in DOMAIN coming : coming[i].kind = "command"}
                         IN  /\ \A i, j \in commands : i < j => coming[i].index < coming[j].index
                             /\ \A d \in done[s], i \in commands : d < coming[i].index
      BY DEF TakenInOrder
    <2>. DEFINE c == applyChan[s]
                b == batch[s]
                n == Len(applyChan[s])
                coming == c \o b
    <2>1. c \in Seq(Commands \cup Snapshots) /\ b \in Seq(Commands \cup Snapshots) /\ ServerInv(s)
      BY DEF SnapshotInv, Types, ChanTypes
    <2>2. /\ n \in Nat /\ DOMAIN c = 1..n /\ DOMAIN coming = 1..(n + Len(b)) /\ Len(b) \in Nat
          /\ \A i \in DOMAIN coming :
                \/ i \in DOMAIN c /\ coming[i] = c[i]
                \/ i > n /\ i - n \in DOMAIN b /\ coming[i] = b[i - n]
      <3>1. /\ Len(c) \in Nat /\ DOMAIN c = 1..Len(c)
            /\ Len(b) \in Nat /\ DOMAIN b = 1..Len(b)
            /\ DOMAIN (c \o b) = 1..(Len(c) + Len(b))
            /\ \A i \in DOMAIN (c \o b) :
                  \/ i \in DOMAIN c /\ (c \o b)[i] = c[i]
                  \/ i > Len(c) /\ i - Len(c) \in DOMAIN b /\ (c \o b)[i] = b[i - Len(c)]
        BY <2>1, Joined, Zenon
      <3>. QED
        BY <3>1, Zenon
    <2>. HIDE DEF coming
    <2>4. ASSUME NEW i \in DOMAIN coming, NEW j \in DOMAIN coming, i < j,
                 coming[i].kind = "command", coming[j].kind = "command"
          PROVE  coming[i].index < coming[j].index
      <3>1. CASE i \in DOMAIN c /\ coming[i] = c[i] /\ j \in DOMAIN c /\ coming[j] = c[j]
        BY <2>1, <2>4, <3>1 DEF ServerInv, ChanInOrder, IsCommand
      <3>2. CASE /\ i \in DOMAIN c /\ coming[i] = c[i]
                 /\ j - n \in DOMAIN b /\ coming[j] = b[j - n]
        BY <2>1, <2>4, <3>2 DEF ServerInv, BatchInOrder, IsCommand
      <3>3. CASE /\ i - n \in DOMAIN b /\ coming[i] = b[i - n]
                 /\ j - n \in DOMAIN b /\ coming[j] = b[j - n]
        <4>1. i - n < j - n
          BY <2>2, <2>4
        <4>. QED
          BY <2>1, <3>3, <4>1 DEF ServerInv, BatchInOrder
      <3>4. ~(i > n /\ j \in DOMAIN c)
        BY <2>2, <2>4
      <3>. QED
        BY <2>2, <3>1, <3>2, <3>3, <3>4
    <2>5. ASSUME NEW d \in done[s], NEW i \in DOMAIN coming, coming[i].kind = "command"
          PROVE  d < coming[i].index
      BY <2>1, <2>2, <2>5 DEF ServerInv, ChanInOrder, BatchInOrder, IsCommand
    <2>6. /\ \A i, j \in {k \in DOMAIN coming : coming[k].kind = "command"} :
                i < j => coming[i].index < coming[j].index
          /\ \A d \in done[s], i \in {k \in DOMAIN coming : coming[k].kind = "command"} :
                d < coming[i].index
      BY <2>4, <2>5
    <2>. QED
      BY <2>6 DEF coming
  <1>. QED
    BY <1>1, AlwaysInv, PTL

\* When the loop executes a command, each one before it was executed, or a
\* snapshot that Raft took over has it.
THEOREM OnlySnapshotsPassOver == Spec => []PassedOverIsCovered
  <1>1. SnapshotInv => PassedOverIsCovered
    <2>. SUFFICES ASSUME SnapshotInv, NEW s \in Server, NEW d \in done[s], NEW j \in 1..(d - 1),
                         ~(j \in done[s] \/ j <= covered[s])
                  PROVE  FALSE
      BY DEF PassedOverIsCovered
    <2>1. ServerInv(s) /\ m_lastApplied[s] \in Nat /\ d \in Nat
      BY Functions
    <2>2. j \in 1..m_lastApplied[s] /\ j < d
      BY <2>1 DEF ServerInv, DoneApplied
    <2>3. \/ \E i \in DOMAIN applyChan[s] : IsCommand(s, i) /\ applyChan[s][i].index = j
          \/ \E i \in DOMAIN batch[s] : batch[s][i].index = j
      BY <2>1, <2>2 DEF ServerInv, Accounted
    <2>4. d < j
      BY <2>1, <2>3 DEF ServerInv, ChanInOrder, BatchInOrder
    <2>. QED
      BY <2>1, <2>2, <2>4
  <1>. QED
    BY <1>1, AlwaysInv, PTL

\* Compaction, installation and restarts keep what Raft knows of its log, the
\* size the persister counts and the contents of the files in step.
THEOREM FilesStayInStep == Spec => []FilesInStep
  <1>1. SnapshotInv => TypeOK
    <2>. SUFFICES ASSUME SnapshotInv PROVE TypeOK
      OBVIOUS
    <2>1. /\ chosen \in Seq([key : Keys, request : 1..MaxIndex]) /\ Len(chosen) <= MaxIndex
          /\ installs \subseteq [to : Server, index : 1..MaxIndex, data : {Empty, Word}]
          /\ exited \in [Server -> BOOLEAN]
      BY DEF SnapshotInv, Types, RaftTypes, KvTypes, Ops, Requests
    <2>2. ASSUME NEW s \in Server
          PROVE  /\ m_lastSnapshotIncludeIndex[s] <= m_lastApplied[s]
                 /\ m_lastApplied[s] <= m_commitIndex[s] /\ m_commitIndex[s] <= logEnd[s]
                 /\ done[s] \subseteq 1..Len(chosen) /\ covered[s] \in 0..MaxIndex
      BY <2>1, Functions, SnapshotAssumption DEF ServerInv, Indexes, DoneApplied
    <2>3. ASSUME NEW s \in Server
          PROVE  /\ snapshotFile[s] \in {Empty, Word} \cup Archives
                 /\ detached[s] \subseteq Snapshots
                 /\ m_skipList[s] \in [Keys -> 1..MaxIndex \cup {NoValue}]
                 /\ m_lastRequestId[s] \in 0..MaxIndex
                 /\ m_lastSnapShotRaftLogIndex[s] \in 0..MaxIndex
      BY DEF SnapshotInv, Types, FileTypes, ChanTypes, KvTypes, Data
    <2>4. ASSUME NEW s \in Server
          PROVE  Range(applyChan[s]) \subseteq Commands \cup Snapshots
                 /\ Range(batch[s]) \subseteq Commands
      <3>1. applyChan[s] \in Seq(Commands \cup Snapshots) /\ batch[s] \in Seq(Commands)
        BY DEF SnapshotInv, Types, ChanTypes
      <3>. QED
        BY <3>1 DEF Range
    <2>. QED
      BY <2>1, <2>2, <2>3, <2>4 DEF TypeOK
  <1>2. SnapshotInv => SizeIsOfLog
    BY DEF SnapshotInv, ServerInv, Indexes, SizeIsOfLog
  <1>. QED
    BY <1>1, <1>2, AlwaysInv, PTL DEF FilesInStep

-----------------------------------------------------------------------------
(* What the service has executed, and what is in the snapshot file.        *)

\* The state that executing the commands at these indexes leads to: of each key
\* the last of its writes.
Gives(I, data) ==
    \A k \in Keys :
        \/ WritesTo(k, I) = {} /\ data[k] = NoValue
        \/ \E i \in WritesTo(k, I) :
                (\A j \in WritesTo(k, I) : j <= i) /\ data[k] = chosen[i].request

\* The table has the largest request executed.
LastRequest(s) ==
    /\ \A d \in done[s] : chosen[d].request <= m_lastRequestId[s]
    /\ \/ m_lastRequestId[s] = 0
       \/ \E d \in done[s] : chosen[d].request = m_lastRequestId[s]

\* The loop measures, and makes its snapshot, right after the last command.
LoopAtLast(s) ==
    /\ loop[s].at # "pop" =>
            loop[s].index \in done[s] /\ \A d \in done[s] : d <= loop[s].index
    /\ loop[s].at = "snapshot" =>
            /\ loop[s].snapshot.kind = "archive" /\ loop[s].snapshot.index = loop[s].index
            /\ Gives(done[s], loop[s].snapshot.data)

\* What was executed up to the index that Raft was compacted to.
UpTo(s) == {i \in done[s] : i <= m_lastSnapshotIncludeIndex[s]}

FileGives(s) ==
    snapshotFile[s].kind = "archive" =>
        /\ snapshotFile[s].index = m_lastSnapshotIncludeIndex[s]
        /\ m_lastSnapshotIncludeIndex[s] \in done[s]
        /\ Gives(UpTo(s), snapshotFile[s].data)

StateOf(s) ==
    Gives(done[s], m_skipList[s]) /\ LastRequest(s) /\ LoopAtLast(s) /\ FileGives(s)

StateInv == \A s \in Server : StateOf(s)

\* What is executed is in the log.
LEMMA DoneInLog ==
    ASSUME SnapshotInv, NEW s \in Server
    PROVE  \A d \in done[s] : d \in 1..Len(chosen) /\ d \in Nat
  <1>1. DoneApplied(s) /\ m_lastApplied[s] <= m_commitIndex[s]
        /\ m_commitIndex[s] <= logEnd[s] /\ logEnd[s] <= Len(chosen)
    BY PartsOf DEF Indexes
  <1>2. m_lastApplied[s] \in Nat /\ m_commitIndex[s] \in Nat /\ logEnd[s] \in Nat
        /\ Len(chosen) \in Nat
    BY PartsOf
  <1>. QED
    BY <1>1, <1>2 DEF DoneApplied

\* One index after all others: its command writes when it repeats none.
LEMMA FreshNext ==
    ASSUME NEW I \in SUBSET Nat, NEW n \in Nat, \A i \in I : i < n
    PROVE  /\ (\A j \in I : chosen[j].request < chosen[n].request)
                => Fresh(I \cup {n}) = Fresh(I) \cup {n}
           /\ (\E j \in I : ~(chosen[j].request < chosen[n].request))
                => Fresh(I \cup {n}) = Fresh(I)
  <1>1. \A i \in I : i \in Nat /\ i < n /\ ~(n < i) /\ i # n
    OBVIOUS
  <1>2. Fresh(I \cup {n}) =
            Fresh(I) \cup {i \in {n} : \A j \in I : chosen[j].request < chosen[i].request}
    <2>1. ASSUME NEW i \in I
          PROVE  (\A j \in I \cup {n} : j < i => chosen[j].request < chosen[i].request)
                    <=> (\A j \in I : j < i => chosen[j].request < chosen[i].request)
      BY <1>1
    <2>2. (\A j \in I \cup {n} : j < n => chosen[j].request < chosen[n].request)
                    <=> (\A j \in I : chosen[j].request < chosen[n].request)
      BY <1>1
    <2>. QED
      BY <2>1, <2>2, Zenon DEF Fresh
  <1>. QED
    BY <1>2

\* A command that repeats one executed changes nothing.
LEMMA GivesRepeated ==
    ASSUME NEW I \in SUBSET Nat, NEW n \in Nat, \A i \in I : i < n,
           \E j \in I : ~(chosen[j].request < chosen[n].request),
           NEW data, Gives(I, data)
    PROVE  Gives(I \cup {n}, data)
  <1>1. Fresh(I \cup {n}) = Fresh(I)
    BY FreshNext
  <1>2. ASSUME NEW k \in Keys
        PROVE  \/ WritesTo(k, I \cup {n}) = {} /\ data[k] = NoValue
               \/ \E i \in WritesTo(k, I \cup {n}) :
                        /\ \A j \in WritesTo(k, I \cup {n}) : j <= i
                        /\ data[k] = chosen[i].request
    <2>1. WritesTo(k, I \cup {n}) = WritesTo(k, I)
      BY <1>1 DEF WritesTo
    <2>. QED
      BY <2>1 DEF Gives
  <1>. QED
    BY <1>2 DEF Gives

\* Another command sets the value of its key.
LEMMA GivesNext ==
    ASSUME NEW I \in SUBSET Nat, NEW n \in Nat, \A i \in I : i < n,
           \A j \in I : chosen[j].request < chosen[n].request,
           NEW data \in Data, Gives(I, data)
    PROVE  Gives(I \cup {n}, [data EXCEPT ![chosen[n].key] = chosen[n].request])
  <1>. DEFINE next == [data EXCEPT ![chosen[n].key] = chosen[n].request]
  <1>1. Fresh(I \cup {n}) = Fresh(I) \cup {n}
    BY FreshNext
  <1>2. \A i \in Fresh(I) : i < n /\ i \in Nat
    BY DEF Fresh
  <1>3. ASSUME NEW k \in Keys
        PROVE  \/ WritesTo(k, I \cup {n}) = {} /\ next[k] = NoValue
               \/ \E i \in WritesTo(k, I \cup {n}) :
                        /\ \A j \in WritesTo(k, I \cup {n}) : j <= i
                        /\ next[k] = chosen[i].request
    <2>1. \A j \in WritesTo(k, I \cup {n}) : j <= n
      BY <1>1, <1>2 DEF WritesTo
    <2>2. CASE chosen[n].key = k
      <3>1. n \in WritesTo(k, I \cup {n})
        BY <1>1, <2>2 DEF WritesTo
      <3>2. next[k] = chosen[n].request
        BY <2>2 DEF Data
      <3>. QED
        BY <2>1, <3>1, <3>2
    <2>3. CASE chosen[n].key # k
      <3>1. WritesTo(k, I \cup {n}) = WritesTo(k, I)
        BY <1>1, <2>3 DEF WritesTo
      <3>2. next[k] = data[k]
        BY <2>3 DEF Data
      <3>. QED
        BY <3>1, <3>2 DEF Gives
    <2>. QED
      BY <2>2, <2>3
  <1>. QED
    BY <1>3 DEF Gives

\* A state with these values is what replaying the log leads to.
LEMMA GivesReplay ==
    ASSUME NEW I \in SUBSET Nat, NEW data \in Data, Gives(I, data)
    PROVE  data = Replay(I)
  <1>1. ASSUME NEW k \in Keys
        PROVE  data[k] = Replay(I)[k]
    <2>1. CASE WritesTo(k, I) = {} /\ data[k] = NoValue
      BY <2>1 DEF Replay
    <2>2. CASE \E i \in WritesTo(k, I) :
                    (\A j \in WritesTo(k, I) : j <= i) /\ data[k] = chosen[i].request
      <3>1. PICK i \in WritesTo(k, I) :
                    (\A j \in WritesTo(k, I) : j <= i) /\ data[k] = chosen[i].request
        BY <2>2
      <3>2. \A j \in WritesTo(k, I) : j \in Nat
        BY DEF WritesTo, Fresh
      <3>3. (CHOOSE j \in WritesTo(k, I) : \A l \in WritesTo(k, I) : l <= j) = i
        <4>1. \A j \in WritesTo(k, I) : (\A l \in WritesTo(k, I) : l <= j) => j = i
          BY <3>1, <3>2
        <4>. QED
          BY <3>1, <4>1
      <3>. QED
        BY <3>1, <3>3 DEF Replay
    <2>. QED
      BY <2>1, <2>2 DEF Gives
  <1>2. DOMAIN data = Keys /\ data = [k \in Keys |-> data[k]]
    BY DEF Data
  <1>3. DOMAIN Replay(I) = Keys /\ Replay(I) = [k \in Keys |-> Replay(I)[k]]
    BY DEF Replay
  <1>. QED
    BY <1>1, <1>2, <1>3

\* What is executed at a server, and its file, are its own.
LEMMA StateKept ==
    ASSUME NEW p \in Server, StateOf(p), chosen' = chosen,
           done'[p] = done[p], m_skipList'[p] = m_skipList[p],
           m_lastRequestId'[p] = m_lastRequestId[p], loop'[p] = loop[p],
           snapshotFile'[p] = snapshotFile[p],
           m_lastSnapshotIncludeIndex'[p] = m_lastSnapshotIncludeIndex[p]
    PROVE  StateOf(p)'
  <1>1. Gives(done[p], m_skipList[p])' /\ LastRequest(p)'
    BY DEF StateOf, Gives, LastRequest, WritesTo, Fresh
  <1>2. LoopAtLast(p)'
    BY DEF StateOf, Gives, LoopAtLast, WritesTo, Fresh
  <1>3. FileGives(p)'
    BY DEF StateOf, Gives, FileGives, UpTo, WritesTo, Fresh
  <1>. QED
    BY <1>1, <1>2, <1>3 DEF StateOf

\* The initial state.
LEMMA StateInit == Init => StateInv
  <1>. SUFFICES ASSUME Init, NEW s \in Server PROVE StateOf(s)
    BY DEF StateInv
  <1>1. /\ done[s] = {} /\ m_skipList[s] = NoData /\ m_lastRequestId[s] = 0
        /\ loop[s].at = "pop" /\ snapshotFile[s].kind = "empty"
    BY DEF Init, Empty
  <1>2. Gives(done[s], m_skipList[s])
    BY <1>1 DEF Gives, WritesTo, Fresh, NoData
  <1>. QED
    BY <1>1, <1>2 DEF StateOf, LastRequest, LoopAtLast, FileGives

\* Steps of Raft's logs and of the channel.
LEMMA ElsewhereState ==
    ASSUME StateInv,
           UNCHANGED <<chosen, done, m_skipList, m_lastRequestId, loop, snapshotFile,
                       m_lastSnapshotIncludeIndex>>
    PROVE  StateInv'
  BY StateKept DEF StateInv

\* A command is chosen.
LEMMA ChooseState ==
    ASSUME SnapshotInv, StateInv, NEW key \in Keys, NEW request \in 1..MaxIndex,
           Choose(key, request)
    PROVE  StateInv'
  <1>1. /\ chosen' = Append(chosen, [key |-> key, request |-> request])
        /\ UNCHANGED <<done, m_skipList, m_lastRequestId, loop, snapshotFile,
                       m_lastSnapshotIncludeIndex>>
    BY DEF Choose, kvVars, history, raftVars, fileVars
  <1>2. \A i \in 1..Len(chosen) : chosen'[i] = chosen[i]
    <2>1. chosen \in Seq(Ops)
      BY DEF SnapshotInv, Types, RaftTypes
    <2>. QED
      BY <1>1, <2>1
  <1>. SUFFICES ASSUME NEW s \in Server PROVE StateOf(s)'
    BY DEF StateInv
  <1>3. \A d \in done[s] : chosen'[d] = chosen[d]
    BY <1>2, DoneInLog
  <1>4. \A d \in UpTo(s) : chosen'[d] = chosen[d]
    BY <1>3 DEF UpTo
  <1>5. Gives(done[s], m_skipList[s]) /\ LastRequest(s) /\ LoopAtLast(s) /\ FileGives(s)
    BY DEF StateInv, StateOf
  <1>6. /\ \A k \in Keys : WritesTo(k, done[s])' = WritesTo(k, done[s])
        /\ \A k \in Keys : \A i \in WritesTo(k, done[s]) : chosen'[i] = chosen[i]
    <2>1. Fresh(done[s])' = Fresh(done[s]) /\ Fresh(done[s]) \subseteq done[s]
      BY <1>1, <1>3 DEF Fresh
    <2>. QED
      BY <1>3, <2>1 DEF WritesTo
  <1>7. /\ \A k \in Keys : WritesTo(k, UpTo(s))' = WritesTo(k, UpTo(s))
        /\ \A k \in Keys : \A i \in WritesTo(k, UpTo(s)) : chosen'[i] = chosen[i]
    <2>1. UpTo(s)' = UpTo(s)
      BY <1>1 DEF UpTo
    <2>2. Fresh(UpTo(s))' = Fresh(UpTo(s)) /\ Fresh(UpTo(s)) \subseteq UpTo(s)
      BY <1>4, <2>1 DEF Fresh
    <2>3. \A i \in Fresh(UpTo(s)) : chosen'[i] = chosen[i]
      BY <1>4, <2>2
    <2>. QED
      BY <2>2, <2>3 DEF WritesTo
  <1>8. Gives(done[s], m_skipList[s])'
    BY <1>1, <1>5, <1>6 DEF Gives
  <1>9. LastRequest(s)'
    BY <1>1, <1>3, <1>5 DEF LastRequest
  <1>10. LoopAtLast(s)'
    <2>1. loop[s].at = "snapshot" => Gives(done[s], loop[s].snapshot.data)'
      <3>1. loop[s].at = "snapshot" => Gives(done[s], loop[s].snapshot.data)
        BY <1>5 DEF LoopAtLast
      <3>2. ASSUME Gives(done[s], loop[s].snapshot.data)
            PROVE  Gives(done[s], loop[s].snapshot.data)'
        <4>1. loop'[s] = loop[s]
          BY <1>1
        <4>. QED
          BY <1>6, <3>2, <4>1 DEF Gives
      <3>. QED
        BY <3>1, <3>2
    <2>. QED
      BY <1>1, <1>5, <2>1 DEF LoopAtLast
  <1>11. FileGives(s)'
    <2>1. snapshotFile[s].kind = "archive" => Gives(UpTo(s), snapshotFile[s].data)'
      <3>1. snapshotFile[s].kind = "archive" => Gives(UpTo(s), snapshotFile[s].data)
        BY <1>5 DEF FileGives
      <3>2. ASSUME Gives(UpTo(s), snapshotFile[s].data)
            PROVE  Gives(UpTo(s), snapshotFile[s].data)'
        <4>1. snapshotFile'[s] = snapshotFile[s]
          BY <1>1
        <4>. QED
          BY <1>7, <3>2, <4>1 DEF Gives
      <3>. QED
        BY <3>1, <3>2
    <2>. QED
      BY <1>1, <1>5, <2>1 DEF FileGives
  <1>. QED
    BY <1>8, <1>9, <1>10, <1>11 DEF StateOf

\* A file that is sent is emptied, one that is received is no archive.
LEMMA NoArchiveState ==
    ASSUME StateInv, NEW s \in Server, chosen' = chosen,
           UNCHANGED <<done, m_skipList, m_lastRequestId, loop>>,
           snapshotFile'[s] \in {Empty, Word},
           \A p \in Server : p # s =>
                /\ snapshotFile'[p] = snapshotFile[p]
                /\ m_lastSnapshotIncludeIndex'[p] = m_lastSnapshotIncludeIndex[p]
    PROVE  StateInv'
  <1>. SUFFICES ASSUME NEW p \in Server PROVE StateOf(p)'
    BY DEF StateInv
  <1>1. CASE p # s
    BY <1>1, StateKept DEF StateInv
  <1>2. CASE p = s
    <2>1. Gives(done[p], m_skipList[p])' /\ LastRequest(p)'
      BY DEF StateInv, StateOf, Gives, LastRequest, WritesTo, Fresh
    <2>2. LoopAtLast(p)'
      BY DEF StateInv, StateOf, Gives, LoopAtLast, WritesTo, Fresh
    <2>3. FileGives(p)'
      BY <1>2 DEF FileGives, Empty, Word
    <2>. QED
      BY <2>1, <2>2, <2>3 DEF StateOf
  <1>. QED
    BY <1>1, <1>2

LEMMA SendState ==
    ASSUME SnapshotInv, StateInv, NEW s \in Server, NEW p \in Server,
           leaderSendSnapShot(s, p)
    PROVE  StateInv'
  <1>1. snapshotFile \in [Server -> {Empty, Word} \cup Archives]
    BY DEF SnapshotInv, Types, FileTypes
  <1>2. /\ snapshotFile' = [snapshotFile EXCEPT ![s] = Empty]
        /\ UNCHANGED <<chosen, done, m_skipList, m_lastRequestId, loop,
                       m_lastSnapshotIncludeIndex>>
    BY DEF leaderSendSnapShot, ReadSnapshot, raftVars, kvVars
  <1>. QED
    BY <1>1, <1>2, NoArchiveState

LEMMA InstallState ==
    ASSUME SnapshotInv, StateInv, NEW r \in installs, InstallSnapshot(r)
    PROVE  StateInv'
  <1>1. /\ snapshotFile \in [Server -> {Empty, Word} \cup Archives]
        /\ m_lastSnapshotIncludeIndex \in [Server -> Nat]
        /\ r.to \in Server /\ r.data \in {Empty, Word}
    BY DEF SnapshotInv, Types, FileTypes, RaftTypes, Requests
  <1>2. UNCHANGED <<chosen, done, m_skipList, m_lastRequestId, loop>>
    BY DEF InstallSnapshot, kvVars
  <1>3. CASE r.index <= m_lastSnapshotIncludeIndex[r.to]
    BY <1>2, <1>3, ElsewhereState DEF InstallSnapshot, raftVars, fileVars
  <1>4. CASE ~(r.index <= m_lastSnapshotIncludeIndex[r.to])
    <2>1. /\ snapshotFile' = [snapshotFile EXCEPT ![r.to] = r.data]
          /\ m_lastSnapshotIncludeIndex' =
                [m_lastSnapshotIncludeIndex EXCEPT ![r.to] = r.index]
      BY <1>4 DEF InstallSnapshot, Save
    <2>. QED
      BY <1>1, <1>2, <2>1, NoArchiveState
  <1>. QED
    BY <1>3, <1>4

\* The process starts again with nothing.
LEMMA RestartState ==
    ASSUME SnapshotInv, StateInv, NEW s \in Server, Restart(s)
    PROVE  StateInv'
  <1>1. /\ snapshotFile \in [Server -> {Empty, Word} \cup Archives]
        /\ m_lastSnapshotIncludeIndex \in [Server -> Nat]
        /\ loop \in [Server -> Loops] /\ done \in [Server -> SUBSET Nat]
        /\ m_skipList \in [Server -> Data] /\ m_lastRequestId \in [Server -> 0..MaxIndex]
    BY DEF SnapshotInv, Types, FileTypes, RaftTypes, KvTypes
  <1>2. /\ chosen' = chosen /\ done' = [done EXCEPT ![s] = {}]
        /\ m_skipList' = [m_skipList EXCEPT ![s] = NoData]
        /\ m_lastRequestId' = [m_lastRequestId EXCEPT ![s] = 0]
        /\ loop' = [loop EXCEPT ![s] = [at |-> "pop"]]
        /\ snapshotFile' = [snapshotFile EXCEPT ![s] = Empty]
        /\ m_lastSnapshotIncludeIndex' = [m_lastSnapshotIncludeIndex EXCEPT ![s] = 0]
    BY DEF Restart, Save
  <1>. SUFFICES ASSUME NEW p \in Server PROVE StateOf(p)'
    BY DEF StateInv
  <1>3. CASE p # s
    BY <1>1, <1>2, <1>3, StateKept DEF StateInv
  <1>4. CASE p = s
    <2>1. /\ done'[p] = {} /\ m_skipList'[p] = NoData /\ m_lastRequestId'[p] = 0
          /\ loop'[p].at = "pop" /\ snapshotFile'[p].kind = "empty"
      BY <1>1, <1>2, <1>4 DEF Empty
    <2>2. Gives(done[p], m_skipList[p])'
      BY <2>1 DEF Gives, WritesTo, Fresh, NoData
    <2>. QED
      BY <2>1, <2>2 DEF StateOf, LastRequest, LoopAtLast, FileGives
  <1>. QED
    BY <1>3, <1>4

\* A command is passed over or executed: it comes after all that is done.
LEMMA CommandState ==
    ASSUME SnapshotInv, StateInv, NEW s \in Server, GetCommandFromRaft(s)
    PROVE  StateInv'
  <1>. DEFINE i == applyChan[s][1].index
              op == chosen[i]
              known == op.request <= m_lastRequestId[s]
  <1>1. /\ UNCHANGED <<chosen, snapshotFile, m_lastSnapshotIncludeIndex>>
        /\ Popped(s, "command")
    BY DEF GetCommandFromRaft, raftVars, fileVars
  <1>2. 1 \in DOMAIN applyChan[s] /\ Head(applyChan[s]) = applyChan[s][1] /\ IsCommand(s, 1)
    BY <1>1, PoppedChan DEF IsCommand, Popped
  <1>3. /\ i \in Nat /\ \A d \in done[s] : d < i
    <2>1. i \in 1..MaxIndex /\ MaxIndex \in Nat
      BY <1>2, Numbers
    <2>2. ChanInOrder(s)
      BY PartsOf
    <2>. QED
      BY <1>2, <2>1, <2>2 DEF ChanInOrder
  <1>4. /\ loop \in [Server -> Loops] /\ done \in [Server -> SUBSET Nat]
        /\ m_skipList \in [Server -> Data] /\ m_lastRequestId \in [Server -> 0..MaxIndex]
    BY DEF SnapshotInv, Types, KvTypes
  <1>5. op.request \in Nat \ {0} /\ m_lastRequestId[s] \in Nat
    <2>1. i <= Len(chosen) /\ i \in 1..MaxIndex /\ MaxIndex \in Nat
      <3>1. i <= m_lastApplied[s] /\ m_lastApplied[s] <= m_commitIndex[s]
            /\ m_commitIndex[s] <= logEnd[s] /\ logEnd[s] <= Len(chosen)
        BY <1>2, PartsOf DEF ChanInOrder, Indexes
      <3>2. /\ m_lastApplied[s] \in Nat /\ m_commitIndex[s] \in Nat /\ logEnd[s] \in Nat
            /\ Len(chosen) \in Nat
        BY PartsOf
      <3>. QED
        BY <1>2, <1>3, <3>1, <3>2, Numbers
    <2>2. op \in Ops
      BY <2>1 DEF SnapshotInv, Types, RaftTypes
    <2>. QED
      BY <1>4, <2>1, <2>2 DEF Ops
  <1>6. CASE Skipped(s, i)
    <2>1. UNCHANGED <<loop, m_skipList, m_lastRequestId, done>>
      BY <1>2, <1>6 DEF GetCommandFromRaft
    <2>. QED
      BY <1>1, <2>1, ElsewhereState
  <1>7. CASE ~Skipped(s, i)
    <2>1. /\ loop' = [loop EXCEPT ![s] = [at |-> "measure", index |-> i]]
          /\ done' = [done EXCEPT ![s] = @ \cup {i}]
          /\ IF known THEN UNCHANGED <<m_skipList, m_lastRequestId>>
             ELSE /\ m_skipList' = [m_skipList EXCEPT ![s][op.key] = op.request]
                  /\ m_lastRequestId' = [m_lastRequestId EXCEPT ![s] = op.request]
      BY <1>2, <1>7 DEF GetCommandFromRaft
    <2>2. /\ done'[s] = done[s] \cup {i} /\ loop'[s] = [at |-> "measure", index |-> i]
          /\ known => m_skipList'[s] = m_skipList[s]
                        /\ m_lastRequestId'[s] = m_lastRequestId[s]
          /\ ~known => m_skipList'[s] = [m_skipList[s] EXCEPT ![op.key] = op.request]
                        /\ m_lastRequestId'[s] = op.request
          /\ \A p \in Server : p # s =>
                /\ done'[p] = done[p] /\ loop'[p] = loop[p]
                /\ m_skipList'[p] = m_skipList[p]
                /\ m_lastRequestId'[p] = m_lastRequestId[p]
      BY <1>4, <2>1
    <2>3. StateOf(s) /\ done[s] \in SUBSET Nat /\ m_skipList[s] \in Data
      BY <1>4 DEF StateInv
    <2>. HIDE DEF i, known
    <2>4. Gives(done[s], m_skipList[s])'
      <3>1. CASE known
        <4>1. PICK d \in done[s] : chosen[d].request = m_lastRequestId[s]
          BY <1>5, <2>3, <3>1 DEF StateOf, LastRequest, known
        <4>2. ~(chosen[d].request < op.request)
          BY <1>5, <3>1, <4>1 DEF known
        <4>3. Gives(done[s] \cup {i}, m_skipList[s])
          BY <1>3, <2>3, <4>2, GivesRepeated DEF StateOf
        <4>. QED
          BY <1>1, <2>2, <3>1, <4>3 DEF Gives, WritesTo, Fresh
      <3>2. CASE ~known
        <4>1. \A d \in done[s] : chosen[d].request < op.request
          <5>1. \A d \in done[s] : chosen[d].request \in Nat
            <6>1. \A d \in done[s] : chosen[d] \in Ops
              BY DoneInLog DEF SnapshotInv, Types, RaftTypes
            <6>. QED
              BY <6>1, SnapshotAssumption DEF Ops
          <5>. QED
            BY <1>5, <2>3, <3>2, <5>1 DEF StateOf, LastRequest, known
        <4>2. Gives(done[s] \cup {i}, [m_skipList[s] EXCEPT ![op.key] = op.request])
          BY <1>3, <2>3, <4>1, GivesNext DEF StateOf
        <4>. DEFINE next == [m_skipList[s] EXCEPT ![op.key] = op.request]
        <4>3. m_skipList'[s] = next /\ Gives(done[s] \cup {i}, next)
          BY <2>2, <3>2, <4>2
        <4>. HIDE DEF next
        <4>. QED
          BY <1>1, <2>2, <4>3 DEF Gives, WritesTo, Fresh
      <3>. QED
        BY <3>1, <3>2
    <2>5. LastRequest(s)'
      <3>1. CASE known
        BY <1>1, <2>2, <2>3, <3>1 DEF StateOf, LastRequest, known
      <3>2. CASE ~known
        <4>1. \A d \in done[s] : chosen[d].request <= op.request
          <5>1. \A d \in done[s] : chosen[d].request \in Nat
            <6>1. \A d \in done[s] : chosen[d] \in Ops
              BY DoneInLog DEF SnapshotInv, Types, RaftTypes
            <6>. QED
              BY <6>1, SnapshotAssumption DEF Ops
          <5>. QED
            BY <1>5, <2>3, <3>2, <5>1 DEF StateOf, LastRequest, known
        <4>. QED
          BY <1>1, <1>5, <2>2, <3>2, <4>1 DEF LastRequest
      <3>. QED
        BY <3>1, <3>2
    <2>6. LoopAtLast(s)'
      <3>1. \A d \in done'[s] : d <= i
        BY <1>3, <2>2, <2>3 DEF i
      <3>. QED
        BY <2>2, <3>1 DEF LoopAtLast
    <2>7. FileGives(s)'
      <3>. SUFFICES ASSUME snapshotFile[s].kind = "archive"
                    PROVE  /\ snapshotFile[s].index = m_lastSnapshotIncludeIndex[s]
                           /\ m_lastSnapshotIncludeIndex[s] \in done'[s]
                           /\ Gives(UpTo(s), snapshotFile[s].data)'
        BY <1>1 DEF FileGives
      <3>1. /\ snapshotFile[s].index = m_lastSnapshotIncludeIndex[s]
            /\ m_lastSnapshotIncludeIndex[s] \in done[s]
            /\ Gives(UpTo(s), snapshotFile[s].data)
        BY <2>3 DEF StateOf, FileGives
      <3>2. UpTo(s)' = UpTo(s)
        <4>1. ~(i <= m_lastSnapshotIncludeIndex[s])
          BY <1>3, <2>3, <3>1
        <4>. QED
          BY <1>1, <2>2, <4>1 DEF UpTo
      <3>3. Gives(UpTo(s), snapshotFile[s].data)'
        BY <1>1, <3>1, <3>2 DEF Gives, WritesTo, Fresh
      <3>. QED
        BY <2>2, <3>1, <3>3
    <2>. SUFFICES ASSUME NEW p \in Server PROVE StateOf(p)'
      BY DEF StateInv
    <2>8. CASE p = s
      BY <2>4, <2>5, <2>6, <2>7, <2>8 DEF StateOf
    <2>9. CASE p # s
      <3>1. snapshotFile'[p] = snapshotFile[p]
            /\ m_lastSnapshotIncludeIndex'[p] = m_lastSnapshotIncludeIndex[p]
        BY <1>1
      <3>. QED
        BY <1>1, <2>2, <2>9, <3>1, StateKept DEF StateInv
    <2>. QED
      BY <2>8, <2>9
  <1>. QED
    BY <1>6, <1>7

\* The snapshot is made of what is executed.
LEMMA MeasureState ==
    ASSUME SnapshotInv, StateInv, NEW s \in Server, IfNeedToSendSnapShotCommand(s)
    PROVE  StateInv'
  <1>1. /\ UNCHANGED <<chosen, done, m_skipList, m_lastRequestId, snapshotFile,
                       m_lastSnapshotIncludeIndex>>
        /\ loop[s].at = "measure"
        /\ loop' = [loop EXCEPT ![s] =
                IF m_raftStateSize[s] > m_maxRaftState
                THEN [at |-> "snapshot", index |-> loop[s].index,
                      snapshot |-> Archive(s, loop[s].index)]
                ELSE [at |-> "pop"]]
    BY DEF IfNeedToSendSnapShotCommand, raftVars, fileVars, history
  <1>2. loop \in [Server -> Loops]
    BY DEF SnapshotInv, Types, KvTypes
  <1>. SUFFICES ASSUME NEW p \in Server PROVE StateOf(p)'
    BY DEF StateInv
  <1>3. CASE p # s
    BY <1>1, <1>2, <1>3, StateKept DEF StateInv
  <1>4. CASE p = s
    <2>1. Gives(done[s], m_skipList[s]) /\ LastRequest(s) /\ LoopAtLast(s) /\ FileGives(s)
      BY DEF StateInv, StateOf
    <2>2. Gives(done[s], m_skipList[s])' /\ LastRequest(s)'
      BY <1>1, <2>1 DEF Gives, LastRequest, WritesTo, Fresh
    <2>3. FileGives(s)'
      BY <1>1, <2>1 DEF FileGives, Gives, UpTo, WritesTo, Fresh
    <2>4. LoopAtLast(s)'
      <3>1. CASE loop'[s] = [at |-> "pop"]
        BY <3>1 DEF LoopAtLast
      <3>2. CASE loop'[s] = [at |-> "snapshot", index |-> loop[s].index,
                             snapshot |-> Archive(s, loop[s].index)]
        <4>1. Gives(done[s], loop[s].snapshot.data)'
          BY <1>1, <2>1, <3>2 DEF Gives, WritesTo, Fresh, Archive
        <4>. QED
          BY <1>1, <2>1, <3>2, <4>1 DEF LoopAtLast, Archive
      <3>. QED
        BY <1>1, <1>2, <3>1, <3>2
    <2>. QED
      BY <1>4, <2>2, <2>3, <2>4 DEF StateOf
  <1>. QED
    BY <1>3, <1>4

\* Raft takes the snapshot of the last command executed, or none.
LEMMA CompactState ==
    ASSUME SnapshotInv, StateInv, NEW s \in Server, Snapshot(s)
    PROVE  StateInv'
  <1>1. /\ UNCHANGED <<chosen, done, m_skipList, m_lastRequestId>>
        /\ loop[s].at = "snapshot" /\ loop' = [loop EXCEPT ![s] = [at |-> "pop"]]
        /\ \/ UNCHANGED <<snapshotFile, m_lastSnapshotIncludeIndex>>
           \/ /\ snapshotFile' = [snapshotFile EXCEPT ![s] = loop[s].snapshot]
              /\ m_lastSnapshotIncludeIndex' =
                    [m_lastSnapshotIncludeIndex EXCEPT ![s] = loop[s].index]
    BY DEF Snapshot, Save, fileVars, history
  <1>2. /\ loop \in [Server -> Loops] /\ m_lastSnapshotIncludeIndex \in [Server -> Nat]
        /\ snapshotFile \in [Server -> {Empty, Word} \cup Archives]
    BY DEF SnapshotInv, Types, KvTypes, RaftTypes, FileTypes
  <1>. SUFFICES ASSUME NEW p \in Server PROVE StateOf(p)'
    BY DEF StateInv
  <1>3. CASE p # s
    <2>1. /\ loop'[p] = loop[p] /\ snapshotFile'[p] = snapshotFile[p]
          /\ m_lastSnapshotIncludeIndex'[p] = m_lastSnapshotIncludeIndex[p]
      BY <1>1, <1>2, <1>3
    <2>. QED
      BY <1>1, <2>1, StateKept DEF StateInv
  <1>4. CASE p = s
    <2>1. Gives(done[s], m_skipList[s]) /\ LastRequest(s) /\ LoopAtLast(s) /\ FileGives(s)
      BY DEF StateInv, StateOf
    <2>2. Gives(done[s], m_skipList[s])' /\ LastRequest(s)'
      BY <1>1, <2>1 DEF Gives, LastRequest, WritesTo, Fresh
    <2>3. LoopAtLast(s)'
      BY <1>1, <1>2 DEF LoopAtLast
    <2>4. FileGives(s)'
      <3>1. CASE UNCHANGED <<snapshotFile, m_lastSnapshotIncludeIndex>>
        BY <1>1, <2>1, <3>1 DEF FileGives, Gives, UpTo, WritesTo, Fresh
      <3>2. CASE /\ snapshotFile'[s] = loop[s].snapshot
                 /\ m_lastSnapshotIncludeIndex'[s] = loop[s].index
        <4>1. /\ loop[s].snapshot.kind = "archive"
              /\ loop[s].snapshot.index = loop[s].index /\ loop[s].index \in done[s]
              /\ \A d \in done[s] : d <= loop[s].index
              /\ Gives(done[s], loop[s].snapshot.data)
          BY <1>1, <2>1 DEF LoopAtLast
        <4>2. UpTo(s)' = done[s]
          BY <1>1, <3>2, <4>1 DEF UpTo
        <4>3. Gives(UpTo(s), snapshotFile[s].data)'
          BY <1>1, <3>2, <4>1, <4>2 DEF Gives, WritesTo, Fresh
        <4>. QED
          BY <1>1, <3>2, <4>1, <4>3 DEF FileGives
      <3>. QED
        BY <1>1, <1>2, <3>1, <3>2
    <2>. QED
      BY <1>4, <2>2, <2>3, <2>4 DEF StateOf
  <1>. QED
    BY <1>3, <1>4

\* Every step keeps it.
LEMMA StateStep == SnapshotInv /\ StateInv /\ [Next]_vars => StateInv'
  <1>. SUFFICES ASSUME SnapshotInv, StateInv, [Next]_vars PROVE StateInv'
    OBVIOUS
  <1>1. CASE UNCHANGED vars
    BY <1>1, ElsewhereState DEF vars, raftVars, fileVars, kvVars, history
  <1>2. ASSUME NEW s \in Server,
               Replicate(s) \/ getApplyLogs(s) \/ applierTicker(s) \/ GetSnapShotFromRaft(s)
        PROVE  StateInv'
    BY <1>2, ElsewhereState DEF Replicate, getApplyLogs, applierTicker, GetSnapShotFromRaft,
       raftVars, fileVars, kvVars, history
  <1>3. ASSUME NEW s \in Server, NEW i \in 1..MaxIndex, Learn(s, i) PROVE StateInv'
    BY <1>3, ElsewhereState DEF Learn, fileVars, kvVars, history
  <1>4. ASSUME NEW s \in Server, NEW m \in detached[s], pushMsgToKvServer(s, m)
        PROVE  StateInv'
    BY <1>4, ElsewhereState DEF pushMsgToKvServer, raftVars, fileVars, kvVars, history
  <1>5. ASSUME NEW s \in Server, ReadRaftApplyCommandLoop(s) PROVE StateInv'
    BY <1>2, <1>5, CommandState, MeasureState, CompactState DEF ReadRaftApplyCommandLoop
  <1>. QED
    BY <1>1, <1>2, <1>3, <1>4, <1>5, ChooseState, SendState, InstallState, RestartState
       DEF Next, applier

\* An archive in the file of a server is of the index its Raft was compacted to,
\* and is what replaying the commands it executed up to there leads to, also when
\* InstallSnapshot ran between MakeSnapShot and Snapshot.
THEOREM ArchivesAreStates == Spec => []ArchiveIsState
  <1>1. SnapshotInv /\ StateInv => ArchiveIsState
    <2>. SUFFICES ASSUME SnapshotInv, StateInv, NEW s \in Server,
                         snapshotFile[s].kind = "archive"
                  PROVE  /\ snapshotFile[s].index = m_lastSnapshotIncludeIndex[s]
                         /\ snapshotFile[s].data = Replay(UpTo(s))
      BY DEF ArchiveIsState, UpTo
    <2>1. /\ snapshotFile[s].index = m_lastSnapshotIncludeIndex[s]
          /\ Gives(UpTo(s), snapshotFile[s].data)
      BY DEF StateInv, StateOf, FileGives
    <2>2. snapshotFile[s] \in Archives
      BY DEF SnapshotInv, Types, FileTypes, Empty, Word
    <2>3. snapshotFile[s].data \in Data
      BY <2>2 DEF Archives, Data
    <2>4. UpTo(s) \in SUBSET Nat
      BY DoneInLog DEF UpTo
    <2>. QED
      BY <2>1, <2>3, <2>4, GivesReplay
  <1>2. SnapshotInv /\ StateInv /\ [Next]_vars => (SnapshotInv /\ StateInv)'
    BY StepInv, StateStep
  <1>3. Init => SnapshotInv /\ StateInv
    BY InitInv, StateInit
  <1>. QED
    BY <1>1, <1>2, <1>3, PTL DEF Spec
=============================================================================
