------------------------------- MODULE MCRaft -------------------------------
(***************************************************************************)
(* Raft for TLC: small clusters, symmetry, and a view that forgets what no *)
(* later step can read.                                                    *)
(***************************************************************************)
EXTENDS RaftProps, TLC

CONSTANTS s1, s2, s3

\* Which elections a run allows.
AnyTwoTerms == Server \X (1..2)
OneTerm     == {<<s1, 1>>}
Handover    == {<<s1, 1>>, <<s2, 2>>}

\* Servers are interchangeable as long as the bounds treat them alike.
Symmetry ==
    {f \in Permutations(Server) :
        /\ {<<f[e[1]], e[2]>> : e \in Elections} = Elections
        /\ {f[s] : s \in Compactors} = Compactors}
    \cup Permutations(Rounds) \cup Permutations(Cmds)

\* States that differ only in these parts have the same future, because terms
\* never go back: an answer of a term its caller has left is ignored, as is
\* a refused vote of the caller's term and any answer to an ended process;
\* votedNum is read only in a term where the server voted for itself; the
\* leader's indexes and counters are set afresh when it is elected; of disk,
\* only whether it is current matters to the properties; votes is history; and
\* only compaction reads m_lastApplied.
LiveVoteReplies ==
    {r \in voteReplies : /\ Alive(r.from) /\ r.term >= m_currentTerm[r.from]
                         /\ r.voteGranted \/ r.term > m_currentTerm[r.from]}
LiveAppendReplies ==
    {r \in appendReplies : Alive(r.from) /\ r.term >= m_currentTerm[r.from]}
LiveSnapReplies ==
    {r \in snapReplies : Alive(r.from) /\ r.callTerm >= m_currentTerm[r.from]}

Leading(s) == Alive(s) /\ m_status[s] = "Leader"

LiveState ==
    <<termVars, logVars, m_commitIndex, exited, leaders, DiskCurrent,
      IF Compactors = {} THEN 0 ELSE m_lastApplied,
      [s \in Server |-> IF m_votedFor[s] = s THEN votedNum[s] ELSE 0],
      [s \in Server |-> IF Leading(s)
            THEN <<m_nextIndex[s], m_matchIndex[s], appendNums[s]>> ELSE <<>>],
      voteCalls, LiveVoteReplies, appendCalls, LiveAppendReplies,
      snapThreads, snapCalls, LiveSnapReplies>>
=============================================================================
