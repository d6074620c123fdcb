--------------------------- MODULE MCRaftStaleTail ---------------------------
(***************************************************************************)
(* One course of events, explored in every interleaving it leaves open.    *)
(* An isolated leader s1 of term 1 writes three entries; s2 leads term 2   *)
(* and brings one to s3; s3 leads term 3, brings a second entry to s1 and  *)
(* commits it; s2 stands again in term 4.  AppendEntries1 writes over the  *)
(* first two entries of s1 and leaves the third, of term 1, as its last.   *)
(***************************************************************************)
EXTENDS MCRaft

Course == {<<s1, 1>>, <<s2, 2>>, <<s3, 3>>, <<s2, 4>>}

Reached(t) == \E s \in Server : m_currentTerm[s] >= t

\* What each term has to have done before the next election starts, and who
\* takes part in it.
OnCourse ==
    /\ Reached(2) => Len(m_logs[s1]) = 3 /\ m_currentTerm[s1] # 2
    /\ ~Reached(2) => appendCalls = {}
    /\ Reached(3) => Len(m_logs[s2]) >= 1 /\ m_logs[s3] # <<>>
    /\ ~Reached(3) => Len(m_logs[s2]) <= 1
    /\ m_currentTerm[s2] = 3 => Len(m_logs[s2]) = 1
    /\ Reached(4) => m_lastApplied[s3] = 2 /\ m_currentTerm[s3] = 3
    /\ Len(m_logs[s2]) <= 2 /\ Len(m_logs[s3]) <= 2
    /\ \A v \in votes : <<v.term, v.voter>> \in
            {<<1, s1>>, <<1, s2>>, <<2, s2>>, <<2, s3>>, <<3, s3>>, <<3, s2>>,
             <<4, s2>>, <<4, s1>>}
    /\ m_currentTerm[s3] # 1

CourseState == <<LiveState, m_lastApplied>>
=============================================================================
