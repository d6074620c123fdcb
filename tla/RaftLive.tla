------------------------------ MODULE RaftLive ------------------------------
(***************************************************************************)
(* What the tickers of raft.cpp owe a client while one leader stays up: an *)
(* entry it takes is committed and applied by every process, although any  *)
(* request and any answer may be lost.                                     *)
(*                                                                         *)
(* applierTicker and leaderHearBeatTicker are loops without an exit, so    *)
(* getApplyLogs and doHeartBeat are weakly fair.  A round whose slot is    *)
(* taken again loses what it had under way, so a delivery can be disabled  *)
(* for ever by the heartbeats themselves; that a link is not dead, and a   *)
(* request sent again and again arrives at last, is strong fairness of its *)
(* delivery.  Nothing is assumed of elections: the properties speak of a   *)
(* process that leads.                                                     *)
(***************************************************************************)
EXTENDS RaftRestart

Delivered(p) == \E c \in appendCalls : c.to = p /\ AppendEntries1(c)
Answered(p)  == \E r \in appendReplies : r.to = p /\ sendAppendEntries(r)

Fairness ==
    /\ \A s \in Server : /\ WF_vars(getApplyLogs(s))
                         /\ WF_vars(\E k \in Rounds : doHeartBeat(s, k))
    /\ \A p \in Server : SF_vars(Delivered(p)) /\ SF_vars(Answered(p))

\* An ended process is started again.
FairRestartSpec ==
    RestartSpec /\ Fairness /\ \A s \in Server : WF_vars(Restart(s))

\* The leader has an entry of its own term at i or above.
Took(s, i) ==
    \E k \in DOMAIN m_logs[s] :
        m_logs[s][k].index >= i /\ m_logs[s][k].term = m_currentTerm[s]

\* Once no process ends any more, an entry that a leader takes from a client, and
\* all that precede it, are applied by every process unless the leader is
\* deposed, although any request and any answer may be lost: heartbeats carry
\* them until they are acknowledged, a refusal by a process that was started
\* again with an empty log moves its nextIndex back until a request matches, the
\* answers commit, and later heartbeats bring the commit index to the others
\* (doHeartBeat, sendAppendEntries, AppendEntries1, applierTicker).  Entries of
\* earlier terms alone wait for one of the leader's own.  Nothing is promised of
\* logs that were compacted: what a peer behind a snapshot can do with it is in
\* KvSnapshot.
RepairedEverywhere ==
    (/\ <>[](\A p \in Server : Alive(p))
     /\ [](\A p \in Server : m_lastSnapshotIncludeIndex[p] = 0)) =>
    \A s \in Server : \A i \in 1..MaxIndex :
        m_status[s] = "Leader" /\ Took(s, i)
        ~> \/ \A p \in Server : m_lastApplied[p] >= i
           \/ m_status[s] # "Leader"
=============================================================================
