--------------------------- MODULE RaftStepProofs ---------------------------
(***************************************************************************)
(* Elections of Raft.tla, for any set of servers, and what a single step   *)
(* may do.  Both rest on LogInv of RaftLogProofs.                          *)
(*                                                                         *)
(* Elections: a term has at most one leader, and the counter of an         *)
(* election never reaches the majority a second time.  doElection's shared *)
(* counter counts each voter once: a voter answers each request once, and  *)
(* a granted answer is counted when it is taken, if the term is still that *)
(* of the election; so the counter, plus a majority once it has been       *)
(* restarted by a victory, is at most the number of voters whose grant is  *)
(* no longer under way.  Two majorities of one term would share a voter,   *)
(* who votes once per term.                                                *)
(*                                                                         *)
(* Steps: terms, votes, positions and the ends of logs never go back, and  *)
(* the persister never lags behind the members it is a copy of.  From it,  *)
(* that an index and a term name one command: the index Start gives an     *)
(* entry is beyond the end of the leader's log, and whatever exists of     *)
(* that term already is not: it came from the same server, as a term has   *)
(* one winner, whose log has not become shorter since.  Every other step   *)
(* only moves and drops entries.                                           *)
(***************************************************************************)
EXTENDS RaftLogProofs, FiniteSetTheorems

-----------------------------------------------------------------------------
(* The inductive invariant *)

Vote(t, v, c) == [term |-> t, voter |-> v, candidate |-> c]
Win(t, s)     == [term |-> t, leader |-> s]

\* The answers that grant a vote and wait for their caller.
Granted == {r \in voteReplies : r.voteGranted}

VotersFor(s, t) == {v \in Server : Vote(t, v, s) \in votes}

\* The voters of s in its present term whose answer has been taken.
Taken(s) ==
    {v \in VotersFor(s, m_currentTerm[s]) :
        \A r \in Granted :
            ~(r.from = s /\ r.to = v /\ r.election = m_currentTerm[s])}

\* What the counter would be had it not been restarted.
AllCounted(s) ==
    votedNum[s] + IF Win(m_currentTerm[s], s) \in leaders THEN Majority ELSE 0

VotesOnce ==
    \A x, y \in votes :
        x.term = y.term /\ x.voter = y.voter => x.candidate = y.candidate

VotesRemembered ==
    \A x \in votes :
        /\ x.term <= m_currentTerm[x.voter]
        /\ x.term = m_currentTerm[x.voter] => m_votedFor[x.voter] = x.candidate
        /\ x.term <= m_currentTerm[x.candidate]

CallsOfCandidates ==
    \A c \in voteCalls :
        /\ c.term <= m_currentTerm[c.from]
        /\ c.to # c.from
        /\ Vote(c.term, c.from, c.from) \in votes
        /\ Vote(c.term, c.to, c.from) \notin votes
        /\ \A d \in voteCalls :
                d.from = c.from /\ d.to = c.to /\ d.term = c.term => d = c

GrantsAreVotes ==
    \A r \in Granted :
        /\ r.term = r.election
        /\ Vote(r.election, r.to, r.from) \in votes
        /\ Vote(r.election, r.from, r.from) \in votes

VotesCountedOnce ==
    \A s \in Server :
        m_votedFor[s] = s => AllCounted(s) <= Cardinality(Taken(s))

LeadersElected ==
    \A l \in leaders :
        /\ Cardinality(VotersFor(l.leader, l.term)) >= Majority
        /\ l.term <= m_currentTerm[l.leader]

LeadersWon ==
    \A s \in Server :
        m_status[s] = "Leader" => Win(m_currentTerm[s], s) \in leaders

ElectionInv ==
    /\ VotesOnce
    /\ VotesRemembered
    /\ CallsOfCandidates
    /\ GrantsAreVotes
    /\ VotesCountedOnce
    /\ LeadersElected
    /\ LeadersWon

-----------------------------------------------------------------------------
(* Sets of voters *)

\* A majority is a positive number, and two of them are more than everybody.
LEMMA MajorityIsHalf ==
    /\ Cardinality(Server) \in Nat
    /\ Majority \in Nat \ {0}
    /\ Majority + Majority > Cardinality(Server)
<1>1. Cardinality(Server) \in Nat
  BY ServerAssumption, FS_CardinalityType
<1> QED
  BY <1>1 DEF Majority

\* Voters are counted in natural numbers, and a larger set counts more.
LEMMA VotersAreFinite ==
    ASSUME NEW V \in SUBSET Server
    PROVE  /\ Cardinality(V) \in Nat
           /\ Cardinality(V) <= Cardinality(Server)
           /\ \A W \in SUBSET V : Cardinality(W) <= Cardinality(V)
<1>1. IsFiniteSet(V) /\ Cardinality(V) <= Cardinality(Server)
  BY ServerAssumption, FS_Subset
<1>2. Cardinality(V) \in Nat
  BY <1>1, FS_CardinalityType
<1>3. \A W \in SUBSET V : Cardinality(W) <= Cardinality(V)
  BY <1>1, FS_Subset
<1> QED
  BY <1>1, <1>2, <1>3

\* One more voter counts one more.
LEMMA OneMoreVoter ==
    ASSUME NEW V \in SUBSET Server, NEW v \in Server, v \notin V
    PROVE  Cardinality(V \cup {v}) = Cardinality(V) + 1
<1>1. IsFiniteSet(V)
  BY ServerAssumption, FS_Subset
<1> QED
  BY <1>1, FS_AddElement

\* At most one server wins a term: two majorities share a voter.
LEMMA InvElectionSafety == TypeOK /\ ElectionInv => ElectionSafety
<1> SUFFICES ASSUME TypeOK, ElectionInv,
                    NEW x \in leaders, NEW y \in leaders, x.term = y.term
             PROVE  x.leader = y.leader
  BY DEF ElectionSafety
<1> DEFINE X == VotersFor(x.leader, x.term)
           Y == VotersFor(y.leader, x.term)
<1>1. X \in SUBSET Server /\ Y \in SUBSET Server
  BY DEF VotersFor
<1>2. Cardinality(X) >= Majority /\ Cardinality(Y) >= Majority
  BY DEF ElectionInv, LeadersElected
<1>3. Cardinality(X) \in Nat /\ Cardinality(Y) \in Nat
  BY <1>1, VotersAreFinite
<1>4. Cardinality(X) + Cardinality(Y) > Cardinality(Server)
  BY <1>2, <1>3, MajorityIsHalf
<1>5. X \cap Y # {}
  <2> HIDE DEF X, Y
  <2> QED
    BY <1>1, <1>4, ServerAssumption, FS_MajoritiesIntersect
<1>6. PICK v \in Server : /\ Vote(x.term, v, x.leader) \in votes
                          /\ Vote(x.term, v, y.leader) \in votes
  BY <1>5 DEF VotersFor
<1> QED
  BY <1>6 DEF ElectionInv, VotesOnce, Vote

-----------------------------------------------------------------------------
(* Steps in which nobody votes and no vote is counted *)

\* What every handler does to its term, its vote and its status: a later term
\* comes without a vote and without leadership.
TermsForward ==
    \A s \in Server :
        /\ m_currentTerm'[s] >= m_currentTerm[s]
        /\ m_currentTerm'[s] = m_currentTerm[s] => m_votedFor'[s] = m_votedFor[s]
        /\ m_currentTerm'[s] # m_currentTerm[s] => m_votedFor'[s] = Nil
        /\ m_status'[s] = "Leader" =>
                m_status[s] = "Leader" /\ m_currentTerm'[s] = m_currentTerm[s]

\* Following a term moves forward.
LEMMA FollowGoesForward ==
    ASSUME TypeOK, NEW s \in Server, NEW t \in Nat, t >= m_currentTerm[s],
           Follow(s, t)
    PROVE  TermsForward
BY DEF TypeOK, TermTypes, Follow, VoteIn, TermsForward

\* Standing still is moving forward, too.
LEMMA SameGoesForward ==
    ASSUME TypeOK, UNCHANGED termVars
    PROVE  TermsForward
BY DEF TypeOK, TermTypes, termVars, TermsForward

\* Requests and answers may be taken away, and terms may move on: nothing that
\* was counted is uncounted.
LEMMA NoBallot ==
    ASSUME TypeOK, TypeOK', ElectionInv, TermsForward,
           UNCHANGED <<votedNum, votes, leaders>>,
           voteCalls' \subseteq voteCalls, Granted' \subseteq Granted
    PROVE  ElectionInv'
<1>1. /\ \A s \in Server : m_currentTerm[s] \in Nat /\ m_currentTerm'[s] \in Nat
      /\ \A s \in Server : m_currentTerm'[s] >= m_currentTerm[s]
  <2>1. \A s \in Server : m_currentTerm[s] \in Nat /\ m_currentTerm'[s] \in Nat
    BY DEF TypeOK, TermTypes
  <2> QED
    BY <2>1 DEF TermsForward
<1>2. VotesOnce'
  BY DEF ElectionInv, VotesOnce
<1>3. VotesRemembered'
  <2> SUFFICES ASSUME NEW x \in votes
               PROVE  /\ x.term <= m_currentTerm'[x.voter]
                      /\ x.term = m_currentTerm'[x.voter]
                            => m_votedFor'[x.voter] = x.candidate
                      /\ x.term <= m_currentTerm'[x.candidate]
    BY DEF VotesRemembered
  <2>1. x.voter \in Server /\ x.candidate \in Server /\ x.term \in Nat
    BY DEF TypeOK, HistoryTypes
  <2>2. /\ x.term <= m_currentTerm[x.voter]
        /\ x.term = m_currentTerm[x.voter] => m_votedFor[x.voter] = x.candidate
        /\ x.term <= m_currentTerm[x.candidate]
    BY DEF ElectionInv, VotesRemembered
  <2>3. /\ x.term <= m_currentTerm'[x.voter]
        /\ x.term <= m_currentTerm'[x.candidate]
    BY <1>1, <2>1, <2>2
  <2>4. ASSUME x.term = m_currentTerm'[x.voter]
        PROVE  m_votedFor'[x.voter] = x.candidate
    <3>1. x.term = m_currentTerm[x.voter]
      BY <1>1, <2>1, <2>2, <2>4
    <3> QED
      BY <2>1, <2>2, <2>4, <3>1 DEF TermsForward
  <2> QED
    BY <2>3, <2>4
<1>4. CallsOfCandidates'
  <2> SUFFICES ASSUME NEW c \in voteCalls
               PROVE  c.term <= m_currentTerm'[c.from]
    BY DEF ElectionInv, CallsOfCandidates, Vote
  <2>1. c.from \in Server /\ c.term \in Nat /\ c.term <= m_currentTerm[c.from]
    BY DEF TypeOK, VoteTypes, VoteCallType, ElectionInv, CallsOfCandidates
  <2> QED
    BY <1>1, <2>1
<1>5. GrantsAreVotes'
  BY DEF ElectionInv, GrantsAreVotes, Vote
<1>6. VotesCountedOnce'
  <2> SUFFICES ASSUME NEW s \in Server, m_votedFor'[s] = s
               PROVE  AllCounted(s)' <= Cardinality(Taken(s)')
    BY DEF VotesCountedOnce
  <2>1. m_currentTerm'[s] = m_currentTerm[s] /\ m_votedFor[s] = s
    BY ServerAssumption DEF TermsForward
  <2>2. AllCounted(s)' = AllCounted(s)
    BY <2>1 DEF AllCounted, Win, Majority
  <2>3. AllCounted(s) <= Cardinality(Taken(s))
    BY <2>1 DEF ElectionInv, VotesCountedOnce
  <2>4. Taken(s) \subseteq Taken(s)' /\ Taken(s)' \subseteq Server
    BY <2>1 DEF Taken, VotersFor, Vote
  <2>5. Cardinality(Taken(s)) <= Cardinality(Taken(s)')
        /\ Cardinality(Taken(s)) \in Nat /\ Cardinality(Taken(s)') \in Nat
    BY <2>4, VotersAreFinite
  <2>6. AllCounted(s) \in Nat
    BY MajorityIsHalf DEF AllCounted, TypeOK, CountTypes
  <2> QED
    BY <2>2, <2>3, <2>5, <2>6
<1>7. LeadersElected'
  <2> SUFFICES ASSUME NEW l \in leaders
               PROVE  l.term <= m_currentTerm'[l.leader]
    BY DEF ElectionInv, LeadersElected, VotersFor, Vote, Majority
  <2>1. l.leader \in Server /\ l.term \in Nat /\ l.term <= m_currentTerm[l.leader]
    BY DEF TypeOK, HistoryTypes, ElectionInv, LeadersElected
  <2> QED
    BY <1>1, <2>1
<1>8. LeadersWon'
  BY DEF TermsForward, ElectionInv, LeadersWon, Win
<1> QED
  BY <1>2, <1>3, <1>4, <1>5, <1>6, <1>7, <1>8 DEF ElectionInv

\* A caller that follows a larger term, or does nothing, and takes no vote.
LEMMA CallerWithoutBallot ==
    ASSUME TypeOK, TypeOK', ElectionInv, NEW s \in Server, NEW t \in Nat,
           StepDown(s, t) \/ Ignore,
           voteCalls' \subseteq voteCalls, Granted' \subseteq Granted
    PROVE  ElectionInv'
<1>1. CASE StepDown(s, t)
  <2>1. /\ Follow(s, t) /\ t > m_currentTerm[s] /\ m_currentTerm[s] \in Nat
        /\ UNCHANGED <<votedNum, votes, leaders>>
    BY <1>1 DEF StepDown, Outdated, history, TypeOK, TermTypes
  <2>2. TermsForward
    BY <2>1, FollowGoesForward
  <2> QED
    BY <2>1, <2>2, NoBallot
<1>2. CASE Ignore
  <2>1. UNCHANGED <<termVars, votedNum, votes, leaders>>
    BY <1>2 DEF Ignore, history
  <2> QED
    BY <2>1, SameGoesForward, NoBallot
<1> QED
  BY <1>1, <1>2

-----------------------------------------------------------------------------
(* Elections *)

\* A new election is of a term in which nobody has voted for its candidate.
LEMMA doElectionInv ==
    ASSUME TypeOK, ElectionInv, NEW s \in Server, doElection(s)
    PROVE  ElectionInv'
<1> DEFINE t     == m_currentTerm[s] + 1
           self  == Vote(t, s, s)
<1>1. /\ m_currentTerm \in [Server -> Nat]
      /\ m_votedFor \in [Server -> Server \cup {Nil}]
      /\ m_status \in [Server -> {"Follower", "Candidate", "Leader"}]
      /\ votedNum \in [Server -> Nat]
  BY DEF TypeOK, TermTypes, CountTypes
<1>2. /\ m_status' = [m_status EXCEPT ![s] = "Candidate"]
      /\ m_currentTerm' = [m_currentTerm EXCEPT ![s] = t]
      /\ m_votedFor' = [m_votedFor EXCEPT ![s] = s]
      /\ votedNum' = [votedNum EXCEPT ![s] = 1]
      /\ votes' = votes \cup {self}
      /\ UNCHANGED <<voteReplies, leaders>>
  BY <1>1 DEF doElection, Vote
<1>3. PICK new : /\ voteCalls' = voteCalls \cup new
                 /\ \A c \in new : c.from = s /\ c.to # s /\ c.term = t
                 /\ \A c, d \in new : c.to = d.to => c = d
  <2> DEFINE call(p) == [from |-> s, to |-> p, term |-> t,
                         lastLogIndex |-> LastLogIndex(s),
                         lastLogTerm |-> LastLogTerm(s)]
             sent == {call(p) : p \in Server \ {s}}
  <2>1. voteCalls' = voteCalls \cup sent
    BY DEF doElection
  <2>2. \A c \in sent : c.from = s /\ c.to # s /\ c.term = t
    OBVIOUS
  <2>3. \A c \in sent : c = call(c.to)
    OBVIOUS
  <2> HIDE DEF call, sent
  <2> QED
    BY <2>1, <2>2, <2>3
<1>4. /\ \A x \in votes : x.term \in Nat /\ x.voter \in Server /\ x.candidate \in Server
      /\ \A c \in voteCalls : c.term \in Nat /\ c.from \in Server /\ c.to \in Server
      /\ \A r \in Granted : r.from \in Server /\ r.to \in Server
      /\ \A l \in leaders : l.term \in Nat /\ l.leader \in Server
  BY DEF TypeOK, HistoryTypes, VoteTypes, VoteCallType, VoteReplyType, Granted
<1>5. \A x \in votes : ~(x.term = t /\ (x.voter = s \/ x.candidate = s))
  BY <1>1, <1>4 DEF ElectionInv, VotesRemembered
<1> HIDE DEF self
<1>6. t \in Nat /\ t > m_currentTerm[s]
  BY <1>1
<1> HIDE DEF t
<1>7. self.term = t /\ self.voter = s /\ self.candidate = s
  BY DEF self, Vote
<1>8. VotesOnce'
  BY <1>2, <1>5, <1>7 DEF ElectionInv, VotesOnce
<1>9. VotesRemembered'
  <2> SUFFICES ASSUME NEW x \in votes'
               PROVE  /\ x.term <= m_currentTerm'[x.voter]
                      /\ x.term = m_currentTerm'[x.voter]
                            => m_votedFor'[x.voter] = x.candidate
                      /\ x.term <= m_currentTerm'[x.candidate]
    BY DEF VotesRemembered
  <2>1. CASE x = self
    BY <1>1, <1>2, <1>6, <1>7, <2>1
  <2>2. CASE x \in votes
    <3>1. /\ x.term <= m_currentTerm[x.voter]
          /\ x.term = m_currentTerm[x.voter] => m_votedFor[x.voter] = x.candidate
          /\ x.term <= m_currentTerm[x.candidate]
      BY <2>2 DEF ElectionInv, VotesRemembered
    <3> QED
      BY <1>1, <1>2, <1>4, <1>5, <1>6, <2>2, <3>1
  <2> QED
    BY <1>2, <2>1, <2>2
<1>10. CallsOfCandidates'
  <2> SUFFICES ASSUME NEW c \in voteCalls'
               PROVE  /\ c.term <= m_currentTerm'[c.from]
                      /\ c.to # c.from
                      /\ Vote(c.term, c.from, c.from) \in votes'
                      /\ Vote(c.term, c.to, c.from) \notin votes'
                      /\ \A d \in voteCalls' :
                            d.from = c.from /\ d.to = c.to /\ d.term = c.term
                            => d = c
    BY DEF CallsOfCandidates
  <2>1. \A d \in voteCalls : ~(d.from = s /\ d.term = t)
    BY <1>1, <1>4, <1>6 DEF ElectionInv, CallsOfCandidates
  <2>2. CASE c \in new
    <3>1. Vote(t, c.to, s) \notin votes'
      BY <1>2, <1>3, <1>5, <1>7, <2>2 DEF Vote
    <3>2. Vote(t, s, s) \in votes'
      BY <1>2 DEF self
    <3> QED
      BY <1>1, <1>2, <1>3, <1>6, <2>1, <2>2, <3>1, <3>2
  <2>3. CASE c \in voteCalls
    <3>1. /\ c.term <= m_currentTerm[c.from] /\ c.to # c.from
          /\ Vote(c.term, c.from, c.from) \in votes
          /\ Vote(c.term, c.to, c.from) \notin votes
          /\ \A d \in voteCalls :
                d.from = c.from /\ d.to = c.to /\ d.term = c.term => d = c
      BY <2>3 DEF ElectionInv, CallsOfCandidates
    <3>2. c.term <= m_currentTerm'[c.from]
      BY <1>1, <1>2, <1>4, <1>6, <2>3, <3>1
    <3>3. Vote(c.term, c.to, c.from) # self
      BY <3>1 DEF self, Vote
    <3> QED
      BY <1>2, <1>3, <2>1, <2>3, <3>1, <3>2, <3>3
  <2> QED
    BY <1>3, <2>2, <2>3
<1>11. Granted' = Granted /\ GrantsAreVotes'
  BY <1>2 DEF ElectionInv, GrantsAreVotes, Granted
<1>12. VotesCountedOnce'
  <2> SUFFICES ASSUME NEW q \in Server, m_votedFor'[q] = q
               PROVE  AllCounted(q)' <= Cardinality(Taken(q)')
    BY DEF VotesCountedOnce
  <2>1. CASE q = s
    <3>1. Win(t, s) \notin leaders
      BY <1>1, <1>4, <1>6 DEF ElectionInv, LeadersElected, Win
    <3>2. AllCounted(q)' = 1
      BY <1>1, <1>2, <2>1, <3>1 DEF AllCounted
    <3>3. \A r \in Granted : ~(r.from = s /\ r.election = t)
      BY <1>4, <1>5 DEF ElectionInv, GrantsAreVotes, Vote
    <3>4. m_currentTerm'[q] = t
      BY <1>1, <1>2, <2>1
    <3>5. s \in Taken(q)' /\ Taken(q)' \subseteq Server
      BY <1>2, <1>11, <2>1, <3>3, <3>4 DEF Taken, VotersFor, self
    <3>6. {s} \in SUBSET Taken(q)' /\ Cardinality({s}) = 1
      BY <3>5, FS_Singleton
    <3>7. Cardinality(Taken(q)') \in Nat /\ 1 <= Cardinality(Taken(q)')
      BY <3>5, <3>6, VotersAreFinite
    <3> QED
      BY <3>2, <3>7
  <2>2. CASE q # s
    <3>1. m_votedFor[q] = q /\ m_currentTerm'[q] = m_currentTerm[q]
          /\ votedNum'[q] = votedNum[q]
      BY <1>1, <1>2, <2>2
    <3>2. AllCounted(q)' = AllCounted(q)
      BY <1>2, <3>1 DEF AllCounted, Win, Majority
    <3>3. \A v : Vote(m_currentTerm[q], v, q) # self
      BY <1>7, <2>2 DEF Vote
    <3>4. Taken(q)' = Taken(q)
      BY <1>2, <1>11, <3>1, <3>3 DEF Taken, VotersFor, Vote
    <3> QED
      BY <3>1, <3>2, <3>4 DEF ElectionInv, VotesCountedOnce
  <2> QED
    BY <2>1, <2>2
<1>13. LeadersElected'
  <2> SUFFICES ASSUME NEW l \in leaders
               PROVE  /\ Cardinality(VotersFor(l.leader, l.term)') >= Majority
                      /\ l.term <= m_currentTerm'[l.leader]
    BY <1>2 DEF LeadersElected, Majority
  <2>1. /\ Cardinality(VotersFor(l.leader, l.term)) >= Majority
        /\ l.term <= m_currentTerm[l.leader]
    BY DEF ElectionInv, LeadersElected
  <2>2. VotersFor(l.leader, l.term)' = VotersFor(l.leader, l.term)
    BY <1>1, <1>2, <1>4, <1>6, <1>7, <2>1 DEF VotersFor, Vote
  <2> QED
    BY <1>1, <1>2, <1>4, <1>6, <2>1, <2>2
<1>14. LeadersWon'
  BY <1>1, <1>2 DEF ElectionInv, LeadersWon, Win
<1> QED
  BY <1>8, <1>9, <1>10, <1>11, <1>12, <1>13, <1>14 DEF ElectionInv

\* A grant is counted neither before it is taken nor for an earlier election,
\* and its voter had not voted for the candidate before.
LEMMA GrantVoteInv ==
    ASSUME TypeOK, ElectionInv, NEW c \in voteCalls, GrantVote(c.to, c),
           UNCHANGED <<votedNum, leaders>>
    PROVE  ElectionInv'
<1> DEFINE s    == c.to
           cast == Vote(c.term, s, c.from)
<1>1. /\ m_currentTerm \in [Server -> Nat]
      /\ m_votedFor \in [Server -> Server \cup {Nil}]
      /\ m_status \in [Server -> {"Follower", "Candidate", "Leader"}]
      /\ votedNum \in [Server -> Nat]
      /\ c.to \in Server /\ c.from \in Server /\ c.term \in Nat
  BY DEF TypeOK, TermTypes, CountTypes, VoteTypes, VoteCallType
<1>2. /\ c.term >= m_currentTerm[s]
      /\ VoteIn(s, c.term) \in {Nil, c.from}
      /\ m_currentTerm' = [m_currentTerm EXCEPT ![s] = c.term]
      /\ m_votedFor' = [m_votedFor EXCEPT ![s] = c.from]
      /\ m_status' = [m_status EXCEPT
            ![s] = IF c.term > m_currentTerm[s] THEN "Follower" ELSE @]
      /\ votes' = votes \cup {cast}
      /\ voteCalls' = voteCalls \ {c}
  BY DEF GrantVote, Grants, AnswerVote, Vote
<1>3. PICK r : /\ voteReplies' = voteReplies \cup {r}
               /\ r.from = c.from /\ r.to = s /\ r.election = c.term
               /\ r.term = c.term /\ r.voteGranted
  <2> DEFINE grant == [from |-> c.from, to |-> s, election |-> c.term,
                       term |-> c.term, voteGranted |-> TRUE]
  <2>1. voteReplies' = voteReplies \cup {grant}
    BY DEF GrantVote, AnswerVote
  <2>2. /\ grant.from = c.from /\ grant.to = s /\ grant.election = c.term
        /\ grant.term = c.term
    OBVIOUS
  <2>3. grant.voteGranted
    BY Zenon
  <2> HIDE DEF grant
  <2> QED
    BY <2>1, <2>2, <2>3
<1>4. /\ \A x \in votes : x.term \in Nat /\ x.voter \in Server /\ x.candidate \in Server
      /\ \A d \in voteCalls : d.term \in Nat /\ d.from \in Server /\ d.to \in Server
      /\ \A q \in Granted : q.from \in Server /\ q.to \in Server /\ q.election \in Nat
      /\ \A l \in leaders : l.term \in Nat /\ l.leader \in Server
  BY DEF TypeOK, HistoryTypes, VoteTypes, VoteCallType, VoteReplyType, Granted
<1>5. /\ c.term <= m_currentTerm[c.from] /\ s # c.from
      /\ Vote(c.term, c.from, c.from) \in votes
      /\ cast \notin votes
      /\ \A d \in voteCalls :
            d.from = c.from /\ d.to = s /\ d.term = c.term => d = c
  BY DEF ElectionInv, CallsOfCandidates
<1>6. \A x \in votes : x.voter = s /\ x.term = c.term => x.candidate = c.from
  <2> SUFFICES ASSUME NEW x \in votes, x.voter = s, x.term = c.term
               PROVE  x.candidate = c.from
    OBVIOUS
  <2>1. x.term <= m_currentTerm[s]
        /\ (x.term = m_currentTerm[s] => m_votedFor[s] = x.candidate)
    BY DEF ElectionInv, VotesRemembered
  <2>2. c.term = m_currentTerm[s] /\ m_votedFor[s] = x.candidate
    BY <1>1, <1>2, <2>1
  <2>3. x.candidate # Nil
    BY <1>4, ServerAssumption
  <2> QED
    BY <1>1, <1>2, <2>2, <2>3 DEF VoteIn
<1>7. cast.term = c.term /\ cast.voter = s /\ cast.candidate = c.from
  BY DEF Vote
<1> HIDE DEF cast
<1>8. Granted' = Granted \cup {r}
  BY <1>3 DEF Granted
<1>9. VotesOnce'
  BY <1>2, <1>6, <1>7 DEF ElectionInv, VotesOnce
<1>10. VotesRemembered'
  <2> SUFFICES ASSUME NEW x \in votes'
               PROVE  /\ x.term <= m_currentTerm'[x.voter]
                      /\ x.term = m_currentTerm'[x.voter]
                            => m_votedFor'[x.voter] = x.candidate
                      /\ x.term <= m_currentTerm'[x.candidate]
    BY DEF VotesRemembered
  <2>1. CASE x = cast
    BY <1>1, <1>2, <1>5, <1>7, <2>1
  <2>2. CASE x \in votes
    <3>1. /\ x.term <= m_currentTerm[x.voter]
          /\ x.term = m_currentTerm[x.voter] => m_votedFor[x.voter] = x.candidate
          /\ x.term <= m_currentTerm[x.candidate]
      BY <2>2 DEF ElectionInv, VotesRemembered
    <3> QED
      BY <1>1, <1>2, <1>4, <1>6, <2>2, <3>1
  <2> QED
    BY <1>2, <2>1, <2>2
<1>11. CallsOfCandidates'
  <2> SUFFICES ASSUME NEW d \in voteCalls \ {c}
               PROVE  /\ d.term <= m_currentTerm'[d.from]
                      /\ d.to # d.from
                      /\ Vote(d.term, d.from, d.from) \in votes'
                      /\ Vote(d.term, d.to, d.from) \notin votes'
                      /\ \A e \in voteCalls :
                            e.from = d.from /\ e.to = d.to /\ e.term = d.term
                            => e = d
    BY <1>2 DEF CallsOfCandidates
  <2>1. /\ d.term <= m_currentTerm[d.from] /\ d.to # d.from
        /\ Vote(d.term, d.from, d.from) \in votes
        /\ Vote(d.term, d.to, d.from) \notin votes
        /\ \A e \in voteCalls :
              e.from = d.from /\ e.to = d.to /\ e.term = d.term => e = d
    BY DEF ElectionInv, CallsOfCandidates
  <2>2. Vote(d.term, d.to, d.from) # cast
    BY <1>5, <1>7 DEF Vote
  <2>3. d.term <= m_currentTerm'[d.from]
    BY <1>1, <1>2, <1>4, <2>1
  <2> QED
    BY <1>2, <2>1, <2>2, <2>3
<1>12. GrantsAreVotes'
  <2>1. \A q \in Granted : /\ q.term = q.election
                           /\ Vote(q.election, q.to, q.from) \in votes
                           /\ Vote(q.election, q.from, q.from) \in votes
    BY DEF ElectionInv, GrantsAreVotes
  <2>2. /\ r.term = r.election
        /\ Vote(r.election, r.to, r.from) \in votes'
        /\ Vote(r.election, r.from, r.from) \in votes'
    BY <1>2, <1>3, <1>5 DEF cast
  <2> QED
    BY <1>2, <1>8, <2>1, <2>2 DEF GrantsAreVotes
<1>13. VotesCountedOnce'
  <2> SUFFICES ASSUME NEW q \in Server, m_votedFor'[q] = q
               PROVE  AllCounted(q)' <= Cardinality(Taken(q)')
    BY DEF VotesCountedOnce
  <2>1. q # s /\ m_votedFor[q] = q /\ m_currentTerm'[q] = m_currentTerm[q]
    BY <1>1, <1>2, <1>5
  <2>2. AllCounted(q)' = AllCounted(q)
    BY <2>1 DEF AllCounted, Win, Majority
  <2>3. Taken(q)' = Taken(q)
    <3>1. ASSUME NEW v \in Server
          PROVE  v \in Taken(q)' <=> v \in Taken(q)
      <4>1. CASE q = c.from /\ v = s /\ c.term = m_currentTerm[q]
        BY <1>2, <1>3, <1>5, <1>8, <2>1, <4>1 DEF Taken, VotersFor, cast
      <4>2. CASE ~(q = c.from /\ v = s /\ c.term = m_currentTerm[q])
        <5>1. Vote(m_currentTerm[q], v, q) # cast
          BY <1>7, <4>2 DEF Vote
        <5>2. ~(r.from = q /\ r.to = v /\ r.election = m_currentTerm[q])
          BY <1>3, <4>2
        <5> QED
          BY <1>2, <1>8, <2>1, <5>1, <5>2 DEF Taken, VotersFor, Vote
      <4> QED
        BY <4>1, <4>2
    <3>2. Taken(q) \subseteq Server /\ Taken(q)' \subseteq Server
      BY DEF Taken, VotersFor
    <3> QED
      BY <3>1, <3>2
  <2> QED
    BY <2>1, <2>2, <2>3 DEF ElectionInv, VotesCountedOnce
<1>14. LeadersElected'
  <2> SUFFICES ASSUME NEW l \in leaders
               PROVE  /\ Cardinality(VotersFor(l.leader, l.term)') >= Majority
                      /\ l.term <= m_currentTerm'[l.leader]
    BY DEF LeadersElected, Majority
  <2>1. /\ Cardinality(VotersFor(l.leader, l.term)) >= Majority
        /\ l.term <= m_currentTerm[l.leader]
    BY DEF ElectionInv, LeadersElected
  <2>2. /\ VotersFor(l.leader, l.term) \subseteq VotersFor(l.leader, l.term)'
        /\ VotersFor(l.leader, l.term)' \subseteq Server
    BY <1>2 DEF VotersFor, Vote
  <2>3. /\ Cardinality(VotersFor(l.leader, l.term)) \in Nat
        /\ Cardinality(VotersFor(l.leader, l.term)') \in Nat
        /\ Cardinality(VotersFor(l.leader, l.term))
             <= Cardinality(VotersFor(l.leader, l.term)')
    BY <2>2, VotersAreFinite
  <2> QED
    BY <1>1, <1>2, <1>4, <2>1, <2>3, MajorityIsHalf
<1>15. LeadersWon'
  BY <1>1, <1>2 DEF ElectionInv, LeadersWon, Win
<1> QED
  BY <1>9, <1>10, <1>11, <1>12, <1>13, <1>14, <1>15 DEF ElectionInv

\* A vote request that is refused or expired casts no vote.
LEMMA RequestVoteInv ==
    ASSUME TypeOK, TypeOK', ElectionInv, NEW c \in voteCalls, RequestVote(c)
    PROVE  ElectionInv'
<1> DEFINE s == c.to
<1>1. s \in Server /\ c.term \in Nat /\ m_currentTerm[s] \in Nat
  BY DEF TypeOK, TermTypes, VoteTypes, VoteCallType
<1>2. UNCHANGED <<votedNum, leaders>>
  BY DEF RequestVote
<1>3. CASE GrantVote(s, c)
  BY <1>2, <1>3, GrantVoteInv
<1>4. CASE RefuseExpired(s, c) \/ RefuseVote(s, c)
  <2>1. UNCHANGED votes /\ voteCalls' \subseteq voteCalls /\ Granted' \subseteq Granted
    BY <1>4 DEF RefuseExpired, RefuseVote, AnswerVote, Granted
  <2>2. UNCHANGED termVars \/ (c.term >= m_currentTerm[s] /\ Follow(s, c.term))
    BY <1>4 DEF RefuseExpired, RefuseVote
  <2>3. TermsForward
    BY <1>1, <2>2, FollowGoesForward, SameGoesForward
  <2> QED
    BY <1>2, <2>1, <2>3, NoBallot
<1> QED
  BY <1>3, <1>4 DEF RequestVote

\* A grant of the present term that is still under way belongs to the election
\* that is counting, and its voter is not among those taken.
LEMMA TakenOnce ==
    ASSUME TypeOK, ElectionInv, NEW r \in Granted,
           r.term = m_currentTerm[r.from]
    PROVE  /\ m_votedFor[r.from] = r.from
           /\ AllCounted(r.from) <= Cardinality(Taken(r.from))
           /\ r.to \in VotersFor(r.from, m_currentTerm[r.from])
           /\ Taken(r.from) \subseteq Server \ {r.to}
           /\ Cardinality(Taken(r.from)) \in Nat
           /\ Cardinality(Taken(r.from)) + 1 <= Cardinality(Server)
<1> DEFINE s == r.from
<1>1. s \in Server /\ r.to \in Server
  BY DEF TypeOK, VoteTypes, VoteReplyType, Granted
<1>2. /\ r.term = r.election
      /\ Vote(r.election, r.to, s) \in votes /\ Vote(r.election, s, s) \in votes
  BY DEF ElectionInv, GrantsAreVotes
<1>3. m_votedFor[s] = s
  BY <1>2 DEF ElectionInv, VotesRemembered, Vote
<1>4. AllCounted(s) <= Cardinality(Taken(s))
  BY <1>1, <1>3 DEF ElectionInv, VotesCountedOnce
<1>5. r.to \in VotersFor(s, m_currentTerm[s])
  BY <1>1, <1>2 DEF VotersFor
<1>6. r.to \notin Taken(s) /\ Taken(s) \subseteq Server
  BY <1>2 DEF Taken, VotersFor
<1>7. /\ Cardinality(Taken(s)) \in Nat
      /\ Cardinality(Taken(s)) + 1 <= Cardinality(Server)
  <2>1. Cardinality(Taken(s) \cup {r.to}) = Cardinality(Taken(s)) + 1
    BY <1>1, <1>6, OneMoreVoter
  <2>2. /\ Cardinality(Taken(s) \cup {r.to}) <= Cardinality(Server)
        /\ Cardinality(Taken(s)) \in Nat
    BY <1>1, <1>6, VotersAreFinite
  <2> QED
    BY <2>1, <2>2
<1> QED
  BY <1>3, <1>4, <1>5, <1>6, <1>7

\* Taking it takes one more voter, once.
LEMMA TakeVote ==
    ASSUME TypeOK, ElectionInv, NEW r \in Granted,
           r.term = m_currentTerm[r.from], voteReplies' = voteReplies \ {r},
           UNCHANGED <<m_currentTerm, votes>>
    PROVE  /\ Cardinality(Taken(r.from)') = Cardinality(Taken(r.from)) + 1
           /\ \A q \in Server \ {r.from} : Taken(q)' = Taken(q)
           /\ Granted' \subseteq Granted
<1> DEFINE s == r.from
<1>1. Granted' = Granted \ {r}
  BY DEF Granted
<1>2. /\ r.term = r.election /\ r.to \in Server
      /\ r.to \in VotersFor(s, m_currentTerm[s])
      /\ Taken(s) \subseteq Server \ {r.to}
  BY TakenOnce DEF ElectionInv, GrantsAreVotes, VotersFor
<1>3. ASSUME NEW q \in Granted, q.from = s, q.to = r.to, q.election = r.election
      PROVE  q = r
  <2>1. q \in VoteReplyType /\ r \in VoteReplyType /\ q.voteGranted /\ r.voteGranted
    BY DEF TypeOK, VoteTypes, Granted
  <2>2. q.voteGranted = TRUE /\ r.voteGranted = TRUE
    BY <2>1, Zenon DEF VoteReplyType
  <2>3. q.term = q.election
    BY DEF ElectionInv, GrantsAreVotes
  <2> QED
    BY <1>2, <1>3, <2>1, <2>2, <2>3 DEF VoteReplyType
<1>4. Taken(s)' = Taken(s) \cup {r.to}
  <2>1. ASSUME NEW v \in Server, v # r.to
        PROVE  v \in Taken(s)' <=> v \in Taken(s)
    BY <1>1, <2>1 DEF Taken, VotersFor, Vote
  <2>2. r.to \in Taken(s)'
    BY <1>1, <1>2, <1>3 DEF Taken, VotersFor, Vote
  <2>3. Taken(s)' \subseteq Server
    BY DEF Taken, VotersFor
  <2> QED
    BY <1>2, <2>1, <2>2, <2>3
<1>5. Cardinality(Taken(s)') = Cardinality(Taken(s)) + 1
  BY <1>2, <1>4, OneMoreVoter
<1>6. \A q \in Server \ {s} : Taken(q)' = Taken(q)
  BY <1>1 DEF Taken, VotersFor, Vote
<1> QED
  BY <1>1, <1>5, <1>6

\* A vote that is counted, and the vote that wins.
LEMMA sendRequestVoteInv ==
    ASSUME TypeOK, TypeOK', ElectionInv, NEW r \in voteReplies,
           sendRequestVote(r)
    PROVE  ElectionInv'
<1> DEFINE s == r.from
<1>1. s \in Server /\ r.term \in Nat
  BY DEF TypeOK, VoteTypes, VoteReplyType
<1>2. UNCHANGED voteCalls /\ voteReplies' = voteReplies \ {r}
  BY DEF sendRequestVote, voteNet
<1>3. CASE StepDown(s, r.term) \/ Ignore
  <2>1. Granted' \subseteq Granted
    BY <1>2 DEF Granted
  <2> QED
    BY <1>1, <1>2, <1>3, <2>1, CallerWithoutBallot
<1>4. CASE /\ r.term = m_currentTerm[s] /\ r.voteGranted
           /\ CountVote(s) \/ BecomeLeader(s)
  <2>1. r \in Granted
    BY <1>4 DEF Granted
  <2>2. /\ UNCHANGED <<m_currentTerm, m_votedFor, votes>>
        /\ votedNum \in [Server -> Nat]
        /\ m_status \in [Server -> {"Follower", "Candidate", "Leader"}]
    BY <1>4 DEF CountVote, BecomeLeader, termVars, history, TypeOK, CountTypes,
                TermTypes
  <2>3. /\ m_votedFor[s] = s
        /\ AllCounted(s) <= Cardinality(Taken(s))
        /\ Cardinality(Taken(s)') = Cardinality(Taken(s)) + 1
        /\ \A q \in Server \ {s} : Taken(q)' = Taken(q)
        /\ Granted' \subseteq Granted
    BY <1>2, <1>4, <2>1, <2>2, TakenOnce, TakeVote
  <2>4. VotesOnce' /\ VotesRemembered'
    BY <2>2 DEF ElectionInv, VotesOnce, VotesRemembered
  <2>5. CallsOfCandidates' /\ GrantsAreVotes'
    BY <1>2, <2>2, <2>3 DEF ElectionInv, CallsOfCandidates, GrantsAreVotes, Vote
  <2>6. /\ Taken(s) \subseteq Server
        /\ Cardinality(Taken(s)) \in Nat /\ votedNum[s] \in Nat
        /\ AllCounted(s) \in Nat /\ AllCounted(s) >= votedNum[s]
    <3>1. Taken(s) \subseteq Server
      BY DEF Taken, VotersFor
    <3> QED
      BY <1>1, <2>2, <3>1, VotersAreFinite, MajorityIsHalf DEF AllCounted
  <2>7. CASE CountVote(s)
    <3>1. /\ votedNum' = [votedNum EXCEPT ![s] = votedNum[s] + 1]
          /\ UNCHANGED <<m_status, leaders>>
      BY <1>1, <2>2, <2>7 DEF CountVote, termVars, history
    <3>2. VotesCountedOnce'
      <4> SUFFICES ASSUME NEW q \in Server, m_votedFor[q] = q
                   PROVE  AllCounted(q)' <= Cardinality(Taken(q)')
        BY <2>2 DEF VotesCountedOnce
      <4>1. CASE q = s
        <5>1. AllCounted(s)' = AllCounted(s) + 1
          BY <1>1, <2>2, <2>6, <3>1, MajorityIsHalf DEF AllCounted, Win, Majority
        <5> QED
          BY <2>3, <2>6, <4>1, <5>1
      <4>2. CASE q # s
        <5>1. AllCounted(q)' = AllCounted(q)
          BY <2>2, <3>1, <4>2 DEF AllCounted, Win, Majority
        <5> QED
          BY <2>3, <4>2, <5>1 DEF ElectionInv, VotesCountedOnce
      <4> QED
        BY <4>1, <4>2
    <3>3. LeadersElected' /\ LeadersWon'
      BY <2>2, <3>1 DEF ElectionInv, LeadersElected, LeadersWon, VotersFor, Vote,
                        Win, Majority
    <3> QED
      BY <2>4, <2>5, <3>2, <3>3 DEF ElectionInv
  <2>8. CASE BecomeLeader(s)
    <3> DEFINE won == Win(m_currentTerm[s], s)
    <3>1. /\ votedNum' = [votedNum EXCEPT ![s] = 0]
          /\ m_status' = [m_status EXCEPT ![s] = "Leader"]
          /\ leaders' = leaders \cup {won}
          /\ votedNum[s] + 1 >= Majority
      BY <2>8 DEF BecomeLeader, ResetVoteCount, Win
    <3>2. /\ Cardinality(Taken(s)') \in Nat
          /\ Majority <= Cardinality(Taken(s)')
      BY <2>3, <2>6, <3>1, MajorityIsHalf
    <3>3. VotesCountedOnce'
      <4> SUFFICES ASSUME NEW q \in Server, m_votedFor[q] = q
                   PROVE  AllCounted(q)' <= Cardinality(Taken(q)')
        BY <2>2 DEF VotesCountedOnce
      <4>1. CASE q = s
        <5>1. AllCounted(s)' = Majority
          BY <1>1, <2>2, <3>1, MajorityIsHalf DEF AllCounted, Win, Majority
        <5> QED
          BY <3>2, <4>1, <5>1
      <4>2. CASE q # s
        <5>1. Win(m_currentTerm[q], q) # won
          BY <4>2 DEF Win
        <5>2. AllCounted(q)' = AllCounted(q)
          BY <2>2, <3>1, <4>2, <5>1 DEF AllCounted, Win, Majority
        <5> QED
          BY <2>3, <4>2, <5>2 DEF ElectionInv, VotesCountedOnce
      <4> QED
        BY <4>1, <4>2
    <3>4. LeadersElected'
      <4> SUFFICES ASSUME NEW l \in leaders'
                   PROVE  /\ Cardinality(VotersFor(l.leader, l.term)) >= Majority
                          /\ l.term <= m_currentTerm[l.leader]
        BY <2>2 DEF LeadersElected, VotersFor, Vote, Majority
      <4>1. CASE l \in leaders
        BY <4>1 DEF ElectionInv, LeadersElected
      <4>2. CASE l = won
        <5>1. /\ l.term = m_currentTerm[s] /\ l.leader = s
              /\ m_currentTerm[s] \in Nat
          BY <1>1, <4>2 DEF Win, TypeOK, TermTypes
        <5>2. /\ Taken(s)' \subseteq VotersFor(s, m_currentTerm[s])
              /\ VotersFor(s, m_currentTerm[s]) \subseteq Server
          BY <2>2 DEF Taken, VotersFor, Vote
        <5>3. /\ Cardinality(Taken(s)')
                    <= Cardinality(VotersFor(s, m_currentTerm[s]))
              /\ Cardinality(VotersFor(s, m_currentTerm[s])) \in Nat
          BY <5>2, VotersAreFinite
        <5> QED
          BY <3>2, <5>1, <5>3, MajorityIsHalf
      <4> QED
        BY <3>1, <4>1, <4>2
    <3>5. LeadersWon'
      BY <2>2, <3>1 DEF ElectionInv, LeadersWon, Win
    <3> QED
      BY <2>4, <2>5, <3>3, <3>4, <3>5 DEF ElectionInv
  <2> QED
    BY <1>4, <2>7, <2>8
<1> QED
  BY <1>3, <1>4 DEF sendRequestVote

-----------------------------------------------------------------------------
(* The other handlers *)

\* Requests to append and to install follow a term or do not; no vote is cast.
LEMMA ReceiverInv ==
    ASSUME TypeOK, TypeOK', ElectionInv, NEW c,
           \/ c \in appendCalls /\ AppendEntries1(c)
           \/ c \in snapCalls /\ (InstallSnapshot(c) \/ SnapshotPeerClosed(c))
    PROVE  ElectionInv'
<1> DEFINE s == c.to
<1>1. s \in Server /\ c.term \in Nat /\ m_currentTerm[s] \in Nat
  BY DEF TypeOK, TermTypes, AppendTypes, AppendCallType, SnapTypes, SnapCallType
<1>2. UNCHANGED <<votedNum, votes, leaders>> /\ UNCHANGED voteNet
  BY DEF AppendEntries1, AppendExpired, AppendBehindSnapshot, Exit, Ignore,
         InstallSnapshot, SnapshotExpired, SnapshotOutdated, SnapshotInstalled,
         SnapshotPeerClosed, history
<1>3. UNCHANGED termVars \/ (c.term >= m_currentTerm[s] /\ Follow(s, c.term))
  BY DEF AppendEntries1, AppendExpired, AppendTooShort, AppendMismatch,
         AppendMatch, AppendBehindSnapshot, Exit, Ignore, InstallSnapshot,
         SnapshotExpired, SnapshotOutdated, SnapshotInstalled, SnapshotPeerClosed
<1>4. TermsForward
  BY <1>1, <1>3, FollowGoesForward, SameGoesForward
<1>5. voteCalls' \subseteq voteCalls /\ Granted' \subseteq Granted
  BY <1>2 DEF voteNet, Granted
<1> QED
  BY <1>2, <1>4, <1>5, NoBallot

\* Every step preserves the invariant.
LEMMA NextElectionInv ==
    TypeOK /\ TypeOK' /\ ElectionInv /\ [Next]_vars => ElectionInv'
<1> SUFFICES ASSUME TypeOK, TypeOK', ElectionInv, [Next]_vars
             PROVE  ElectionInv'
  OBVIOUS
<1>1. CASE \E s \in Server : doElection(s)
  BY <1>1, doElectionInv
<1>2. CASE \E c \in voteCalls : RequestVote(c)
  BY <1>2, RequestVoteInv
<1>3. CASE \E r \in voteReplies : sendRequestVote(r)
  BY <1>3, sendRequestVoteInv
<1>4. CASE \/ \E c \in appendCalls : AppendEntries1(c)
           \/ \E c \in snapCalls : InstallSnapshot(c) \/ SnapshotPeerClosed(c)
  BY <1>4, ReceiverInv
<1>5. CASE \/ \E r \in appendReplies : sendAppendEntries(r)
           \/ \E r \in snapReplies : SnapshotAnswered(r)
  <2>1. PICK s \in Server, t \in Nat :
            \/ StepDown(s, t)
            \/ UNCHANGED <<termVars, votedNum, votes, leaders>>
    BY <1>5 DEF sendAppendEntries, SnapshotAnswered, Ignore, history, TypeOK,
                AppendTypes, AppendReplyType, SnapTypes, SnapReplyType
  <2>2. voteCalls' \subseteq voteCalls /\ Granted' \subseteq Granted
    BY <1>5 DEF sendAppendEntries, SnapshotAnswered, voteNet, Granted
  <2>3. CASE StepDown(s, t)
    BY <2>2, <2>3, CallerWithoutBallot
  <2>4. CASE UNCHANGED <<termVars, votedNum, votes, leaders>>
    BY <2>2, <2>4, SameGoesForward, NoBallot
  <2> QED
    BY <2>1, <2>3, <2>4
<1>6. CASE \/ \E s \in Server, k \in Rounds : doHeartBeat(s, k)
           \/ \E s \in Server : \E i \in 1..m_lastApplied[s] : Snapshot(s, i)
           \/ \E t \in snapThreads : leaderSendSnapShot(t)
           \/ \E s \in Server, cmd \in Cmds : Start(s, cmd)
           \/ \E s \in Server : getApplyLogs(s) \/ Crash(s)
           \/ UNCHANGED vars
  <2>1. UNCHANGED <<termVars, votedNum, voteNet, history>>
    BY <1>6 DEF doHeartBeat, Snapshot, leaderSendSnapShot, Start, getApplyLogs,
                Crash, Exit, Ignore, vars
  <2>2. /\ voteCalls' \subseteq voteCalls /\ Granted' \subseteq Granted
        /\ UNCHANGED <<votedNum, votes, leaders>> /\ TermsForward
    BY <2>1, SameGoesForward DEF voteNet, history, Granted
  <2> QED
    BY <2>2, NoBallot
<1> QED
  BY <1>1, <1>2, <1>3, <1>4, <1>5, <1>6 DEF Next

\* Nobody has voted, nothing is under way.
LEMMA InitElectionInv == Init => ElectionInv
<1> SUFFICES ASSUME Init PROVE ElectionInv
  OBVIOUS
<1>1. VotesOnce /\ VotesRemembered /\ CallsOfCandidates /\ GrantsAreVotes
  BY DEF Init, VotesOnce, VotesRemembered, CallsOfCandidates, GrantsAreVotes, Granted
<1>2. VotesCountedOnce
  BY ServerAssumption DEF Init, VotesCountedOnce
<1>3. LeadersElected /\ LeadersWon
  BY DEF Init, LeadersElected, LeadersWon
<1> QED
  BY <1>1, <1>2, <1>3 DEF ElectionInv

-----------------------------------------------------------------------------
(* The theorems *)

\* Votes are cast, carried and counted once, in every state.
THEOREM ElectionInvariant == Spec => []ElectionInv
<1>1. Init => ElectionInv
  BY InitElectionInv
<1>2. TypeOK /\ TypeOK' /\ ElectionInv /\ [Next]_vars => ElectionInv'
  BY NextElectionInv
<1> QED
  BY <1>1, <1>2, TypeCorrect, PTL DEF Spec

\* At most one server wins a term, however late and in whatever order the
\* answers to the requests of doElection come in (sendRequestVote).
THEOREM OneLeaderPerTerm == Spec => []ElectionSafety
<1>1. TypeOK /\ ElectionInv => ElectionSafety
  BY InvElectionSafety
<1> QED
  BY <1>1, TypeCorrect, ElectionInvariant, PTL

\* The votes that come in after a victory never reach the majority again, so
\* the assertion of sendRequestVote on a second victory never fails.
THEOREM NeverElectedTwice == Spec => []ElectedOnce
<1>1. TypeOK /\ ElectionInv => ElectedOnce
  <2> SUFFICES ASSUME TypeOK, ElectionInv, NEW r \in voteReplies,
                      r.term = m_currentTerm[r.from], r.voteGranted,
                      votedNum[r.from] + 1 >= Majority,
                      m_status[r.from] = "Leader"
               PROVE  FALSE
    BY DEF ElectedOnce
  <2> DEFINE s == r.from
  <2>1. r \in Granted /\ s \in Server /\ votedNum[s] \in Nat
    BY DEF Granted, TypeOK, VoteTypes, VoteReplyType, CountTypes
  <2>2. /\ AllCounted(s) <= Cardinality(Taken(s))
        /\ Cardinality(Taken(s)) + 1 <= Cardinality(Server)
        /\ Cardinality(Taken(s)) \in Nat
    BY <2>1, TakenOnce
  <2>3. AllCounted(s) = votedNum[s] + Majority
    BY <2>1 DEF AllCounted, ElectionInv, LeadersWon
  <2> QED
    BY <2>1, <2>2, <2>3, MajorityIsHalf
<1> QED
  BY <1>1, TypeCorrect, ElectionInvariant, PTL

-----------------------------------------------------------------------------
(* The parts of "never goes back" *)

TermsAdvance ==
    \A p \in Server :
        /\ m_currentTerm'[p] >= m_currentTerm[p]
        /\ m_currentTerm'[p] = m_currentTerm[p] /\ m_votedFor[p] # Nil
           => m_votedFor'[p] = m_votedFor[p]

PositionsAdvance ==
    \A p \in Server : /\ m_commitIndex'[p] >= m_commitIndex[p]
                      /\ m_lastApplied'[p] >= m_lastApplied[p]

Advance == TermsAdvance /\ PositionsAdvance /\ EndsGrow

\* Members that a step leaves alone do not go back.
LEMMA TermsKept ==
    ASSUME LogInv, UNCHANGED <<m_currentTerm, m_votedFor>>
    PROVE  TermsAdvance
BY DEF LogInv, TypeOK, TermTypes, TermsAdvance

\* Likewise for the positions of the applier.
LEMMA PositionsKept ==
    ASSUME LogInv, UNCHANGED applyVars
    PROVE  PositionsAdvance
BY DEF LogInv, TypeOK, IndexTypes, PositionsAdvance, applyVars

\* Following a term that is not smaller keeps the vote of an equal one.
LEMMA FollowAdvances ==
    ASSUME LogInv, NEW s \in Server, NEW t \in Nat, t >= m_currentTerm[s], Follow(s, t)
    PROVE  TermsAdvance
BY DEF LogInv, TypeOK, TermTypes, TermsAdvance, Follow, VoteIn

\* Returning, ending and stepping down.
LEMMA IgnoreAdvances ==
    ASSUME LogInv, Ignore
    PROVE  Advance
BY TermsKept, PositionsKept, LogUntouched DEF Ignore, Advance, termVars

LEMMA ExitAdvances ==
    ASSUME LogInv, NEW s \in Server, NEW a, Exit(s, a)
    PROVE  Advance
BY TermsKept, PositionsKept, LogUntouched DEF Exit, Advance, termVars

LEMMA StepDownAdvances ==
    ASSUME LogInv, NEW s \in Server, NEW t \in Nat, StepDown(s, t)
    PROVE  Advance
<1>1. t >= m_currentTerm[s] /\ Follow(s, t) /\ UNCHANGED <<logVars, applyVars>>
  BY DEF StepDown, Outdated, LogInv, TypeOK, TermTypes
<1> QED
  BY <1>1, FollowAdvances, PositionsKept, LogUntouched DEF Advance

-----------------------------------------------------------------------------
(* Step by step *)

\* A candidate goes on to the next term, and votes there for itself.
LEMMA ElectionAdvances ==
    ASSUME LogInv, NEW s \in Server, doElection(s)
    PROVE  Advance
<1>1. TermsAdvance
  BY DEF LogInv, TypeOK, TermTypes, TermsAdvance, doElection
<1> QED
  BY <1>1, PositionsKept, LogUntouched DEF Advance, doElection

\* A vote is given only where none was given in that term.
LEMMA VoteAdvances ==
    ASSUME LogInv, NEW c \in voteCalls, RequestVote(c)
    PROVE  Advance
<1>1. c.to \in Server /\ c.from \in Server /\ c.term \in Nat
  BY DEF LogInv, TypeOK, VoteTypes, VoteCallType
<1>2. UNCHANGED <<logVars, applyVars>>
  BY DEF RequestVote
<1>3. TermsAdvance
  <2>1. CASE RefuseExpired(c.to, c)
    BY <2>1, TermsKept DEF RefuseExpired, termVars
  <2>2. CASE RefuseVote(c.to, c)
    <3>1. CASE c.term > m_currentTerm[c.to]
      BY <1>1, <2>2, <3>1, FollowAdvances DEF RefuseVote
    <3>2. CASE ~(c.term > m_currentTerm[c.to])
      BY <2>2, <3>2, TermsKept DEF RefuseVote, termVars
    <3> QED
      BY <3>1, <3>2
  <2>3. CASE GrantVote(c.to, c)
    BY <1>1, <2>3, ServerAssumption
       DEF GrantVote, Grants, VoteIn, LogInv, TypeOK, TermTypes, TermsAdvance
  <2> QED
    BY <2>1, <2>2, <2>3 DEF RequestVote
<1> QED
  BY <1>2, <1>3, PositionsKept, LogUntouched DEF Advance

\* Counting a vote changes no term of its own.
LEMMA VoteAnswerAdvances ==
    ASSUME LogInv, NEW r \in voteReplies, sendRequestVote(r)
    PROVE  Advance
<1>1. r.from \in Server /\ r.term \in Nat
  BY DEF LogInv, TypeOK, VoteTypes, VoteReplyType
<1>2. CASE CountVote(r.from) \/ BecomeLeader(r.from)
  BY <1>2, TermsKept, PositionsKept, LogUntouched
     DEF CountVote, BecomeLeader, Advance, termVars
<1> QED
  BY <1>1, <1>2, StepDownAdvances, IgnoreAdvances DEF sendRequestVote

\* A heartbeat only sends.
LEMMA HeartBeatAdvances ==
    ASSUME LogInv, NEW s \in Server, NEW k \in Rounds, doHeartBeat(s, k)
    PROVE  Advance
BY TermsKept, PositionsKept, LogUntouched DEF doHeartBeat, Advance, termVars

\* A request that matches takes the commit index no further than the log.
LEMMA AppendAdvances ==
    ASSUME LogInv, NEW c \in appendCalls, AppendEntries1(c)
    PROVE  Advance
<1> DEFINE s == c.to
<1>1. /\ s \in Server /\ c.term \in Nat /\ c.leaderCommit \in Nat
      /\ m_currentTerm[s] \in Nat
  BY DEF LogInv, TypeOK, AppendTypes, AppendCallType, TermTypes
<1>2. CASE AppendExpired(s, c)
  BY <1>2, IgnoreAdvances DEF AppendExpired
<1>3. CASE AppendBehindSnapshot(s, c)
  BY <1>1, <1>3, ExitAdvances DEF AppendBehindSnapshot
<1>4. CASE c.term >= m_currentTerm[s] /\ (AppendTooShort(s, c) \/ AppendMismatch(s, c))
  <2>1. Follow(s, c.term) /\ UNCHANGED <<logVars, applyVars>>
    BY <1>4 DEF AppendTooShort, AppendMismatch
  <2> QED
    BY <1>1, <1>4, <2>1, FollowAdvances, PositionsKept, LogUntouched DEF Advance
<1>5. CASE c.term >= m_currentTerm[s] /\ AppendMatch(s, c)
  <2>1. EndsGrow /\ UNCHANGED m_lastApplied
    BY <1>1, <1>5, AppendMatchInLog
  <2>2. TermsAdvance
    BY <1>1, <1>5, FollowAdvances DEF AppendMatch
  <2>3. PositionsAdvance
    BY <1>1, <1>5, <2>1, AppendMatchInLog DEF LogInv, TypeOK, IndexTypes, PositionsAdvance
  <2> QED
    BY <2>1, <2>2, <2>3 DEF Advance
<1> QED
  BY <1>2, <1>3, <1>4, <1>5 DEF AppendEntries1

\* A success moves the commit index forward or not at all.
LEMMA AppendAnswerAdvances ==
    ASSUME LogInv, NEW r \in appendReplies, sendAppendEntries(r)
    PROVE  Advance
<1> DEFINE s == r.from
<1>1. s \in Server /\ r.term \in Nat /\ r.upTo \in Nat
  BY DEF LogInv, TypeOK, AppendTypes, AppendReplyType
<1>2. CASE /\ Backtrack(s, r) \/ Replicated(s, r)
           /\ UNCHANGED <<termVars, logVars, m_lastApplied>>
  <2>1. PositionsAdvance
    BY <1>1, <1>2 DEF Backtrack, Replicated, LogInv, TypeOK, IndexTypes, PositionsAdvance
  <2> QED
    BY <1>2, <2>1, TermsKept, LogUntouched DEF Advance, termVars
<1> QED
  BY <1>1, <1>2, StepDownAdvances, IgnoreAdvances DEF sendAppendEntries

\* Compaction drops entries from the front: the log ends where it did.
LEMMA CompactionAdvances ==
    ASSUME LogInv, NEW s \in Server, NEW i \in 1..m_lastApplied[s], Snapshot(s, i)
    PROVE  Advance
<1>1. EndsGrow
  BY SnapshotLogInv
<1>2. PositionsAdvance
  BY DEF Snapshot, LogInv, TypeOK, IndexTypes, PositionsAdvance
<1> QED
  BY <1>1, <1>2, TermsKept DEF Snapshot, Advance, termVars

\* A snapshot takes the positions forward, or leaves them.
LEMMA InstallAdvances ==
    ASSUME LogInv, NEW c \in snapCalls, InstallSnapshot(c)
    PROVE  Advance
<1> DEFINE s == c.to
<1>1. s \in Server /\ c.term \in Nat /\ c.index \in Nat
  BY DEF LogInv, TypeOK, SnapTypes, SnapCallType
<1>2. CASE SnapshotExpired(s, c)
  BY <1>2, IgnoreAdvances DEF SnapshotExpired
<1>3. CASE SnapshotOutdated(s, c)
  BY <1>1, <1>3, FollowAdvances, PositionsKept, LogUntouched DEF SnapshotOutdated, Advance
<1>4. CASE SnapshotInstalled(s, c)
  <2>1. EndsGrow
    BY <1>4, SnapshotInstalledLogInv DEF InstallSnapshot
  <2>2. TermsAdvance
    BY <1>1, <1>4, FollowAdvances DEF SnapshotInstalled
  <2>3. PositionsAdvance
    BY <1>1, <1>4 DEF SnapshotInstalled, CommitTo, LogInv, TypeOK, IndexTypes,
                      PositionsAdvance
  <2> QED
    BY <2>1, <2>2, <2>3 DEF Advance
<1> QED
  BY <1>2, <1>3, <1>4 DEF InstallSnapshot

\* The answer to a snapshot touches what the leader knows of its peer only.
LEMMA SnapshotAnswerAdvances ==
    ASSUME LogInv, NEW r \in snapReplies, SnapshotAnswered(r)
    PROVE  Advance
<1>1. r.from \in Server /\ r.term \in Nat
  BY DEF LogInv, TypeOK, SnapTypes, SnapReplyType
<1>2. CASE UNCHANGED <<termVars, logVars, applyVars>>
  BY <1>2, TermsKept, PositionsKept, LogUntouched DEF Advance, termVars
<1> QED
  BY <1>1, <1>2, StepDownAdvances, IgnoreAdvances DEF SnapshotAnswered

\* A command is appended.
LEMMA StartAdvances ==
    ASSUME LogInv, NEW s \in Server, NEW cmd \in Cmds, Start(s, cmd)
    PROVE  Advance
<1>1. EndsGrow
  BY StartLogInv
<1> QED
  BY <1>1, TermsKept, PositionsKept DEF Start, Advance, termVars

\* What is taken for applying is committed.
LEMMA ApplyAdvances ==
    ASSUME LogInv, NEW s \in Server, getApplyLogs(s)
    PROVE  Advance
<1>1. PositionsAdvance
  BY DEF getApplyLogs, LogInv, TypeOK, IndexTypes, PositionsAdvance
<1> QED
  BY <1>1, TermsKept, LogUntouched DEF getApplyLogs, Advance, termVars

\* And no step is no step back.
LEMMA StutterAdvances ==
    ASSUME LogInv, UNCHANGED vars
    PROVE  Advance
BY TermsKept, PositionsKept, LogUntouched DEF vars, Advance, termVars

\* No step takes anything back.
LEMMA NextAdvances == LogInv /\ [Next]_vars => Advance
<1> SUFFICES ASSUME LogInv, [Next]_vars PROVE Advance
  OBVIOUS
<1>1. CASE \E s \in Server : \/ doElection(s) \/ getApplyLogs(s) \/ Crash(s)
                             \/ \E k \in Rounds : doHeartBeat(s, k)
                             \/ \E i \in 1..m_lastApplied[s] : Snapshot(s, i)
                             \/ \E cmd \in Cmds : Start(s, cmd)
  BY <1>1, ElectionAdvances, ApplyAdvances, ExitAdvances, HeartBeatAdvances,
     CompactionAdvances, StartAdvances DEF Crash
<1>2. CASE \/ \E c \in voteCalls : RequestVote(c)
           \/ \E r \in voteReplies : sendRequestVote(r)
  BY <1>2, VoteAdvances, VoteAnswerAdvances
<1>3. CASE \/ \E c \in appendCalls : AppendEntries1(c)
           \/ \E r \in appendReplies : sendAppendEntries(r)
  BY <1>3, AppendAdvances, AppendAnswerAdvances
<1>4. CASE \/ \E t \in snapThreads : leaderSendSnapShot(t)
           \/ \E c \in snapCalls : InstallSnapshot(c) \/ SnapshotPeerClosed(c)
           \/ \E r \in snapReplies : SnapshotAnswered(r)
  BY <1>4, InstallAdvances, SnapshotAnswerAdvances, IgnoreAdvances
     DEF leaderSendSnapShot, SnapshotPeerClosed
<1>5. CASE UNCHANGED vars
  BY <1>5, StutterAdvances
<1> QED
  BY <1>1, <1>2, <1>3, <1>4, <1>5 DEF Next

\* getLastLogIndex after the step: LastIsEnd for the next state.
LEMMA LastIsEndNext ==
    ASSUME LogTypes', LogsContiguous', NEW s \in Server
    PROVE  LastLogIndex(s)' = End(s)'
<1>1. m_logs'[s] \in Seq(Entries) /\ m_lastSnapshotIncludeIndex'[s] \in Nat
  BY DEF LogTypes
<1>2. CASE m_logs'[s] = <<>>
  BY <1>1, <1>2 DEF LastLogIndex, End
<1>3. CASE m_logs'[s] # <<>>
  <2>1. Len(m_logs'[s]) \in 1..Len(m_logs'[s])
    BY <1>1, <1>3
  <2> QED
    BY <1>1, <1>3, <2>1 DEF LogsContiguous, LastLogIndex, End
<1> QED
  BY <1>2, <1>3

\* Whatever order requests and answers come in, a process never goes back: not
\* in its term or the vote it gave there, not in what is committed or applied,
\* and its log never gets shorter.  KvServer's handlers wait on an index that
\* Start gave out; it is theirs alone because of this.
THEOREM NothingGoesBack == Spec => NeverGoesBack
<1>1. LogInv /\ LogInv' /\ [Next]_vars
      => [\A s \in Server :
            /\ m_currentTerm'[s] >= m_currentTerm[s]
            /\ m_commitIndex'[s] >= m_commitIndex[s]
            /\ m_lastApplied'[s] >= m_lastApplied[s]
            /\ LastLogIndex(s)' >= LastLogIndex(s)
            /\ m_currentTerm'[s] = m_currentTerm[s] /\ m_votedFor[s] # Nil
               => m_votedFor'[s] = m_votedFor[s]]_vars
  <2> SUFFICES ASSUME LogInv, LogInv', [Next]_vars, NEW s \in Server
               PROVE  /\ m_currentTerm'[s] >= m_currentTerm[s]
                      /\ m_commitIndex'[s] >= m_commitIndex[s]
                      /\ m_lastApplied'[s] >= m_lastApplied[s]
                      /\ LastLogIndex(s)' >= LastLogIndex(s)
                      /\ m_currentTerm'[s] = m_currentTerm[s] /\ m_votedFor[s] # Nil
                         => m_votedFor'[s] = m_votedFor[s]
    OBVIOUS
  <2>1. TermsAdvance /\ PositionsAdvance /\ EndsGrow
    BY NextAdvances DEF Advance
  <2>2. LastLogIndex(s) = End(s)
    BY LastIsEnd DEF LogInv, TypeOK
  <2>3. LastLogIndex(s)' = End(s)'
    BY LastIsEndNext DEF LogInv, TypeOK
  <2> QED
    BY <2>1, <2>2, <2>3 DEF TermsAdvance, PositionsAdvance, EndsGrow
<1> QED
  BY <1>1, LogInvariant, PTL DEF Spec, NeverGoesBack

-----------------------------------------------------------------------------
(* The persister *)

\* What a process must find again, as persist() writes it.
StateOf(p) ==
    [term |-> m_currentTerm[p], votedFor |-> m_votedFor[p], logs |-> m_logs[p],
     snapIndex |-> m_lastSnapshotIncludeIndex[p],
     snapTerm |-> m_lastSnapshotIncludeTerm[p]]

\* s changed, alone, and wrote what it has become.
Writes(s) ==
    /\ persist(s)
    /\ UNCHANGED exited
    /\ \A p \in Server : p # s => StateOf(p)' = StateOf(p)

\* Nobody wrote, and nobody had to.
NeedsNoWrite ==
    /\ UNCHANGED disk
    /\ \A p \in Server : Alive(p)' => Alive(p) /\ StateOf(p)' = StateOf(p)

Kept == NeedsNoWrite \/ \E s \in Server : Writes(s)

\* A step that leaves the members and the persisters alone.
LEMMA IdleIsKept ==
    ASSUME UNCHANGED <<m_currentTerm, m_votedFor, logVars, disk, exited>>
    PROVE  Kept
BY DEF Kept, NeedsNoWrite, StateOf, Alive, logVars

\* Returning early writes nothing, and there is nothing to write.
LEMMA IgnoreIsKept ==
    ASSUME Ignore
    PROVE  Kept
BY IdleIsKept DEF Ignore, termVars

\* A process that ends takes its members with it.
LEMMA ExitIsKept ==
    ASSUME LogInv, NEW s \in Server, NEW a, a # "no", Exit(s, a)
    PROVE  Kept
BY DEF Kept, NeedsNoWrite, StateOf, Alive, Exit, termVars, logVars, LogInv, TypeOK, ExitTypes

\* Following touches one process.
LEMMA FollowIsWrite ==
    ASSUME LogInv, NEW s \in Server, NEW t, Follow(s, t), persist(s),
           UNCHANGED <<logVars, exited>>
    PROVE  Kept
<1>1. Writes(s)
  BY DEF Writes, StateOf, Follow, logVars, LogInv, TypeOK, TermTypes
<1> QED
  BY <1>1 DEF Kept

\* Stepping down writes the larger term.
LEMMA StepDownIsKept ==
    ASSUME LogInv, NEW s \in Server, NEW t, StepDown(s, t)
    PROVE  Kept
BY FollowIsWrite DEF StepDown

\* doElection writes its new term and its own vote before it asks for others.
LEMMA ElectionIsKept ==
    ASSUME LogInv, NEW s \in Server, doElection(s)
    PROVE  Kept
<1>1. Writes(s)
  BY DEF Writes, StateOf, doElection, logVars, LogInv, TypeOK, TermTypes
<1> QED
  BY <1>1 DEF Kept

\* RequestVote writes on every return, refusals included.
LEMMA VoteIsKept ==
    ASSUME LogInv, NEW c \in voteCalls, RequestVote(c)
    PROVE  Kept
<1> DEFINE s == c.to
<1>1. s \in Server
  BY DEF LogInv, TypeOK, VoteTypes, VoteCallType
<1>2. persist(s) /\ UNCHANGED <<logVars, exited>>
  BY DEF RequestVote
<1>3. \A p \in Server : p # s => /\ m_currentTerm'[p] = m_currentTerm[p]
                                 /\ m_votedFor'[p] = m_votedFor[p]
  BY <1>1 DEF RequestVote, RefuseExpired, RefuseVote, GrantVote, Follow, termVars,
              LogInv, TypeOK, TermTypes
<1>4. Writes(s)
  BY <1>2, <1>3 DEF Writes, StateOf, logVars
<1> QED
  BY <1>1, <1>4 DEF Kept

\* A new leader writes what is on file already.
LEMMA VoteAnswerIsKept ==
    ASSUME LogInv, NEW r \in voteReplies, sendRequestVote(r)
    PROVE  Kept
<1>1. r.from \in Server
  BY DEF LogInv, TypeOK, VoteTypes, VoteReplyType
<1>2. CASE CountVote(r.from)
  BY <1>2, IdleIsKept DEF CountVote, termVars
<1>3. CASE BecomeLeader(r.from)
  <2>1. Writes(r.from)
    BY <1>3 DEF BecomeLeader, Writes, StateOf, logVars
  <2> QED
    BY <1>1, <2>1 DEF Kept
<1> QED
  BY <1>1, <1>2, <1>3, StepDownIsKept, IgnoreIsKept DEF sendRequestVote

\* A heartbeat has nothing to write.
LEMMA HeartBeatIsKept ==
    ASSUME LogInv, NEW s \in Server, NEW k \in Rounds, doHeartBeat(s, k)
    PROVE  Kept
BY IdleIsKept DEF doHeartBeat, termVars

\* The three answers of AppendEntries1 that follow the sender share one write.
LEMMA AppendIsKept ==
    ASSUME LogInv, NEW c \in appendCalls, AppendEntries1(c)
    PROVE  Kept
<1> DEFINE s == c.to
<1>1. s \in Server
  BY DEF LogInv, TypeOK, AppendTypes, AppendCallType
<1>2. CASE AppendExpired(s, c)
  BY <1>2, IgnoreIsKept DEF AppendExpired
<1>3. CASE AppendBehindSnapshot(s, c)
  BY <1>1, <1>3, ExitIsKept DEF AppendBehindSnapshot
<1>4. CASE /\ AppendTooShort(s, c) \/ AppendMismatch(s, c)
           /\ UNCHANGED exited /\ persist(s)
  <2>1. Follow(s, c.term) /\ UNCHANGED logVars
    BY <1>4 DEF AppendTooShort, AppendMismatch
  <2> QED
    BY <1>1, <1>4, <2>1, FollowIsWrite
<1>5. CASE AppendMatch(s, c) /\ UNCHANGED exited /\ persist(s)
  <2>1. /\ Follow(s, c.term)
        /\ UNCHANGED <<m_lastSnapshotIncludeIndex, m_lastSnapshotIncludeTerm>>
    BY <1>5 DEF AppendMatch
  <2>2. \A p \in Server : p # s => m_logs'[p] = m_logs[p]
    BY <1>1, <1>5 DEF AppendMatch, LogInv, TypeOK, LogTypes
  <2>3. \A p \in Server : p # s => /\ m_currentTerm'[p] = m_currentTerm[p]
                                   /\ m_votedFor'[p] = m_votedFor[p]
    BY <1>1, <2>1 DEF Follow, LogInv, TypeOK, TermTypes
  <2>4. Writes(s)
    BY <1>5, <2>1, <2>2, <2>3 DEF Writes, StateOf
  <2> QED
    BY <1>1, <2>4 DEF Kept
<1> QED
  BY <1>2, <1>3, <1>4, <1>5 DEF AppendEntries1

\* Counting a success changes nothing that is on file.
LEMMA AppendAnswerIsKept ==
    ASSUME LogInv, NEW r \in appendReplies, sendAppendEntries(r)
    PROVE  Kept
<1>1. r.from \in Server
  BY DEF LogInv, TypeOK, AppendTypes, AppendReplyType
<1>2. CASE UNCHANGED <<termVars, logVars, disk, exited>>
  BY <1>2, IdleIsKept DEF termVars
<1> QED
  BY <1>1, <1>2, StepDownIsKept, IgnoreIsKept DEF sendAppendEntries

\* Compacting the log is a write of the log and of the snapshot together.
LEMMA CompactionIsKept ==
    ASSUME LogInv, NEW s \in Server, NEW i \in 1..m_lastApplied[s], Snapshot(s, i)
    PROVE  Kept
<1>1. Writes(s)
  BY DEF Writes, StateOf, Snapshot, termVars, LogInv, TypeOK, LogTypes
<1> QED
  BY <1>1 DEF Kept

\* An outdated snapshot is not written for; the term is, when it is new.
LEMMA OutdatedIsKept ==
    ASSUME LogInv, NEW c \in snapCalls, SnapshotOutdated(c.to, c)
    PROVE  Kept
<1> DEFINE s == c.to
<1>1. s \in Server /\ c.term \in Nat
  BY DEF LogInv, TypeOK, SnapTypes, SnapCallType
<1>2. Follow(s, c.term) /\ UNCHANGED <<logVars, exited>>
  BY DEF SnapshotOutdated
<1>3. CASE c.term > m_currentTerm[s]
  BY <1>1, <1>2, <1>3, FollowIsWrite DEF SnapshotOutdated
<1>4. CASE ~(c.term > m_currentTerm[s])
  <2>1. c.term = m_currentTerm[s] /\ UNCHANGED disk
    BY <1>1, <1>4 DEF SnapshotOutdated, LogInv, TypeOK, TermTypes
  <2>2. UNCHANGED <<m_currentTerm, m_votedFor>>
    BY <1>1, <1>2, <1>4, <2>1 DEF Follow, VoteIn, LogInv, TypeOK, TermTypes
  <2> QED
    BY <1>2, <2>1, <2>2, IdleIsKept
<1> QED
  BY <1>3, <1>4

\* An installed snapshot is written with the log it leaves.
LEMMA InstallIsKept ==
    ASSUME LogInv, NEW c \in snapCalls, InstallSnapshot(c)
    PROVE  Kept
<1> DEFINE s == c.to
<1>1. s \in Server
  BY DEF LogInv, TypeOK, SnapTypes, SnapCallType
<1>2. CASE SnapshotInstalled(s, c)
  <2>1. \A p \in Server : p # s =>
          /\ m_logs'[p] = m_logs[p]
          /\ m_lastSnapshotIncludeIndex'[p] = m_lastSnapshotIncludeIndex[p]
          /\ m_lastSnapshotIncludeTerm'[p] = m_lastSnapshotIncludeTerm[p]
    BY <1>1, <1>2 DEF SnapshotInstalled, LogInv, TypeOK, LogTypes
  <2>2. \A p \in Server : p # s => /\ m_currentTerm'[p] = m_currentTerm[p]
                                   /\ m_votedFor'[p] = m_votedFor[p]
    BY <1>1, <1>2 DEF SnapshotInstalled, Follow, LogInv, TypeOK, TermTypes
  <2>3. Writes(s)
    BY <1>2, <2>1, <2>2 DEF SnapshotInstalled, Writes, StateOf
  <2> QED
    BY <1>1, <2>3 DEF Kept
<1> QED
  BY <1>2, OutdatedIsKept, IgnoreIsKept DEF InstallSnapshot, SnapshotExpired

\* An answered snapshot changes nothing that is on file.
LEMMA SnapshotAnswerIsKept ==
    ASSUME LogInv, NEW r \in snapReplies, SnapshotAnswered(r)
    PROVE  Kept
<1>1. r.from \in Server
  BY DEF LogInv, TypeOK, SnapTypes, SnapReplyType
<1>2. CASE UNCHANGED <<termVars, logVars, disk, exited>>
  BY <1>2, IdleIsKept DEF termVars
<1> QED
  BY <1>1, <1>2, StepDownIsKept, IgnoreIsKept DEF SnapshotAnswered

\* Start writes the new entry before it returns its index.
LEMMA StartIsKept ==
    ASSUME LogInv, NEW s \in Server, NEW cmd \in Cmds, Start(s, cmd)
    PROVE  Kept
<1>1. Writes(s)
  BY DEF Writes, StateOf, Start, termVars, LogInv, TypeOK, LogTypes
<1> QED
  BY <1>1 DEF Kept

\* lastApplied is not on file.
LEMMA ApplyIsKept ==
    ASSUME NEW s \in Server, getApplyLogs(s)
    PROVE  Kept
BY IdleIsKept DEF getApplyLogs, termVars

\* Every step writes what it changes.
LEMMA NextIsKept == LogInv /\ [Next]_vars => Kept
<1> SUFFICES ASSUME LogInv, [Next]_vars PROVE Kept
  OBVIOUS
<1>1. CASE \E s \in Server : \/ doElection(s) \/ getApplyLogs(s) \/ Crash(s)
                             \/ \E k \in Rounds : doHeartBeat(s, k)
                             \/ \E i \in 1..m_lastApplied[s] : Snapshot(s, i)
                             \/ \E cmd \in Cmds : Start(s, cmd)
  BY <1>1, ElectionIsKept, ApplyIsKept, ExitIsKept, HeartBeatIsKept,
     CompactionIsKept, StartIsKept DEF Crash
<1>2. CASE \/ \E c \in voteCalls : RequestVote(c)
           \/ \E r \in voteReplies : sendRequestVote(r)
  BY <1>2, VoteIsKept, VoteAnswerIsKept
<1>3. CASE \/ \E c \in appendCalls : AppendEntries1(c)
           \/ \E r \in appendReplies : sendAppendEntries(r)
  BY <1>3, AppendIsKept, AppendAnswerIsKept
<1>4. CASE \/ \E t \in snapThreads : leaderSendSnapShot(t)
           \/ \E c \in snapCalls : InstallSnapshot(c) \/ SnapshotPeerClosed(c)
           \/ \E r \in snapReplies : SnapshotAnswered(r)
  BY <1>4, InstallIsKept, SnapshotAnswerIsKept, IgnoreIsKept
     DEF leaderSendSnapShot, SnapshotPeerClosed
<1>5. CASE UNCHANGED vars
  BY <1>5, IdleIsKept DEF vars, termVars
<1> QED
  BY <1>1, <1>2, <1>3, <1>4, <1>5 DEF Next

\* Whenever the mutex is free, the file of a running process holds its term,
\* its vote, its log and where its snapshot ends: the answer that a handler
\* returns is never about state that a restart would not find again.
THEOREM PersistedBeforeAnswer == Spec => []DiskCurrent
<1>1. Init => DiskCurrent
  BY DEF Init, DiskCurrent
<1>2. DiskCurrent /\ LogInv /\ [Next]_vars => DiskCurrent'
  <2> SUFFICES ASSUME DiskCurrent, LogInv, [Next]_vars,
                      NEW p \in Server, Alive(p)'
               PROVE  disk'[p] = StateOf(p)'
    BY DEF DiskCurrent, StateOf
  <2>1. Alive(p) => disk[p] = StateOf(p)
    BY DEF DiskCurrent, StateOf
  <2>2. CASE NeedsNoWrite
    BY <2>1, <2>2 DEF NeedsNoWrite
  <2>3. ASSUME NEW s \in Server, Writes(s)
        PROVE  disk'[p] = StateOf(p)'
    <3>1. DOMAIN disk = Server
      BY DEF LogInv, TypeOK, DiskTypes
    <3>2. CASE p = s
      BY <2>3, <3>1, <3>2 DEF Writes, persist, StateOf
    <3>3. CASE p # s
      <4>1. disk'[p] = disk[p] /\ StateOf(p)' = StateOf(p) /\ Alive(p)
        BY <2>3, <3>1, <3>3 DEF Writes, persist, Alive
      <4> QED
        BY <2>1, <4>1
    <3> QED
      BY <3>2, <3>3
  <2> QED
    BY <2>2, <2>3, NextIsKept DEF Kept
<1> QED
  BY <1>1, <1>2, LogInvariant, PTL DEF Spec

-----------------------------------------------------------------------------
(* The log of a leader *)

SameLog(s) ==
    /\ m_logs'[s] = m_logs[s]
    /\ m_lastSnapshotIncludeIndex'[s] = m_lastSnapshotIncludeIndex[s]

\* The ways a step may treat the log of s.
LogStep(s) ==
    \/ SameLog(s)
    \/ m_status'[s] # "Leader"
    \/ \E cmd \in Cmds : Start(s, cmd)
    \/ \E i \in 1..m_lastApplied[s] : Snapshot(s, i)

\* Most steps touch no log.
LEMMA NoLogStep ==
    ASSUME UNCHANGED logVars, NEW s \in Server
    PROVE  LogStep(s)
BY DEF LogStep, SameLog, logVars

\* Whoever lets a sender's entries into its log follows that sender.
LEMMA AppendLogStep ==
    ASSUME LogInv, NEW c \in appendCalls, AppendEntries1(c), NEW s \in Server
    PROVE  LogStep(s)
<1>1. CASE UNCHANGED logVars
  BY <1>1, NoLogStep
<1>2. CASE AppendMatch(c.to, c) /\ s = c.to
  <2>1. m_status'[s] = "Follower"
    BY <1>2 DEF AppendMatch, Follow, LogInv, TypeOK, TermTypes
  <2> QED
    BY <2>1 DEF LogStep
<1>3. CASE AppendMatch(c.to, c) /\ s # c.to
  BY <1>3 DEF AppendMatch, LogStep, SameLog, LogInv, TypeOK, LogTypes
<1> QED
  BY <1>1, <1>2, <1>3 DEF AppendEntries1, AppendExpired, AppendTooShort, AppendMismatch,
                          AppendBehindSnapshot, Ignore, Exit

\* So does whoever installs a snapshot.
LEMMA InstallLogStep ==
    ASSUME LogInv, NEW c \in snapCalls, InstallSnapshot(c), NEW s \in Server
    PROVE  LogStep(s)
<1>1. CASE UNCHANGED logVars
  BY <1>1, NoLogStep
<1>2. CASE SnapshotInstalled(c.to, c) /\ s = c.to
  <2>1. m_status'[s] = "Follower"
    BY <1>2 DEF SnapshotInstalled, Follow, LogInv, TypeOK, TermTypes
  <2> QED
    BY <2>1 DEF LogStep
<1>3. CASE SnapshotInstalled(c.to, c) /\ s # c.to
  BY <1>3 DEF SnapshotInstalled, LogStep, SameLog, LogInv, TypeOK, LogTypes
<1> QED
  BY <1>1, <1>2, <1>3 DEF InstallSnapshot, SnapshotExpired, SnapshotOutdated, Ignore

\* Start and Snapshot at another server leave the log alone.
LEMMA OwnLogStep ==
    ASSUME LogInv, NEW p \in Server, NEW s \in Server,
           \/ \E cmd \in Cmds : Start(p, cmd)
           \/ \E i \in 1..m_lastApplied[p] : Snapshot(p, i)
    PROVE  LogStep(s)
<1>1. CASE s = p
  BY <1>1 DEF LogStep
<1>2. CASE s # p
  BY <1>2 DEF Start, Snapshot, LogStep, SameLog, LogInv, TypeOK, LogTypes
<1> QED
  BY <1>1, <1>2

\* So the log of a server that still leads was touched by itself only.
LEMMA NextLogStep ==
    ASSUME LogInv, [Next]_vars, NEW s \in Server
    PROVE  LogStep(s)
<1>1. CASE \/ \E p \in Server, cmd \in Cmds : Start(p, cmd)
           \/ \E p \in Server : \E i \in 1..m_lastApplied[p] : Snapshot(p, i)
  BY <1>1, OwnLogStep
<1>2. CASE \/ \E c \in appendCalls : AppendEntries1(c)
           \/ \E c \in snapCalls : InstallSnapshot(c)
  BY <1>2, AppendLogStep, InstallLogStep
<1>3. CASE \/ \E p \in Server : \/ doElection(p) \/ getApplyLogs(p) \/ Crash(p)
                                \/ \E k \in Rounds : doHeartBeat(p, k)
           \/ \E c \in voteCalls : RequestVote(c)
           \/ \E t \in snapThreads : leaderSendSnapShot(t)
           \/ \E c \in snapCalls : SnapshotPeerClosed(c)
  BY <1>3, NoLogStep DEF doElection, getApplyLogs, Crash, Exit, doHeartBeat, RequestVote,
                         leaderSendSnapShot, SnapshotPeerClosed, Ignore
<1>4. CASE \/ \E r \in voteReplies : sendRequestVote(r)
           \/ \E r \in appendReplies : sendAppendEntries(r)
           \/ \E r \in snapReplies : SnapshotAnswered(r)
  BY <1>4, NoLogStep DEF sendRequestVote, sendAppendEntries, SnapshotAnswered, StepDown,
                         CountVote, BecomeLeader, Ignore
<1>5. CASE UNCHANGED vars
  BY <1>5, NoLogStep DEF vars
<1> QED
  BY <1>1, <1>2, <1>3, <1>4, <1>5 DEF Next

\* An entry appended behind a log changes nothing in it.
LEMMA StartKeepsEntries ==
    ASSUME LogInv, NEW s \in Server, NEW cmd \in Cmds, Start(s, cmd),
           NEW i \in Nat, m_lastSnapshotIncludeIndex[s] < i, i <= End(s)
    PROVE  EntryAt(s, i)' = EntryAt(s, i)
<1> DEFINE log  == m_logs[s]
           base == m_lastSnapshotIncludeIndex[s]
<1>1. log \in Seq(Entries) /\ base \in Nat
  BY DEF LogInv, TypeOK, LogTypes
<1>2. m_logs'[s] = Append(log, NewEntry(s, cmd)) /\ m_lastSnapshotIncludeIndex'[s] = base
  BY DEF Start, LogInv, TypeOK, LogTypes
<1>3. EntryAt(s, i) = log[i - base] /\ EntryAt(s, i)' = m_logs'[s][i - base]
  BY <1>2 DEF EntryAt, SliceIndex
<1>4. i <= base + Len(log)
  BY DEF End
<1> HIDE DEF log, base
<1>5. i - base \in 1..Len(log)
  BY <1>1, <1>4 DEF base
<1> QED
  BY <1>1, <1>2, <1>3, <1>5

\* What compaction keeps stays under its index.
LEMMA SnapshotKeepsEntries ==
    ASSUME LogInv, NEW s \in Server, NEW k \in 1..m_lastApplied[s], Snapshot(s, k),
           NEW i \in Nat, k < i, i <= End(s)
    PROVE  EntryAt(s, i)' = EntryAt(s, i)
<1> DEFINE log  == m_logs[s]
           base == m_lastSnapshotIncludeIndex[s]
           m    == k - base + 1
<1>1. /\ log \in Seq(Entries) /\ base \in Nat /\ k \in Nat /\ base < k
      /\ i <= base + Len(log)
  BY DEF LogInv, TypeOK, LogTypes, IndexTypes, Snapshot, End
<1>2. m_logs'[s] = SubSeq(log, m, Len(log)) /\ m_lastSnapshotIncludeIndex'[s] = k
  BY DEF Snapshot, KeptAfter, SliceIndex, LogInv, TypeOK, LogTypes
<1>3. EntryAt(s, i) = log[i - base] /\ EntryAt(s, i)' = m_logs'[s][i - k]
  BY <1>2 DEF EntryAt, SliceIndex
<1> HIDE DEF log, base
<1>4. m \in 1..(Len(log) + 1) /\ i - k \in 1..(Len(log) - m + 1) /\ m + (i - k) - 1 = i - base
  BY <1>1
<1> HIDE DEF m
<1>5. SubSeq(log, m, Len(log))[i - k] = log[m + (i - k) - 1]
  BY <1>1, <1>4, TailOfSeq
<1> QED
  BY <1>2, <1>3, <1>4, <1>5

\* While a server stays the leader of its term it changes and loses no entry: the
\* only steps that touch its log are its own Start and its own compaction, since
\* whoever takes entries or a snapshot from a sender becomes its follower.
THEOREM LeadersOnlyAppend == Spec => LeaderAppendOnly
<1>1. LogInv /\ LogInv' /\ [Next]_vars
      => [\A s \in Server :
            /\ m_status[s] = "Leader" /\ m_status'[s] = "Leader"
            /\ m_currentTerm'[s] = m_currentTerm[s]
            => /\ LastLogIndex(s)' >= LastLogIndex(s)
               /\ \A i \in Retained(s) \cap Retained(s)' :
                       EntryAt(s, i)' = EntryAt(s, i)]_vars
  <2> SUFFICES ASSUME LogInv, LogInv', [Next]_vars, NEW s \in Server,
                      m_status'[s] = "Leader"
               PROVE  /\ LastLogIndex(s)' >= LastLogIndex(s)
                      /\ \A i \in Retained(s) \cap Retained(s)' :
                              EntryAt(s, i)' = EntryAt(s, i)
    OBVIOUS
  <2>1. LastLogIndex(s) = End(s) /\ LastLogIndex(s)' = End(s)'
    BY LastIsEnd, LastIsEndNext DEF LogInv, TypeOK
  <2>2. LastLogIndex(s)' >= LastLogIndex(s)
    BY <2>1, NextAdvances DEF Advance, EndsGrow
  <2>3. ASSUME NEW i \in Retained(s) \cap Retained(s)'
        PROVE  EntryAt(s, i)' = EntryAt(s, i)
    <3>1. /\ m_lastSnapshotIncludeIndex[s] \in Nat
          /\ m_lastSnapshotIncludeIndex'[s] \in Nat /\ End(s) \in Nat
      BY EndIsNat DEF LogInv, TypeOK, LogTypes
    <3>2. i \in Nat /\ m_lastSnapshotIncludeIndex[s] < i /\ i <= End(s)
      BY <2>1, <2>3, <3>1 DEF Retained
    <3>3. m_lastSnapshotIncludeIndex'[s] < i
      BY <2>3, <3>1, <3>2 DEF Retained
    <3>4. CASE SameLog(s)
      BY <3>4 DEF SameLog, EntryAt, SliceIndex
    <3>5. CASE \E cmd \in Cmds : Start(s, cmd)
      BY <3>2, <3>5, StartKeepsEntries
    <3>6. ASSUME NEW k \in 1..m_lastApplied[s], Snapshot(s, k)
          PROVE  EntryAt(s, i)' = EntryAt(s, i)
      <4>1. m_lastSnapshotIncludeIndex'[s] = k
        BY <3>6 DEF Snapshot, LogInv, TypeOK, LogTypes
      <4> QED
        BY <3>2, <3>3, <3>6, <4>1, SnapshotKeepsEntries
    <3> QED
      BY <3>4, <3>5, <3>6, NextLogStep DEF LogStep
  <2> QED
    BY <2>2, <2>3
<1> QED
  BY <1>1, LogInvariant, PTL DEF Spec, LeaderAppendOnly

-----------------------------------------------------------------------------
(* Entries: an index and a term name one command *)

\* An entry was made by the winner of its term, whose log still reaches as far.
EntriesOwned ==
    \A e \in AllEntries :
        \E l \in leaders : l.term = e.term /\ e.index <= End(l.leader)

EntryInv == EntryIdentity /\ EntriesOwned

-----------------------------------------------------------------------------
(* Steps that make no entry *)

NoNewEntry == AllEntries' \subseteq AllEntries

\* A log and a request consist of entries that exist.
LEMMA LogIsOfEntries ==
    ASSUME NEW s \in Server, NEW k \in 1..Len(m_logs[s])
    PROVE  m_logs[s][k] \in AllEntries
<1> DEFINE Of(p) == {m_logs[p][j] : j \in 1..Len(m_logs[p])}
<1>1. m_logs[s][k] \in Of(s)
  OBVIOUS
<1>2. Of(s) \in {Of(p) : p \in Server}
  OBVIOUS
<1>3. m_logs[s][k] \in UNION {Of(p) : p \in Server}
  BY <1>1, <1>2
<1> QED
  BY <1>3 DEF AllEntries

\* The same of a request.
LEMMA CallIsOfEntries ==
    ASSUME NEW c \in appendCalls, NEW k \in 1..Len(c.entries)
    PROVE  c.entries[k] \in AllEntries
<1> DEFINE Of(d) == {d.entries[j] : j \in 1..Len(d.entries)}
<1>1. c.entries[k] \in Of(c)
  OBVIOUS
<1>2. Of(c) \in {Of(d) : d \in appendCalls}
  OBVIOUS
<1>3. c.entries[k] \in UNION {Of(d) : d \in appendCalls}
  BY <1>1, <1>2
<1> QED
  BY <1>3 DEF AllEntries

\* Entries are of their type.
LEMMA EntriesAreTyped ==
    ASSUME LogInv, NEW e \in AllEntries
    PROVE  e \in Entries /\ e.index \in Nat
<1>1. CASE \E s \in Server : \E k \in 1..Len(m_logs[s]) : e = m_logs[s][k]
  <2>1. \A s \in Server : m_logs[s] \in Seq(Entries)
    BY DEF LogInv, TypeOK, LogTypes
  <2>2. e \in Entries
    BY <1>1, <2>1
  <2> QED
    BY <2>2 DEF Entries
<1>2. CASE \E c \in appendCalls : \E k \in 1..Len(c.entries) : e = c.entries[k]
  <2>1. \A c \in appendCalls : c.entries \in Seq(Entries)
    BY DEF LogInv, TypeOK, AppendTypes, AppendCallType
  <2>2. e \in Entries
    BY <1>2, <2>1
  <2> QED
    BY <2>2 DEF Entries
<1> QED
  BY <1>1, <1>2 DEF AllEntries

\* It is enough to look at the logs and the requests after the step.
LEMMA EntriesFrom ==
    ASSUME NEW S,
           \A s \in Server : \A k \in 1..Len(m_logs'[s]) : m_logs'[s][k] \in S,
           \A c \in appendCalls' : \A k \in 1..Len(c.entries) : c.entries[k] \in S
    PROVE  AllEntries' \subseteq S
BY DEF AllEntries

\* Requests are dropped or answered, logs are as they were.
LEMMA SameEntries ==
    ASSUME UNCHANGED m_logs, appendCalls' \subseteq appendCalls
    PROVE  NoNewEntry
BY EntriesFrom, LogIsOfEntries, CallIsOfEntries DEF NoNewEntry

\* One log is replaced by another of the same entries.
LEMMA LogExchanged ==
    ASSUME LogInv, NEW s \in Server, m_logs' = [m_logs EXCEPT ![s] = m_logs'[s]],
           \A k \in 1..Len(m_logs'[s]) : m_logs'[s][k] \in AllEntries,
           appendCalls' \subseteq appendCalls
    PROVE  NoNewEntry
<1>1. \A p \in Server : p # s => m_logs'[p] = m_logs[p]
  BY DEF LogInv, TypeOK, LogTypes
<1>2. \A p \in Server : \A k \in 1..Len(m_logs[p]) : m_logs[p][k] \in AllEntries
  BY LogIsOfEntries
<1>3. \A p \in Server : \A k \in 1..Len(m_logs'[p]) : m_logs'[p][k] \in AllEntries
  <2> TAKE p \in Server
  <2> QED
    BY <1>1, <1>2
<1>4. \A c \in appendCalls' : \A k \in 1..Len(c.entries) : c.entries[k] \in AllEntries
  BY CallIsOfEntries
<1> QED
  BY <1>3, <1>4, EntriesFrom DEF NoNewEntry

\* The part of a log that a request carries, or that compaction keeps.
LEMMA KeptEntries ==
    ASSUME LogInv, NEW s \in Server,
           NEW i \in m_lastSnapshotIncludeIndex[s]..End(s)
    PROVE  \A k \in 1..Len(KeptAfter(s, i)) : KeptAfter(s, i)[k] \in AllEntries
<1> DEFINE log  == m_logs[s]
           base == m_lastSnapshotIncludeIndex[s]
           m    == i - base + 1
<1>1. log \in Seq(Entries) /\ base \in Nat /\ i \in base..(base + Len(log))
  BY DEF LogInv, TypeOK, LogTypes, End
<1>2. KeptAfter(s, i) = SubSeq(log, m, Len(log))
  BY DEF KeptAfter, SliceIndex
<1>3. \A k \in 1..Len(log) : log[k] \in AllEntries
  BY LogIsOfEntries
<1> HIDE DEF log, base
<1>4. m \in 1..(Len(log) + 1)
  BY <1>1
<1> HIDE DEF m
<1>5. /\ Len(SubSeq(log, m, Len(log))) = Len(log) - m + 1
      /\ \A k \in 1..(Len(log) - m + 1) : SubSeq(log, m, Len(log))[k] = log[m + k - 1]
  BY <1>1, <1>4, TailOfSeq
<1>6. Len(log) \in Nat
  BY <1>1
<1>7. ASSUME NEW k \in 1..(Len(log) - m + 1)
      PROVE  SubSeq(log, m, Len(log))[k] \in AllEntries
  <2>1. m + k - 1 \in 1..Len(log)
    BY <1>4, <1>6
  <2> QED
    BY <1>3, <1>5, <2>1
<1> QED
  BY <1>2, <1>5, <1>7

\* A merged log is made of the old one and of the request.
LEMMA MergedEntries ==
    ASSUME NEW S, NEW old, NEW es, Len(old) \in Nat, Len(es) \in Nat,
           NEW at \in 0..Len(old),
           \A k \in 1..Len(old) : old[k] \in S,
           \A k \in 1..Len(es) : es[k] \in S,
           NEW p \in 1..(IF at + Len(es) > Len(old) THEN at + Len(es) ELSE Len(old))
    PROVE  Merged(old, at, es)[p] \in S
<1>1. CASE /\ p \in (at + 1)..(at + Len(es))
           /\ p > Len(old) \/ old[p].term # es[p - at].term
  <2>1. Merged(old, at, es)[p] = es[p - at] /\ p - at \in 1..Len(es)
    BY <1>1 DEF Merged
  <2> QED
    BY <2>1
<1>2. CASE ~(/\ p \in (at + 1)..(at + Len(es))
             /\ p > Len(old) \/ old[p].term # es[p - at].term)
  <2>1. Merged(old, at, es)[p] = old[p] /\ p \in 1..Len(old)
    BY <1>2 DEF Merged
  <2> QED
    BY <2>1
<1> QED
  BY <1>1, <1>2

\* doHeartBeat sends parts of the leader's log.
LEMMA HeartBeatEntries ==
    ASSUME LogInv, NEW s \in Server, NEW k \in Rounds, doHeartBeat(s, k)
    PROVE  NoNewEntry
<1>1. UNCHANGED m_logs
  BY DEF doHeartBeat, logVars
<1>2. ASSUME NEW c \in appendCalls'
      PROVE  \/ c \in appendCalls
             \/ \E p \in Server : /\ m_nextIndex[s][p] > m_lastSnapshotIncludeIndex[s]
                                  /\ c = AppendArgs(s, p, k)
  BY <1>2 DEF doHeartBeat, Without, LogInv, TypeOK, LogTypes, IndexTypes
<1>3. ASSUME NEW p \in Server, m_nextIndex[s][p] > m_lastSnapshotIncludeIndex[s],
             NEW i \in 1..Len(AppendArgs(s, p, k).entries)
      PROVE  AppendArgs(s, p, k).entries[i] \in AllEntries
  <2> DEFINE prev == m_nextIndex[s][p] - 1
  <2>1. /\ m_nextIndex[s][p] \in Nat /\ m_lastSnapshotIncludeIndex[s] \in Nat
        /\ End(s) \in Nat
    BY EndIsNat DEF LogInv, TypeOK, IndexTypes, LogTypes
  <2>2. prev \in m_lastSnapshotIncludeIndex[s]..End(s)
    BY <1>3, <2>1 DEF LogInv, PeersInLog
  <2>3. AppendArgs(s, p, k).entries = KeptAfter(s, prev)
    BY DEF AppendArgs, KeptAfter
  <2> QED
    BY <1>3, <2>2, <2>3, KeptEntries
<1>4. \A c \in appendCalls' : \A i \in 1..Len(c.entries) : c.entries[i] \in AllEntries
  BY <1>2, <1>3, CallIsOfEntries
<1>5. \A p \in Server : \A i \in 1..Len(m_logs'[p]) : m_logs'[p][i] \in AllEntries
  BY <1>1, LogIsOfEntries
<1> QED
  BY <1>4, <1>5, EntriesFrom DEF NoNewEntry

\* AppendEntries1 merges what a request carries.
LEMMA AppendKeepsEntries ==
    ASSUME LogInv, NEW c \in appendCalls, AppendEntries1(c)
    PROVE  NoNewEntry
<1> DEFINE s    == c.to
           base == m_lastSnapshotIncludeIndex[s]
           at   == c.prevLogIndex - base
           new  == Merged(m_logs[s], at, c.entries)
<1>1. appendCalls' \subseteq appendCalls
  BY DEF AppendEntries1, AppendExpired, AppendTooShort, AppendMismatch, AppendMatch,
         AnswerAppend
<1>2. CASE UNCHANGED m_logs
  BY <1>1, <1>2, SameEntries
<1>3. CASE AppendMatch(s, c)
  <2>1. /\ s \in Server /\ c.entries \in Seq(Entries) /\ c.prevLogIndex \in Nat
        /\ m_logs[s] \in Seq(Entries) /\ base \in Nat
    BY DEF LogInv, TypeOK, AppendTypes, AppendCallType, LogTypes
  <2>2. m_logs' = [m_logs EXCEPT ![s] = new] /\ m_logs'[s] = new
    BY <1>3, <2>1 DEF AppendMatch, SliceIndex, LogInv, TypeOK, LogTypes
  <2>3. at \in 0..Len(m_logs[s])
    <3>1. c.prevLogIndex \in base..(base + Len(m_logs[s]))
      BY <1>3, <2>1, LastIsEnd DEF AppendMatch, LogInv, TypeOK, End
    <3> QED
      BY <2>1, <3>1
  <2>4. /\ \A k \in 1..Len(m_logs[s]) : m_logs[s][k] \in AllEntries
        /\ \A k \in 1..Len(c.entries) : c.entries[k] \in AllEntries
        /\ Len(m_logs[s]) \in Nat /\ Len(c.entries) \in Nat
    BY <2>1, LogIsOfEntries, CallIsOfEntries
  <2> DEFINE n == IF at + Len(c.entries) > Len(m_logs[s]) THEN at + Len(c.entries)
                                                         ELSE Len(m_logs[s])
  <2>5. DOMAIN new = 1..n
    BY DEF Merged
  <2>6. \A p \in 1..n : new[p] \in AllEntries
    <3> HIDE DEF at
    <3> QED
      BY <2>3, <2>4, MergedEntries
  <2>7. n \in Nat
    BY <2>3, <2>4
  <2>8. new \in Seq(Entries)
    <3>1. m_logs'[s] \in Seq(Entries)
      <4>1. LogTypes'
        BY <1>3, <2>1, AppendMatchInLog DEF LogInv, TypeOK, AppendTypes, AppendCallType
      <4> QED
        BY <2>1, <4>1 DEF LogTypes
    <3> QED
      BY <2>2, <3>1
  <2>9. Len(new) = n
    <3> HIDE DEF new, n
    <3> QED
      BY <2>5, <2>7, <2>8
  <2>10. \A k \in 1..Len(m_logs'[s]) : m_logs'[s][k] \in AllEntries
    BY <2>2, <2>6, <2>9
  <2>11. m_logs' = [m_logs EXCEPT ![s] = m_logs'[s]]
    BY <2>2
  <2> QED
    BY <1>1, <2>1, <2>10, <2>11, LogExchanged
<1> QED
  BY <1>2, <1>3 DEF AppendEntries1, AppendExpired, AppendTooShort, AppendMismatch,
                    AppendBehindSnapshot, Ignore, Exit, logVars

\* Compaction keeps a part of the log.
LEMMA CompactionKeepsEntries ==
    ASSUME LogInv, NEW s \in Server, NEW i \in 1..m_lastApplied[s], Snapshot(s, i)
    PROVE  NoNewEntry
<1>1. /\ m_logs' = [m_logs EXCEPT ![s] = KeptAfter(s, i)]
      /\ m_logs'[s] = KeptAfter(s, i) /\ UNCHANGED appendCalls
  BY DEF Snapshot, appendNet, LogInv, TypeOK, LogTypes
<1>2. i \in m_lastSnapshotIncludeIndex[s]..End(s)
  <2>1. /\ m_lastApplied[s] \in Nat /\ m_commitIndex[s] \in Nat
        /\ m_lastSnapshotIncludeIndex[s] \in Nat /\ End(s) \in Nat
        /\ m_commitIndex[s] <= End(s)
    BY EndIsNat DEF LogInv, TypeOK, IndexTypes, LogTypes, PositionsInOrder
  <2> QED
    BY <2>1 DEF Snapshot
<1> QED
  BY <1>1, <1>2, KeptEntries, LogExchanged

\* An installed snapshot leaves what follows it, or nothing.
LEMMA InstallKeepsEntries ==
    ASSUME LogInv, NEW c \in snapCalls, InstallSnapshot(c)
    PROVE  NoNewEntry
<1> DEFINE s == c.to
<1>1. UNCHANGED appendCalls
  BY DEF InstallSnapshot, appendNet
<1>2. CASE UNCHANGED m_logs
  BY <1>1, <1>2, SameEntries
<1>3. CASE SnapshotInstalled(s, c)
  <2>1. s \in Server /\ c.index \in Nat
    BY DEF LogInv, TypeOK, SnapTypes, SnapCallType
  <2>2. /\ m_logs' = [m_logs EXCEPT ![s] = LogAfter(s, c.index)]
        /\ m_logs'[s] = LogAfter(s, c.index)
    BY <1>3, <2>1 DEF SnapshotInstalled, LogInv, TypeOK, LogTypes
  <2>3. CASE LastLogIndex(s) > c.index
    <3>1. c.index \in m_lastSnapshotIncludeIndex[s]..End(s)
      <4>1. /\ m_lastSnapshotIncludeIndex[s] \in Nat /\ End(s) \in Nat
            /\ LastLogIndex(s) = End(s)
        BY <2>1, EndIsNat, LastIsEnd DEF LogInv, TypeOK, LogTypes
      <4> QED
        BY <1>3, <2>1, <2>3, <4>1 DEF SnapshotInstalled
    <3>2. m_logs'[s] = KeptAfter(s, c.index)
      BY <2>2, <2>3 DEF LogAfter
    <3> QED
      BY <1>1, <2>1, <2>2, <3>1, <3>2, KeptEntries, LogExchanged
  <2>4. CASE ~(LastLogIndex(s) > c.index)
    <3>1. m_logs'[s] = <<>>
      BY <2>2, <2>4 DEF LogAfter
    <3>2. \A k \in 1..Len(m_logs'[s]) : m_logs'[s][k] \in AllEntries
      BY <3>1
    <3> QED
      BY <1>1, <2>1, <2>2, <3>2, LogExchanged
  <2> QED
    BY <2>3, <2>4
<1> QED
  BY <1>2, <1>3 DEF InstallSnapshot, SnapshotExpired, SnapshotOutdated, Ignore, logVars

\* Every step but Start makes no entry.
LEMMA NextMakesNoEntry ==
    ASSUME LogInv, [Next]_vars
    PROVE  NoNewEntry \/ \E s \in Server, cmd \in Cmds : Start(s, cmd)
<1>1. CASE \/ \E s \in Server, k \in Rounds : doHeartBeat(s, k)
           \/ \E c \in appendCalls : AppendEntries1(c)
           \/ \E s \in Server : \E i \in 1..m_lastApplied[s] : Snapshot(s, i)
           \/ \E c \in snapCalls : InstallSnapshot(c)
  BY <1>1, HeartBeatEntries, AppendKeepsEntries, CompactionKeepsEntries,
     InstallKeepsEntries
<1>2. CASE \/ \E s \in Server : doElection(s) \/ getApplyLogs(s) \/ Crash(s)
           \/ \E c \in voteCalls : RequestVote(c)
           \/ \E t \in snapThreads : leaderSendSnapShot(t)
           \/ \E c \in snapCalls : SnapshotPeerClosed(c)
  BY <1>2, SameEntries DEF doElection, getApplyLogs, Crash, Exit, RequestVote, Ignore,
                           leaderSendSnapShot, SnapshotPeerClosed, appendNet, logVars
<1>3. CASE \/ \E r \in voteReplies : sendRequestVote(r)
           \/ \E r \in appendReplies : sendAppendEntries(r)
           \/ \E r \in snapReplies : SnapshotAnswered(r)
  BY <1>3, SameEntries DEF sendRequestVote, sendAppendEntries, SnapshotAnswered, StepDown,
                           CountVote, BecomeLeader, Ignore, appendNet, logVars
<1>4. CASE UNCHANGED vars
  BY <1>4, SameEntries DEF vars, appendNet, logVars
<1> QED
  BY <1>1, <1>2, <1>3, <1>4 DEF Next

\* No step forgets a winner.
LEMMA WinnersStay ==
    ASSUME [Next]_vars
    PROVE  leaders \subseteq leaders'
<1>1. CASE \/ \E s \in Server : \/ doElection(s) \/ getApplyLogs(s) \/ Crash(s)
                                \/ \E k \in Rounds : doHeartBeat(s, k)
                                \/ \E i \in 1..m_lastApplied[s] : Snapshot(s, i)
                                \/ \E cmd \in Cmds : Start(s, cmd)
           \/ \E t \in snapThreads : leaderSendSnapShot(t)
           \/ \E c \in snapCalls : SnapshotPeerClosed(c)
  BY <1>1 DEF doElection, getApplyLogs, Crash, Exit, doHeartBeat, Snapshot, Start,
              leaderSendSnapShot, SnapshotPeerClosed, Ignore, history
<1>2. CASE \/ \E c \in voteCalls : RequestVote(c)
           \/ \E c \in appendCalls : AppendEntries1(c)
           \/ \E c \in snapCalls : InstallSnapshot(c)
  BY <1>2 DEF RequestVote, AppendEntries1, AppendExpired, AppendBehindSnapshot, Exit,
              InstallSnapshot, SnapshotExpired, SnapshotOutdated, SnapshotInstalled,
              Ignore, history
<1>3. CASE \/ \E r \in voteReplies : sendRequestVote(r)
           \/ \E r \in appendReplies : sendAppendEntries(r)
           \/ \E r \in snapReplies : SnapshotAnswered(r)
  BY <1>3 DEF sendRequestVote, sendAppendEntries, SnapshotAnswered, StepDown, CountVote,
              BecomeLeader, Ignore, history
<1>4. CASE UNCHANGED vars
  BY <1>4 DEF vars, history
<1> QED
  BY <1>1, <1>2, <1>3, <1>4 DEF Next

-----------------------------------------------------------------------------
(* The invariant *)

\* Where no entry is made, the winners' logs still reach as far.
LEMMA NoNewEntryInv ==
    ASSUME LogInv, [Next]_vars, EntryInv, NoNewEntry, HistoryTypes
    PROVE  EntryInv'
<1>1. leaders \subseteq leaders'
  BY WinnersStay
<1>2. ASSUME NEW e \in AllEntries', e.index \in Nat
      PROVE  \E l \in leaders' : l.term = e.term /\ e.index <= End(l.leader)'
  <2>1. PICK l \in leaders : l.term = e.term /\ e.index <= End(l.leader)
    BY DEF EntryInv, EntriesOwned, NoNewEntry
  <2>2. l.leader \in Server
    BY DEF HistoryTypes
  <2>3. End(l.leader)' \in Nat /\ End(l.leader)' >= End(l.leader) /\ End(l.leader) \in Nat
    BY <2>2, NextAdvances, EndIsNat DEF Advance, EndsGrow, LogInv, TypeOK
  <2> QED
    BY <1>1, <1>2, <2>1, <2>3
<1>3. \A e \in AllEntries' : e.index \in Nat
  BY EntriesAreTyped DEF NoNewEntry
<1> QED
  BY <1>2, <1>3 DEF EntryInv, EntryIdentity, EntriesOwned, NoNewEntry

\* Appending adds its element and nothing else.
LEMMA AppendedSeq ==
    ASSUME NEW S, NEW q \in Seq(S), NEW e \in S, NEW k \in 1..Len(Append(q, e))
    PROVE  Append(q, e)[k] = e \/ (k \in 1..Len(q) /\ Append(q, e)[k] = q[k])
<1>1. /\ Len(Append(q, e)) = Len(q) + 1 /\ Len(q) \in Nat
      /\ Append(q, e)[Len(q) + 1] = e
  OBVIOUS
<1>2. CASE k = Len(q) + 1
  BY <1>1, <1>2
<1>3. CASE k # Len(q) + 1
  BY <1>1, <1>3
<1> QED
  BY <1>2, <1>3

\* Start gives its entry an index that its term has not had.
LEMMA StartEntryInv ==
    ASSUME LogInv, [Next]_vars, EntryInv, ElectionInv, HistoryTypes,
           NEW s \in Server, NEW cmd \in Cmds, Start(s, cmd)
    PROVE  EntryInv'
<1> DEFINE e == NewEntry(s, cmd)
<1>1. AllEntries' \subseteq AllEntries \cup {e}
  <2>1. m_logs[s] \in Seq(Entries) /\ m_logs'[s] = Append(m_logs[s], e)
    BY DEF Start, LogInv, TypeOK, LogTypes
  <2>2. \A k \in 1..Len(m_logs'[s]) : m_logs'[s][k] = e \/ m_logs'[s][k] \in AllEntries
    <3>1. e \in Entries
      BY LastIsEnd DEF NewEntry, Entries, LogInv, TypeOK, TermTypes
    <3> HIDE DEF e
    <3>2. ASSUME NEW k \in 1..Len(m_logs'[s])
          PROVE  \/ m_logs'[s][k] = e
                 \/ k \in 1..Len(m_logs[s]) /\ m_logs'[s][k] = m_logs[s][k]
      BY <2>1, <3>1, <3>2, AppendedSeq
    <3> QED
      BY <3>2, LogIsOfEntries
  <2>3. \A p \in Server : p # s => m_logs'[p] = m_logs[p]
    BY DEF Start, LogInv, TypeOK, LogTypes
  <2>4. \A p \in Server : \A k \in 1..Len(m_logs[p]) : m_logs[p][k] \in AllEntries
    BY LogIsOfEntries
  <2>5. \A p \in Server : \A k \in 1..Len(m_logs'[p]) :
            m_logs'[p][k] \in AllEntries \cup {e}
    <3> TAKE p \in Server
    <3>1. CASE p = s
      BY <2>2, <3>1
    <3>2. CASE p # s
      BY <2>3, <2>4, <3>2
    <3> QED
      BY <3>1, <3>2
  <2>6. \A c \in appendCalls' : \A k \in 1..Len(c.entries) :
            c.entries[k] \in AllEntries \cup {e}
    BY CallIsOfEntries DEF Start, appendNet
  <2> HIDE DEF e
  <2> QED
    BY <2>5, <2>6, EntriesFrom
<1>2. /\ e.term = m_currentTerm[s] /\ e.index = End(s) + 1 /\ End(s) \in Nat
  BY LastIsEnd DEF NewEntry, LogInv, TypeOK
<1>3. Win(e.term, s) \in leaders
  BY <1>2 DEF Start, ElectionInv, LeadersWon
<1>4. ElectionSafety
  BY InvElectionSafety DEF LogInv
<1>5. ASSUME NEW f \in AllEntries, f.term = e.term
      PROVE  f.index # e.index
  <2>1. PICK l \in leaders : l.term = f.term /\ f.index <= End(l.leader)
    BY DEF EntryInv, EntriesOwned
  <2>2. l.leader = s
    BY <1>3, <1>4, <1>5, <2>1 DEF ElectionSafety, Win
  <2>3. f.index \in Nat
    BY EntriesAreTyped
  <2> QED
    BY <1>2, <2>1, <2>2, <2>3
<1> HIDE DEF e
<1>6. EntryIdentity'
  BY <1>1, <1>5 DEF EntryInv, EntryIdentity
<1>7. leaders \subseteq leaders'
  BY WinnersStay
<1>8. ASSUME NEW f \in AllEntries'
      PROVE  \E l \in leaders' : l.term = f.term /\ f.index <= End(l.leader)'
  <2>1. CASE f = e
    <3>1. End(s)' = End(s) + 1
      <4>1. m_logs[s] \in Seq(Entries) /\ m_lastSnapshotIncludeIndex[s] \in Nat
        BY DEF LogInv, TypeOK, LogTypes
      <4>2. /\ m_logs'[s] = Append(m_logs[s], NewEntry(s, cmd))
            /\ m_lastSnapshotIncludeIndex'[s] = m_lastSnapshotIncludeIndex[s]
        BY DEF Start, LogInv, TypeOK, LogTypes
      <4> QED
        BY <4>1, <4>2 DEF End
    <3> QED
      BY <1>2, <1>3, <1>7, <2>1, <3>1 DEF Win
  <2>2. CASE f \in AllEntries
    <3>1. PICK l \in leaders : l.term = f.term /\ f.index <= End(l.leader)
      BY <2>2 DEF EntryInv, EntriesOwned
    <3>2. l.leader \in Server /\ f.index \in Nat
      BY <2>2, EntriesAreTyped DEF HistoryTypes
    <3>3. End(l.leader)' \in Nat /\ End(l.leader)' >= End(l.leader) /\ End(l.leader) \in Nat
      BY <3>2, NextAdvances, EndIsNat DEF Advance, EndsGrow, LogInv, TypeOK
    <3> QED
      BY <1>7, <3>1, <3>2, <3>3
  <2> QED
    BY <1>1, <1>8, <2>1, <2>2
<1> QED
  BY <1>6, <1>8 DEF EntryInv, EntriesOwned

\* The invariant of the entries.
THEOREM EntryInvariant == Spec => []EntryInv
<1>1. Init => EntryInv
  <2> SUFFICES ASSUME Init PROVE AllEntries = {}
    BY DEF EntryInv, EntryIdentity, EntriesOwned
  <2>1. /\ \A s \in Server : m_logs[s] = <<>>
        /\ appendCalls = {}
    BY DEF Init
  <2>2. \A s \in Server : 1..Len(m_logs[s]) = {}
    BY <2>1
  <2> QED
    BY <2>1, <2>2 DEF AllEntries
<1>2. EntryInv /\ LogInv /\ ElectionInv /\ [Next]_vars => EntryInv'
  <2> SUFFICES ASSUME EntryInv, LogInv, ElectionInv, [Next]_vars PROVE EntryInv'
    OBVIOUS
  <2>1. HistoryTypes
    BY DEF LogInv, TypeOK
  <2> QED
    BY <2>1, NextMakesNoEntry, NoNewEntryInv, StartEntryInv
<1> QED
  BY <1>1, <1>2, LogInvariant, ElectionInvariant, PTL DEF Spec

\* An index and a term name one command, in the logs and in the requests under
\* way, so AppendEntries1 never meets an entry of its index and term with another
\* command, which would end the process.
THEOREM OneCommandPerEntry == Spec => []EntryIdentity
<1>1. EntryInv => EntryIdentity
  BY DEF EntryInv
<1> QED
  BY <1>1, EntryInvariant, PTL
=============================================================================
