----------------------------- MODULE MCKvServer -----------------------------
(***************************************************************************)
(* Few servers and clerks, with a view that forgets what no later step can *)
(* read: commands started at an index that is decided, what a clerk's last *)
(* request saw once it is answered or if it writes, and which call of a    *)
(* clerk a handler answers that the clerk no longer waits for.             *)
(***************************************************************************)
EXTENDS KvProps, TLC

CONSTANTS c1, c2

\* Two clerks of one process, and two of two processes.
OneProcess   == [c \in Client |-> IF c = c1 THEN 1 ELSE 2]
TwoProcesses == [c \in Client |-> 1]

\* How many calls each clerk makes for each of its requests.
AskAndRetry == [c \in Client |-> IF c = c1 THEN <<2, 1>> ELSE <<1>>]
RetryTwice  == [c \in Client |-> <<2, 2, 1>>]
AskOnce     == [c \in Client |-> <<1>>]

\* How many requests each clerk makes.
TwoByOne == [c \in Client |-> IF c = c1 THEN 2 ELSE 1]
Three    == [c \in Client |-> 3]
Once     == [c \in Client |-> 1]

\* A handler, as far as its answer matters.
Seen(h) == IF calling[h.call.op.clerk] = h.call THEN h
           ELSE [h EXCEPT !.call.attempt = 0, !.err = "none"]

LiveState ==
    <<m_requestId, m_recentLeaderId, calling, calls, {Seen(h) : h \in handlers},
      stateVars, waitApplyCh, applyVars, chosen, logEnd,
      {e \in started : e.index > Len(chosen)},
      [c \in Client |-> IF NoCall(c) \/ Writes(calling[c].op)
                        THEN 0 ELSE chosenBefore[c]]>>
=============================================================================
