------------------------------ MODULE MCFiber ------------------------------
(* The fiber runtime for TLC: what the program sets, per run.              *)
EXTENDS FiberProps, TLC

CONSTANTS f1, f2, w1, w2

TwoCallsAndOne == f1 :> 2 @@ f2 :> 1
TwoCallsEach == [f \in Fiber |-> 2]
NoCalls == [f \in Fiber |-> 0]

ReadTimeoutOrNonblock == {[event |-> READ, timeout |-> 1],
                          [event |-> None, nonblock |-> TRUE]}
Timers == {[ms |-> 1, recurring |-> TRUE], [ms |-> 1, recurring |-> FALSE]}
Nothing == {}
=============================================================================
