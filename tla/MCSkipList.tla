----------------------------- MODULE MCSkipList -----------------------------
(* The storage engine for TLC: addresses and threads are interchangeable.  *)
EXTENDS SkipListProps, TLC

\* The dumps of an empty list and of two others.
Dumps == {<<>>, 1 :> 3 @@ 2 :> 1, 2 :> 2 @@ 3 :> 1}

Symmetric == Permutations(Address) \union Permutations(Thread)
=============================================================================
