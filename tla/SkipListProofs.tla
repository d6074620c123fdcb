--------------------------- MODULE SkipListProofs ---------------------------
(***************************************************************************)
(* The storage engine of SkipList.tla, for any keys, values, threads,      *)
(* levels and any finite memory: it is well formed, it leaks nothing, its  *)
(* readers stay on allocated nodes, and it implements the map.             *)
(*                                                                         *)
(* The argument: On(i) is the set of the nodes on level i, without the     *)
(* levels the node being inserted is not linked on yet, or the node being  *)
(* deleted is unlinked from already.  The invariant Inv says that the      *)
(* forward pointers of every level sort On(i), even between two pointer    *)
(* updates, and what each thread knows at its place in the code.  Walk,    *)
(* descent, chain and lowered level are recursive functions of the model:  *)
(* what they compute is shown by a least counterexample, over the keys,    *)
(* the levels or the hops.                                                 *)
(***************************************************************************)
EXTENDS SkipListProps, FiniteSetTheorems, NaturalsInduction,
        WellFoundedInduction, TLAPS

-----------------------------------------------------------------------------
(* Least and greatest elements *)

\* A set of naturals that is not empty has a least element.
LEMMA LeastNat ==
  ASSUME NEW S, S \subseteq Nat, S # {}
  PROVE  \E n \in S : \A m \in S : n <= m
<1>1. \E R : /\ IsWellFoundedOn(R, Nat)
             /\ \A m, n \in Nat : <<m, n>> \in R <=> m < n
  <2>1. \A m, n \in Nat : <<m, n>> \in OpToRel(<, Nat) <=> m < n
    BY Zenon DEF OpToRel
  <2>. QED BY <2>1, NatLessThanWellFounded, Zenon
<1>2. PICK R : /\ IsWellFoundedOn(R, Nat)
               /\ \A m, n \in Nat : <<m, n>> \in R <=> m < n
  BY <1>1, Zenon
<1>3. \E n \in S : \A m \in S : ~ (<<m, n>> \in R)
  <2>1. IsWellFoundedOn(R, Nat) BY <1>2
  <2>. QED BY <2>1, WFMin
<1>4. PICK n \in S : \A m \in S : ~ (<<m, n>> \in R)
  BY <1>3
<1>5. \A m \in S : n <= m
  <2>1. TAKE m \in S
  <2>2. n \in Nat /\ m \in Nat OBVIOUS
  <2>3. ~ (m < n) BY <1>2, <1>4, <2>2, Zenon
  <2>. QED BY <2>2, <2>3
<1>. QED BY <1>5

\* A finite set with a number for each element has one with the greatest.
LEMMA GreatestKey ==
  ASSUME NEW S, IsFiniteSet(S), S # {}, NEW ky, \A n \in S : ky[n] \in Int
  PROVE  \E m \in S : \A p \in S : ky[p] <= ky[m]
<1>. DEFINE HasMax(T) == \E m \in T : \A p \in T : ky[p] <= ky[m]
            Bad == {T \in SUBSET S : T # {} /\ ~HasMax(T)}
            Sizes == {Cardinality(T) : T \in Bad}
<1>1. \A T \in SUBSET S : IsFiniteSet(T) /\ Cardinality(T) \in Nat
  BY FS_Subset, FS_CardinalityType
<1>2. SUFFICES ASSUME Bad # {} PROVE FALSE
  BY Zenon
<1>3. Sizes \subseteq Nat /\ Sizes # {}
  BY <1>1, <1>2
<1>4. PICK n \in Sizes : \A m \in Sizes : n <= m
  <2>. HIDE DEF Sizes
  <2>. QED BY <1>3, LeastNat
<1>5. PICK T \in Bad : n = Cardinality(T)
  OBVIOUS
<1>6. PICK x \in T : TRUE
  OBVIOUS
<1>7. T \ {x} \notin Bad
  <2>1. Cardinality(T \ {x}) = Cardinality(T) - 1
    BY <1>1, FS_RemoveElement
  <2>2. Cardinality(T) \in Nat BY <1>1
  <2>3. SUFFICES ASSUME T \ {x} \in Bad PROVE FALSE OBVIOUS
  <2>4. Cardinality(T \ {x}) \in Sizes BY <2>3
  <2>. HIDE DEF Bad, Sizes
  <2>. QED BY <1>4, <1>5, <2>1, <2>2, <2>4
<1>8. T \ {x} \in SUBSET S OBVIOUS
<1>9. CASE T \ {x} = {}
  <2>1. HasMax(T) BY <1>9
  <2>. QED BY <2>1
<1>10. CASE T \ {x} # {}
  <2>1. PICK m \in T \ {x} : \A p \in T \ {x} : ky[p] <= ky[m]
    BY <1>7, <1>8, <1>10
  <2>2. HasMax(T)
    <3>1. ky[m] \in Int /\ ky[x] \in Int /\ \A p \in T : ky[p] \in Int OBVIOUS
    <3>2. CASE ky[x] <= ky[m]
      BY <2>1, <3>1, <3>2
    <3>3. CASE ~(ky[x] <= ky[m])
      <4>1. \A p \in T : ky[p] <= ky[x] BY <2>1, <3>1, <3>3
      <4>. QED BY <4>1
    <3>. QED BY <3>2, <3>3
  <2>. QED BY <2>2
<1>. QED BY <1>9, <1>10

-----------------------------------------------------------------------------
(* One level as a list: nd is the memory, S the set of nodes on level i.    *)

Memory ==
  [Slot -> [key : Key \union {Absent}, value : Value \union {Absent},
            node_level : Level, forward : [Level -> Pointer]]]

\* The nodes of S have keys, each its own.
Keyed(nd, S) ==
  /\ S \subseteq Address
  /\ \A n \in S : nd[n].key \in Key
  /\ \A m, n \in S : nd[m].key = nd[n].key => m = n

Follows(nd, n, p) == n = Header \/ nd[n].key < nd[p].key

\* Each node, and the header, points at the first node of S that follows it.
Sorted(nd, S, i) ==
  \A n \in S \union {Header} :
    /\ nd[n].forward[i] \in S \union {NULL}
    /\ nd[n].forward[i] # NULL => Follows(nd, n, nd[n].forward[i])
    /\ \A p \in S : Follows(nd, n, p) =>
         /\ nd[n].forward[i] # NULL
         /\ nd[nd[n].forward[i]].key <= nd[p].key

\* u is the last node of S before key k, or the header if there is none.
IsPred(nd, S, k, u) ==
  /\ u \in S \union {Header}
  /\ u # Header => nd[u].key < k
  /\ \A p \in S : nd[p].key < k => u # Header /\ nd[p].key <= nd[u].key

LEMMA Distinct ==
  /\ Header \notin Address /\ NULL \notin Address /\ Header # NULL
  /\ Absent \notin Value /\ Absent \notin Thread /\ Absent \notin Key
  /\ Key \subseteq Int /\ Key \subseteq Value
  /\ MaxLevel \in Nat /\ MaxLevel > 0
  /\ IsFiniteSet(Address)
<1>1. MaxLevel \in Nat /\ MaxLevel > 0 BY SkipListAssumption
<1>2. Header \notin Address /\ NULL \notin Address /\ Header # NULL
  BY SkipListAssumption
<1>3. Absent \notin Value /\ Absent \notin Thread BY SkipListAssumption
<1>4. Key \subseteq Int /\ Key \subseteq Value BY SkipListAssumption
<1>5. Absent \notin Key BY <1>3, <1>4
<1>6. IsFiniteSet(Address) BY SkipListAssumption
<1>. QED BY <1>1, <1>2, <1>3, <1>4, <1>5, <1>6

LEMMA FiniteNodes ==
  ASSUME NEW nd, NEW S, Keyed(nd, S)
  PROVE  IsFiniteSet(S) /\ Cardinality(S) \in Nat /\ Cardinality(S) <= Cardinality(Address)
BY Distinct, FS_Subset, FS_CardinalityType DEF Keyed

\* There is a last node before each key, and it is the only one.
LEMMA PredExists ==
  ASSUME NEW nd, NEW S, Keyed(nd, S), NEW k \in Key
  PROVE  \E u : IsPred(nd, S, k, u)
<1>. DEFINE T == {p \in S : nd[p].key < k}
            ky == [p \in T |-> nd[p].key]
<1>1. CASE T = {}
  <2>1. IsPred(nd, S, k, Header) BY <1>1, Distinct DEF IsPred, Keyed
  <2>. QED BY <2>1
<1>2. CASE T # {}
  <2>1. IsFiniteSet(T)
    <3>1. T \in SUBSET S OBVIOUS
    <3>. HIDE DEF T
    <3>. QED BY <3>1, FiniteNodes, FS_Subset
  <2>2. \A p \in T : ky[p] \in Int
    BY Distinct DEF Keyed
  <2>3. PICK m \in T : \A p \in T : ky[p] <= ky[m]
    <3>. HIDE DEF T, ky
    <3>. QED BY <1>2, <2>1, <2>2, GreatestKey
  <2>4. \A p \in T : nd[p].key <= nd[m].key
    BY <2>3
  <2>5. IsPred(nd, S, k, m)
    BY <2>4, Distinct DEF IsPred, Keyed
  <2>. QED BY <2>5
<1>. QED BY <1>1, <1>2

LEMMA PredUnique ==
  ASSUME NEW nd, NEW S, Keyed(nd, S), NEW k \in Key, NEW u, NEW v,
         IsPred(nd, S, k, u), IsPred(nd, S, k, v)
  PROVE  u = v
<1>1. CASE u = Header \/ v = Header
  BY <1>1 DEF IsPred
<1>2. CASE u # Header /\ v # Header
  <2>1. u \in S /\ v \in S BY <1>2 DEF IsPred
  <2>2. nd[u].key \in Int /\ nd[v].key \in Int BY <2>1, Distinct DEF Keyed
  <2>3. nd[u].key <= nd[v].key /\ nd[v].key <= nd[u].key BY <1>2, <2>1 DEF IsPred
  <2>4. nd[u].key = nd[v].key BY <2>2, <2>3
  <2>. QED BY <2>1, <2>4 DEF Keyed
<1>. QED BY <1>1, <1>2

\* What the last node before k points at.
LEMMA PredNext ==
  ASSUME NEW nd, NEW S, Keyed(nd, S), NEW i, Sorted(nd, S, i),
         NEW k \in Key, NEW u, IsPred(nd, S, k, u)
  PROVE  /\ u \in S \union {Header}
         /\ nd[u].forward[i] \in S \union {NULL}
         /\ nd[u].forward[i] # NULL => ~(nd[nd[u].forward[i]].key < k)
         /\ \A p \in S : nd[p].key = k => nd[u].forward[i] = p
<1>. DEFINE n == nd[u].forward[i]
<1>1. u \in S \union {Header} /\ n \in S \union {NULL}
  BY DEF IsPred, Sorted
<1>2. \A p \in S : nd[p].key \in Int
  BY Distinct DEF Keyed
<1>3. ASSUME n # NULL, nd[n].key < k PROVE FALSE
  <2>1. n \in S BY <1>1, <1>3
  <2>2. u # Header /\ nd[n].key <= nd[u].key BY <1>3, <2>1 DEF IsPred
  <2>3. nd[u].key < nd[n].key BY <1>1, <1>3, <2>2 DEF Sorted, Follows
  <2>. QED BY <1>1, <1>2, <2>1, <2>2, <2>3
<1>4. ASSUME NEW p \in S, nd[p].key = k PROVE n = p
  <2>1. Follows(nd, u, p) BY <1>4 DEF IsPred, Follows
  <2>2. n # NULL /\ nd[n].key <= nd[p].key BY <1>1, <2>1 DEF Sorted
  <2>3. n \in S BY <1>1, <2>2
  <2>4. ~(nd[n].key < k) BY <1>3, <2>2
  <2>5. nd[n].key = nd[p].key
    <3>. HIDE DEF n
    <3>. QED BY <1>2, <1>4, <2>2, <2>3, <2>4
  <2>. QED BY <2>3, <2>5 DEF Keyed
<1>. QED BY <1>1, <1>3, <1>4

\* The list depends on its nodes only.
LEMMA SortedFrame ==
  ASSUME NEW nd, NEW nd2, NEW S, NEW i, Sorted(nd, S, i),
         \A n \in S : nd2[n].key = nd[n].key,
         \A n \in S \union {Header} : nd2[n].forward[i] = nd[n].forward[i],
         NULL \notin S
  PROVE  Sorted(nd2, S, i)
BY Distinct DEF Sorted, Follows

LEMMA PredFrame ==
  ASSUME NEW nd, NEW nd2, NEW S, NEW k, NEW u, IsPred(nd, S, k, u),
         \A n \in S : nd2[n].key = nd[n].key
  PROVE  IsPred(nd2, S, k, u)
BY DEF IsPred

\* A node linked after the last one before its key.
LEMMA InsertSorted ==
  ASSUME NEW nd, NEW nd2, NEW S, NEW c \in Address, NEW i, NEW u,
         c \notin S, Keyed(nd, S \union {c}), Sorted(nd, S, i),
         IsPred(nd, S, nd[c].key, u),
         \A n \in S \union {c} : nd2[n].key = nd[n].key,
         \A n \in S \union {c, Header} : nd2[n].forward[i] =
            IF n = u THEN c ELSE IF n = c THEN nd[u].forward[i] ELSE nd[n].forward[i]
  PROVE  Sorted(nd2, S \union {c}, i)
<1>. DEFINE k == nd[c].key
            after == nd[u].forward[i]
            T == S \union {c}
<1>1. /\ S \subseteq Address /\ NULL \notin T /\ Header \notin T
      /\ \A n \in T : nd[n].key \in Key /\ nd[n].key \in Int /\ nd2[n].key = nd[n].key
      /\ \A n \in S : nd[n].key # k
      /\ Keyed(nd, S)
  BY Distinct DEF Keyed
<1>2. /\ u \in S \union {Header} /\ after \in S \union {NULL}
      /\ after # NULL => ~(nd[after].key < k)
      /\ u # Header => nd[u].key < k
      /\ \A p \in S : nd[p].key < k => u # Header /\ nd[p].key <= nd[u].key
  <2>1. k \in Key BY <1>1
  <2>. HIDE DEF k
  <2>2. IsPred(nd, S, k, u) BY DEF k
  <2>. QED BY <1>1, <2>1, <2>2, PredNext DEF IsPred
<1>3. /\ nd2[u].forward[i] = c /\ nd2[c].forward[i] = after /\ u # c
      /\ \A n \in S \union {Header} : n # u => nd2[n].forward[i] = nd[n].forward[i]
  BY <1>1, <1>2
<1>. HIDE DEF k, after
<1>4. k = nd[c].key /\ k \in Int BY <1>1 DEF k
<1>5. ASSUME NEW n \in T \union {Header}
      PROVE  /\ nd2[n].forward[i] \in T \union {NULL}
             /\ nd2[n].forward[i] # NULL => Follows(nd2, n, nd2[n].forward[i])
             /\ \A p \in T : Follows(nd2, n, p) =>
                  /\ nd2[n].forward[i] # NULL
                  /\ nd2[nd2[n].forward[i]].key <= nd2[p].key
  <2>1. CASE n = u
    <3>1. Follows(nd2, n, c) BY <1>1, <1>2, <1>4, <2>1 DEF Follows
    <3>2. ASSUME NEW p \in S, Follows(nd2, n, p) PROVE k <= nd[p].key
      <4>1. SUFFICES ASSUME nd[p].key < k PROVE FALSE BY <1>1, <1>4
      <4>2. u # Header /\ nd[p].key <= nd[u].key BY <1>2, <4>1
      <4>3. nd[u].key < nd[p].key BY <1>1, <1>2, <2>1, <3>2, <4>2 DEF Follows
      <4>. QED BY <1>1, <1>2, <4>2, <4>3
    <3>. QED BY <1>1, <1>3, <1>4, <2>1, <3>1, <3>2
  <2>2. CASE n = c
    <3>1. ASSUME after # NULL PROVE k < nd[after].key
      <4>1. after \in S BY <1>2, <3>1
      <4>. QED BY <1>1, <1>2, <1>4, <3>1, <4>1
    <3>2. ASSUME NEW p \in T, Follows(nd2, n, p)
          PROVE after # NULL /\ nd[after].key <= nd[p].key
      <4>1. k < nd[p].key /\ p \in S BY <1>1, <1>4, <2>2, <3>2 DEF Follows
      <4>2. Follows(nd, u, p) BY <1>1, <1>2, <1>4, <4>1 DEF Follows
      <4>. QED BY <1>2, <4>1, <4>2 DEF Sorted, after
    <3>3. after # NULL => Follows(nd2, n, after)
      BY <1>1, <1>2, <1>4, <2>2, <3>1 DEF Follows
    <3>. QED BY <1>1, <1>2, <1>3, <2>2, <3>2, <3>3
  <2>3. CASE n # u /\ n # c
    <3>0. n \in S \union {Header} /\ nd2[n].forward[i] = nd[n].forward[i]
      BY <1>3, <2>3
    <3>. DEFINE x == nd[n].forward[i]
    <3>1. /\ x \in S \union {NULL}
          /\ x # NULL => Follows(nd, n, x)
          /\ \A p \in S : Follows(nd, n, p) => x # NULL /\ nd[x].key <= nd[p].key
      BY <3>0 DEF Sorted
    <3>. HIDE DEF x
    <3>2. x # NULL => Follows(nd2, n, x)
      BY <1>1, <3>0, <3>1 DEF Follows
    <3>3. ASSUME NEW p \in S, Follows(nd2, n, p) PROVE x # NULL /\ nd[x].key <= nd[p].key
      BY <1>1, <3>0, <3>1, <3>3 DEF Follows
    <3>4. ASSUME Follows(nd2, n, c) PROVE x # NULL /\ nd[x].key <= k
      <4>1. Follows(nd, n, c) BY <1>1, <3>0, <3>4 DEF Follows
      <4>2. u # Header
        <5>1. CASE n = Header BY <2>3, <5>1
        <5>2. CASE n # Header
          <6>1. nd[n].key < k /\ n \in S BY <1>4, <3>0, <4>1, <5>2 DEF Follows
          <6>. QED BY <1>2, <6>1
        <5>. QED BY <5>1, <5>2
      <4>3. u \in S BY <1>2, <4>2
      <4>4. Follows(nd, n, u)
        <5>1. CASE n = Header BY <5>1 DEF Follows
        <5>2. CASE n # Header
          <6>1. nd[n].key < k /\ n \in S BY <1>4, <3>0, <4>1, <5>2 DEF Follows
          <6>2. nd[n].key <= nd[u].key BY <1>2, <6>1
          <6>3. nd[n].key # nd[u].key BY <1>1, <2>3, <4>3, <6>1 DEF Keyed
          <6>. QED BY <1>1, <4>3, <6>1, <6>2, <6>3 DEF Follows
        <5>. QED BY <5>1, <5>2
      <4>5. x # NULL /\ nd[x].key <= nd[u].key BY <3>1, <4>3, <4>4
      <4>6. x \in S /\ nd[u].key < k BY <1>2, <3>1, <4>2, <4>5
      <4>. QED BY <1>1, <1>4, <4>3, <4>5, <4>6
    <3>. QED BY <1>1, <1>4, <3>0, <3>1, <3>2, <3>3, <3>4 DEF x
  <2>. QED BY <2>1, <2>2, <2>3
<1>. QED BY <1>5 DEF Sorted

\* A node taken out behind the last one before its key.
LEMMA RemoveSorted ==
  ASSUME NEW nd, NEW nd2, NEW S, NEW c \in S, NEW i, NEW u,
         Keyed(nd, S), Sorted(nd, S, i), IsPred(nd, S, nd[c].key, u),
         \A n \in S : nd2[n].key = nd[n].key,
         \A n \in S \union {Header} : nd2[n].forward[i] =
            IF n = u THEN nd[c].forward[i] ELSE nd[n].forward[i]
  PROVE  Sorted(nd2, S \ {c}, i)
<1>. DEFINE k == nd[c].key
            after == nd[c].forward[i]
            T == S \ {c}
<1>1. /\ S \subseteq Address /\ NULL \notin S /\ Header \notin S
      /\ \A n \in S : nd[n].key \in Key /\ nd[n].key \in Int /\ nd2[n].key = nd[n].key
  BY Distinct DEF Keyed
<1>2. /\ u \in T \union {Header} /\ nd[u].forward[i] = c
      /\ after \in T \union {NULL}
      /\ Follows(nd, u, c)
  <2>1. IsPred(nd, S, k, u) /\ k \in Key BY <1>1
  <2>2. nd[u].forward[i] = c BY <2>1, PredNext
  <2>3. u # Header => nd[u].key < k BY <2>1 DEF IsPred
  <2>4. u \in T \union {Header} BY <1>1, <2>1, <2>3 DEF IsPred
  <2>5. Follows(nd, u, c) BY <2>3 DEF Follows
  <2>6. after \in S \union {NULL} /\ (after # NULL => Follows(nd, c, after))
    BY DEF Sorted
  <2>7. after # c
    <3>1. SUFFICES ASSUME after = c PROVE FALSE OBVIOUS
    <3>2. Follows(nd, c, c) BY <1>1, <2>6, <3>1
    <3>. QED BY <1>1, <3>2 DEF Follows
  <2>. QED BY <2>2, <2>4, <2>5, <2>6, <2>7
<1>. HIDE DEF k, after
<1>4. k = nd[c].key /\ k \in Int BY <1>1 DEF k
<1>5. ASSUME NEW n \in T \union {Header}
      PROVE  /\ nd2[n].forward[i] \in T \union {NULL}
             /\ nd2[n].forward[i] # NULL => Follows(nd2, n, nd2[n].forward[i])
             /\ \A p \in T : Follows(nd2, n, p) =>
                  /\ nd2[n].forward[i] # NULL
                  /\ nd2[nd2[n].forward[i]].key <= nd2[p].key
  <2>1. CASE n = u
    <3>0. nd2[n].forward[i] = after BY <2>1 DEF after
    <3>1. ASSUME after # NULL PROVE Follows(nd2, n, after)
      <4>1. after \in T /\ Follows(nd, c, after) BY <1>2, <3>1 DEF Sorted, after
      <4>2. k < nd[after].key BY <1>1, <4>1 DEF Follows, k
      <4>3. u # Header => nd[u].key < k BY <1>1, <1>2, <1>4 DEF Follows
      <4>. QED BY <1>1, <1>2, <1>4, <2>1, <4>1, <4>2, <4>3 DEF Follows
    <3>2. ASSUME NEW p \in T, Follows(nd2, n, p)
          PROVE after # NULL /\ nd[after].key <= nd[p].key
      <4>1. Follows(nd, u, p) BY <1>1, <2>1, <1>2, <3>2 DEF Follows
      <4>2. k <= nd[p].key BY <1>2, <1>4, <4>1 DEF Sorted
      <4>3. k # nd[p].key BY <1>4, <3>2 DEF Keyed
      <4>4. Follows(nd, c, p) BY <1>1, <1>4, <4>2, <4>3 DEF Follows
      <4>. QED BY <4>4 DEF Sorted, after
    <3>. QED BY <1>1, <1>2, <3>0, <3>1, <3>2
  <2>2. CASE n # u
    <3>0. nd2[n].forward[i] = nd[n].forward[i] BY <2>2
    <3>. DEFINE x == nd[n].forward[i]
    <3>1. /\ x \in S \union {NULL}
          /\ x # NULL => Follows(nd, n, x)
          /\ \A p \in S : Follows(nd, n, p) => x # NULL /\ nd[x].key <= nd[p].key
      BY DEF Sorted
    <3>. HIDE DEF x
    <3>2. x # c
      <4>1. SUFFICES ASSUME x = c PROVE FALSE OBVIOUS
      <4>2. n = Header \/ nd[n].key < k BY <1>1, <1>4, <3>1, <4>1 DEF Follows
      <4>3. CASE u = Header
        <5>1. n \in S /\ nd[n].key < k BY <2>2, <4>2, <4>3
        <5>. QED BY <4>3, <5>1 DEF IsPred, k
      <4>4. CASE u # Header
        <5>1. u \in S /\ nd[u].key < k BY <1>2, <1>4, <4>4 DEF Follows
        <5>2. Follows(nd, n, u)
          <6>1. CASE n = Header BY <6>1 DEF Follows
          <6>2. CASE n # Header
            <7>1. nd[n].key < k /\ n \in S BY <4>2, <6>2
            <7>2. nd[n].key <= nd[u].key BY <7>1 DEF IsPred, k
            <7>3. nd[n].key # nd[u].key BY <2>2, <5>1, <7>1 DEF Keyed
            <7>. QED BY <1>1, <5>1, <7>1, <7>2, <7>3 DEF Follows
          <6>. QED BY <6>1, <6>2
        <5>3. nd[x].key <= nd[u].key BY <3>1, <5>1, <5>2
        <5>. QED BY <1>1, <1>4, <4>1, <5>1, <5>3
      <4>. QED BY <4>3, <4>4
    <3>3. x # NULL => Follows(nd2, n, x)
      BY <1>1, <3>1 DEF Follows
    <3>4. ASSUME NEW p \in T, Follows(nd2, n, p) PROVE x # NULL /\ nd[x].key <= nd[p].key
      BY <1>1, <3>1, <3>4 DEF Follows
    <3>. QED BY <1>1, <3>0, <3>1, <3>2, <3>3, <3>4 DEF x
  <2>. QED BY <2>1, <2>2
<1>. QED BY <1>5 DEF Sorted

-----------------------------------------------------------------------------
(* The recursive functions of SkipList.tla *)

\* Each is the function its definition describes, once there is one.
LEMMA WalkDef ==
  ASSUME NEW k, NEW i,
         \E f : f = [n \in Slot |-> IF Before(Next_(n, i), k) THEN f[Next_(n, i)] ELSE n]
  PROVE  WalkFrom(k, i) = [n \in Slot |-> IF Before(Next_(n, i), k)
                                          THEN WalkFrom(k, i)[Next_(n, i)] ELSE n]
BY Zenon DEF WalkFrom

AtFix(f, k) ==
  f = [i \in 0 .. _skip_list_level |->
         WalkFrom(k, i)[IF i = _skip_list_level THEN Header ELSE f[i + 1]]]

LEMMA PredecessorsDef ==
  ASSUME NEW k, \E f : AtFix(f, k)
  PROVE  \E f : /\ AtFix(f, k)
                /\ Predecessors(k) =
                     [i \in Level |-> IF i <= _skip_list_level THEN f[i] ELSE NULL]
BY Zenon DEF Predecessors, AtFix

LowerFix(f) ==
  f = [i \in Level |-> IF i > 0 /\ Next_(Header, i) = NULL THEN f[i - 1] ELSE i]

LEMMA LoweredLevelDef ==
  ASSUME \E f : LowerFix(f)
  PROVE  \E f : LowerFix(f) /\ LoweredLevel = f[_skip_list_level]
BY Zenon DEF LoweredLevel, LowerFix

ReachFix(f, i) ==
  f = [h \in 0 .. Cardinality(Address) |->
        IF h = 0 THEN {Next_(Header, i)} \ {NULL}
        ELSE f[h - 1] \union ({Next_(n, i) : n \in f[h - 1]} \ {NULL})]

LEMMA ChainDef ==
  ASSUME NEW i, \E f : ReachFix(f, i)
  PROVE  \E f : ReachFix(f, i) /\ Chain(i) = f[Cardinality(Address)]
BY Zenon DEF Chain, ReachFix

\* On a sorted level a walk that starts before k ends at the last node before k.
LEMMA WalkValue ==
  ASSUME NEW S, NEW i, Keyed(node, S), Sorted(node, S, i), NEW k \in Key,
         \A n \in Slot \ (S \union {Header}) : Next_(n, i) = NULL,
         NEW n0 \in S \union {Header}, n0 = Header \/ node[n0].key < k
  PROVE  IsPred(node, S, k, WalkFrom(k, i)[n0])
<1>. DEFINE Starts(n) == n \in S \union {Header} /\ (n = Header \/ node[n].key < k)
<1>0. /\ S \union {Header} \subseteq Slot /\ NULL \notin Slot /\ Header \notin S
      /\ \A n \in S : node[n].key \in Int
      /\ k \in Int
  BY Distinct DEF Keyed, Slot
<1>1. PICK u : IsPred(node, S, k, u)
  BY PredExists
<1>2. u \in S \union {Header} BY <1>1 DEF IsPred
\* one hop of the walk
<1>3. ASSUME NEW n \in Slot, Before(Next_(n, i), k)
      PROVE  Starts(Next_(n, i)) /\ Next_(n, i) \in S
             /\ Next_(n, i) \in Slot
             /\ n \in S \union {Header}
             /\ Follows(node, n, Next_(n, i))
  <2>1. n \in S \union {Header} BY <1>3 DEF Before
  <2>2. Next_(n, i) \in S BY <1>3, <2>1 DEF Before, Sorted, Next_
  <2>. QED BY <1>0, <1>3, <2>1, <2>2 DEF Before, Sorted, Next_
<1>4. ASSUME NEW n, Starts(n), ~Before(Next_(n, i), k)
      PROVE  n = u
  <2>1. \A p \in S : Follows(node, n, p) => k <= node[p].key
    <3>1. SUFFICES ASSUME NEW p \in S, Follows(node, n, p) PROVE k <= node[p].key
      OBVIOUS
    <3>2. /\ Next_(n, i) # NULL /\ node[Next_(n, i)].key <= node[p].key
          /\ Next_(n, i) \in S
      BY <1>4, <3>1 DEF Sorted, Next_
    <3>. QED BY <1>0, <1>4, <3>2 DEF Before
  <2>2. CASE u = Header
    BY <1>1, <1>4, <2>2 DEF IsPred
  <2>3. CASE u # Header
    <3>1. u \in S /\ node[u].key < k BY <1>1, <2>3 DEF IsPred
    <3>2. ~Follows(node, n, u) BY <1>0, <2>1, <3>1
    <3>3. n # Header /\ n \in S BY <1>4, <3>2 DEF Follows
    <3>4. node[n].key <= node[u].key BY <1>1, <1>4, <3>3 DEF IsPred
    <3>5. node[n].key = node[u].key BY <1>0, <3>1, <3>2, <3>3, <3>4 DEF Follows
    <3>. QED BY <3>1, <3>3, <3>5 DEF Keyed
  <2>. QED BY <2>2, <2>3
<1>5. \E f : f = [n \in Slot |-> IF Before(Next_(n, i), k) THEN f[Next_(n, i)] ELSE n]
  <2>. DEFINE f == [n \in Slot |-> IF Starts(n) THEN u ELSE n]
  <2>1. ASSUME NEW n \in Slot
        PROVE  f[n] = IF Before(Next_(n, i), k) THEN f[Next_(n, i)] ELSE n
    <3>1. CASE Before(Next_(n, i), k)
      <4>1. f[Next_(n, i)] = u BY <1>3, <3>1
      <4>2. Starts(n)
        <5>1. CASE n = Header BY <5>1
        <5>2. CASE n # Header
          <6>1. n \in S /\ node[n].key < node[Next_(n, i)].key
            BY <1>3, <3>1, <5>2 DEF Follows
          <6>2. Next_(n, i) \in S /\ node[Next_(n, i)].key < k
            BY <1>3, <3>1 DEF Before
          <6>. QED BY <1>0, <6>1, <6>2
        <5>. QED BY <5>1, <5>2
      <4>. QED BY <3>1, <4>1, <4>2
    <3>2. CASE ~Before(Next_(n, i), k)
      BY <1>4, <3>2
    <3>. QED BY <3>1, <3>2
  <2>2. f = [n \in Slot |-> IF Before(Next_(n, i), k) THEN f[Next_(n, i)] ELSE n]
    <3>. DEFINE g == [n \in Slot |-> IF Before(Next_(n, i), k) THEN f[Next_(n, i)] ELSE n]
    <3>1. \A n \in Slot : f[n] = g[n] BY <2>1
    <3>2. f = [n \in Slot |-> f[n]] /\ g = [n \in Slot |-> g[n]] OBVIOUS
    <3>. HIDE DEF f, g
    <3>3. f = g BY <3>1, <3>2
    <3>. QED BY <3>3 DEF g
  <2>. QED BY <2>2, Zenon
<1>. DEFINE w == WalkFrom(k, i)
            Bad == {n \in S : Starts(n) /\ w[n] # u}
<1>6. \A n \in Slot : w[n] = IF Before(Next_(n, i), k) THEN w[Next_(n, i)] ELSE n
  <2>1. w = [n \in Slot |-> IF Before(Next_(n, i), k) THEN w[Next_(n, i)] ELSE n]
    BY <1>5, WalkDef, Zenon
  <2>. HIDE DEF w
  <2>2. SUFFICES ASSUME NEW n \in Slot
                 PROVE w[n] = IF Before(Next_(n, i), k) THEN w[Next_(n, i)] ELSE n
    OBVIOUS
  <2>3. [m \in Slot |-> IF Before(Next_(m, i), k) THEN w[Next_(m, i)] ELSE m][n]
          = IF Before(Next_(n, i), k) THEN w[Next_(n, i)] ELSE n
    OBVIOUS
  <2>. QED BY <2>1, <2>3, Zenon
<1>. HIDE DEF w
<1>7. Bad = {}
  <2>1. SUFFICES ASSUME Bad # {} PROVE FALSE OBVIOUS
  <2>. DEFINE ky == [n \in Bad |-> node[n].key]
  <2>2. IsFiniteSet(Bad)
    <3>1. Bad \in SUBSET S OBVIOUS
    <3>. HIDE DEF Bad
    <3>. QED BY <3>1, FiniteNodes, FS_Subset
  <2>3. \A n \in Bad : ky[n] \in Int BY <1>0
  <2>4. PICK m \in Bad : \A p \in Bad : ky[p] <= ky[m]
    <3>. HIDE DEF Bad, ky
    <3>. QED BY <2>1, <2>2, <2>3, GreatestKey
  <2>5. \A p \in Bad : node[p].key <= node[m].key BY <2>4
  <2>6. m \in Slot /\ Starts(m) /\ m \in S /\ w[m] # u /\ m # Header BY <1>0
  <2>7. Before(Next_(m, i), k)
    <3>1. SUFFICES ASSUME ~Before(Next_(m, i), k) PROVE FALSE OBVIOUS
    <3>2. w[m] = m BY <1>6, <2>6, <3>1
    <3>. QED BY <1>4, <2>6, <3>1, <3>2
  <2>8. w[m] = w[Next_(m, i)] BY <1>6, <2>6, <2>7
  <2>9. Next_(m, i) \in Bad BY <1>3, <2>6, <2>7, <2>8
  <2>10. node[m].key < node[Next_(m, i)].key
    BY <1>3, <2>6, <2>7 DEF Follows
  <2>. QED BY <1>0, <2>5, <2>6, <2>9, <2>10
<1>8. w[n0] = u
  <2>1. CASE n0 # Header
    BY <1>7, <2>1
  <2>2. CASE n0 = Header
    <3>1. CASE Before(Next_(n0, i), k)
      <4>1. Next_(n0, i) \in S /\ Starts(Next_(n0, i)) BY <1>0, <1>3, <2>2, <3>1
      <4>2. w[Next_(n0, i)] = u BY <1>7, <4>1
      <4>. QED BY <1>0, <1>6, <3>1, <4>2
    <3>2. CASE ~Before(Next_(n0, i), k)
      BY <1>0, <1>4, <1>6, <2>2, <3>2
    <3>. QED BY <3>1, <3>2
  <2>. QED BY <2>1, <2>2
<1>. QED BY <1>1, <1>8 DEF w

-----------------------------------------------------------------------------
(* The inductive invariant *)

Nodes == live \ {Header}

\* A node being inserted is not yet on its upper levels, one being deleted no
\* longer on its lower ones.
Off(n, i) ==
  /\ _mtx # Absent /\ current[_mtx] = n
  /\ \/ pc[_mtx] = "link" /\ lvl[_mtx] <= i
     \/ pc[_mtx] = "unlink" /\ i < lvl[_mtx]

\* The nodes on level i.
On(i) == {n \in Nodes : i <= node[n].node_level /\ ~Off(n, i)}

Types ==
  /\ TypeOK
  /\ node \in Memory
  /\ oldValue \in [Thread -> Value \union {Absent}]
  /\ answer = [t \in Thread |-> answer[t]]
  /\ todo = [t \in Thread |-> todo[t]]

NoAnswer == [type |-> "none"]

\* m_mtx is held for a whole call, _mtx for the pointer updates of one, and the
\* list exists as long as it is used.
Mutexes ==
  \A t \in Thread :
    /\ pc[t] = "idle" <=> m_mtx # t
    /\ pc[t] \in {"link", "unlink"} <=> _mtx = t
    /\ pc[t] # "idle" => Header \in live

\* Each operation goes through its own steps.
CallFits(t) ==
  /\ pc[t] = "idle" <=> Op(t) = "none"
  /\ pc[t] = "search" => Op(t) \in {"get", "set"}
  /\ pc[t] \in {"delete", "unlink"} => Op(t) \in {"set", "delete"}
  /\ pc[t] \in {"insert", "link"} => Op(t) = "set" \/ (Op(t) = "load" /\ todo[t] # <<>>)
  /\ pc[t] = "dump" => Op(t) = "dump" /\ todo[t] \in Seq(Key \X Value)
  /\ pc[t] = "load" => Op(t) = "load"
  /\ Op(t) = "load" => todo[t] \in Seq(DOMAIN call[t][2])
  /\ answer[t] = NoAnswer <=> pc[t] # "return"

\* What is not allocated is blank, and a node has pointers up to its level only.
MemoryKept ==
  /\ Header \notin live => live = {}
  /\ \A n \in Slot \ live : node[n] = Free
  /\ \A n \in Nodes : node[n].value \in Value
  /\ \A n \in Nodes, i \in Level : i > node[n].node_level => Next_(n, i) = NULL

LevelsSorted == Header \in live => \A i \in Level : Sorted(node, On(i), i)

Linking == _mtx # Absent /\ pc[_mtx] = "link"

HeightKept ==
  Header \in live =>
    /\ \A n \in Nodes : node[n].node_level <= _skip_list_level
    /\ _skip_list_level > 0 => \E n \in Nodes : node[n].node_level = _skip_list_level
    /\ _element_count = Cardinality(Nodes) - (IF Linking THEN 1 ELSE 0)

\* search_element stands on its level before the key.
SearchKept(t) ==
  pc[t] = "search" =>
    /\ lvl[t] \in Level
    /\ current[t] \in On(lvl[t]) \union {Header}
    /\ current[t] # Header => node[current[t]].key < ArgKey(t)

\* The nodes of level 0 up to c, and what dump_file writes of a set of nodes.
Passed(c) == {m \in On(0) : c # Header /\ node[m].key <= node[c].key}
PairsOf(S) == {<<node[m].key, node[m].value>> : m \in S}

\* dump_file has written what it came past.
DumpKept(t) ==
  pc[t] = "dump" =>
    /\ current[t] \in On(0) \union {Header}
    /\ {todo[t][i] : i \in DOMAIN todo[t]} = PairsOf(Passed(current[t]))

\* Both writers hold the last nodes before the key on every level.
WriteKept(t) ==
  pc[t] \in {"link", "unlink"} =>
    /\ current[t] \in Nodes
    /\ lvl[t] \in 0 .. node[current[t]].node_level + 1
    /\ \A i \in 0 .. _skip_list_level :
         IsPred(node, On(i) \ {current[t]}, node[current[t]].key, update[t][i])
    /\ pc[t] = "unlink" => node[current[t]].key = ArgKey(t)
    /\ pc[t] = "link" => <<node[current[t]].key, node[current[t]].value>> = Pair(t)

\* insert_set_element knows whether its key is stored.
SetKept(t) ==
  Op(t) = "set" =>
    /\ pc[t] = "delete" => \E n \in Nodes : node[n].key = ArgKey(t)
                                            /\ node[n].value = oldValue[t]
    /\ pc[t] = "unlink" => node[current[t]].value = oldValue[t]
    /\ pc[t] = "insert" => \A n \in Nodes : node[n].key # ArgKey(t)

Inv ==
  /\ Types /\ Mutexes /\ MemoryKept
  /\ Keyed(node, Nodes) /\ LevelsSorted /\ HeightKept
  /\ \A t \in Thread : /\ CallFits(t) /\ SearchKept(t) /\ DumpKept(t)
                       /\ WriteKept(t) /\ SetKept(t)

Structure == Types /\ MemoryKept /\ Keyed(node, Nodes) /\ LevelsSorted

-----------------------------------------------------------------------------
(* What the recursive functions compute in a state of the invariant *)

LEMMA OnLevel ==
  ASSUME Structure, NEW i \in Level
  PROVE  /\ On(i) \subseteq Nodes /\ Nodes \subseteq Address /\ Nodes \subseteq Slot
         /\ Keyed(node, On(i))
         /\ Header \in live => Sorted(node, On(i), i)
BY DEF Structure, Types, TypeOK, On, Nodes, Keyed, Slot, LevelsSorted

\* Between two operations a node is on the levels up to its own.
LEMMA QuietLevels ==
  ASSUME Structure, _mtx = Absent, NEW i \in Level
  PROVE  /\ On(i) = {n \in Nodes : i <= node[n].node_level}
         /\ \A n \in Slot \ (On(i) \union {Header}) : Next_(n, i) = NULL
         /\ \A j \in Level : j <= i => On(i) \subseteq On(j)
<1>1. \A j : On(j) = {n \in Nodes : j <= node[n].node_level}
  BY DEF On, Off
<1>2. \A n \in Nodes : n \in Slot /\ node[n].node_level \in Nat
  BY Distinct, OnLevel DEF Structure, Types, Memory, Level
<1>3. ASSUME NEW n \in Slot \ (On(i) \union {Header}) PROVE Next_(n, i) = NULL
  <2>1. CASE n \in Nodes
    BY <1>1, <1>2, <2>1 DEF Structure, MemoryKept, Level
  <2>2. CASE n \notin Nodes
    <3>1. node[n] = Free BY <2>2 DEF Structure, MemoryKept, Nodes
    <3>. QED BY <3>1 DEF Free, NewNode, NullPointers, Next_
  <2>. QED BY <2>1, <2>2
<1>4. ASSUME NEW j \in Level, j <= i PROVE On(i) \subseteq On(j)
  BY <1>1, <1>2, <1>4, Distinct DEF Level
<1>. QED BY <1>1, <1>3, <1>4

\* The descent finds the last node before the key on every level in use.
LEMMA PredecessorsValue ==
  ASSUME Structure, _mtx = Absent, Header \in live, NEW k \in Key
  PROVE  /\ \A i \in 0 .. _skip_list_level : IsPred(node, On(i), k, Predecessors(k)[i])
         /\ Predecessors(k) \in [Level -> Pointer]
<1>. DEFINE L == _skip_list_level
            P(i) == CHOOSE u : IsPred(node, On(i), k, u)
<1>0. L \in Nat /\ L <= MaxLevel /\ MaxLevel \in Nat /\ 0 .. L \subseteq Level
  BY Distinct DEF Structure, Types, TypeOK, Level
<1>1. \A i \in 0 .. L : IsPred(node, On(i), k, P(i))
  BY <1>0, OnLevel, PredExists, Zenon
<1>. HIDE DEF P, L
<1>2. ASSUME NEW i \in 0 .. L, NEW n \in On(i) \union {Header},
             n = Header \/ node[n].key < k
      PROVE  WalkFrom(k, i)[n] = P(i)
  <2>1. i \in Level BY <1>0
  <2>2. Keyed(node, On(i)) /\ Sorted(node, On(i), i) BY <2>1, OnLevel
  <2>3. \A m \in Slot \ (On(i) \union {Header}) : Next_(m, i) = NULL
    BY <2>1, QuietLevels
  <2>4. IsPred(node, On(i), k, WalkFrom(k, i)[n])
    BY <1>2, <2>2, <2>3, WalkValue
  <2>. QED BY <1>1, <2>2, <2>4, PredUnique
<1>3. ASSUME NEW i \in 0 .. L, i # L
      PROVE  /\ i + 1 \in 0 .. L
             /\ P(i + 1) \in On(i) \union {Header}
             /\ P(i + 1) = Header \/ node[P(i + 1)].key < k
  <2>1. i + 1 \in 0 .. L BY <1>0, <1>3
  <2>2. On(i + 1) \subseteq On(i) BY <1>0, <2>1, QuietLevels
  <2>. QED BY <1>1, <2>1, <2>2 DEF IsPred
<1>4. \E f : AtFix(f, k)
  <2>. DEFINE f == [i \in 0 .. L |-> P(i)]
              g == [i \in 0 .. L |-> WalkFrom(k, i)[IF i = L THEN Header ELSE f[i + 1]]]
  <2>1. \A i \in 0 .. L : f[i] = g[i]
    BY <1>2, <1>3
  <2>2. f = [i \in 0 .. L |-> f[i]] /\ g = [i \in 0 .. L |-> g[i]] OBVIOUS
  <2>3. f = g
    <3>. HIDE DEF f, g
    <3>. QED BY <2>1, <2>2
  <2>4. AtFix(f, k) BY <2>3, Zenon DEF AtFix, L
  <2>. QED BY <2>4
<1>5. PICK f : /\ AtFix(f, k)
               /\ Predecessors(k) = [i \in Level |-> IF i <= L THEN f[i] ELSE NULL]
  BY <1>4, PredecessorsDef, Zenon DEF L
<1>6. \A i \in 0 .. L : f[i] = WalkFrom(k, i)[IF i = L THEN Header ELSE f[i + 1]]
  <2>. DEFINE g == [i \in 0 .. L |-> WalkFrom(k, i)[IF i = L THEN Header ELSE f[i + 1]]]
  <2>1. f = g BY <1>5, Zenon DEF AtFix, L
  <2>2. \A i \in 0 .. L : g[i] = WalkFrom(k, i)[IF i = L THEN Header ELSE f[i + 1]]
    OBVIOUS
  <2>. HIDE DEF g
  <2>. QED BY <2>1, <2>2, Zenon
<1>. DEFINE Bad == {i \in 0 .. L : f[i] # P(i)}
            Far == {L - i : i \in Bad}
<1>7. Bad = {}
  <2>1. SUFFICES ASSUME Bad # {} PROVE FALSE OBVIOUS
  <2>2. Far \subseteq Nat /\ Far # {} BY <1>0, <2>1
  <2>3. PICK d \in Far : \A e \in Far : d <= e
    <3>. HIDE DEF Far
    <3>. QED BY <2>2, LeastNat
  <2>4. PICK i \in Bad : d = L - i OBVIOUS
  <2>5. i \in 0 .. L /\ f[i] # P(i) OBVIOUS
  <2>6. CASE i = L
    BY <1>2, <1>6, <2>5, <2>6
  <2>7. CASE i # L
    <3>1. i + 1 \notin Bad
      <4>1. SUFFICES ASSUME i + 1 \in Bad PROVE FALSE OBVIOUS
      <4>2. L - (i + 1) \in Far BY <4>1
      <4>. HIDE DEF Far, Bad
      <4>. QED BY <1>0, <2>3, <2>4, <2>5, <4>2
    <3>2. f[i + 1] = P(i + 1) BY <1>3, <2>5, <2>7, <3>1
    <3>. QED BY <1>2, <1>3, <1>6, <2>5, <2>7, <3>2
  <2>. QED BY <2>6, <2>7
<1>8. \A i \in 0 .. L : Predecessors(k)[i] = P(i)
  <2>1. \A i \in Level : Predecessors(k)[i] = IF i <= L THEN f[i] ELSE NULL
    BY <1>5
  <2>. QED BY <1>0, <1>7, <2>1
<1>9. \A i \in 0 .. L : P(i) \in Pointer
  BY <1>0, <1>1, OnLevel DEF IsPred, Pointer, Slot
<1>10. Predecessors(k) \in [Level -> Pointer]
  <2>1. \A i \in Level : i <= L => i \in 0 .. L BY <1>0 DEF Level
  <2>2. \A i \in 0 .. L : f[i] = P(i) BY <1>7
  <2>3. NULL \in Pointer BY DEF Pointer
  <2>. QED BY <1>5, <1>9, <2>1, <2>2, <2>3
<1>. QED BY <1>1, <1>8, <1>10 DEF L

\* DeleteEnd's loop stops at the highest level with a node, or at 0.
LEMMA LoweredLevelValue ==
  ASSUME Structure
  PROVE  /\ LoweredLevel \in 0 .. _skip_list_level
         /\ LoweredLevel > 0 => Next_(Header, LoweredLevel) # NULL
         /\ \A j \in LoweredLevel + 1 .. _skip_list_level : Next_(Header, j) = NULL
<1>. DEFINE L == _skip_list_level
            Empty(j) == j > 0 /\ Next_(Header, j) = NULL
            Top(i, m) == /\ m \in 0 .. i /\ ~Empty(m)
                         /\ \A j \in m + 1 .. i : Empty(j)
            M(i) == CHOOSE m : Top(i, m)
<1>0. L \in Level /\ MaxLevel \in Nat /\ Level = 0 .. MaxLevel
  BY Distinct DEF Structure, Types, TypeOK, Level
<1>. HIDE DEF L, Empty
<1>e. ~Empty(0) BY DEF Empty
<1>1. \A i \in Nat : \A m, n : Top(i, m) /\ Top(i, n) => m = n
  OBVIOUS
<1>2. ASSUME NEW i \in Nat PROVE \E m : Top(i, m)
  <2>. DEFINE Depth == {i - m : m \in {j \in 0 .. i : ~Empty(j)}}
  <2>1. Depth \subseteq Nat OBVIOUS
  <2>2. i - 0 \in Depth BY <1>e
  <2>3. PICK d \in Depth : \A e \in Depth : d <= e
    <3>. HIDE DEF Depth
    <3>. QED BY <2>1, <2>2, LeastNat
  <2>4. PICK m \in 0 .. i : ~Empty(m) /\ d = i - m OBVIOUS
  <2>5. ASSUME NEW j \in m + 1 .. i PROVE Empty(j)
    <3>1. SUFFICES ASSUME ~Empty(j) PROVE FALSE OBVIOUS
    <3>2. i - j \in Depth BY <3>1
    <3>. HIDE DEF Depth
    <3>. QED BY <2>3, <2>4, <2>5, <3>2
  <2>. QED BY <2>4, <2>5
<1>3. \A i \in Nat : Top(i, M(i))
  BY <1>2, Zenon
<1>. HIDE DEF M
<1>4. ASSUME NEW i \in Level
      PROVE  M(i) = IF Empty(i) THEN M(i - 1) ELSE i
  <2>1. i \in Nat BY <1>0
  <2>2. CASE Empty(i)
    <3>1. i - 1 \in Nat /\ i # 0 BY <1>e, <2>1, <2>2
    <3>2. Top(i, M(i - 1))
      <4>1. Top(i - 1, M(i - 1)) BY <1>3, <3>1
      <4>. QED BY <2>1, <2>2, <3>1, <4>1
    <3>. QED BY <1>1, <1>3, <2>1, <2>2, <3>2
  <2>3. CASE ~Empty(i)
    <3>1. Top(i, i) BY <2>1, <2>3
    <3>. QED BY <1>1, <1>3, <2>1, <2>3, <3>1
  <2>. QED BY <2>2, <2>3
<1>5. \E f : LowerFix(f)
  <2>. DEFINE f == [i \in Level |-> M(i)]
              g == [i \in Level |-> IF Empty(i) THEN f[i - 1] ELSE i]
  <2>0. \A i \in Level : Empty(i) => i - 1 \in Level BY <1>0 DEF Empty
  <2>1. \A i \in Level : f[i] = g[i]
    BY <1>4, <2>0
  <2>2. f = [i \in Level |-> f[i]] /\ g = [i \in Level |-> g[i]] OBVIOUS
  <2>3. f = g
    <3>. HIDE DEF f, g
    <3>. QED BY <2>1, <2>2
  <2>4. LowerFix(f) BY <2>3, Zenon DEF LowerFix, Empty
  <2>. QED BY <2>4
<1>6. PICK f : LowerFix(f) /\ LoweredLevel = f[L]
  BY <1>5, LoweredLevelDef, Zenon DEF L
<1>7. \A i \in Level : f[i] = IF Empty(i) THEN f[i - 1] ELSE i
  <2>. DEFINE g == [i \in Level |-> IF Empty(i) THEN f[i - 1] ELSE i]
  <2>1. f = g BY <1>6, Zenon DEF LowerFix, Empty
  <2>2. \A i \in Level : g[i] = IF Empty(i) THEN f[i - 1] ELSE i
    OBVIOUS
  <2>. HIDE DEF g
  <2>. QED BY <2>1, <2>2, Zenon
<1>. DEFINE Bad == {i \in Level : f[i] # M(i)}
<1>8. Bad = {}
  <2>1. SUFFICES ASSUME Bad # {} PROVE FALSE OBVIOUS
  <2>2. Bad \subseteq Nat BY <1>0
  <2>3. PICK i \in Bad : \A j \in Bad : i <= j
    <3>. HIDE DEF Bad
    <3>. QED BY <2>1, <2>2, LeastNat
  <2>4. i \in Level /\ f[i] # M(i) /\ i \in Nat BY <1>0
  <2>5. Empty(i) BY <1>4, <1>7, <2>4
  <2>6. i - 1 \in Level /\ ~(i <= i - 1) BY <1>0, <1>e, <2>4, <2>5
  <2>7. i - 1 \notin Bad BY <2>3, <2>6
  <2>8. f[i - 1] = M(i - 1) BY <2>6, <2>7
  <2>. QED BY <1>4, <1>7, <2>4, <2>5, <2>8
<1>9. LoweredLevel = M(L) /\ L \in Nat
  BY <1>0, <1>6, <1>8
<1>10. Top(L, LoweredLevel) BY <1>3, <1>9
<1>11. LoweredLevel \in 0 .. L /\ ~Empty(LoweredLevel)
       /\ \A j \in LoweredLevel + 1 .. L : Empty(j)
  BY <1>10
<1>. QED BY <1>11 DEF Empty, L

\* The nodes a chain reaches in h hops are those with at most h before them,
\* so the chain of a sorted level is the level.
LEMMA ReachValue ==
  ASSUME NEW S, NEW i, Keyed(node, S), Sorted(node, S, i)
  PROVE  Chain(i) = S
<1>. DEFINE N == Cardinality(Address)
            Smaller(n) == {p \in S : node[p].key < node[n].key}
            Rank(n) == Cardinality(Smaller(n))
            R(h) == {n \in S : Rank(n) <= h}
            Step(T) == T \union ({Next_(n, i) : n \in T} \ {NULL})
<1>0. /\ S \subseteq Address /\ NULL \notin S /\ Header \notin S
      /\ \A n \in S : node[n].key \in Int /\ node[n].key \in Key
      /\ \A m, n \in S : node[m].key = node[n].key => m = n
  BY Distinct DEF Keyed
<1>n. N \in Nat /\ IsFiniteSet(S) /\ Cardinality(S) \in Nat /\ Cardinality(S) <= N
  BY Distinct, FiniteNodes, FS_CardinalityType
<1>. HIDE DEF N
<1>1. \A n \in S : IsFiniteSet(Smaller(n)) /\ Rank(n) \in Nat /\ Rank(n) <= N
  <2>1. SUFFICES ASSUME NEW n \in S
                 PROVE IsFiniteSet(Smaller(n)) /\ Rank(n) \in Nat /\ Rank(n) <= N
    OBVIOUS
  <2>2. Smaller(n) \in SUBSET S OBVIOUS
  <2>. HIDE DEF Smaller
  <2>3. IsFiniteSet(Smaller(n)) /\ Rank(n) <= Cardinality(S) BY <1>n, <2>2, FS_Subset
  <2>4. Rank(n) \in Nat BY <2>3, FS_CardinalityType
  <2>. QED BY <1>n, <2>3, <2>4
\* the successor of n has one more before it
<1>2. ASSUME NEW n \in S, Next_(n, i) # NULL
      PROVE  Next_(n, i) \in S /\ Rank(Next_(n, i)) = Rank(n) + 1
  <2>. DEFINE m == Next_(n, i)
  <2>1. /\ m \in S /\ node[n].key < node[m].key
        /\ \A p \in S : node[n].key < node[p].key => node[m].key <= node[p].key
    BY <1>0, <1>2 DEF Sorted, Follows, Next_
  <2>. HIDE DEF m
  <2>2. Smaller(m) = Smaller(n) \union {n}
    <3>1. ASSUME NEW p \in S, node[p].key < node[m].key, p # n
          PROVE  node[p].key < node[n].key
      <4>1. ~(node[n].key < node[p].key) BY <1>0, <2>1, <3>1
      <4>2. node[p].key # node[n].key BY <1>0, <3>1
      <4>. QED BY <1>0, <4>1, <4>2
    <3>2. ASSUME NEW p \in S, node[p].key < node[n].key
          PROVE  node[p].key < node[m].key
      BY <1>0, <2>1, <3>2
    <3>. QED BY <2>1, <3>1, <3>2
  <2>3. n \notin Smaller(n) BY <1>0
  <2>4. IsFiniteSet(Smaller(n)) BY <1>1
  <2>. HIDE DEF Smaller
  <2>5. Rank(m) = Rank(n) + 1 BY <2>2, <2>3, <2>4, FS_AddElement
  <2>. QED BY <2>1, <2>5 DEF m
\* the first node has none before it, and each other is the successor of one
<1>3. ASSUME NEW n \in S, Rank(n) = 0 PROVE Next_(Header, i) = n
  <2>1. Smaller(n) = {} BY <1>1, <1>3, FS_EmptySet
  <2>2. IsPred(node, S, node[n].key, Header) BY <2>1 DEF IsPred
  <2>3. node[n].key \in Key BY <1>0
  <2>. QED BY <2>2, <2>3, PredNext DEF Next_
<1>4. ASSUME Next_(Header, i) # NULL
      PROVE  Next_(Header, i) \in S /\ Rank(Next_(Header, i)) = 0
  <2>. DEFINE n == Next_(Header, i)
  <2>1. n \in S /\ \A p \in S : node[n].key <= node[p].key
    BY <1>4 DEF Sorted, Follows, Next_
  <2>. HIDE DEF n
  <2>2. Smaller(n) = {} BY <1>0, <2>1
  <2>. HIDE DEF Smaller
  <2>3. Rank(n) = 0 BY <2>2, FS_EmptySet
  <2>. QED BY <2>1, <2>3 DEF n
<1>5. ASSUME NEW n \in S, Rank(n) # 0
      PROVE  \E p \in S : Next_(p, i) = n
  <2>0. node[n].key \in Key BY <1>0
  <2>1. PICK u : IsPred(node, S, node[n].key, u) BY <2>0, PredExists
  <2>2. Next_(u, i) = n BY <2>0, <2>1, PredNext DEF Next_
  <2>3. u # Header
    <3>1. SUFFICES ASSUME u = Header PROVE FALSE OBVIOUS
    <3>2. n # NULL BY <1>0
    <3>. QED BY <1>4, <1>5, <2>2, <3>1, <3>2
  <2>. QED BY <2>1, <2>2, <2>3 DEF IsPred
<1>6. R(0) = {Next_(Header, i)} \ {NULL}
  <2>1. ASSUME NEW n \in R(0) PROVE n \in {Next_(Header, i)} \ {NULL}
    <3>1. Rank(n) \in Nat BY <1>1
    <3>. HIDE DEF Rank
    <3>2. n \in S /\ Rank(n) = 0 BY <3>1
    <3>. QED BY <1>0, <1>3, <3>2
  <2>2. ASSUME NEW n \in {Next_(Header, i)} \ {NULL} PROVE n \in R(0)
    <3>1. n \in S /\ Rank(n) = 0 BY <1>4, <2>2
    <3>. HIDE DEF Rank
    <3>. QED BY <3>1
  <2>. HIDE DEF R
  <2>. QED BY <2>1, <2>2
<1>7. ASSUME NEW h \in Nat, h # 0 PROVE R(h) = Step(R(h - 1))
  <2>0. \A n \in S : Rank(n) \in Nat BY <1>1
  <2>. HIDE DEF Rank
  <2>1. ASSUME NEW n \in R(h), n \notin R(h - 1)
        PROVE  n \in {Next_(p, i) : p \in R(h - 1)} \ {NULL}
    <3>1. n \in S /\ Rank(n) = h BY <1>7, <2>0, <2>1
    <3>2. PICK p \in S : Next_(p, i) = n BY <1>5, <1>7, <3>1
    <3>3. n # NULL BY <1>0, <3>1
    <3>4. Rank(p) + 1 = h BY <1>2, <3>1, <3>2, <3>3
    <3>5. p \in R(h - 1) BY <1>7, <2>0, <3>2, <3>4
    <3>. HIDE DEF R
    <3>. QED BY <3>2, <3>3, <3>5
  <2>2. R(h - 1) \subseteq R(h) BY <1>7, <2>0
  <2>3. ASSUME NEW p \in R(h - 1), Next_(p, i) # NULL PROVE Next_(p, i) \in R(h)
    <3>1. Next_(p, i) \in S /\ Rank(Next_(p, i)) = Rank(p) + 1 BY <1>2, <2>3
    <3>. QED BY <1>7, <2>0, <3>1
  <2>. HIDE DEF R
  <2>. QED BY <2>1, <2>2, <2>3
<1>8. R(N) = S
  BY <1>1
<1>. HIDE DEF R, Rank, Smaller
<1>9. \E f : ReachFix(f, i)
  <2>. DEFINE f == [h \in 0 .. N |-> R(h)]
              g == [h \in 0 .. N |-> IF h = 0 THEN {Next_(Header, i)} \ {NULL}
                                     ELSE Step(f[h - 1])]
  <2>0. \A h \in 0 .. N : h # 0 => h - 1 \in 0 .. N BY <1>n
  <2>1. ASSUME NEW h \in 0 .. N PROVE f[h] = g[h]
    <3>1. CASE h = 0 BY <1>6, <3>1
    <3>2. CASE h # 0
      <4>1. h \in Nat /\ h - 1 \in 0 .. N BY <2>0, <3>2
      <4>2. f[h - 1] = R(h - 1) BY <4>1
      <4>3. g[h] = Step(R(h - 1)) BY <3>2, <4>2
      <4>4. R(h) = Step(R(h - 1)) BY <1>7, <3>2, <4>1
      <4>. QED BY <4>3, <4>4
    <3>. QED BY <3>1, <3>2
  <2>2. f = [h \in 0 .. N |-> f[h]] /\ g = [h \in 0 .. N |-> g[h]] OBVIOUS
  <2>3. f = g
    <3>. HIDE DEF f, g
    <3>. QED BY <2>1, <2>2
  <2>4. ReachFix(f, i) BY <2>3, Zenon DEF ReachFix, N
  <2>. QED BY <2>4
<1>10. PICK f : ReachFix(f, i) /\ Chain(i) = f[N]
  BY <1>9, ChainDef, Zenon DEF N
<1>11. \A h \in 0 .. N : f[h] = IF h = 0 THEN {Next_(Header, i)} \ {NULL}
                                ELSE Step(f[h - 1])
  <2>. DEFINE g == [h \in 0 .. N |-> IF h = 0 THEN {Next_(Header, i)} \ {NULL}
                                     ELSE Step(f[h - 1])]
  <2>1. f = g BY <1>10, Zenon DEF ReachFix, N
  <2>2. \A h \in 0 .. N : g[h] = IF h = 0 THEN {Next_(Header, i)} \ {NULL}
                                 ELSE Step(f[h - 1])
    OBVIOUS
  <2>. HIDE DEF g, Step
  <2>. QED BY <2>1, <2>2, Zenon
<1>. HIDE DEF Step
<1>. DEFINE Bad == {h \in 0 .. N : f[h] # R(h)}
<1>12. Bad = {}
  <2>1. SUFFICES ASSUME Bad # {} PROVE FALSE OBVIOUS
  <2>2. Bad \subseteq Nat BY <1>n
  <2>3. PICK h \in Bad : \A j \in Bad : h <= j
    <3>. HIDE DEF Bad
    <3>. QED BY <2>1, <2>2, LeastNat
  <2>4. h \in 0 .. N /\ f[h] # R(h) /\ h \in Nat OBVIOUS
  <2>5. h # 0 BY <1>6, <1>11, <2>4
  <2>6. h - 1 \in 0 .. N /\ ~(h <= h - 1) BY <1>n, <2>4, <2>5
  <2>7. f[h - 1] = R(h - 1) BY <2>3, <2>6
  <2>8. f[h] = Step(f[h - 1]) BY <1>11, <2>4, <2>5
  <2>. QED BY <1>7, <2>4, <2>5, <2>7, <2>8
<1>. QED BY <1>8, <1>10, <1>12, <1>n

\* The chains of the model are the levels of the invariant.
LEMMA ChainIsLevel ==
  ASSUME Structure, Header \in live, NEW i \in Level
  PROVE  Chain(i) = On(i)
BY OnLevel, ReachValue

\* A finite set of keys can be written down in order.
LEMMA SortedEnumeration ==
  ASSUME NEW K, K \subseteq Int, IsFiniteSet(K)
  PROVE  \E s \in [1 .. Cardinality(K) -> K] : \A i, j \in DOMAIN s : i < j => s[i] < s[j]
<1>. DEFINE Listed(T) == \E s \in [1 .. Cardinality(T) -> T] :
                           \A i, j \in DOMAIN s : i < j => s[i] < s[j]
            Bad == {T \in SUBSET K : ~Listed(T)}
            Sizes == {Cardinality(T) : T \in Bad}
<1>1. \A T \in SUBSET K : IsFiniteSet(T) /\ Cardinality(T) \in Nat
  BY FS_Subset, FS_CardinalityType
<1>2. SUFFICES ASSUME Bad # {} PROVE FALSE
  <2>1. K \in SUBSET K OBVIOUS
  <2>. QED BY <2>1, Zenon
<1>3. Sizes \subseteq Nat /\ Sizes # {} BY <1>1, <1>2
<1>4. PICK n \in Sizes : \A m \in Sizes : n <= m
  <2>. HIDE DEF Sizes
  <2>. QED BY <1>3, LeastNat
<1>5. PICK T \in Bad : n = Cardinality(T) OBVIOUS
<1>6. T \in SUBSET K /\ ~Listed(T) /\ IsFiniteSet(T) /\ n \in Nat
  <2>1. T \in SUBSET K /\ ~Listed(T) OBVIOUS
  <2>. QED BY <1>1, <1>5, <2>1
<1>7. CASE T = {}
  <2>1. 1 .. Cardinality(T) = {} BY <1>7, FS_EmptySet
  <2>. DEFINE s == [i \in {} |-> 0]
  <2>2. s \in [1 .. Cardinality(T) -> T] BY <2>1
  <2>3. DOMAIN s = {} OBVIOUS
  <2>. HIDE DEF s
  <2>. QED BY <1>6, <2>2, <2>3
<1>8. CASE T # {}
  <2>. DEFINE ky == [x \in T |-> x]
  <2>1. \A x \in T : ky[x] \in Int BY <1>6
  <2>2. PICK m \in T : \A x \in T : ky[x] <= ky[m]
    <3>. HIDE DEF ky
    <3>. QED BY <1>6, <1>8, <2>1, GreatestKey
  <2>3. m \in Int /\ T \subseteq Int /\ \A x \in T : x <= m BY <1>6, <2>2
  <2>. DEFINE U == T \ {m}
  <2>4. IsFiniteSet(U) /\ Cardinality(U) = n - 1 /\ U \in SUBSET K
    BY <1>5, <1>6, FS_RemoveElement
  <2>5. n >= 1
    <3>1. Cardinality(U) \in Nat BY <1>1, <2>4
    <3>. HIDE DEF U
    <3>. QED BY <1>6, <2>4, <3>1
  <2>6. Listed(U)
    <3>1. SUFFICES ASSUME ~Listed(U) PROVE FALSE OBVIOUS
    <3>2. Cardinality(U) \in Sizes BY <2>4, <3>1
    <3>. HIDE DEF Sizes, U
    <3>. QED BY <1>4, <1>6, <2>4, <3>2
  <2>7. PICK s \in [1 .. n - 1 -> U] : \A i, j \in DOMAIN s : i < j => s[i] < s[j]
    BY <2>4, <2>6
  <2>. DEFINE r == [i \in 1 .. n |-> IF i = n THEN m ELSE s[i]]
  <2>8. \A i \in 1 .. n : i # n => i \in 1 .. n - 1 /\ s[i] \in U
    BY <1>6
  <2>9. r \in [1 .. n -> T] BY <2>8
  <2>10. \A i, j \in 1 .. n : i < j => r[i] < r[j]
    <3>1. SUFFICES ASSUME NEW i \in 1 .. n, NEW j \in 1 .. n, i < j PROVE r[i] < r[j]
      OBVIOUS
    <3>2. i # n /\ i \in 1 .. n - 1 /\ s[i] \in U BY <1>6, <2>8, <3>1
    <3>3. CASE j = n
      <4>1. r[i] = s[i] /\ r[j] = m BY <3>2, <3>3
      <4>2. s[i] \in Int /\ s[i] <= m /\ s[i] # m BY <2>3, <3>2
      <4>. QED BY <2>3, <4>1, <4>2
    <3>4. CASE j # n
      <4>1. r[i] = s[i] /\ r[j] = s[j] BY <3>2, <3>4
      <4>2. j \in 1 .. n - 1 BY <2>8, <3>4
      <4>. QED BY <2>7, <3>1, <3>2, <4>1, <4>2
    <3>. QED BY <3>3, <3>4
  <2>11. DOMAIN r = 1 .. n OBVIOUS
  <2>. HIDE DEF r
  <2>12. Listed(T) BY <1>5, <2>9, <2>10, <2>11
  <2>. QED BY <1>6, <2>12
<1>. QED BY <1>7, <1>8

LEMMA InOrderLists ==
  ASSUME NEW K, K \subseteq Int, IsFiniteSet(K)
  PROVE  /\ InOrder(K) \in [1 .. Cardinality(K) -> K]
         /\ \A k \in K : \E i \in DOMAIN InOrder(K) : InOrder(K)[i] = k
<1>. DEFINE s == InOrder(K)
            n == Cardinality(K)
<1>1. /\ s \in [1 .. n -> K]
      /\ \A i, j \in DOMAIN s : i < j => s[i] < s[j]
  BY SortedEnumeration, Zenon DEF InOrder
<1>2. n \in Nat BY FS_CardinalityType
<1>. HIDE DEF s, n
<1>3. s \in Injection(1 .. n, K)
  <2>1. \A i, j \in 1 .. n : s[i] = s[j] => i = j
    <3>1. SUFFICES ASSUME NEW i \in 1 .. n, NEW j \in 1 .. n, s[i] = s[j], i # j PROVE FALSE
      OBVIOUS
    <3>2. i < j \/ j < i BY <1>2, <3>1
    <3>3. s[i] < s[j] \/ s[j] < s[i] BY <1>1, <3>2
    <3>4. s[i] \in Int /\ s[j] \in Int BY <1>1
    <3>. QED BY <3>1, <3>3, <3>4
  <2>. QED BY <1>1, <2>1 DEF Injection, IsInjective
<1>4. s \in Surjection(1 .. n, K)
  <2>1. IsFiniteSet(1 .. n) /\ Cardinality(1 .. n) = n
    BY <1>2, FS_Interval
  <2>2. IsFiniteSet(K) /\ Cardinality(K) = n BY DEF n
  <2>. QED BY <1>3, <2>1, <2>2, FS_Injection
<1>5. \A k \in K : \E i \in DOMAIN s : s[i] = k BY <1>1, <1>4 DEF Surjection
<1>. QED BY <1>1, <1>5 DEF s, n

-----------------------------------------------------------------------------
(* Steps of one thread *)

\* A thread that calls has the list to itself.
LEMMA Alone ==
  ASSUME Types, Mutexes, NEW t \in Thread, m_mtx = t
  PROVE  /\ pc[t] # "idle" /\ Header \in live
         /\ \A u \in Thread \ {t} : pc[u] = "idle"
         /\ _mtx \in {t, Absent}
         /\ pc[t] \in {"link", "unlink"} <=> _mtx = t
BY DEF Types, TypeOK, Mutexes

LEMMA Nobody ==
  ASSUME Types, Mutexes, m_mtx = Absent
  PROVE  _mtx = Absent /\ \A u \in Thread : pc[u] = "idle"
BY Distinct DEF Types, TypeOK, Mutexes

Locals(t) == CallFits(t) /\ SearchKept(t) /\ DumpKept(t) /\ WriteKept(t) /\ SetKept(t)

\* The others wait for m_mtx and notice nothing.
LEMMA OthersKept ==
  ASSUME Inv, NEW t \in Thread, m_mtx \in {t, Absent},
         \A u \in Thread \ {t} : /\ pc'[u] = pc[u] /\ call'[u] = call[u]
                                 /\ answer'[u] = answer[u] /\ todo'[u] = todo[u]
  PROVE  /\ \A u \in Thread \ {t} : pc[u] = "idle" /\ pc'[u] = "idle"
         /\ \A u \in Thread \ {t} : Locals(u)'
<1>1. \A u \in Thread \ {t} : pc[u] = "idle" /\ pc'[u] = "idle"
  BY Alone, Nobody DEF Inv
<1>2. SUFFICES ASSUME NEW u \in Thread \ {t} PROVE Locals(u)'
  BY <1>1
<1>3. CallFits(u)'
  BY <1>1 DEF Inv, CallFits, Op
<1>4. SearchKept(u)' /\ DumpKept(u)' /\ WriteKept(u)'
  BY <1>1 DEF SearchKept, DumpKept, WriteKept
<1>5. SetKept(u)'
  BY <1>1, <1>3 DEF SetKept, CallFits
<1>. QED BY <1>3, <1>4, <1>5 DEF Locals

\* A step that writes nothing of the list and takes no node off a level.
LEMMA ListKept ==
  ASSUME Structure, HeightKept, UNCHANGED list,
         \A i \in Level : On(i)' = On(i), Linking' = Linking
  PROVE  MemoryKept' /\ Keyed(node, Nodes)' /\ LevelsSorted' /\ HeightKept'
BY DEF Structure, list, MemoryKept, LevelsSorted, HeightKept, Nodes, Next_

OnlyThread(t) ==
  \A u \in Thread \ {t} : /\ pc'[u] = pc[u] /\ call'[u] = call[u]
                          /\ answer'[u] = answer[u] /\ todo'[u] = todo[u]

\* What is left to show of a step of thread t.
LEMMA ThreadKeeps ==
  ASSUME Inv, NEW t \in Thread, m_mtx \in {t, Absent}, OnlyThread(t),
         Types', Mutexes', MemoryKept', Keyed(node, Nodes)', LevelsSorted', HeightKept',
         Locals(t)'
  PROVE  Inv'
<1>1. \A u \in Thread : Locals(u)' BY OthersKept DEF OnlyThread
<1>. QED BY <1>1 DEF Inv, Locals

\* Levels are the same sets when memory and _mtx are, and _mtx is free.
LEMMA ReaderLevels ==
  ASSUME Inv, _mtx = Absent, _mtx' = Absent, UNCHANGED list
  PROVE  /\ \A i : On(i)' = On(i)
         /\ MemoryKept' /\ Keyed(node, Nodes)' /\ LevelsSorted' /\ HeightKept'
<1>1. \A i : On(i)' = On(i) BY DEF On, Off, Nodes, list
<1>2. Linking' = Linking BY DEF Linking
<1>. QED BY <1>1, <1>2, ListKept DEF Inv, Structure

LEMMA CallShape ==
  ASSUME NEW t \in Thread, Types
  PROVE  /\ call[t] \in Calls
         /\ Op(t) = "none" <=> call[t] = <<"none">>
         /\ Op(t) \in {"none", "dump", "load", "get", "delete", "set"}
         /\ Op(t) \in {"get", "delete", "set"} => ArgKey(t) \in Key
         /\ Op(t) = "set" => call[t][3] \in Value
BY DEF Types, TypeOK, Calls, Op, ArgKey

\* What a call of load_file brings.
LEMMA ArchiveShape ==
  ASSUME NEW c \in Calls, c[1] = "load"
  PROVE  c[2] \in Archives /\ DOMAIN c[2] \subseteq Key /\ IsFiniteSet(DOMAIN c[2])
<1>1. PICK D \in Archives : c = <<"load", D>> BY DEF Calls
<1>2. PICK K \in SUBSET Key : IsFiniteSet(K) /\ D \in [K -> Value]
  BY SkipListAssumption
<1>. QED BY <1>1, <1>2

LEMMA CallKeeps ==
  ASSUME Inv, NEW t \in Thread, Call(t)
  PROVE  Inv'
<1>0. /\ Types /\ Mutexes /\ pc[t] = "idle" /\ Header \in live /\ m_mtx = Absent /\ m_mtx' = t
      /\ UNCHANGED <<list, _mtx, update, oldValue, answer>>
      /\ answer[t] = NoAnswer
  BY DEF Inv, Call, LockServer, CallFits
<1>1. _mtx = Absent /\ _mtx' = Absent /\ \A u \in Thread : pc[u] = "idle"
  BY <1>0, Nobody
<1>2. PICK c, p :
        /\ c \in Calls
        /\ call' = [call EXCEPT ![t] = c] /\ pc' = [pc EXCEPT ![t] = p]
        /\ \/ c[1] \in {"get", "set"} /\ p = "search"
           \/ c[1] = "delete" /\ p = "delete"
           \/ c[1] = "dump" /\ p = "dump"
           \/ c[1] = "load" /\ p = "load"
  <2>. DEFINE Does(c, p) == call' = [call EXCEPT ![t] = c] /\ pc' = [pc EXCEPT ![t] = p]
  <2>1. \/ \E k \in Key : Does(<<"get", k>>, "search")
        \/ \E k \in Key, v \in Value : Does(<<"set", k, v>>, "search")
        \/ \E k \in Key : Does(<<"delete", k>>, "delete")
        \/ Does(<<"dump">>, "dump")
        \/ \E D \in Archives : Does(<<"load", D>>, "load")
    BY Zenon DEF Call, Goto
  <2>2. /\ \A k \in Key : <<"get", k>> \in Calls /\ <<"get", k>>[1] = "get"
        /\ \A k \in Key, v \in Value : <<"set", k, v>> \in Calls /\ <<"set", k, v>>[1] = "set"
        /\ \A k \in Key : <<"delete", k>> \in Calls /\ <<"delete", k>>[1] = "delete"
        /\ <<"dump">> \in Calls /\ <<"dump">>[1] = "dump"
        /\ \A D \in Archives : <<"load", D>> \in Calls /\ <<"load", D>>[1] = "load"
    BY DEF Calls
  <2>3. CASE \E k \in Key : Does(<<"get", k>>, "search")
    BY <2>2, <2>3
  <2>4. CASE \E k \in Key, v \in Value : Does(<<"set", k, v>>, "search")
    BY <2>2, <2>4
  <2>5. CASE \E k \in Key : Does(<<"delete", k>>, "delete")
    BY <2>2, <2>5
  <2>6. CASE Does(<<"dump">>, "dump")
    BY <2>2, <2>6
  <2>7. CASE \E D \in Archives : Does(<<"load", D>>, "load")
    BY <2>2, <2>7
  <2>. QED BY <2>1, <2>3, <2>4, <2>5, <2>6, <2>7
<1>3. current' = [current EXCEPT ![t] = Header] BY DEF Call
<1>4. lvl' = [lvl EXCEPT ![t] = IF p = "search" THEN _skip_list_level ELSE 0]
  <2>1. pc'[t] = p BY <1>0, <1>2 DEF Types, TypeOK
  <2>. QED BY <2>1 DEF Call
<1>5. PICK K : K = Brought(c) OBVIOUS
<1>6. K \subseteq Key /\ IsFiniteSet(K) /\ (c[1] # "load" => K = {})
      /\ (c[1] = "load" => K = DOMAIN c[2])
  BY <1>2, <1>5, ArchiveShape, FS_EmptySet DEF Brought
<1>7. todo' = [todo EXCEPT ![t] = InOrder(K)]
  <2>1. call'[t] = c BY <1>0, <1>2 DEF Types, TypeOK
  <2>. QED BY <1>5, <2>1 DEF Call
<1>8. PICK s : /\ s \in [1 .. Cardinality(K) -> K] /\ s \in Seq(K)
               /\ todo' = [todo EXCEPT ![t] = s]
  <2>1. Cardinality(K) \in Nat BY <1>6, FS_CardinalityType
  <2>2. InOrder(K) \in [1 .. Cardinality(K) -> K] BY <1>6, Distinct, InOrderLists
  <2>3. InOrder(K) \in Seq(K) BY <2>1, <2>2
  <2>. QED BY <1>7, <2>2, <2>3
<1>9. p # "load" => s \in Seq(Key \X Value) /\ DOMAIN s = {}
  <2>1. SUFFICES ASSUME p # "load" PROVE s \in Seq(Key \X Value) /\ DOMAIN s = {}
    OBVIOUS
  <2>2. K = {} BY <1>2, <1>6, <2>1
  <2>3. Cardinality(K) = 0 BY <2>2, FS_EmptySet
  <2>4. s \in [1 .. 0 -> Key \X Value] BY <1>8, <2>2, <2>3
  <2>. QED BY <2>4
<1>10. /\ pc'[t] = p /\ call'[t] = c /\ current'[t] = Header /\ answer'[t] = NoAnswer
       /\ lvl'[t] = (IF p = "search" THEN _skip_list_level ELSE 0) /\ todo'[t] = s
       /\ m_mtx'[t] = m_mtx'[t]
  BY <1>0, <1>2, <1>3, <1>4, <1>8 DEF Types, TypeOK
<1>11. OnlyThread(t)
  BY <1>0, <1>2, <1>8 DEF OnlyThread, Types, TypeOK
<1>12. Types'
  <2>1. p \in {"idle", "search", "delete", "unlink", "insert", "link",
               "dump", "load", "return"}
    BY <1>2
  <2>2. _skip_list_level \in 0 .. MaxLevel + 1 /\ 0 \in 0 .. MaxLevel + 1 /\ Header \in Pointer
    BY <1>0, Distinct DEF Types, TypeOK, Level, Pointer, Slot
  <2>3. lvl' \in [Thread -> 0 .. MaxLevel + 1] BY <1>0, <1>4, <2>2 DEF Types, TypeOK
  <2>4. current' \in [Thread -> Pointer] BY <1>0, <1>3, <2>2 DEF Types, TypeOK
  <2>5. pc' \in [Thread -> {"idle", "search", "delete", "unlink", "insert", "link",
                        "dump", "load", "return"}]
    BY <1>0, <1>2, <2>1 DEF Types, TypeOK
  <2>6. call' \in [Thread -> Calls] BY <1>0, <1>2 DEF Types, TypeOK
  <2>7. todo' = [u \in Thread |-> todo'[u]] BY <1>0, <1>8 DEF Types
  <2>. QED BY <1>0, <2>3, <2>4, <2>5, <2>6, <2>7 DEF Types, TypeOK, Memory, list
<1>13. Mutexes'
  BY <1>0, <1>1, <1>2, <1>10, <1>11, Distinct DEF Mutexes, OnlyThread, list
<1>14. /\ \A i : On(i)' = On(i)
       /\ MemoryKept' /\ Keyed(node, Nodes)' /\ LevelsSorted' /\ HeightKept'
  BY <1>0, <1>1, ReaderLevels
<1>15. CallFits(t)'
  BY <1>2, <1>6, <1>8, <1>9, <1>10 DEF CallFits, Op
<1>16. SearchKept(t)'
  BY <1>0, <1>10 DEF SearchKept, Types, TypeOK
<1>17. DumpKept(t)'
  <2>1. p = "dump" => Passed(current[t])' = {} BY <1>10 DEF Passed
  <2>2. p = "dump" => PairsOf(Passed(current[t]))' = {} BY <2>1 DEF PairsOf
  <2>. QED BY <1>9, <1>10, <2>2 DEF DumpKept
<1>18. WriteKept(t)' /\ SetKept(t)'
  <2>1. p \notin {"link", "unlink", "insert"} /\ (p = "delete" => c[1] # "set")
    BY <1>2
  <2>. QED BY <1>10, <2>1 DEF WriteKept, SetKept, Op
<1>. QED BY <1>0, <1>11, <1>12, <1>13, <1>14, <1>15, <1>16, <1>17, <1>18, ThreadKeeps
         DEF Locals

\* A thread that is busy outside the pointer updates finds _mtx free.
LEMMA Reading ==
  ASSUME Inv, NEW t \in Thread, pc[t] \notin {"idle", "link", "unlink"}
  PROVE  /\ Types /\ Mutexes /\ Structure /\ Locals(t)
         /\ m_mtx = t /\ _mtx = Absent /\ Header \in live
         /\ \A u \in Thread \ {t} : pc[u] = "idle"
<1>1. Types /\ Mutexes /\ Structure /\ Locals(t)
  BY DEF Inv, Structure, Locals
<1>2. m_mtx = t BY <1>1 DEF Mutexes
<1>. QED BY <1>1, <1>2, Alone

LEMMA ReturnKeeps ==
  ASSUME Inv, NEW t \in Thread, Return(t)
  PROVE  Inv'
<1>0. /\ Types /\ Mutexes /\ pc[t] = "return" /\ m_mtx = t /\ _mtx = Absent
      /\ \A u \in Thread \ {t} : pc[u] = "idle"
  BY Reading DEF Return
<1>1. /\ m_mtx' = Absent /\ _mtx' = Absent /\ UNCHANGED list
      /\ pc' = [pc EXCEPT ![t] = "idle"]
      /\ call' = [call EXCEPT ![t] = <<"none">>]
      /\ answer' = [answer EXCEPT ![t] = NoAnswer]
      /\ current' = [current EXCEPT ![t] = NULL]
      /\ lvl' = [lvl EXCEPT ![t] = 0]
      /\ update' = [update EXCEPT ![t] = NullPointers]
      /\ oldValue' = [oldValue EXCEPT ![t] = Absent]
      /\ todo' = [todo EXCEPT ![t] = <<>>]
  BY <1>0 DEF Return, Goto, NoAnswer
<1>2. pc'[t] = "idle" /\ call'[t] = <<"none">> /\ answer'[t] = NoAnswer
  BY <1>0, <1>1 DEF Types, TypeOK
<1>3. OnlyThread(t) BY <1>0, <1>1 DEF OnlyThread, Types, TypeOK
<1>4. Types'
  <2>1. NULL \in Pointer /\ NullPointers \in [Level -> Pointer] /\ 0 \in 0 .. MaxLevel + 1
        /\ <<"none">> \in Calls
    BY Distinct DEF Pointer, NullPointers, Calls
  <2>2. current' \in [Thread -> Pointer] BY <1>0, <1>1, <2>1 DEF Types, TypeOK
  <2>3. update' \in [Thread -> [Level -> Pointer]] BY <1>0, <1>1, <2>1 DEF Types, TypeOK
  <2>4. call' \in [Thread -> Calls] BY <1>0, <1>1, <2>1 DEF Types, TypeOK
  <2>5. lvl' \in [Thread -> 0 .. MaxLevel + 1] BY <1>0, <1>1, <2>1 DEF Types, TypeOK
  <2>6. /\ answer' = [u \in Thread |-> answer'[u]] /\ todo' = [u \in Thread |-> todo'[u]]
        /\ oldValue' \in [Thread -> Value \union {Absent}]
    BY <1>0, <1>1 DEF Types
  <2>7. pc' \in [Thread -> {"idle", "search", "delete", "unlink", "insert", "link",
                        "dump", "load", "return"}]
    BY <1>0, <1>1 DEF Types, TypeOK
  <2>. QED BY <1>0, <1>1, <2>2, <2>3, <2>4, <2>5, <2>6, <2>7 DEF Types, TypeOK, Memory, list
<1>5. Mutexes'
  BY <1>0, <1>1, <1>2, <1>3, Distinct DEF Mutexes, OnlyThread, list
<1>6. /\ \A i : On(i)' = On(i)
      /\ MemoryKept' /\ Keyed(node, Nodes)' /\ LevelsSorted' /\ HeightKept'
  BY <1>0, <1>1, ReaderLevels
<1>7. Locals(t)'
  <2>1. CallFits(t)' BY <1>2 DEF CallFits, Op
  <2>2. SearchKept(t)' /\ DumpKept(t)' /\ WriteKept(t)' /\ SetKept(t)'
    BY <1>2 DEF SearchKept, DumpKept, WriteKept, SetKept
  <2>. QED BY <2>1, <2>2 DEF Locals
<1>. QED BY <1>0, <1>3, <1>4, <1>5, <1>6, <1>7, ThreadKeeps

LEMMA SearchHopKeeps ==
  ASSUME Inv, NEW t \in Thread, SearchHop(t)
  PROVE  Inv'
<1>. DEFINE n == Next_(current[t], lvl[t])
<1>0. /\ Types /\ Mutexes /\ pc[t] = "search" /\ m_mtx = t /\ _mtx = Absent
      /\ Structure /\ Header \in live /\ Locals(t)
      /\ \A u \in Thread \ {t} : pc[u] = "idle"
  BY Reading DEF SearchHop
<1>1. /\ UNCHANGED <<list, _mtx, m_mtx, pc, call, update, oldValue, todo, answer>>
      /\ \/ /\ Before(n, ArgKey(t))
            /\ current' = [current EXCEPT ![t] = n]
            /\ UNCHANGED lvl
         \/ /\ lvl[t] > 0
            /\ lvl' = [lvl EXCEPT ![t] = lvl[t] - 1]
            /\ UNCHANGED current
  BY DEF SearchHop
<1>2. /\ lvl[t] \in Level /\ current[t] \in On(lvl[t]) \union {Header}
      /\ current[t] # Header => node[current[t]].key < ArgKey(t)
  BY <1>0 DEF Locals, SearchKept
<1>3. n \in On(lvl[t]) \union {NULL} /\ On(lvl[t]) \subseteq Slot
  BY <1>0, <1>2, OnLevel DEF Sorted, Next_
<1>. HIDE DEF n
<1>4. Types'
  <2>1. n \in Pointer BY <1>3 DEF Pointer
  <2>2. current' \in [Thread -> Pointer]
    <3>1. current \in [Thread -> Pointer] BY <1>0 DEF Types, TypeOK
    <3>. QED BY <1>1, <2>1, <3>1
  <2>3. lvl' \in [Thread -> 0 .. MaxLevel + 1]
    <3>1. lvl[t] \in 0 .. MaxLevel + 1 /\ MaxLevel \in Nat BY <1>0, Distinct DEF Types, TypeOK
    <3>2. lvl[t] > 0 => lvl[t] - 1 \in 0 .. MaxLevel + 1 BY <3>1
    <3>3. lvl \in [Thread -> 0 .. MaxLevel + 1] BY <1>0 DEF Types, TypeOK
    <3>. QED BY <1>1, <3>2, <3>3
  <2>. QED BY <1>0, <1>1, <2>2, <2>3 DEF Types, TypeOK, Memory, list
<1>5. OnlyThread(t) BY <1>1 DEF OnlyThread
<1>6. Mutexes' BY <1>0, <1>1 DEF Mutexes, list
<1>7. /\ \A i : On(i)' = On(i)
      /\ MemoryKept' /\ Keyed(node, Nodes)' /\ LevelsSorted' /\ HeightKept'
  BY <1>0, <1>1, ReaderLevels
<1>8. SearchKept(t)'
  <2>1. CASE Before(n, ArgKey(t)) /\ current' = [current EXCEPT ![t] = n] /\ UNCHANGED lvl
    <3>1. n \in On(lvl[t]) /\ node[n].key < ArgKey(t) BY <1>3, <2>1 DEF Before
    <3>2. current'[t] = n BY <1>0, <2>1 DEF Types, TypeOK
    <3>. QED BY <1>1, <1>2, <1>7, <2>1, <3>1, <3>2 DEF SearchKept, ArgKey, list
  <2>2. CASE lvl[t] > 0 /\ lvl' = [lvl EXCEPT ![t] = lvl[t] - 1] /\ UNCHANGED current
    <3>1. lvl[t] - 1 \in Level /\ lvl[t] - 1 <= lvl[t]
      BY <1>2, <2>2, Distinct DEF Level
    <3>2. lvl'[t] = lvl[t] - 1 BY <1>0, <2>2 DEF Types, TypeOK
    <3>3. On(lvl[t]) \subseteq On(lvl[t] - 1) BY <1>0, <1>2, <3>1, QuietLevels
    <3>. QED BY <1>1, <1>2, <1>7, <2>2, <3>1, <3>2, <3>3 DEF SearchKept, ArgKey, list
  <2>. QED BY <1>1, <2>1, <2>2
<1>9. Locals(t)'
  <2>1. CallFits(t)' BY <1>0, <1>1 DEF Locals, CallFits, Op
  <2>2. DumpKept(t)' /\ WriteKept(t)' /\ SetKept(t)'
    BY <1>0, <1>1 DEF DumpKept, WriteKept, SetKept
  <2>. QED BY <1>8, <2>1, <2>2 DEF Locals
<1>. QED BY <1>0, <1>4, <1>5, <1>6, <1>7, <1>9, ThreadKeeps

\* At the end of the search on level 0 the next node is the key's or there is none.
LEMMA SearchFinds ==
  ASSUME Inv, NEW t \in Thread, pc[t] = "search", lvl[t] = 0,
         ~Before(Next_(current[t], 0), ArgKey(t))
  PROVE  /\ ArgKey(t) \in Key
         /\ Next_(current[t], 0) \in On(0) \union {NULL}
         /\ Holds(Next_(current[t], 0), ArgKey(t)) => Next_(current[t], 0) \in On(0)
         /\ ~Holds(Next_(current[t], 0), ArgKey(t))
              => \A m \in On(0) : node[m].key # ArgKey(t)
<1>. DEFINE n == Next_(current[t], 0)
            k == ArgKey(t)
<1>0. Types /\ Structure /\ Header \in live /\ _mtx = Absent /\ CallFits(t) /\ SearchKept(t)
  BY Reading DEF Locals
<1>1. k \in Key BY <1>0, CallShape DEF CallFits
<1>2. 0 \in Level BY Distinct DEF Level
<1>3. Keyed(node, On(0)) /\ Sorted(node, On(0), 0) BY <1>0, <1>2, OnLevel
<1>4. /\ current[t] \in On(0) \union {Header}
      /\ current[t] # Header => node[current[t]].key < k
  BY <1>0 DEF SearchKept
<1>5. n \in On(0) \union {NULL} /\ \A p \in On(0) : Follows(node, current[t], p) =>
                                     n # NULL /\ node[n].key <= node[p].key
  BY <1>3, <1>4 DEF Sorted, Next_
<1>6. ASSUME NEW m \in On(0), node[m].key = k PROVE Holds(n, k)
  <2>1. Follows(node, current[t], m) BY <1>4, <1>6 DEF Follows
  <2>2. n # NULL /\ node[n].key <= k /\ n \in On(0) BY <1>5, <1>6, <2>1
  <2>3. ~(node[n].key < k) BY <2>2 DEF Before
  <2>4. node[n].key \in Int /\ k \in Int BY <1>1, <1>3, <2>2, Distinct DEF Keyed
  <2>5. node[n].key = k
    <3>. HIDE DEF n, k
    <3>. QED BY <2>2, <2>3, <2>4
  <2>. QED BY <2>2, <2>5 DEF Holds
<1>. QED BY <1>1, <1>5, <1>6 DEF Holds

LEMMA SearchEndKeeps ==
  ASSUME Inv, NEW t \in Thread, SearchEnd(t)
  PROVE  Inv'
<1>. DEFINE n == Next_(current[t], 0)
            found == Holds(n, ArgKey(t))
            value == IF found THEN node[n].value ELSE Absent
            ans == [type |-> "found", key |-> ArgKey(t), value |-> value]
<1>0. /\ Types /\ Mutexes /\ pc[t] = "search" /\ m_mtx = t /\ _mtx = Absent
      /\ Structure /\ Header \in live /\ Locals(t) /\ lvl[t] = 0
      /\ \A u \in Thread \ {t} : pc[u] = "idle"
  BY Reading DEF SearchEnd
<1>1. /\ UNCHANGED <<list, _mtx, m_mtx, call, current, lvl, update, todo>>
      /\ ~Before(n, ArgKey(t))
      /\ oldValue' = [oldValue EXCEPT ![t] = value]
      /\ \/ /\ Op(t) = "get"
            /\ answer' = [answer EXCEPT ![t] = ans]
            /\ pc' = [pc EXCEPT ![t] = "return"]
         \/ /\ Op(t) = "set"
            /\ pc' = [pc EXCEPT ![t] = IF found THEN "delete" ELSE "insert"]
            /\ UNCHANGED answer
  BY DEF SearchEnd, Answer, Goto
<1>2. /\ found => n \in On(0)
      /\ ~found => \A m \in On(0) : node[m].key # ArgKey(t)
      /\ ArgKey(t) \in Key
  BY <1>0, <1>1, SearchFinds
<1>3. ans # NoAnswer
  <2>1. ans.type = "found" /\ NoAnswer.type = "none" BY DEF NoAnswer
  <2>. QED BY <2>1
<1>4. 0 \in Level /\ On(0) = Nodes
  <2>1. 0 \in Level BY Distinct DEF Level
  <2>2. On(0) = {m \in Nodes : 0 <= node[m].node_level} BY <1>0, <2>1, QuietLevels
  <2>3. \A m \in Nodes : node[m].node_level \in Level
    BY <1>0, <2>1, OnLevel DEF Types, Memory
  <2>. QED BY <2>1, <2>2, <2>3 DEF Level
<1>5. value \in Value \union {Absent}
  BY <1>0, <1>2, <1>4 DEF Structure, MemoryKept
<1>6. /\ \A i : On(i)' = On(i)
      /\ MemoryKept' /\ Keyed(node, Nodes)' /\ LevelsSorted' /\ HeightKept'
  BY <1>0, <1>1, ReaderLevels
<1>. HIDE DEF ans
<1>7. OnlyThread(t) BY <1>0, <1>1 DEF OnlyThread, Types, TypeOK
<1>8. pc'[t] \in {"return", "delete", "insert"}
  BY <1>0, <1>1 DEF Types, TypeOK
<1>9. Types'
  <2>1. pc' \in [Thread -> {"idle", "search", "delete", "unlink", "insert", "link",
                        "dump", "load", "return"}]
    BY <1>0, <1>1 DEF Types, TypeOK
  <2>2. answer' = [u \in Thread |-> answer'[u]] BY <1>0, <1>1 DEF Types
  <2>3. oldValue' \in [Thread -> Value \union {Absent}] BY <1>0, <1>1, <1>5 DEF Types
  <2>. QED BY <1>0, <1>1, <2>1, <2>2, <2>3 DEF Types, TypeOK, Memory, list
<1>10. Mutexes' BY <1>0, <1>1, <1>7, <1>8 DEF Mutexes, OnlyThread, list
<1>11. CallFits(t)'
  <2>1. answer[t] = NoAnswer BY <1>0 DEF Locals, CallFits
  <2>2. CASE Op(t) = "get"
    <3>1. pc'[t] = "return" /\ answer'[t] = ans BY <1>0, <1>1, <2>2 DEF Types, TypeOK
    <3>2. call' = call /\ todo' = todo BY <1>1
    <3>. QED BY <1>3, <2>2, <3>1, <3>2 DEF CallFits, Op
  <2>3. CASE Op(t) = "set"
    <3>1. pc'[t] \in {"delete", "insert"} /\ answer'[t] = NoAnswer
      BY <1>0, <1>1, <2>1, <2>3 DEF Types, TypeOK
    <3>2. call' = call /\ todo' = todo BY <1>1
    <3>. QED BY <2>3, <3>1, <3>2 DEF CallFits, Op
  <2>. QED BY <1>1, <2>2, <2>3
<1>12. SearchKept(t)' /\ DumpKept(t)' /\ WriteKept(t)'
  BY <1>8 DEF SearchKept, DumpKept, WriteKept
<1>13. SetKept(t)'
  <2>1. SUFFICES ASSUME Op(t) = "set" PROVE SetKept(t)'
    BY <1>1 DEF SetKept, Op
  <2>2. pc'[t] = (IF found THEN "delete" ELSE "insert") /\ oldValue'[t] = value
    BY <1>0, <1>1, <2>1 DEF Types, TypeOK
  <2>3. /\ node' = node /\ Nodes' = Nodes /\ ArgKey(t)' = ArgKey(t)
    BY <1>1 DEF list, Nodes, ArgKey
  <2>4. CASE found
    <3>1. n \in Nodes /\ node[n].key = ArgKey(t) /\ node[n].value = value
      BY <1>2, <1>4, <2>4 DEF Holds
    <3>. HIDE DEF n, value
    <3>. QED BY <2>2, <2>3, <2>4, <3>1 DEF SetKept
  <2>5. CASE ~found
    BY <1>2, <1>4, <2>2, <2>3, <2>5 DEF SetKept
  <2>. QED BY <2>4, <2>5
<1>. QED BY <1>0, <1>6, <1>7, <1>9, <1>10, <1>11, <1>12, <1>13, ThreadKeeps DEF Locals

\* Between two operations every node is on level 0.
LEMMA LevelZero ==
  ASSUME Structure, _mtx = Absent
  PROVE  0 \in Level /\ On(0) = Nodes
<1>1. 0 \in Level BY Distinct DEF Level
<1>2. On(0) = {m \in Nodes : 0 <= node[m].node_level} BY <1>1, QuietLevels
<1>3. \A m \in Nodes : node[m].node_level \in Level
  BY <1>1, OnLevel DEF Structure, Types, Memory
<1>. QED BY <1>1, <1>2, <1>3 DEF Level

Elements(s) == {s[i] : i \in DOMAIN s}

LEMMA AppendElements ==
  ASSUME NEW T, NEW s \in Seq(T), NEW e \in T
  PROVE  Append(s, e) \in Seq(T) /\ Elements(Append(s, e)) = Elements(s) \union {e}
<1>1. Append(s, e) \in Seq(T) OBVIOUS
<1>2. DOMAIN Append(s, e) = 1 .. Len(s) + 1 /\ DOMAIN s = 1 .. Len(s) /\ Len(s) \in Nat
  OBVIOUS
<1>3. \A i \in 1 .. Len(s) : Append(s, e)[i] = s[i] OBVIOUS
<1>4. Append(s, e)[Len(s) + 1] = e OBVIOUS
<1>5. 1 .. Len(s) + 1 = (1 .. Len(s)) \union {Len(s) + 1} BY <1>2
<1>. QED BY <1>1, <1>2, <1>3, <1>4, <1>5 DEF Elements

\* What dump_file came past grows by the node it goes on to.
LEMMA DumpHop ==
  ASSUME Structure, Header \in live, NEW c \in On(0) \union {Header},
         Next_(c, 0) # NULL
  PROVE  /\ Next_(c, 0) \in On(0) /\ Next_(c, 0) # Header
         /\ Passed(Next_(c, 0)) = Passed(c) \union {Next_(c, 0)}
<1>. DEFINE n == Next_(c, 0)
<1>0. 0 \in Level BY Distinct DEF Level
<1>1. Sorted(node, On(0), 0) /\ Keyed(node, On(0)) BY <1>0, OnLevel
<1>2. /\ n \in On(0) /\ Follows(node, c, n)
      /\ \A p \in On(0) : Follows(node, c, p) => node[n].key <= node[p].key
  BY <1>1 DEF Sorted, Next_
<1>3. \A m \in On(0) : node[m].key \in Int /\ m # Header
  BY <1>1, Distinct DEF Keyed
<1>. HIDE DEF n
<1>4. ASSUME NEW m \in On(0), node[m].key <= node[n].key, m # n
      PROVE  c # Header /\ node[m].key <= node[c].key
  <2>1. node[m].key # node[n].key BY <1>1, <1>2, <1>4 DEF Keyed
  <2>2. ~Follows(node, c, m) BY <1>2, <1>3, <1>4, <2>1
  <2>. QED BY <1>3, <2>2 DEF Follows
<1>5. ASSUME NEW m \in On(0), c # Header, node[m].key <= node[c].key
      PROVE  node[m].key <= node[n].key
  <2>1. node[c].key < node[n].key /\ c \in On(0) BY <1>2, <1>5 DEF Follows
  <2>. QED BY <1>2, <1>3, <1>5, <2>1
<1>6. node[n].key <= node[n].key BY <1>2, <1>3
<1>7. {m \in On(0) : node[m].key <= node[n].key}
        = {m \in On(0) : c # Header /\ node[m].key <= node[c].key} \union {n}
  BY <1>2, <1>4, <1>5, <1>6
<1>8. n # Header /\ Passed(n) = Passed(c) \union {n}
  BY <1>2, <1>3, <1>7 DEF Passed
<1>. QED BY <1>2, <1>8 DEF n

LEMMA DumpKeeps ==
  ASSUME Inv, NEW t \in Thread, Dump(t)
  PROVE  Inv'
<1>. DEFINE n == Next_(current[t], 0)
            pairs == {todo[t][i] : i \in DOMAIN todo[t]}
            ans == [type |-> "dump", pairs |-> pairs]
            past == Passed(current[t])
            pair == <<node[n].key, node[n].value>>
            KV == Key \X Value
<1>0. /\ Types /\ Mutexes /\ pc[t] = "dump" /\ m_mtx = t /\ _mtx = Absent
      /\ Structure /\ Header \in live /\ Locals(t)
      /\ \A u \in Thread \ {t} : pc[u] = "idle"
  BY Reading DEF Dump
<1>1. /\ UNCHANGED <<list, _mtx, m_mtx, call, lvl, update, oldValue>>
      /\ \/ /\ n # NULL
            /\ current' = [current EXCEPT ![t] = n]
            /\ todo' = [todo EXCEPT ![t] = Append(todo[t], pair)]
            /\ UNCHANGED <<pc, answer>>
         \/ /\ n = NULL
            /\ answer' = [answer EXCEPT ![t] = ans]
            /\ pc' = [pc EXCEPT ![t] = "return"]
            /\ UNCHANGED <<current, todo>>
  BY DEF Dump, Answer, Goto
<1>2. /\ current[t] \in On(0) \union {Header}
      /\ pairs = PairsOf(past)
      /\ Op(t) = "dump" /\ todo[t] \in Seq(KV) /\ answer[t] = NoAnswer
  BY <1>0 DEF Locals, DumpKept, CallFits
<1>3. n # NULL => n \in On(0) /\ n # Header /\ n \in Slot /\ pair \in KV
  <2>1. SUFFICES ASSUME n # NULL
                 PROVE  n \in On(0) /\ n # Header /\ n \in Slot /\ pair \in KV
    OBVIOUS
  <2>2. n \in On(0) /\ n # Header BY <1>0, <1>2, <2>1, DumpHop
  <2>3. n \in Nodes /\ n \in Slot BY <1>0, <2>2, LevelZero, OnLevel
  <2>. HIDE DEF n
  <2>4. node[n].key \in Key /\ node[n].value \in Value
    BY <1>0, <2>3 DEF Structure, Keyed, MemoryKept
  <2>. QED BY <2>2, <2>3, <2>4
<1>4. ans # NoAnswer
  <2>1. ans.type = "dump" /\ NoAnswer.type = "none" BY DEF NoAnswer
  <2>. QED BY <2>1
<1>5. /\ \A i : On(i)' = On(i)
      /\ MemoryKept' /\ Keyed(node, Nodes)' /\ LevelsSorted' /\ HeightKept'
  BY <1>0, <1>1, ReaderLevels
<1>. HIDE DEF ans, n, pairs, past, pair, KV
<1>6. OnlyThread(t) BY <1>0, <1>1 DEF OnlyThread, Types, TypeOK
<1>7. Types'
  <2>1. pc' \in [Thread -> {"idle", "search", "delete", "unlink", "insert", "link",
                        "dump", "load", "return"}]
    <3>1. pc \in [Thread -> {"idle", "search", "delete", "unlink", "insert", "link",
                        "dump", "load", "return"}]
      BY <1>0 DEF Types, TypeOK
    <3>. QED BY <1>1, <3>1
  <2>2. answer' = [u \in Thread |-> answer'[u]] /\ todo' = [u \in Thread |-> todo'[u]]
    BY <1>0, <1>1 DEF Types
  <2>3. current' \in [Thread -> Pointer]
    <3>1. current \in [Thread -> Pointer] BY <1>0 DEF Types, TypeOK
    <3>. QED BY <1>1, <1>3, <3>1 DEF Pointer
  <2>. QED BY <1>0, <1>1, <2>1, <2>2, <2>3 DEF Types, TypeOK, Memory, list
<1>8. pc'[t] \in {"dump", "return"} BY <1>0, <1>1 DEF Types, TypeOK
<1>9. Mutexes' BY <1>0, <1>1, <1>6, <1>8 DEF Mutexes, OnlyThread, list
<1>10. CASE n # NULL
  <2>1. /\ pc'[t] = "dump" /\ answer'[t] = NoAnswer /\ current'[t] = n
        /\ todo'[t] = Append(todo[t], pair)
    BY <1>0, <1>1, <1>2, <1>10 DEF Types, TypeOK
  <2>2. /\ todo'[t] \in Seq(KV)
        /\ {todo'[t][i] : i \in DOMAIN todo'[t]} = pairs \union {pair}
    <3>1. todo[t] \in Seq(KV) /\ pair \in KV BY <1>2, <1>3, <1>10
    <3>2. /\ Append(todo[t], pair) \in Seq(KV)
          /\ Elements(Append(todo[t], pair)) = Elements(todo[t]) \union {pair}
      BY <3>1, AppendElements
    <3>. QED BY <2>1, <3>2, Zenon DEF pairs, Elements
  <2>3. Passed(n) = past \union {n}
    BY <1>0, <1>2, <1>10, DumpHop DEF n, past
  <2>4. CallFits(t)'
    BY <1>0, <1>1, <1>2, <2>1, <2>2 DEF CallFits, Op, KV
  <2>5. DumpKept(t)'
    <3>0. node' = node /\ On(0)' = On(0) BY <1>1, <1>5 DEF list
    <3>1. \A c : Passed(c)' = Passed(c) BY <3>0 DEF Passed
    <3>2. \A S : PairsOf(S)' = PairsOf(S) BY <3>0 DEF PairsOf
    <3>3. PairsOf(past \union {n}) = PairsOf(past) \union {pair} BY DEF PairsOf, pair
    <3>4. current'[t] \in On(0)' \union {Header} BY <1>3, <1>5, <1>10, <2>1
    <3>5. PairsOf(Passed(current[t]))' = pairs \union {pair}
      <4>1. PICK S : S = Passed(current[t])' OBVIOUS
      <4>2. PICK c : c = current'[t] OBVIOUS
      <4>3. S = Passed(c)' BY <4>1, <4>2
      <4>4. S = past \union {n} BY <2>1, <2>3, <3>1, <4>2, <4>3
      <4>5. PairsOf(Passed(current[t]))' = PairsOf(S)' BY <4>1
      <4>. QED BY <1>2, <3>2, <3>3, <4>4, <4>5
    <3>. QED BY <2>2, <3>4, <3>5 DEF DumpKept
  <2>6. SearchKept(t)' /\ WriteKept(t)' /\ SetKept(t)'
    BY <2>1 DEF SearchKept, WriteKept, SetKept
  <2>. QED BY <1>0, <1>5, <1>6, <1>7, <1>9, <2>4, <2>5, <2>6, ThreadKeeps DEF Locals
<1>11. CASE n = NULL
  <2>1. pc'[t] = "return" /\ answer'[t] = ans
    BY <1>0, <1>1, <1>11 DEF Types, TypeOK
  <2>2. CallFits(t)'
    BY <1>1, <1>2, <1>4, <2>1 DEF CallFits, Op
  <2>3. SearchKept(t)' /\ WriteKept(t)' /\ SetKept(t)' /\ DumpKept(t)'
    BY <2>1 DEF SearchKept, WriteKept, SetKept, DumpKept
  <2>. QED BY <1>0, <1>5, <1>6, <1>7, <1>9, <2>2, <2>3, ThreadKeeps DEF Locals
<1>. QED BY <1>10, <1>11

LEMMA StoredIsAnswer ==
  [type |-> "stored"] # NoAnswer
<1>1. [type |-> "stored"].type = "stored" /\ NoAnswer.type = "none" BY DEF NoAnswer
<1>. QED BY <1>1

LEMMA LoadKeeps ==
  ASSUME Inv, NEW t \in Thread, Load(t)
  PROVE  Inv'
<1>0. /\ Types /\ Mutexes /\ pc[t] = "load" /\ m_mtx = t /\ _mtx = Absent
      /\ Structure /\ Header \in live /\ Locals(t)
      /\ \A u \in Thread \ {t} : pc[u] = "idle"
  BY Reading DEF Load
<1>1. /\ UNCHANGED <<list, _mtx, m_mtx, call, current, lvl, update, oldValue, todo>>
      /\ \/ /\ todo[t] # <<>>
            /\ pc' = [pc EXCEPT ![t] = "insert"]
            /\ UNCHANGED answer
         \/ /\ answer' = [answer EXCEPT ![t] = [type |-> "stored"]]
            /\ pc' = [pc EXCEPT ![t] = "return"]
  BY DEF Load, Answer, Goto
<1>2. Op(t) = "load" /\ todo[t] \in Seq(DOMAIN call[t][2]) /\ answer[t] = NoAnswer
  BY <1>0 DEF Locals, CallFits
<1>3. /\ \A i : On(i)' = On(i)
      /\ MemoryKept' /\ Keyed(node, Nodes)' /\ LevelsSorted' /\ HeightKept'
  BY <1>0, <1>1, ReaderLevels
<1>4. OnlyThread(t) BY <1>0, <1>1 DEF OnlyThread, Types, TypeOK
<1>5. Types'
  <2>1. pc' \in [Thread -> {"idle", "search", "delete", "unlink", "insert", "link",
                        "dump", "load", "return"}]
    <3>1. pc \in [Thread -> {"idle", "search", "delete", "unlink", "insert", "link",
                        "dump", "load", "return"}]
      BY <1>0 DEF Types, TypeOK
    <3>. QED BY <1>1, <3>1
  <2>2. answer' = [u \in Thread |-> answer'[u]] BY <1>0, <1>1 DEF Types
  <2>. QED BY <1>0, <1>1, <2>1, <2>2 DEF Types, TypeOK, Memory, list
<1>6. \/ pc'[t] = "insert" /\ todo[t] # <<>> /\ answer'[t] = NoAnswer
      \/ pc'[t] = "return" /\ answer'[t] # NoAnswer
  BY <1>0, <1>1, <1>2, StoredIsAnswer DEF Types, TypeOK
<1>7. Mutexes' BY <1>0, <1>1, <1>4, <1>6 DEF Mutexes, OnlyThread, list
<1>8. Locals(t)'
  <2>1. CallFits(t)' BY <1>1, <1>2, <1>6 DEF CallFits, Op
  <2>2. SearchKept(t)' /\ WriteKept(t)' /\ DumpKept(t)'
    BY <1>6 DEF SearchKept, WriteKept, DumpKept
  <2>3. SetKept(t)' BY <1>1, <1>2 DEF SetKept, Op
  <2>. QED BY <2>1, <2>2, <2>3 DEF Locals
<1>. QED BY <1>0, <1>3, <1>4, <1>5, <1>7, <1>8, ThreadKeeps

-----------------------------------------------------------------------------
(* delete_element *)

\* What both writers find when they descend.
LEMMA DescentFinds ==
  ASSUME Structure, _mtx = Absent, Header \in live, NEW k \in Key
  PROVE  LET u == Predecessors(k)[0]
             n == Next_(u, 0)
         IN /\ u \in Nodes \union {Header}
            /\ n \in Nodes \union {NULL}
            /\ Holds(n, k) => n \in Nodes /\ node[n].key = k
            /\ ~Holds(n, k) => \A m \in Nodes : node[m].key # k
<1>. DEFINE u == Predecessors(k)[0]
            n == Next_(u, 0)
<1>0. 0 \in Level /\ On(0) = Nodes BY LevelZero
<1>1. 0 \in 0 .. _skip_list_level
  BY DEF Structure, Types, TypeOK, Level
<1>2. IsPred(node, On(0), k, u) BY <1>1, PredecessorsValue
<1>3. Keyed(node, On(0)) /\ Sorted(node, On(0), 0) BY <1>0, OnLevel
<1>4. /\ u \in Nodes \union {Header} /\ n \in Nodes \union {NULL}
      /\ \A p \in Nodes : node[p].key = k => n = p
  BY <1>0, <1>2, <1>3, PredNext DEF Next_
<1>5. NULL \notin Nodes BY <1>0, OnLevel, Distinct
<1>. HIDE DEF u, n
<1>6. /\ Holds(n, k) => n \in Nodes /\ node[n].key = k
      /\ ~Holds(n, k) => \A m \in Nodes : node[m].key # k
  BY <1>4, <1>5 DEF Holds
<1>. QED BY <1>4, <1>6 DEF n, u

LEMMA PredWithout ==
  ASSUME NEW nd, NEW S, Keyed(nd, S), NEW c, NEW k \in Key, k = nd[c].key, NEW u
  PROVE  IsPred(nd, S, k, u) <=> IsPred(nd, S \ {c}, k, u)
<1>1. k \in Int BY Distinct
<1>2. ~(k < k) BY <1>1
<1>3. c # Header \/ c \notin S BY Distinct DEF Keyed
<1>4. ASSUME IsPred(nd, S, k, u) PROVE IsPred(nd, S \ {c}, k, u)
  <2>1. u # Header => u # c BY <1>2, <1>4 DEF IsPred
  <2>. QED BY <1>4, <2>1 DEF IsPred
<1>5. ASSUME IsPred(nd, S \ {c}, k, u) PROVE IsPred(nd, S, k, u)
  BY <1>2, <1>5 DEF IsPred
<1>. QED BY <1>4, <1>5

LEMMA DeleteBeginKeeps ==
  ASSUME Inv, NEW t \in Thread, DeleteBegin(t)
  PROVE  Inv'
<1>. DEFINE k == ArgKey(t)
            preds == Predecessors(k)
            n == Next_(preds[0], 0)
<1>0. /\ Types /\ Mutexes /\ pc[t] = "delete" /\ m_mtx = t /\ _mtx = Absent
      /\ Structure /\ Header \in live /\ Locals(t)
      /\ \A u \in Thread \ {t} : pc[u] = "idle"
  BY Reading DEF DeleteBegin
<1>1. /\ UNCHANGED <<list, m_mtx, call, oldValue, todo>>
      /\ \/ /\ Holds(n, k)
            /\ _mtx' = t
            /\ update' = [update EXCEPT ![t] = preds]
            /\ current' = [current EXCEPT ![t] = n]
            /\ lvl' = [lvl EXCEPT ![t] = 0]
            /\ pc' = [pc EXCEPT ![t] = "unlink"]
            /\ UNCHANGED answer
         \/ /\ ~Holds(n, k)
            /\ \/ /\ Op(t) = "set" /\ pc' = [pc EXCEPT ![t] = "insert"]
                  /\ UNCHANGED answer
               \/ /\ Op(t) # "set" /\ pc' = [pc EXCEPT ![t] = "return"]
                  /\ answer' = [answer EXCEPT ![t] = [type |-> "stored"]]
            /\ UNCHANGED <<_mtx, update, current, lvl>>
  BY DEF DeleteBegin, AfterDelete, Answer, Goto
<1>2. /\ Op(t) \in {"set", "delete"} /\ k \in Key /\ answer[t] = NoAnswer
  BY <1>0, CallShape DEF Locals, CallFits
<1>3. /\ n \in Nodes \union {NULL}
      /\ Holds(n, k) => n \in Nodes /\ node[n].key = k
      /\ ~Holds(n, k) => \A m \in Nodes : node[m].key # k
  BY <1>0, <1>2, DescentFinds
<1>4. /\ preds \in [Level -> Pointer]
      /\ \A i \in 0 .. _skip_list_level : IsPred(node, On(i), k, preds[i])
  BY <1>0, <1>2, PredecessorsValue
<1>5. 0 \in Level /\ Nodes \subseteq Slot /\ 0 .. _skip_list_level \subseteq Level
      /\ \A i \in Level : Keyed(node, On(i))
  <2>1. 0 \in Level BY <1>0, LevelZero
  <2>2. Nodes \subseteq Slot BY <1>0, <2>1, OnLevel
  <2>3. 0 .. _skip_list_level \subseteq Level BY <1>0, Distinct DEF Types, TypeOK, Level
  <2>. QED BY <1>0, <2>1, <2>2, <2>3, OnLevel
<1>. HIDE DEF n, preds, k
<1>6. OnlyThread(t) BY <1>0, <1>1 DEF OnlyThread, Types, TypeOK
<1>7. CASE Holds(n, k)
  <2>1. /\ _mtx' = t /\ update' = [update EXCEPT ![t] = preds]
        /\ current' = [current EXCEPT ![t] = n] /\ lvl' = [lvl EXCEPT ![t] = 0]
        /\ pc' = [pc EXCEPT ![t] = "unlink"] /\ UNCHANGED answer
    BY <1>1, <1>7
  <2>2. /\ update'[t] = preds /\ current'[t] = n /\ lvl'[t] = 0 /\ pc'[t] = "unlink"
    BY <1>0, <2>1 DEF Types, TypeOK
  <2>3. Types'
    <3>1. n \in Pointer BY <1>3, <1>5 DEF Pointer
    <3>2. current' \in [Thread -> Pointer] BY <1>0, <2>1, <3>1 DEF Types, TypeOK
    <3>3. lvl' \in [Thread -> 0 .. MaxLevel + 1] BY <1>0, <2>1, Distinct DEF Types, TypeOK
    <3>4. update' \in [Thread -> [Level -> Pointer]] BY <1>0, <1>4, <2>1 DEF Types, TypeOK
    <3>5. pc' \in [Thread -> {"idle", "search", "delete", "unlink", "insert", "link",
                        "dump", "load", "return"}]
      BY <1>0, <2>1 DEF Types, TypeOK
    <3>. QED BY <1>0, <1>1, <2>1, <3>2, <3>3, <3>4, <3>5 DEF Types, TypeOK, Memory, list
  <2>4. Mutexes' BY <1>0, <1>1, <1>6, <2>1, <2>2, Distinct DEF Mutexes, OnlyThread, list
  <2>5. \A i \in Level : On(i)' = On(i)
    <3>1. Nodes' = Nodes /\ node' = node BY <1>1 DEF Nodes, list
    <3>2. \A i \in Level : \A m : ~Off(m, i)' BY <2>1, <2>2 DEF Off, Level
    <3>3. \A i \in Level : \A m : ~Off(m, i) BY <1>0 DEF Off
    <3>. QED BY <3>1, <3>2, <3>3 DEF On
  <2>6. MemoryKept' /\ Keyed(node, Nodes)' /\ LevelsSorted' /\ HeightKept'
    <3>1. Linking' = Linking BY <1>0, <2>1, <2>2 DEF Linking
    <3>. QED BY <1>0, <1>1, <2>5, <3>1, ListKept DEF Inv
  <2>7. CallFits(t)' BY <1>1, <1>2, <2>1, <2>2 DEF CallFits, Op
  <2>8. WriteKept(t)'
    <3>0. /\ node' = node /\ Nodes' = Nodes /\ _skip_list_level' = _skip_list_level
          /\ ArgKey(t)' = k
      BY <1>1 DEF list, Nodes, ArgKey, k
    <3>1. n \in Nodes /\ node[n].key = k BY <1>3, <1>7
    <3>2. 0 \in 0 .. node[n].node_level + 1
      BY <1>0, <1>5, <3>1, Distinct DEF Types, Memory, Level
    <3>3. \A i \in 0 .. _skip_list_level : IsPred(node, On(i) \ {n}, node[n].key, preds[i])
      BY <1>2, <1>4, <1>5, <3>1, PredWithout
    <3>4. \A i \in 0 .. _skip_list_level : On(i)' = On(i)
      BY <1>5, <2>5
    <3>. QED BY <2>2, <3>0, <3>1, <3>2, <3>3, <3>4 DEF WriteKept
  <2>9. SetKept(t)'
    <3>1. SUFFICES ASSUME Op(t) = "set" PROVE SetKept(t)'
      BY <1>1 DEF SetKept, Op
    <3>2. PICK m \in Nodes : node[m].key = k /\ node[m].value = oldValue[t]
      BY <1>0, <3>1 DEF Locals, SetKept, k
    <3>3. m = n BY <1>0, <1>3, <1>7, <3>2 DEF Structure, Keyed
    <3>. QED BY <1>1, <2>2, <3>2, <3>3 DEF SetKept, list
  <2>10. SearchKept(t)' /\ DumpKept(t)' BY <2>2 DEF SearchKept, DumpKept
  <2>. QED BY <1>0, <1>6, <2>3, <2>4, <2>6, <2>7, <2>8, <2>9, <2>10, ThreadKeeps DEF Locals
<1>8. CASE ~Holds(n, k)
  <2>1. /\ UNCHANGED <<_mtx, update, current, lvl>>
        /\ \/ /\ Op(t) = "set" /\ pc' = [pc EXCEPT ![t] = "insert"]
              /\ UNCHANGED answer
           \/ /\ Op(t) # "set" /\ pc' = [pc EXCEPT ![t] = "return"]
              /\ answer' = [answer EXCEPT ![t] = [type |-> "stored"]]
    BY <1>1, <1>8
  <2>2. \/ Op(t) = "set" /\ pc'[t] = "insert" /\ answer'[t] = NoAnswer
        \/ Op(t) # "set" /\ pc'[t] = "return" /\ answer'[t] # NoAnswer
    BY <1>0, <1>2, <2>1, StoredIsAnswer DEF Types, TypeOK
  <2>3. Types'
    <3>1. pc' \in [Thread -> {"idle", "search", "delete", "unlink", "insert", "link",
                        "dump", "load", "return"}]
      BY <1>0, <2>1 DEF Types, TypeOK
    <3>2. answer' = [u \in Thread |-> answer'[u]] BY <1>0, <2>1 DEF Types
    <3>. QED BY <1>0, <1>1, <2>1, <3>1, <3>2 DEF Types, TypeOK, Memory, list
  <2>4. Mutexes' BY <1>0, <1>1, <1>6, <2>1, <2>2 DEF Mutexes, OnlyThread, list
  <2>5. MemoryKept' /\ Keyed(node, Nodes)' /\ LevelsSorted' /\ HeightKept'
    BY <1>0, <1>1, <2>1, ReaderLevels
  <2>6. CallFits(t)' BY <1>1, <1>2, <2>2 DEF CallFits, Op
  <2>7. SetKept(t)'
    BY <1>1, <1>3, <1>8, <2>2 DEF SetKept, Op, ArgKey, k, list, Nodes
  <2>8. SearchKept(t)' /\ DumpKept(t)' /\ WriteKept(t)'
    BY <2>2 DEF SearchKept, DumpKept, WriteKept
  <2>. QED BY <1>0, <1>6, <2>3, <2>4, <2>5, <2>6, <2>7, <2>8, ThreadKeeps DEF Locals
<1>. QED BY <1>7, <1>8

-----------------------------------------------------------------------------
(* The pointer updates *)

Write(nd, u, i, v) == [nd EXCEPT ![u].forward[i] = v]

\* One forward pointer is written.
LEMMA OneWrite ==
  ASSUME NEW nd \in Memory, NEW u \in Slot, NEW i \in Level, NEW v \in Pointer,
         NEW nd2, nd2 = Write(nd, u, i, v)
  PROVE  /\ nd2 \in Memory
         /\ \A m \in Slot : /\ nd2[m].key = nd[m].key /\ nd2[m].value = nd[m].value
                            /\ nd2[m].node_level = nd[m].node_level
                            /\ m # u => nd2[m] = nd[m]
         /\ \A m \in Slot, j \in Level :
              nd2[m].forward[j] = IF m = u /\ j = i THEN v ELSE nd[m].forward[j]
<1>. DEFINE            r == [nd[u] EXCEPT !.forward = [nd[u].forward EXCEPT ![i] = v]]
<1>1. /\ nd2 = [nd EXCEPT ![u] = r]
      /\ r.key = nd[u].key /\ r.value = nd[u].value /\ r.node_level = nd[u].node_level
      /\ r.forward = [nd[u].forward EXCEPT ![i] = v]
      /\ r \in [key : Key \union {Absent}, value : Value \union {Absent},
                node_level : Level, forward : [Level -> Pointer]]
  BY DEF Memory, Write
<1>2. \A j \in Level : r.forward[j] = IF j = i THEN v ELSE nd[u].forward[j]
  BY <1>1 DEF Memory
<1>. HIDE DEF r
<1>3. nd2 \in Memory /\ nd2[u] = r /\ \A m \in Slot : m # u => nd2[m] = nd[m]
  BY <1>1 DEF Memory
<1>4. \A m \in Slot : /\ nd2[m].key = nd[m].key /\ nd2[m].value = nd[m].value
                      /\ nd2[m].node_level = nd[m].node_level
  BY <1>1, <1>3
<1>5. \A m \in Slot, j \in Level :
         nd2[m].forward[j] = IF m = u /\ j = i THEN v ELSE nd[m].forward[j]
  BY <1>2, <1>3
<1>. QED BY <1>3, <1>4, <1>5

\* A thread inside the pointer updates holds both mutexes.
LEMMA Writing ==
  ASSUME Inv, NEW t \in Thread, pc[t] \in {"link", "unlink"}
  PROVE  /\ Types /\ Mutexes /\ Structure /\ HeightKept /\ Locals(t)
         /\ m_mtx = t /\ _mtx = t /\ Header \in live
         /\ \A u \in Thread \ {t} : pc[u] = "idle"
         /\ current[t] \in Nodes /\ current[t] \in Address /\ current[t] \in Slot
         /\ current[t] # NULL /\ current[t] # Header
         /\ node[current[t]].node_level \in Nat
         /\ node[current[t]].node_level <= _skip_list_level
         /\ _skip_list_level \in Nat /\ 0 .. _skip_list_level \subseteq Level
         /\ lvl[t] \in 0 .. node[current[t]].node_level + 1
         /\ \A j \in Level : Keyed(node, On(j)) /\ Keyed(node, On(j) \union {current[t]})
         /\ \A j \in 0 .. _skip_list_level :
              IsPred(node, On(j), node[current[t]].key, update[t][j])
<1>. DEFINE c == current[t]
<1>1. Types /\ Mutexes /\ Structure /\ HeightKept /\ Locals(t)
  BY DEF Inv, Structure, Locals
<1>2. m_mtx = t /\ _mtx = t BY <1>1 DEF Mutexes
<1>3. Header \in live /\ \A u \in Thread \ {t} : pc[u] = "idle"
  BY <1>1, <1>2, Alone
<1>4. /\ c \in Nodes /\ lvl[t] \in 0 .. node[c].node_level + 1
      /\ \A j \in 0 .. _skip_list_level :
           IsPred(node, On(j) \ {c}, node[c].key, update[t][j])
  BY <1>1 DEF Locals, WriteKept
<1>5. Nodes \subseteq Address /\ Nodes \subseteq Slot
  BY <1>1, Distinct, OnLevel DEF Level
<1>6. c \in Address /\ c \in Slot /\ c # NULL /\ c # Header /\ node[c].key \in Key
  BY <1>1, <1>4, <1>5, Distinct DEF Structure, Keyed
<1>7. node[c].node_level \in Nat /\ node[c].node_level <= _skip_list_level
  BY <1>1, <1>3, <1>4, <1>6 DEF Types, Memory, Level, HeightKept
<1>8. _skip_list_level \in Nat /\ 0 .. _skip_list_level \subseteq Level
  BY <1>1, Distinct DEF Types, TypeOK, Level
<1>9. \A j \in Level : Keyed(node, On(j)) /\ Keyed(node, On(j) \union {c})
  BY <1>1, <1>4, OnLevel DEF Structure, Keyed
<1>10. \A j \in 0 .. _skip_list_level : IsPred(node, On(j), node[c].key, update[t][j])
  BY <1>4, <1>6, <1>8, <1>9, PredWithout
<1>. QED BY <1>1, <1>2, <1>3, <1>4, <1>6, <1>7, <1>8, <1>9, <1>10

\* What both pointer updates have in common: level i was rewired in order, with
\* or without the current node, and nothing else changed.
LEMMA RewireKeeps ==
  ASSUME Inv, NEW t \in Thread, pc[t] \in {"link", "unlink"}, NEW i \in Level,
         i = lvl[t], i <= node[current[t]].node_level,
         UNCHANGED <<live, _skip_list_level, _element_count, _mtx, m_mtx, pc, call,
                     current, update, oldValue, todo, answer>>,
         lvl' = [lvl EXCEPT ![t] = i + 1],
         node' \in Memory,
         \A m \in Slot : /\ node'[m].key = node[m].key /\ node'[m].value = node[m].value
                         /\ node'[m].node_level = node[m].node_level,
         \A m \in Slot \ live : node'[m] = node[m],
         \A m \in Slot, j \in Level : j # i => node'[m].forward[j] = node[m].forward[j],
         \A m \in Nodes : i > node[m].node_level => node'[m].forward[i] = node[m].forward[i],
         Sorted(node', On(i)', i),
         \A j \in Level : /\ j # i => On(j)' = On(j)
                          /\ On(j)' \ {current[t]} = On(j) \ {current[t]}
  PROVE  Inv'
<1>. DEFINE c == current[t]
<1>0. /\ Types /\ Mutexes /\ Structure /\ HeightKept /\ Locals(t)
      /\ m_mtx = t /\ _mtx = t /\ Header \in live
      /\ c \in Nodes /\ c \in Slot /\ node[c].node_level \in Nat /\ lvl[t] \in Nat
      /\ 0 .. _skip_list_level \subseteq Level
      /\ Nodes \subseteq Slot /\ Nodes' = Nodes
  BY Writing, OnLevel DEF Nodes
<1>1. OnlyThread(t) BY DEF OnlyThread
<1>2. Types'
  <2>1. i + 1 \in 0 .. MaxLevel + 1 BY Distinct DEF Level
  <2>2. lvl \in [Thread -> 0 .. MaxLevel + 1] BY <1>0 DEF Types, TypeOK
  <2>3. lvl' \in [Thread -> 0 .. MaxLevel + 1] BY <2>1, <2>2
  <2>. QED BY <1>0, <2>3 DEF Types, TypeOK, Memory
<1>3. Mutexes' BY <1>0 DEF Mutexes
<1>4. MemoryKept'
  <2>1. \A m \in Slot \ live : node'[m] = Free BY <1>0 DEF Structure, MemoryKept
  <2>2. \A m \in Nodes : node'[m].value \in Value BY <1>0 DEF Structure, MemoryKept
  <2>3. ASSUME NEW m \in Nodes, NEW j \in Level, j > node[m].node_level
        PROVE  node'[m].forward[j] = NULL
    BY <1>0, <2>3 DEF Structure, MemoryKept, Next_
  <2>4. Header \in live' BY <1>0
  <2>. QED BY <1>0, <2>1, <2>2, <2>3, <2>4 DEF MemoryKept, Next_
<1>5. Keyed(node, Nodes)' BY <1>0 DEF Structure, Keyed
<1>6. LevelsSorted'
  <2>1. ASSUME NEW j \in Level PROVE Sorted(node', On(j)', j)
    <3>1. CASE j = i BY <3>1
    <3>2. CASE j # i
      <4>1. Sorted(node, On(j), j) /\ On(j) \subseteq Slot /\ On(j) \subseteq Address
        BY <1>0, OnLevel
      <4>2. \A n \in On(j) : node'[n].key = node[n].key BY <4>1
      <4>3. \A n \in On(j) \union {Header} : node'[n].forward[j] = node[n].forward[j]
        BY <3>2, <4>1 DEF Slot
      <4>4. NULL \notin On(j) BY <4>1, Distinct
      <4>5. Sorted(node', On(j), j) BY <4>1, <4>2, <4>3, <4>4, SortedFrame
      <4>. QED BY <3>2, <4>5
    <3>. QED BY <3>1, <3>2
  <2>. QED BY <2>1 DEF LevelsSorted
<1>7. HeightKept'
  <2>1. Linking' = Linking BY DEF Linking
  <2>. QED BY <1>0, <2>1 DEF HeightKept
<1>8. CallFits(t)' BY <1>0 DEF Locals, CallFits, Op
<1>9. WriteKept(t)'
  <2>1. lvl'[t] = i + 1 /\ current'[t] = c BY <1>0 DEF Types, TypeOK
  <2>2. i + 1 \in 0 .. node'[c].node_level + 1 BY <1>0
  <2>3. ASSUME NEW j \in 0 .. _skip_list_level
        PROVE  IsPred(node', On(j)' \ {c}, node'[c].key, update[t][j])
    <3>1. j \in Level BY <1>0
    <3>2. IsPred(node, On(j) \ {c}, node[c].key, update[t][j])
      BY <1>0 DEF Locals, WriteKept
    <3>3. On(j) \subseteq Slot /\ On(j)' \ {c} = On(j) \ {c} BY <1>0, <3>1, OnLevel
    <3>4. \A n \in On(j) \ {c} : node'[n].key = node[n].key BY <3>3
    <3>5. node'[c].key = node[c].key BY <1>0
    <3>6. IsPred(node', On(j) \ {c}, node[c].key, update[t][j])
      BY <3>2, <3>4, PredFrame
    <3>. QED BY <3>3, <3>5, <3>6
  <2>4. pc[t] = "unlink" => node'[c].key = ArgKey(t)
    BY <1>0 DEF Locals, WriteKept
  <2>5. pc[t] = "link" => <<node'[c].key, node'[c].value>> = Pair(t)
    BY <1>0 DEF Locals, WriteKept
  <2>6. ArgKey(t)' = ArgKey(t) /\ Pair(t)' = Pair(t) BY DEF ArgKey, Pair, Op
  <2>. QED BY <1>0, <2>1, <2>2, <2>3, <2>4, <2>5, <2>6 DEF WriteKept
<1>10. SetKept(t)'
  <2>1. node'[c].value = node[c].value BY <1>0
  <2>. QED BY <1>0, <2>1 DEF Locals, SetKept, Op
<1>11. SearchKept(t)' /\ DumpKept(t)' BY DEF SearchKept, DumpKept
<1>. QED BY <1>0, <1>1, <1>2, <1>3, <1>4, <1>5, <1>6, <1>7, <1>8, <1>9, <1>10, <1>11,
         ThreadKeeps DEF Locals

\* What Unlink does to the levels.
LEMMA UnlinkEffect ==
  ASSUME Inv, NEW t \in Thread, Unlink(t)
  PROVE  LET c == current[t]
             i == lvl[t]
             u == update[t][i]
         IN /\ i \in Level /\ i <= _skip_list_level /\ i <= node[c].node_level
            /\ c \in On(i) /\ u \in Slot
            /\ node' \in Memory
            /\ \A m \in Slot : /\ node'[m].key = node[m].key
                               /\ node'[m].value = node[m].value
                               /\ node'[m].node_level = node[m].node_level
                               /\ m # u => node'[m] = node[m]
            /\ \A m \in Slot, j \in Level :
                 node'[m].forward[j] = IF m = u /\ j = i THEN Next_(c, i) ELSE node[m].forward[j]
            /\ \A j \in Level : On(j)' = IF j = i THEN On(i) \ {c} ELSE On(j)
<1>. DEFINE c == current[t]
            i == lvl[t]
            u == update[t][i]
            v == Next_(c, i)
<1>0. pc[t] = "unlink" /\ i <= _skip_list_level /\ Next_(u, i) = c
  BY DEF Unlink, Linked
<1>1. /\ Types /\ Structure /\ _mtx = t /\ Header \in live
      /\ c \in Nodes /\ c \in Slot /\ c # NULL /\ i \in 0 .. node[c].node_level + 1
      /\ node[c].node_level \in Nat /\ node[c].key \in Key
      /\ _skip_list_level \in Nat /\ 0 .. _skip_list_level \subseteq Level
      /\ \A j \in Level : Keyed(node, On(j))
      /\ \A j \in 0 .. _skip_list_level : IsPred(node, On(j), node[c].key, update[t][j])
  BY <1>0, Writing DEF Structure, Keyed
<1>2. i \in 0 .. _skip_list_level /\ i \in Level BY <1>0, <1>1
<1>3. u \in On(i) \union {Header} /\ Next_(u, i) \in On(i) \union {NULL}
  BY <1>1, <1>2, OnLevel, PredNext DEF Next_
<1>4. c \in On(i) BY <1>0, <1>1, <1>3
<1>5. i <= node[c].node_level BY <1>4 DEF On
<1>6. u \in Slot /\ On(i) \subseteq Slot /\ v \in On(i) \union {NULL}
  BY <1>1, <1>2, <1>3, <1>4, OnLevel DEF Slot, Sorted, Next_
<1>7. v \in Pointer BY <1>6 DEF Pointer
<1>8. node' = Write(node, u, i, v) BY DEF Unlink, Write
<1>9. node \in Memory BY <1>1 DEF Types
<1>. HIDE DEF u, i, v
<1>10. /\ node' \in Memory
       /\ \A m \in Slot : /\ node'[m].key = node[m].key
                          /\ node'[m].value = node[m].value
                          /\ node'[m].node_level = node[m].node_level
                          /\ m # u => node'[m] = node[m]
       /\ \A m \in Slot, j \in Level :
            node'[m].forward[j] = IF m = u /\ j = i THEN v ELSE node[m].forward[j]
  BY <1>2, <1>6, <1>7, <1>8, <1>9, OneWrite
<1>11. ASSUME NEW j \in Level
       PROVE  On(j)' = IF j = i THEN On(i) \ {c} ELSE On(j)
  <2>1. lvl'[t] = i + 1 /\ UNCHANGED <<live, _mtx, pc, current>>
    BY <1>1 DEF Unlink, i, Types, TypeOK
  <2>2. \A m : Off(m, j) <=> m = c /\ j < i
    BY <1>0, <1>1, Distinct DEF Off, i
  <2>3. \A m : Off(m, j)' <=> m = c /\ j < i + 1
    BY <1>0, <1>1, <2>1, Distinct DEF Off
  <2>4. j < i + 1 <=> j < i \/ j = i BY <1>2, Distinct DEF Level
  <2>5. ~(i < i) BY <1>2, Distinct DEF Level
  <2>6. Nodes' = Nodes /\ Nodes \subseteq Slot BY <1>2, <1>1, <2>1, OnLevel DEF Nodes
  <2>. QED BY <1>10, <2>2, <2>3, <2>4, <2>5, <2>6 DEF On
<1>. QED BY <1>0, <1>2, <1>4, <1>5, <1>6, <1>10, <1>11 DEF u, i, v

LEMMA UnlinkKeeps ==
  ASSUME Inv, NEW t \in Thread, Unlink(t)
  PROVE  Inv'
<1>1. PICK c, i, u : c = current[t] /\ i = lvl[t] /\ u = update[t][i] OBVIOUS
<1>2. /\ i \in Level /\ i <= _skip_list_level /\ i <= node[c].node_level
      /\ c \in On(i) /\ u \in Slot
      /\ node' \in Memory
      /\ \A m \in Slot : /\ node'[m].key = node[m].key
                         /\ node'[m].value = node[m].value
                         /\ node'[m].node_level = node[m].node_level
                         /\ m # u => node'[m] = node[m]
      /\ \A m \in Slot, j \in Level :
           node'[m].forward[j] = IF m = u /\ j = i THEN Next_(c, i) ELSE node[m].forward[j]
      /\ \A j \in Level : On(j)' = IF j = i THEN On(i) \ {c} ELSE On(j)
  BY <1>1, UnlinkEffect
<1>3. /\ pc[t] = "unlink" /\ lvl' = [lvl EXCEPT ![t] = i + 1]
      /\ UNCHANGED <<live, _skip_list_level, _element_count, _mtx, m_mtx, pc, call,
                     current, update, oldValue, todo, answer>>
  BY <1>1 DEF Unlink
<1>4. /\ Structure /\ Header \in live /\ _skip_list_level \in Nat
      /\ Keyed(node, On(i)) /\ IsPred(node, On(i), node[c].key, u)
      /\ Sorted(node, On(i), i) /\ On(i) \subseteq Nodes /\ Nodes \subseteq Slot
  BY <1>1, <1>2, <1>3, Writing, OnLevel, Distinct DEF Level
<1>5. u \in On(i) \union {Header} BY <1>4 DEF IsPred
<1>6. Sorted(node', On(i)', i)
  <2>1. \A n \in On(i) : node'[n].key = node[n].key BY <1>2, <1>4
  <2>2. \A n \in On(i) \union {Header} :
           node'[n].forward[i] = IF n = u THEN node[c].forward[i] ELSE node[n].forward[i]
    BY <1>2, <1>4 DEF Next_, Slot
  <2>3. Sorted(node', On(i) \ {c}, i)
    <3>1. c \in On(i) BY <1>2
    <3>2. Keyed(node, On(i)) /\ Sorted(node, On(i), i)
          /\ IsPred(node, On(i), node[c].key, u)
      BY <1>4
    <3>3. PICK nd, nd2, S : nd = node /\ nd2 = node' /\ S = On(i) OBVIOUS
    <3>4. /\ c \in S /\ Keyed(nd, S) /\ Sorted(nd, S, i) /\ IsPred(nd, S, nd[c].key, u)
          /\ \A n \in S : nd2[n].key = nd[n].key
          /\ \A n \in S \union {Header} : nd2[n].forward[i] =
                IF n = u THEN nd[c].forward[i] ELSE nd[n].forward[i]
      BY <2>1, <2>2, <3>1, <3>2, <3>3
    <3>5. Sorted(nd2, S \ {c}, i) BY <3>4, RemoveSorted, ZenonT(40)
    <3>. QED BY <3>3, <3>5
  <2>. QED BY <1>2, <2>3
<1>7. \A m \in Slot \ live : node'[m] = node[m]
  BY <1>2, <1>4, <1>5 DEF Nodes
<1>8. \A m \in Nodes : i > node[m].node_level => node'[m].forward[i] = node[m].forward[i]
  <2>1. SUFFICES ASSUME NEW m \in Nodes, i > node[m].node_level
                 PROVE m # u
    BY <1>2, <1>4
  <2>2. node[m].node_level \in Nat /\ i \in Nat
    BY <1>2, <1>4, Distinct DEF Structure, Types, Memory, Level
  <2>3. m # Header BY DEF Nodes
  <2>. QED BY <1>5, <2>1, <2>2, <2>3 DEF On
<1>9. \A j \in Level : /\ j # i => On(j)' = On(j)
                       /\ On(j)' \ {current[t]} = On(j) \ {current[t]}
  BY <1>1, <1>2
<1>10. \A m \in Slot, j \in Level : j # i => node'[m].forward[j] = node[m].forward[j]
  BY <1>2
<1>11. /\ pc[t] \in {"link", "unlink"} /\ i = lvl[t]
       /\ i <= node[current[t]].node_level
  BY <1>1, <1>2, <1>3
<1>12. \A m \in Slot : /\ node'[m].key = node[m].key /\ node'[m].value = node[m].value
                        /\ node'[m].node_level = node[m].node_level
  BY <1>2
<1>13. i \in Level /\ node' \in Memory BY <1>2
<1>. QED BY <1>3, <1>6, <1>7, <1>8, <1>9, <1>10, <1>11, <1>12, <1>13, RewireKeeps, Zenon

-----------------------------------------------------------------------------
(* insert_element *)

\* What Link does to the levels.
LEMMA LinkEffect ==
  ASSUME Inv, NEW t \in Thread, Link(t)
  PROVE  LET c == current[t]
             i == lvl[t]
             u == update[t][i]
         IN /\ i \in Level /\ i <= _skip_list_level /\ i <= node[c].node_level
            /\ c \notin On(i) /\ u \in Slot /\ u # c
            /\ node' \in Memory
            /\ \A m \in Slot : /\ node'[m].key = node[m].key
                               /\ node'[m].value = node[m].value
                               /\ node'[m].node_level = node[m].node_level
                               /\ m \notin {u, c} => node'[m] = node[m]
            /\ \A m \in Slot, j \in Level :
                 node'[m].forward[j] = IF m = u /\ j = i THEN c
                                       ELSE IF m = c /\ j = i THEN Next_(u, i)
                                       ELSE node[m].forward[j]
            /\ \A j \in Level : On(j)' = IF j = i THEN On(i) \union {c} ELSE On(j)
<1>. DEFINE c == current[t]
            i == lvl[t]
            u == update[t][i]
            v == Next_(u, i)
<1>0. pc[t] = "link" /\ i <= node[c].node_level
  BY DEF Link
<1>1. /\ Types /\ Structure /\ _mtx = t /\ Header \in live
      /\ c \in Nodes /\ c \in Slot /\ c # NULL /\ c # Header
      /\ i \in 0 .. node[c].node_level + 1
      /\ node[c].node_level \in Nat /\ node[c].key \in Key
      /\ node[c].node_level <= _skip_list_level
      /\ _skip_list_level \in Nat /\ 0 .. _skip_list_level \subseteq Level
      /\ \A j \in Level : Keyed(node, On(j))
      /\ \A j \in 0 .. _skip_list_level : IsPred(node, On(j), node[c].key, update[t][j])
  BY <1>0, Writing DEF Structure, Keyed
<1>2. i \in 0 .. _skip_list_level /\ i \in Level /\ i <= _skip_list_level BY <1>0, <1>1
<1>3. u \in On(i) \union {Header} /\ v \in On(i) \union {NULL}
  BY <1>1, <1>2, OnLevel, PredNext DEF Next_
<1>4. c \notin On(i)
  <2>1. i <= i BY <1>1
  <2>. QED BY <1>0, <1>1, <2>1, Distinct DEF On, Off
<1>6. u \in Slot /\ u # c /\ On(i) \subseteq Slot
  BY <1>1, <1>2, <1>3, <1>4, OnLevel DEF Slot
<1>7. v \in Pointer /\ c \in Pointer BY <1>1, <1>3, <1>6 DEF Pointer
<1>8. node' = Write(Write(node, c, i, v), u, i, c) BY DEF Link, Write
<1>9. node \in Memory BY <1>1 DEF Types
<1>. HIDE DEF u, i, v, c
<1>w. PICK nd : nd = Write(node, c, i, v) OBVIOUS
<1>x. /\ nd \in Memory
      /\ \A m \in Slot : /\ nd[m].key = node[m].key
                         /\ nd[m].value = node[m].value
                         /\ nd[m].node_level = node[m].node_level
                         /\ m # c => nd[m] = node[m]
      /\ \A m \in Slot, j \in Level :
           nd[m].forward[j] = IF m = c /\ j = i THEN v ELSE node[m].forward[j]
  <2>1. PICK mem, a, l, p : mem = node /\ a = c /\ l = i /\ p = v OBVIOUS
  <2>2. mem \in Memory /\ a \in Slot /\ l \in Level /\ p \in Pointer /\ nd = Write(mem, a, l, p)
    BY <1>1, <1>2, <1>7, <1>9, <1>w, <2>1
  <2>3. /\ nd \in Memory
        /\ \A m \in Slot : /\ nd[m].key = mem[m].key
                           /\ nd[m].value = mem[m].value
                           /\ nd[m].node_level = mem[m].node_level
                           /\ m # a => nd[m] = mem[m]
        /\ \A m \in Slot, j \in Level :
             nd[m].forward[j] = IF m = a /\ j = l THEN p ELSE mem[m].forward[j]
    BY <2>2, OneWrite
  <2>. QED BY <2>1, <2>3
<1>y. node' = Write(nd, u, i, c) BY <1>8, <1>w
<1>z. /\ node' \in Memory
      /\ \A m \in Slot : /\ node'[m].key = nd[m].key
                         /\ node'[m].value = nd[m].value
                         /\ node'[m].node_level = nd[m].node_level
                         /\ m # u => node'[m] = nd[m]
      /\ \A m \in Slot, j \in Level :
           node'[m].forward[j] = IF m = u /\ j = i THEN c ELSE nd[m].forward[j]
  BY <1>2, <1>6, <1>7, <1>x, <1>y, OneWrite
<1>10. /\ node' \in Memory
       /\ \A m \in Slot : /\ node'[m].key = node[m].key
                          /\ node'[m].value = node[m].value
                          /\ node'[m].node_level = node[m].node_level
                          /\ m \notin {u, c} => node'[m] = node[m]
       /\ \A m \in Slot, j \in Level :
            node'[m].forward[j] = IF m = u /\ j = i THEN c
                                  ELSE IF m = c /\ j = i THEN v
                                  ELSE node[m].forward[j]
  BY <1>x, <1>z
<1>11. ASSUME NEW j \in Level
       PROVE  On(j)' = IF j = i THEN On(i) \union {c} ELSE On(j)
  <2>1. lvl'[t] = i + 1 /\ UNCHANGED <<live, _mtx, pc, current>>
    BY <1>1 DEF Link, i, Types, TypeOK
  <2>2. \A m : Off(m, j) <=> m = c /\ i <= j
    BY <1>0, <1>1, Distinct DEF Off, i, c
  <2>3. \A m : Off(m, j)' <=> m = c /\ i + 1 <= j
    BY <1>0, <1>1, <2>1, Distinct DEF Off, c
  <2>4. i <= j <=> i + 1 <= j \/ j = i BY <1>2, Distinct DEF Level
  <2>5. ~(i + 1 <= i) BY <1>2, Distinct DEF Level
  <2>6. Nodes' = Nodes /\ Nodes \subseteq Slot BY <1>2, <1>1, <2>1, OnLevel DEF Nodes
  <2>. QED BY <1>0, <1>1, <1>10, <2>2, <2>3, <2>4, <2>5, <2>6 DEF On, i, c
<1>. QED BY <1>0, <1>2, <1>4, <1>6, <1>10, <1>11 DEF u, i, v, c

LEMMA LinkKeeps ==
  ASSUME Inv, NEW t \in Thread, Link(t)
  PROVE  Inv'
<1>1. PICK c, i, u : c = current[t] /\ i = lvl[t] /\ u = update[t][i] OBVIOUS
<1>2. /\ i \in Level /\ i <= _skip_list_level /\ i <= node[c].node_level
      /\ c \notin On(i) /\ u \in Slot
      /\ node' \in Memory
      /\ \A m \in Slot : /\ node'[m].key = node[m].key
                         /\ node'[m].value = node[m].value
                         /\ node'[m].node_level = node[m].node_level
                         /\ m \notin {u, c} => node'[m] = node[m]
      /\ \A m \in Slot, j \in Level :
           node'[m].forward[j] = IF m = u /\ j = i THEN c
                                 ELSE IF m = c /\ j = i THEN Next_(u, i)
                                 ELSE node[m].forward[j]
      /\ \A j \in Level : On(j)' = IF j = i THEN On(i) \union {c} ELSE On(j)
  BY <1>1, LinkEffect
<1>3. /\ pc[t] = "link" /\ lvl' = [lvl EXCEPT ![t] = i + 1]
      /\ UNCHANGED <<live, _skip_list_level, _element_count, _mtx, m_mtx, pc, call,
                     current, update, oldValue, todo, answer>>
  BY <1>1 DEF Link
<1>4. /\ Structure /\ Header \in live /\ c \in Nodes /\ c \in Address /\ c # Header
      /\ Keyed(node, On(i) \union {c}) /\ IsPred(node, On(i), node[c].key, u)
      /\ Sorted(node, On(i), i) /\ On(i) \subseteq Nodes /\ Nodes \subseteq Slot
  <2>1. pc[t] \in {"link", "unlink"} /\ i \in 0 .. _skip_list_level
    BY <1>2, <1>3, Distinct DEF Level
  <2>. QED BY <1>1, <1>2, <2>1, Writing, OnLevel
<1>5. u \in On(i) \union {Header} BY <1>4 DEF IsPred
<1>6. Sorted(node', On(i)', i)
  <2>1. \A n \in On(i) \union {c} : node'[n].key = node[n].key BY <1>2, <1>4
  <2>2. \A n \in On(i) \union {c, Header} :
           node'[n].forward[i] = IF n = u THEN c
                                 ELSE IF n = c THEN node[u].forward[i]
                                 ELSE node[n].forward[i]
    BY <1>2, <1>4 DEF Next_, Slot
  <2>3. PICK nd, nd2, S : nd = node /\ nd2 = node' /\ S = On(i) OBVIOUS
  <2>4. /\ c \in Address /\ c \notin S /\ Keyed(nd, S \union {c}) /\ Sorted(nd, S, i)
        /\ IsPred(nd, S, nd[c].key, u)
        /\ \A n \in S \union {c} : nd2[n].key = nd[n].key
        /\ \A n \in S \union {c, Header} : nd2[n].forward[i] =
              IF n = u THEN c ELSE IF n = c THEN nd[u].forward[i] ELSE nd[n].forward[i]
    BY <1>2, <1>4, <2>1, <2>2, <2>3
  <2>5. Sorted(nd2, S \union {c}, i) BY <2>4, InsertSorted, Zenon
  <2>. QED BY <1>2, <2>3, <2>5
<1>7. \A m \in Slot \ live : node'[m] = node[m]
  BY <1>2, <1>4, <1>5 DEF Nodes
<1>8. \A m \in Nodes : i > node[m].node_level => node'[m].forward[i] = node[m].forward[i]
  <2>1. SUFFICES ASSUME NEW m \in Nodes, i > node[m].node_level
                 PROVE m \notin {u, c}
    BY <1>2, <1>4
  <2>2. node[m].node_level \in Nat /\ i \in Nat
    BY <1>2, <1>4, Distinct DEF Structure, Types, Memory, Level
  <2>3. m # Header BY DEF Nodes
  <2>. QED BY <1>2, <1>5, <2>1, <2>2, <2>3 DEF On
<1>9. \A j \in Level : /\ j # i => On(j)' = On(j)
                       /\ On(j)' \ {current[t]} = On(j) \ {current[t]}
  BY <1>1, <1>2
<1>10. \A m \in Slot, j \in Level : j # i => node'[m].forward[j] = node[m].forward[j]
  BY <1>2
<1>11. /\ pc[t] \in {"link", "unlink"} /\ i = lvl[t]
       /\ i <= node[current[t]].node_level
  BY <1>1, <1>2, <1>3
<1>12. \A m \in Slot : /\ node'[m].key = node[m].key /\ node'[m].value = node[m].value
                        /\ node'[m].node_level = node[m].node_level
  BY <1>2
<1>13. i \in Level /\ node' \in Memory BY <1>2
<1>. QED BY <1>3, <1>6, <1>7, <1>8, <1>9, <1>10, <1>11, <1>12, <1>13, RewireKeeps, Zenon

LEMMA HeadAndTail ==
  ASSUME NEW S, NEW s \in Seq(S), s # <<>>
  PROVE  Head(s) \in S /\ Tail(s) \in Seq(S)
OBVIOUS

\* The pair that is being inserted, and what is left to load after it.
LEMMA PairShape ==
  ASSUME Types, NEW t \in Thread, CallFits(t), pc[t] \in {"insert", "link"}
  PROVE  /\ Pair(t)[1] \in Key /\ Pair(t)[2] \in Value
         /\ Pair(t) = <<Pair(t)[1], Pair(t)[2]>>
         /\ Op(t) = "set" => Pair(t) = <<ArgKey(t), call[t][3]>>
         /\ Op(t) = "load" => /\ Tail(todo[t]) \in Seq(DOMAIN call[t][2])
                              /\ Pair(t)[1] \in DOMAIN call[t][2]
         /\ Op(t) \in {"set", "load"}
<1>1. CASE Op(t) = "set"
  <2>1. Pair(t) = <<ArgKey(t), call[t][3]>> BY <1>1 DEF Pair, ArgKey
  <2>2. ArgKey(t) \in Key /\ call[t][3] \in Value BY <1>1, CallShape
  <2>. QED BY <1>1, <2>1, <2>2
<1>2. CASE Op(t) = "load"
  <2>1. Pair(t) = <<Head(todo[t]), Head(todo[t])>> BY <1>2 DEF Pair
  <2>2. todo[t] \in Seq(DOMAIN call[t][2]) /\ todo[t] # <<>> BY <1>2 DEF CallFits
  <2>3. Head(todo[t]) \in DOMAIN call[t][2] /\ Tail(todo[t]) \in Seq(DOMAIN call[t][2])
    BY <2>2, HeadAndTail
  <2>4. DOMAIN call[t][2] \subseteq Key BY <1>2, CallShape, ArchiveShape DEF Op
  <2>. QED BY <1>2, <2>1, <2>3, <2>4, Distinct
<1>. QED BY <1>1, <1>2 DEF CallFits

\* The end of insert_element, from wherever it is reached.
LEMMA AfterInsertKeeps ==
  ASSUME Types, NEW t \in Thread, CallFits(t), pc[t] \in {"insert", "link"},
         AfterInsert(t), UNCHANGED call
  PROVE  /\ CallFits(t)' /\ pc'[t] \in {"load", "return"}
         /\ OnlyThread(t)
         /\ pc' \in [Thread -> {"idle", "search", "delete", "unlink", "insert", "link",
                        "dump", "load", "return"}]
         /\ todo' = [u \in Thread |-> todo'[u]]
         /\ answer' = [u \in Thread |-> answer'[u]]
<1>1. CASE Op(t) = "load"
  <2>1. /\ pc' = [pc EXCEPT ![t] = "load"] /\ todo' = [todo EXCEPT ![t] = Tail(todo[t])]
        /\ UNCHANGED answer
    BY <1>1 DEF AfterInsert, Goto
  <2>2. pc'[t] = "load" /\ todo'[t] = Tail(todo[t]) BY <2>1 DEF Types, TypeOK
  <2>3. todo'[t] \in Seq(DOMAIN call[t][2]) /\ answer'[t] = NoAnswer
    BY <1>1, <2>1, <2>2, PairShape DEF CallFits
  <2>4. CallFits(t)' BY <1>1, <2>2, <2>3 DEF CallFits, Op
  <2>. QED BY <2>1, <2>2, <2>4 DEF OnlyThread, Types, TypeOK
<1>2. CASE Op(t) # "load"
  <2>1. /\ pc' = [pc EXCEPT ![t] = "return"]
        /\ answer' = [answer EXCEPT ![t] = [type |-> "stored"]]
        /\ UNCHANGED todo
    BY <1>2 DEF AfterInsert, Answer, Goto
  <2>2. pc'[t] = "return" /\ answer'[t] # NoAnswer
    BY <2>1, StoredIsAnswer DEF Types, TypeOK
  <2>3. Op(t) # "none" BY DEF CallFits
  <2>4. CallFits(t)' BY <1>2, <2>1, <2>2, <2>3 DEF CallFits, Op
  <2>. QED BY <2>1, <2>2, <2>4 DEF OnlyThread, Types, TypeOK
<1>. QED BY <1>1, <1>2

LEMMA EmptyPred ==
  ASSUME NEW nd, NEW k
  PROVE  IsPred(nd, {}, k, Header)
BY DEF IsPred

LEMMA InsertBeginKeeps ==
  ASSUME Inv, NEW t \in Thread, InsertBegin(t)
  PROVE  Inv'
<1>. DEFINE k == Pair(t)[1]
            v == Pair(t)[2]
            preds == Predecessors(k)
            n == Next_(preds[0], 0)
            L == _skip_list_level
<1>0. /\ Types /\ Mutexes /\ pc[t] = "insert" /\ m_mtx = t /\ _mtx = Absent
      /\ Structure /\ HeightKept /\ Header \in live /\ Locals(t)
      /\ \A u \in Thread \ {t} : pc[u] = "idle"
  BY Reading DEF InsertBegin, Inv
<1>1. /\ UNCHANGED <<m_mtx, call, oldValue>>
      /\ \/ /\ Holds(n, k)
            /\ AfterInsert(t)
            /\ UNCHANGED <<list, _mtx, update, current, lvl>>
         \/ /\ ~Holds(n, k)
            /\ \E r \in RandomLevel, a \in Address \ live :
                 /\ update' = [update EXCEPT ![t] = Raised(preds, r)]
                 /\ _skip_list_level' = HigherOf(r, _skip_list_level)
                 /\ node' = [node EXCEPT ![a] = NewNode(k, v, r)]
                 /\ live' = live \union {a}
                 /\ current' = [current EXCEPT ![t] = a]
            /\ lvl' = [lvl EXCEPT ![t] = 0]
            /\ _mtx' = t
            /\ pc' = [pc EXCEPT ![t] = "link"]
            /\ UNCHANGED <<_element_count, todo, answer>>
  BY DEF InsertBegin, Goto
<1>2. k \in Key /\ v \in Value /\ Pair(t) = <<k, v>> /\ Op(t) \in {"set", "load"}
  BY <1>0, PairShape DEF Locals
<1>3. ~Holds(n, k) => \A m \in Nodes : node[m].key # k
  BY <1>0, <1>2, DescentFinds
<1>4. /\ preds \in [Level -> Pointer]
      /\ \A i \in 0 .. L : IsPred(node, On(i), k, preds[i])
  BY <1>0, <1>2, PredecessorsValue
<1>. HIDE DEF n, preds, k, v
<1>5. CASE Holds(n, k)
  <2>1. AfterInsert(t) /\ UNCHANGED <<list, _mtx, update, current, lvl>>
    BY <1>1, <1>5
  <2>2. /\ CallFits(t)' /\ pc'[t] \in {"load", "return"}
        /\ OnlyThread(t)
        /\ pc' \in [Thread -> {"idle", "search", "delete", "unlink", "insert", "link",
                        "dump", "load", "return"}]
        /\ todo' = [u \in Thread |-> todo'[u]]
        /\ answer' = [u \in Thread |-> answer'[u]]
    BY <1>0, <1>1, <2>1, AfterInsertKeeps DEF Locals
  <2>3. Types' BY <1>0, <1>1, <2>1, <2>2 DEF Types, TypeOK, Memory, list
  <2>4. Mutexes' BY <1>0, <1>1, <2>1, <2>2 DEF Mutexes, OnlyThread, list
  <2>5. MemoryKept' /\ Keyed(node, Nodes)' /\ LevelsSorted' /\ HeightKept'
    BY <1>0, <2>1, ReaderLevels
  <2>6. SearchKept(t)' /\ DumpKept(t)' /\ WriteKept(t)' /\ SetKept(t)'
    BY <2>2 DEF SearchKept, DumpKept, WriteKept, SetKept
  <2>. QED BY <1>0, <2>2, <2>3, <2>4, <2>5, <2>6, ThreadKeeps DEF Locals
<1>6. CASE ~Holds(n, k)
  <2>1. PICK r \in RandomLevel, a \in Address \ live :
          /\ update' = [update EXCEPT ![t] = Raised(preds, r)]
          /\ _skip_list_level' = HigherOf(r, _skip_list_level)
          /\ node' = [node EXCEPT ![a] = NewNode(k, v, r)]
          /\ live' = live \union {a}
          /\ current' = [current EXCEPT ![t] = a]
    BY <1>1, <1>6
  <2>2. /\ lvl' = [lvl EXCEPT ![t] = 0] /\ _mtx' = t
        /\ pc' = [pc EXCEPT ![t] = "link"]
        /\ UNCHANGED <<_element_count, todo, answer>>
    BY <1>1, <1>6
  <2>3. /\ update'[t] = Raised(preds, r) /\ current'[t] = a /\ lvl'[t] = 0 /\ pc'[t] = "link"
    BY <1>0, <2>1, <2>2 DEF Types, TypeOK
  <2>4. /\ r \in Nat /\ r >= 1 /\ r \in Level /\ L \in Nat /\ L \in Level
        /\ 0 .. L \subseteq Level /\ MaxLevel \in Nat
    BY <1>0, Distinct DEF RandomLevel, Level, Types, TypeOK
  <2>. DEFINE L2 == HigherOf(r, L)
  <2>5. /\ L2 \in Nat /\ L2 \in Level /\ r <= L2 /\ L <= L2 /\ L2 \in {r, L}
        /\ _skip_list_level' = L2
    BY <2>1, <2>4 DEF HigherOf, Level
  <2>. HIDE DEF L2
  <2>6. /\ a \in Slot /\ a # Header /\ a # NULL /\ a \notin Nodes /\ a \in Address
        /\ Nodes' = Nodes \union {a} /\ Nodes \subseteq Slot /\ Nodes \subseteq Address
    BY <1>0, <2>1, <2>4, Distinct, OnLevel DEF Nodes, Slot
  <2>7. /\ node' \in Memory
        /\ node'[a] = NewNode(k, v, r)
        /\ \A m \in Slot : m # a => node'[m] = node[m]
    <3>1. NewNode(k, v, r) \in [key : Key \union {Absent}, value : Value \union {Absent},
                                node_level : Level, forward : [Level -> Pointer]]
      BY <1>2, <2>4 DEF NewNode, NullPointers, Pointer
    <3>2. node \in Memory BY <1>0 DEF Types
    <3>. QED BY <2>1, <2>6, <3>1, <3>2 DEF Memory
  <2>8. /\ node'[a].key = k /\ node'[a].value = v /\ node'[a].node_level = r
        /\ \A i \in Level : node'[a].forward[i] = NULL
    BY <2>7 DEF NewNode, NullPointers
  <2>9. OnlyThread(t) BY <1>0, <1>1, <2>2 DEF OnlyThread, Types, TypeOK
  <2>10. Types'
    <3>1. Raised(preds, r) \in [Level -> Pointer]
      BY <1>4 DEF Raised, Pointer, Slot
    <3>2. current' \in [Thread -> Pointer]
      BY <1>0, <2>1, <2>6 DEF Types, TypeOK, Pointer
    <3>3. lvl' \in [Thread -> 0 .. MaxLevel + 1] BY <1>0, <2>2, <2>4 DEF Types, TypeOK
    <3>4. update' \in [Thread -> [Level -> Pointer]] BY <1>0, <2>1, <3>1 DEF Types, TypeOK
    <3>5. pc' \in [Thread -> {"idle", "search", "delete", "unlink", "insert", "link",
                        "dump", "load", "return"}]
      BY <1>0, <2>2 DEF Types, TypeOK
    <3>6. live' \subseteq Slot BY <1>0, <2>1, <2>6 DEF Types, TypeOK
    <3>7. call' \in [Thread -> Calls] /\ _element_count' \in Nat
          /\ {_mtx', m_mtx'} \subseteq Thread \union {Absent}
      BY <1>0, <1>1, <2>2 DEF Types, TypeOK
    <3>8. /\ oldValue' \in [Thread -> Value \union {Absent}]
          /\ answer' = [u \in Thread |-> answer'[u]]
          /\ todo' = [u \in Thread |-> todo'[u]]
      BY <1>0, <1>1, <2>2 DEF Types
    <3>9. _skip_list_level' \in Level BY <2>5
    <3>. QED BY <2>7, <3>2, <3>3, <3>4, <3>5, <3>6, <3>7, <3>8, <3>9
             DEF Types, TypeOK, Memory
  <2>11. Mutexes'
    BY <1>0, <1>1, <2>1, <2>2, <2>3, <2>9, Distinct DEF Mutexes, OnlyThread
  <2>12. \A i \in Level : On(i)' = On(i) /\ a \notin On(i) /\ On(i) \subseteq Nodes
    <3>1. \A i \in Level : \A m : Off(m, i)' <=> m = a
      BY <2>2, <2>3, Distinct DEF Off, Level
    <3>2. \A i \in Level : \A m : ~Off(m, i) BY <1>0 DEF Off
    <3>. QED BY <2>6, <2>7, <3>1, <3>2 DEF On
  <2>13. MemoryKept'
    <3>1. \A m \in Slot \ live' : node'[m] = Free
      BY <1>0, <2>1, <2>7 DEF Structure, MemoryKept
    <3>2. \A m \in Nodes' : node'[m].value \in Value
      BY <1>0, <1>2, <2>6, <2>7, <2>8 DEF Structure, MemoryKept
    <3>3. \A m \in Nodes', i \in Level : i > node'[m].node_level => node'[m].forward[i] = NULL
      BY <1>0, <2>6, <2>7, <2>8 DEF Structure, MemoryKept, Next_
    <3>4. Header \in live' BY <1>0, <2>1
    <3>. QED BY <3>1, <3>2, <3>3, <3>4 DEF MemoryKept, Next_
  <2>14. Keyed(node, Nodes)'
    <3>1. \A m \in Nodes : node'[m] = node[m] BY <2>6, <2>7
    <3>2. \A m \in Nodes : node[m].key \in Key /\ node[m].key # k
      BY <1>0, <1>3, <1>6 DEF Structure, Keyed
    <3>3. \A m, p \in Nodes : node[m].key = node[p].key => m = p
      BY <1>0 DEF Structure, Keyed
    <3>4. \A m \in Nodes' : node'[m].key \in Key
      BY <1>2, <2>6, <2>8, <3>1, <3>2
    <3>5. \A m, p \in Nodes' : node'[m].key = node'[p].key => m = p
      BY <2>6, <2>8, <3>1, <3>2, <3>3
    <3>. QED BY <2>6, <3>4, <3>5 DEF Keyed
  <2>15. LevelsSorted'
    <3>1. ASSUME NEW i \in Level PROVE Sorted(node', On(i)', i)
      <4>1. Sorted(node, On(i), i) /\ NULL \notin On(i)
        BY <1>0, <2>6, <2>12, OnLevel, Distinct
      <4>2. /\ \A m \in On(i) : node'[m].key = node[m].key
            /\ \A m \in On(i) \union {Header} : node'[m].forward[i] = node[m].forward[i]
        BY <2>6, <2>7, <2>12 DEF Slot
      <4>3. Sorted(node', On(i), i) BY <4>1, <4>2, SortedFrame
      <4>. QED BY <2>12, <4>3
    <3>. QED BY <3>1 DEF LevelsSorted
  <2>16. HeightKept'
    <3>1. \A m \in Nodes : node[m].node_level \in Nat /\ node[m].node_level <= L
      BY <1>0, <2>4, <2>6 DEF HeightKept, Types, Memory, Level
    <3>2. \A m \in Nodes' : node'[m].node_level <= L2
      BY <2>4, <2>5, <2>6, <2>7, <2>8, <3>1
    <3>3. \E m \in Nodes' : node'[m].node_level = L2
      <4>1. CASE L2 = r BY <2>6, <2>8, <4>1
      <4>2. CASE L2 # r
        <5>1. L2 = L /\ L > 0 BY <2>4, <2>5, <4>2
        <5>2. PICK m \in Nodes : node[m].node_level = L BY <1>0, <5>1 DEF HeightKept
        <5>. QED BY <2>6, <2>7, <5>1, <5>2
      <4>. QED BY <4>1, <4>2
    <3>4. _element_count' = Cardinality(Nodes') - 1
      <4>1. IsFiniteSet(Nodes) /\ Cardinality(Nodes) \in Nat
        BY <1>0, FiniteNodes DEF Structure
      <4>2. Cardinality(Nodes') = Cardinality(Nodes) + 1
        BY <2>6, <4>1, FS_AddElement
      <4>3. _element_count = Cardinality(Nodes) - 0
        BY <1>0 DEF HeightKept, Linking
      <4>. QED BY <2>2, <4>1, <4>2, <4>3
    <3>5. Linking' BY <2>2, <2>3, Distinct DEF Linking
    <3>. QED BY <2>5, <3>2, <3>3, <3>4, <3>5 DEF HeightKept
  <2>17. CallFits(t)'
    BY <1>0, <1>1, <1>2, <2>2, <2>3 DEF Locals, CallFits, Op
  <2>18. WriteKept(t)'
    <3>1. a \in Nodes' /\ 0 \in 0 .. node'[a].node_level + 1
      BY <2>4, <2>6, <2>8
    <3>2. ASSUME NEW i \in 0 .. L2
          PROVE  IsPred(node', On(i)' \ {a}, k, Raised(preds, r)[i])
      <4>1. i \in Level BY <2>4, <2>5 DEF Level
      <4>2. On(i)' \ {a} = On(i) BY <2>12, <4>1
      <4>3. \A m \in On(i) : node'[m].key = node[m].key BY <2>6, <2>7, <2>12, <4>1
      <4>4. CASE i <= L
        <5>1. i \in 0 .. L /\ i \notin L + 1 .. r BY <2>4, <2>5, <4>4
        <5>2. IsPred(node, On(i), k, preds[i]) BY <1>4, <5>1
        <5>3. Raised(preds, r)[i] = preds[i] BY <4>1, <5>1 DEF Raised
        <5>4. IsPred(node', On(i), k, preds[i]) BY <4>3, <5>2, PredFrame
        <5>. QED BY <4>2, <5>3, <5>4
      <4>5. CASE ~(i <= L)
        <5>1. i \in L + 1 .. r BY <2>4, <2>5, <4>5
        <5>2. Raised(preds, r)[i] = Header BY <4>1, <5>1 DEF Raised
        <5>3. \A m \in Nodes : ~(i <= node[m].node_level)
          <6>1. SUFFICES ASSUME NEW m \in Nodes PROVE ~(i <= node[m].node_level)
            OBVIOUS
          <6>2. node[m].node_level \in Nat /\ node[m].node_level <= L /\ i \in Nat
            BY <1>0, <2>4, <2>5, <2>6 DEF HeightKept, Types, Memory, Level
          <6>. QED BY <2>4, <4>5, <6>2
        <5>4. On(i) = {} BY <5>3 DEF On
        <5>. QED BY <4>2, <5>2, <5>4, EmptyPred
      <4>. QED BY <4>4, <4>5
    <3>3. Pair(t)' = Pair(t) BY <1>1, <2>2 DEF Pair, Op
    <3>. QED BY <1>2, <2>3, <2>5, <2>8, <3>1, <3>2, <3>3 DEF WriteKept
  <2>19. SearchKept(t)' /\ DumpKept(t)' /\ SetKept(t)'
    BY <2>3 DEF SearchKept, DumpKept, SetKept
  <2>. QED BY <1>0, <2>9, <2>10, <2>11, <2>13, <2>14, <2>15, <2>16, <2>17, <2>18, <2>19,
           ThreadKeeps DEF Locals
<1>. QED BY <1>5, <1>6

LEMMA InsertEndKeeps ==
  ASSUME Inv, NEW t \in Thread, InsertEnd(t)
  PROVE  Inv'
<1>. DEFINE c == current[t]
<1>0. /\ Types /\ Mutexes /\ Structure /\ HeightKept /\ Locals(t)
      /\ pc[t] = "link" /\ m_mtx = t /\ _mtx = t /\ Header \in live
      /\ c \in Nodes /\ node[c].node_level \in Nat /\ lvl[t] \in Nat
  BY Writing DEF InsertEnd
<1>1. /\ lvl[t] > node[c].node_level
      /\ _element_count' = _element_count + 1
      /\ _mtx' = Absent
      /\ AfterInsert(t)
      /\ UNCHANGED <<node, live, _skip_list_level, m_mtx, call, current, lvl, update, oldValue>>
  BY DEF InsertEnd
<1>2. /\ CallFits(t)' /\ pc'[t] \in {"load", "return"}
      /\ OnlyThread(t)
      /\ pc' \in [Thread -> {"idle", "search", "delete", "unlink", "insert", "link",
                        "dump", "load", "return"}]
      /\ todo' = [u \in Thread |-> todo'[u]]
      /\ answer' = [u \in Thread |-> answer'[u]]
  BY <1>0, <1>1, AfterInsertKeeps DEF Locals
<1>3. Types' BY <1>0, <1>1, <1>2 DEF Types, TypeOK, Memory
<1>4. Mutexes' BY <1>0, <1>1, <1>2, Distinct DEF Mutexes, OnlyThread
<1>5. \A i \in Level : On(i)' = On(i)
  <2>1. SUFFICES ASSUME NEW i \in Level PROVE On(i)' = On(i) OBVIOUS
  <2>2. \A m : ~Off(m, i)' BY <1>1 DEF Off
  <2>3. \A m \in Nodes : i <= node[m].node_level => ~Off(m, i)
    BY <1>0, <1>1, Distinct DEF Off, Level
  <2>4. Nodes' = Nodes BY <1>1 DEF Nodes
  <2>. QED BY <1>1, <2>2, <2>3, <2>4 DEF On
<1>6. MemoryKept' /\ Keyed(node, Nodes)' /\ LevelsSorted'
  BY <1>0, <1>1, <1>5 DEF Structure, MemoryKept, LevelsSorted, Nodes, Next_
<1>7. HeightKept'
  <2>1. Linking /\ ~Linking' BY <1>0, <1>1, Distinct DEF Linking
  <2>2. IsFiniteSet(Nodes) /\ Cardinality(Nodes) \in Nat /\ Nodes' = Nodes
    BY <1>0, <1>1, FiniteNodes DEF Structure, Nodes
  <2>3. _element_count' = Cardinality(Nodes)
    BY <1>0, <1>1, <2>1, <2>2 DEF HeightKept
  <2>. QED BY <1>0, <1>1, <2>1, <2>2, <2>3 DEF HeightKept
<1>8. SearchKept(t)' /\ DumpKept(t)' /\ WriteKept(t)' /\ SetKept(t)'
  BY <1>2 DEF SearchKept, DumpKept, WriteKept, SetKept
<1>. QED BY <1>0, <1>2, <1>3, <1>4, <1>6, <1>7, <1>8, ThreadKeeps DEF Locals

\* When the loop of delete_element breaks the node is off every level.
LEMMA DeleteEndAbove ==
  ASSUME Inv, NEW t \in Thread, pc[t] = "unlink", ~Linked(t)
  PROVE  lvl[t] > node[current[t]].node_level
<1>1. PICK c, i, u : c = current[t] /\ i = lvl[t] /\ u = update[t][i] OBVIOUS
<1>2. /\ Structure /\ _mtx = t /\ Header \in live
      /\ c \in Nodes /\ i \in 0 .. node[c].node_level + 1
      /\ node[c].node_level \in Nat /\ node[c].key \in Key
      /\ node[c].node_level <= _skip_list_level /\ _skip_list_level \in Nat
      /\ 0 .. _skip_list_level \subseteq Level
      /\ \A j \in Level : Keyed(node, On(j))
      /\ \A j \in 0 .. _skip_list_level : IsPred(node, On(j), node[c].key, update[t][j])
  BY <1>1, Writing DEF Structure, Keyed
<1>3. SUFFICES ASSUME i <= node[c].node_level PROVE FALSE
  BY <1>1, <1>2
<1>4. i \in 0 .. _skip_list_level /\ i \in Level /\ i <= _skip_list_level
  BY <1>2, <1>3
<1>5. c \in On(i)
  <2>1. ~(i < i) BY <1>2
  <2>. QED BY <1>1, <1>2, <1>3, <2>1 DEF On, Off
<1>6. Sorted(node, On(i), i) /\ Keyed(node, On(i)) /\ IsPred(node, On(i), node[c].key, u)
  BY <1>1, <1>2, <1>4, OnLevel
<1>7. node[u].forward[i] = c
  BY <1>2, <1>5, <1>6, PredNext
<1>. QED BY <1>1, <1>4, <1>7 DEF Linked, Next_

LEMMA DeleteEndKeeps ==
  ASSUME Inv, NEW t \in Thread, DeleteEnd(t)
  PROVE  Inv'
<1>1. PICK c : c = current[t] OBVIOUS
<1>. DEFINE L == _skip_list_level
            LL == LoweredLevel
<1>0. /\ Types /\ Mutexes /\ Structure /\ HeightKept /\ Locals(t)
      /\ pc[t] = "unlink" /\ m_mtx = t /\ _mtx = t /\ Header \in live
      /\ c \in Nodes /\ c \in Slot /\ c # Header /\ node[c].node_level \in Nat
      /\ lvl[t] \in Nat /\ lvl[t] > node[c].node_level
      /\ L \in Nat /\ 0 .. L \subseteq Level
  BY <1>1, Writing, DeleteEndAbove DEF DeleteEnd
<1>2. /\ _skip_list_level' = LL
      /\ node' = [node EXCEPT ![c] = Free]
      /\ live' = live \ {c}
      /\ _element_count' = _element_count - 1
      /\ current' = [current EXCEPT ![t] = NULL]
      /\ _mtx' = Absent
      /\ UNCHANGED <<m_mtx, call, lvl, update, oldValue, todo>>
      /\ \/ /\ Op(t) = "set" /\ pc' = [pc EXCEPT ![t] = "insert"]
            /\ UNCHANGED answer
         \/ /\ Op(t) # "set" /\ pc' = [pc EXCEPT ![t] = "return"]
            /\ answer' = [answer EXCEPT ![t] = [type |-> "stored"]]
  BY <1>1 DEF DeleteEnd, AfterDelete, Answer, Goto
<1>3. /\ LL \in 0 .. L
      /\ LL > 0 => Next_(Header, LL) # NULL
      /\ \A j \in LL + 1 .. L : Next_(Header, j) = NULL
  BY <1>0, LoweredLevelValue
<1>. HIDE DEF LL
<1>4. Op(t) \in {"set", "delete"} /\ answer[t] = NoAnswer
  BY <1>0 DEF Locals, CallFits
<1>5. \/ Op(t) = "set" /\ pc'[t] = "insert" /\ answer'[t] = NoAnswer
      \/ Op(t) # "set" /\ pc'[t] = "return" /\ answer'[t] # NoAnswer
  BY <1>0, <1>2, <1>4, StoredIsAnswer DEF Types, TypeOK
<1>6. OnlyThread(t) BY <1>0, <1>2 DEF OnlyThread, Types, TypeOK
<1>7. /\ Nodes' = Nodes \ {c} /\ Nodes \subseteq Slot /\ Nodes \subseteq Address
      /\ Header \in live' /\ NULL \notin Nodes /\ Header \notin Nodes
  BY <1>0, <1>2, OnLevel, Distinct DEF Nodes, Level
<1>8. /\ node' \in Memory /\ node'[c] = Free
      /\ \A m \in Slot : m # c => node'[m] = node[m]
  <2>1. Free \in [key : Key \union {Absent}, value : Value \union {Absent},
                  node_level : Level, forward : [Level -> Pointer]]
    BY Distinct DEF Free, NewNode, NullPointers, Pointer, Level
  <2>2. node \in Memory BY <1>0 DEF Types
  <2>. QED BY <1>0, <1>2, <2>1, <2>2 DEF Memory
<1>9. \A i \in Level : On(i)' = On(i) /\ On(i) \subseteq Nodes \ {c}
  <2>1. SUFFICES ASSUME NEW i \in Level
                 PROVE On(i)' = On(i) /\ On(i) \subseteq Nodes \ {c}
    OBVIOUS
  <2>2. \A m : ~Off(m, i)' BY <1>2 DEF Off
  <2>3. \A m : Off(m, i) <=> m = c /\ i < lvl[t] BY <1>0, <1>1, Distinct DEF Off
  <2>4. i <= node[c].node_level => i < lvl[t] BY <1>0, Distinct DEF Level
  <2>5. c \notin On(i) BY <2>3, <2>4 DEF On
  <2>. QED BY <1>7, <1>8, <2>2, <2>3, <2>5 DEF On
<1>10. Keyed(node, Nodes)'
  BY <1>0, <1>7, <1>8 DEF Structure, Keyed
<1>11. /\ IsFiniteSet(Nodes) /\ Cardinality(Nodes) \in Nat
       /\ _element_count' = Cardinality(Nodes') /\ Cardinality(Nodes') \in Nat
  <2>1. IsFiniteSet(Nodes) /\ Cardinality(Nodes) \in Nat
    BY <1>0, FiniteNodes DEF Structure
  <2>2. Cardinality(Nodes') = Cardinality(Nodes) - 1
    BY <1>0, <1>7, <2>1, FS_RemoveElement
  <2>3. _element_count = Cardinality(Nodes) - 0
    BY <1>0 DEF HeightKept, Linking
  <2>4. IsFiniteSet(Nodes') BY <1>7, <2>1, FS_RemoveElement
  <2>5. Cardinality(Nodes') \in Nat BY <2>4, FS_CardinalityType
  <2>. QED BY <1>2, <2>1, <2>2, <2>3, <2>5
<1>12. Types'
  <2>1. _skip_list_level' \in Level BY <1>0, <1>2, <1>3
  <2>2. live' \subseteq Slot BY <1>0, <1>2 DEF Types, TypeOK
  <2>3. current' \in [Thread -> Pointer]
    BY <1>0, <1>2 DEF Types, TypeOK, Pointer
  <2>4. pc' \in [Thread -> {"idle", "search", "delete", "unlink", "insert", "link",
                        "dump", "load", "return"}]
    <3>1. pc \in [Thread -> {"idle", "search", "delete", "unlink", "insert", "link",
                        "dump", "load", "return"}]
      BY <1>0 DEF Types, TypeOK
    <3>. QED BY <1>2, <3>1
  <2>5. answer' = [u \in Thread |-> answer'[u]] BY <1>0, <1>2 DEF Types
  <2>6. _element_count' \in Nat BY <1>11
  <2>7. {_mtx', m_mtx'} \subseteq Thread \union {Absent} /\ call' \in [Thread -> Calls]
        /\ lvl' \in [Thread -> 0 .. MaxLevel + 1]
        /\ update' \in [Thread -> [Level -> Pointer]]
    BY <1>0, <1>2 DEF Types, TypeOK
  <2>8. /\ oldValue' \in [Thread -> Value \union {Absent}]
        /\ todo' = [u \in Thread |-> todo'[u]]
    BY <1>0, <1>2 DEF Types
  <2>. QED BY <1>8, <2>1, <2>2, <2>3, <2>4, <2>5, <2>6, <2>7, <2>8 DEF Types, TypeOK, Memory
<1>13. Mutexes'
  BY <1>0, <1>2, <1>5, <1>6, <1>7, Distinct DEF Mutexes, OnlyThread
<1>14. MemoryKept'
  <2>1. \A m \in Slot \ live' : node'[m] = Free
    BY <1>0, <1>2, <1>8 DEF Structure, MemoryKept
  <2>2. \A m \in Nodes' : node'[m].value \in Value
    BY <1>0, <1>7, <1>8 DEF Structure, MemoryKept
  <2>3. \A m \in Nodes', i \in Level : i > node'[m].node_level => node'[m].forward[i] = NULL
    BY <1>0, <1>7, <1>8 DEF Structure, MemoryKept, Next_
  <2>. QED BY <1>7, <2>1, <2>2, <2>3 DEF MemoryKept, Next_
<1>15. LevelsSorted'
  <2>1. ASSUME NEW i \in Level PROVE Sorted(node', On(i)', i)
    <3>1. Sorted(node, On(i), i) /\ NULL \notin On(i)
      BY <1>0, <1>7, <1>9, OnLevel
    <3>2. /\ \A m \in On(i) : node'[m].key = node[m].key
          /\ \A m \in On(i) \union {Header} : node'[m].forward[i] = node[m].forward[i]
      BY <1>0, <1>7, <1>8, <1>9 DEF Slot
    <3>3. Sorted(node', On(i), i) BY <3>1, <3>2, SortedFrame
    <3>. QED BY <1>9, <3>3
  <2>. QED BY <2>1 DEF LevelsSorted
<1>16. HeightKept'
  <2>1. ASSUME NEW m \in Nodes' PROVE node[m].node_level <= LL /\ node[m].node_level \in Nat
    <3>1. m \in Nodes /\ m # c /\ node[m].node_level \in Nat /\ node[m].node_level <= L
      BY <1>0, <1>7 DEF HeightKept, Types, Memory, Level
    <3>2. CASE node[m].node_level <= LL BY <3>1, <3>2
    <3>3. CASE ~(node[m].node_level <= LL)
      <4>. DEFINE i == node[m].node_level
      <4>1. i \in LL + 1 .. L /\ i \in 0 .. L BY <1>0, <1>3, <3>1, <3>3
      <4>2. i \in Level BY <1>0, <4>1
      <4>3. Next_(Header, i) = NULL BY <1>3, <4>1
      <4>4. ~Off(m, i) BY <1>0, <1>1, <3>1 DEF Off
      <4>5. m \in On(i) BY <3>1, <4>4 DEF On
      <4>6. Sorted(node, On(i), i) BY <1>0, <4>2, OnLevel
      <4>7. node[Header].forward[i] # NULL BY <4>5, <4>6 DEF Sorted, Follows
      <4>. QED BY <4>3, <4>7 DEF Next_
    <3>. QED BY <3>2, <3>3
  <2>2. ASSUME LL > 0 PROVE \E m \in Nodes' : node[m].node_level = LL
    <3>1. LL \in Level /\ LL \in Nat BY <1>0, <1>3
    <3>2. Sorted(node, On(LL), LL) BY <1>0, <3>1, OnLevel
    <3>3. Next_(Header, LL) \in On(LL) BY <1>3, <2>2, <3>2 DEF Sorted, Next_
    <3>4. PICK m \in On(LL) : TRUE BY <3>3
    <3>5. m \in Nodes' /\ LL <= node[m].node_level
      BY <1>7, <1>9, <3>1, <3>4 DEF On
    <3>6. node[m].node_level = LL BY <2>1, <3>1, <3>5
    <3>. QED BY <3>5, <3>6
  <2>3. \A m \in Nodes' : node'[m] = node[m] BY <1>7, <1>8
  <2>4. ~Linking' BY <1>2 DEF Linking
  <2>5. Cardinality(Nodes') - 0 = Cardinality(Nodes') BY <1>11
  <2>. QED BY <1>2, <1>11, <2>1, <2>2, <2>3, <2>4, <2>5 DEF HeightKept
<1>17. CallFits(t)' BY <1>2, <1>4, <1>5 DEF CallFits, Op
<1>18. SetKept(t)'
  <2>1. node[c].key = ArgKey(t) BY <1>0, <1>1 DEF Locals, WriteKept
  <2>2. \A m \in Nodes' : node'[m].key # ArgKey(t)
    BY <1>0, <1>7, <1>8, <2>1 DEF Structure, Keyed
  <2>3. ArgKey(t)' = ArgKey(t) BY <1>2 DEF ArgKey
  <2>. QED BY <1>5, <2>2, <2>3 DEF SetKept
<1>19. SearchKept(t)' /\ DumpKept(t)' /\ WriteKept(t)'
  BY <1>5 DEF SearchKept, DumpKept, WriteKept
<1>. QED BY <1>0, <1>6, <1>10, <1>12, <1>13, <1>14, <1>15, <1>16, <1>17, <1>18, <1>19,
         ThreadKeeps DEF Locals

-----------------------------------------------------------------------------
(* The invariant holds *)

\* A list with no node in it.
Blank ==
  /\ \A n \in Slot : node[n] = Free
  /\ live \subseteq {Header} /\ ~Linking
  /\ Header \in live => _element_count = 0 /\ _skip_list_level = 0

LEMMA EmptyList ==
  Blank => MemoryKept /\ Keyed(node, Nodes) /\ LevelsSorted /\ HeightKept
<1>. SUFFICES ASSUME Blank
              PROVE  MemoryKept /\ Keyed(node, Nodes) /\ LevelsSorted /\ HeightKept
  OBVIOUS
<1>0. \A n \in Slot : node[n] = Free BY DEF Blank
<1>1. Nodes = {} /\ \A i : On(i) = {} BY DEF Blank, Nodes, On
<1>2. MemoryKept BY <1>0, <1>1 DEF Blank, MemoryKept
<1>3. Keyed(node, Nodes) BY <1>1 DEF Keyed
<1>4. LevelsSorted
  <2>1. \A i \in Level : node[Header].forward[i] = NULL
    BY <1>0 DEF Free, NewNode, NullPointers, Slot
  <2>. QED BY <1>1, <2>1 DEF LevelsSorted, Sorted
<1>5. HeightKept
  <2>1. Cardinality(Nodes) = 0 BY <1>1, FS_EmptySet
  <2>. QED BY <1>1, <2>1 DEF Blank, HeightKept
<1>. QED BY <1>2, <1>3, <1>4, <1>5

LEMMA FreeType ==
  [n \in Slot |-> Free] \in Memory
BY Distinct DEF Memory, Free, NewNode, NullPointers, Pointer, Level

LEMMA InitInv ==
  ASSUME Init
  PROVE  Inv
<1>1. Types
  <2>1. node \in Memory BY FreeType DEF Init
  <2>2. 0 \in Level /\ 0 \in Nat /\ 0 \in 0 .. MaxLevel + 1 /\ NULL \in Pointer
        /\ NullPointers \in [Level -> Pointer] /\ <<"none">> \in Calls
    BY Distinct DEF Level, Pointer, NullPointers, Calls
  <2>3. live \subseteq Slot /\ {_mtx, m_mtx} \subseteq Thread \union {Absent}
    BY DEF Init, Slot
  <2>4. /\ call \in [Thread -> Calls] /\ current \in [Thread -> Pointer]
        /\ lvl \in [Thread -> 0 .. MaxLevel + 1]
        /\ update \in [Thread -> [Level -> Pointer]]
    BY <2>2 DEF Init
  <2>. QED BY <2>1, <2>2, <2>3, <2>4 DEF Init, Types, TypeOK, Memory
<1>2. Mutexes BY Distinct DEF Init, Mutexes
<1>3. MemoryKept /\ Keyed(node, Nodes) /\ LevelsSorted /\ HeightKept
  <2>1. Blank BY DEF Init, Blank, Linking
  <2>. QED BY <2>1, EmptyList
<1>4. ASSUME NEW t \in Thread
      PROVE CallFits(t) /\ SearchKept(t) /\ DumpKept(t) /\ WriteKept(t) /\ SetKept(t)
  BY DEF Init, CallFits, SearchKept, DumpKept, WriteKept, SetKept, Op, NoAnswer
<1>. QED BY <1>1, <1>2, <1>3, <1>4 DEF Inv

\* While every thread is idle both mutexes are free.
LEMMA AllIdle ==
  ASSUME Types, Mutexes, \A t \in Thread : pc[t] = "idle"
  PROVE  _mtx = Absent /\ m_mtx = Absent
BY DEF Types, TypeOK, Mutexes

\* The threads notice nothing of the list's destruction and construction.
LEMMA IdleKept ==
  ASSUME Inv, \A t \in Thread : pc[t] = "idle", UNCHANGED <<pc, locals>>
  PROVE  \A t \in Thread : Locals(t)'
<1>1. SUFFICES ASSUME NEW t \in Thread PROVE Locals(t)'
  OBVIOUS
<1>2. CallFits(t)' BY DEF Inv, CallFits, Op, locals
<1>3. SearchKept(t)' /\ DumpKept(t)' /\ WriteKept(t)' /\ SetKept(t)'
  BY DEF SearchKept, DumpKept, WriteKept, SetKept
<1>. QED BY <1>2, <1>3 DEF Locals

LEMMA DestroyKeeps ==
  ASSUME Inv, Destroy
  PROVE  Inv'
<1>0. Types /\ Mutexes /\ Structure /\ Header \in live /\ \A t \in Thread : pc[t] = "idle"
  BY DEF Inv, Structure, Destroy
<1>1. _mtx = Absent BY <1>0, AllIdle
<1>2. Chain(0) = Nodes
  <2>1. 0 \in Level /\ On(0) = Nodes BY <1>0, <1>1, LevelZero
  <2>. QED BY <1>0, <2>1, ChainIsLevel
<1>3. live' = {} /\ node' = [n \in Slot |-> Free]
      /\ UNCHANGED <<_skip_list_level, _element_count, _mtx, m_mtx, pc, locals>>
  BY <1>2 DEF Destroy, Nodes
<1>4. Types'
  <2>1. node' \in Memory BY <1>3, FreeType
  <2>. QED BY <1>0, <1>3, <2>1 DEF Types, TypeOK, Memory, locals
<1>5. Mutexes' BY <1>0, <1>3 DEF Mutexes
<1>6. MemoryKept' /\ Keyed(node, Nodes)' /\ LevelsSorted' /\ HeightKept'
  <2>1. Nodes' = {} BY <1>3 DEF Nodes
  <2>. QED BY <1>3, <2>1 DEF MemoryKept, Keyed, LevelsSorted, HeightKept
<1>7. \A t \in Thread : Locals(t)' BY <1>0, <1>3, IdleKept
<1>. QED BY <1>4, <1>5, <1>6, <1>7 DEF Inv, Locals

LEMMA ConstructKeeps ==
  ASSUME Inv, Construct
  PROVE  Inv'
<1>0. Types /\ Mutexes /\ MemoryKept /\ Header \notin live
  BY DEF Inv, Construct
<1>1. \A t \in Thread : pc[t] = "idle" BY <1>0 DEF Mutexes
<1>2. _mtx = Absent BY <1>0, <1>1, AllIdle
<1>3. /\ live = {} /\ live' = {Header} /\ _skip_list_level' = 0 /\ _element_count' = 0
      /\ UNCHANGED <<node, _mtx, m_mtx, pc, locals>>
      /\ \A n \in Slot : node[n] = Free
  BY <1>0 DEF Construct, MemoryKept
<1>4. Types'
  <2>1. 0 \in Level /\ 0 \in Nat /\ {Header} \subseteq Slot BY Distinct DEF Level, Slot
  <2>. QED BY <1>0, <1>3, <2>1 DEF Types, TypeOK, Memory, locals
<1>5. Mutexes' BY <1>0, <1>1, <1>3 DEF Mutexes
<1>6. MemoryKept' /\ Keyed(node, Nodes)' /\ LevelsSorted' /\ HeightKept'
  <2>1. Blank' BY <1>2, <1>3 DEF Blank, Linking
  <2>. QED BY <2>1, EmptyList, PTL
<1>7. \A t \in Thread : Locals(t)' BY <1>1, <1>3, IdleKept
<1>. QED BY <1>4, <1>5, <1>6, <1>7 DEF Inv, Locals

LEMMA NextKeeps ==
  ASSUME Inv, [Next]_vars
  PROVE  Inv'
<1>1. ASSUME NEW t \in Thread, ThreadStep(t) PROVE Inv'
  BY <1>1, CallKeeps, ReturnKeeps, SearchHopKeeps, SearchEndKeeps, DeleteBeginKeeps,
     UnlinkKeeps, DeleteEndKeeps, InsertBeginKeeps, LinkKeeps, InsertEndKeeps,
     DumpKeeps, LoadKeeps DEF ThreadStep
<1>2. CASE UNCHANGED vars
  <2>1. /\ UNCHANGED <<node, live, _skip_list_level, _element_count, _mtx, m_mtx, pc,
                       call, current, lvl, update, oldValue, todo, answer>>
    BY <1>2 DEF vars, list, locals
  <2>2. \A i : On(i)' = On(i)
    <3>1. \A n, i : Off(n, i)' <=> Off(n, i) BY <2>1 DEF Off
    <3>. QED BY <2>1, <3>1 DEF On, Nodes
  <2>3. Types' /\ Mutexes' /\ MemoryKept'
    BY <2>1 DEF Inv, Types, TypeOK, Memory, Mutexes, MemoryKept, Nodes, Next_
  <2>4. Keyed(node, Nodes)' /\ LevelsSorted' /\ HeightKept'
    BY <2>1, <2>2 DEF Inv, Keyed, LevelsSorted, Sorted, Follows, HeightKept, Linking, Nodes
  <2>5. ASSUME NEW t \in Thread PROVE Locals(t)'
    <3>1. CallFits(t)' BY <2>1 DEF Inv, CallFits, Op
    <3>2. SearchKept(t)' /\ SetKept(t)'
      BY <2>1, <2>2 DEF Inv, SearchKept, SetKept, ArgKey, Op, Nodes
    <3>3. DumpKept(t)'
      BY <2>1, <2>2 DEF Inv, DumpKept, Passed, PairsOf
    <3>4. WriteKept(t)'
      BY <2>1, <2>2 DEF Inv, WriteKept, IsPred, Pair, ArgKey, Op, Nodes
    <3>. QED BY <3>1, <3>2, <3>3, <3>4 DEF Locals
  <2>. QED BY <2>3, <2>4, <2>5 DEF Inv, Locals
<1>. QED BY <1>1, <1>2, DestroyKeeps, ConstructKeeps DEF Next

\* What insert_element, delete_element, search_element and dump_file rely on
\* between any two steps, whatever the other threads do, is never lost.
THEOREM Invariance == Spec => []Inv
<1>1. Init => Inv BY InitInv
<1>2. Inv /\ [Next]_vars => Inv' BY NextKeeps
<1>. QED BY <1>1, <1>2, PTL DEF Spec

-----------------------------------------------------------------------------
(* What the invariant says of the list *)

LEMMA InvWellFormed ==
  ASSUME Inv
  PROVE  WellFormed
<1>0. Types /\ Structure /\ HeightKept BY DEF Inv, Structure
<1>1. SUFFICES ASSUME Settled PROVE LevelsAgree /\ CountAndHeight
  BY <1>0 DEF WellFormed, LevelsAgree, CountAndHeight, Types
<1>2. _mtx = Absent /\ Header \in live BY <1>1 DEF Settled
<1>3. /\ Chain(0) = Nodes /\ 0 \in Level
      /\ \A i \in Level : /\ Chain(i) = On(i) /\ Sorted(node, On(i), i)
                          /\ On(i) = {n \in Nodes : i <= node[n].node_level}
                          /\ On(i) \subseteq Nodes
  BY <1>0, <1>2, LevelZero, ChainIsLevel, QuietLevels, OnLevel
<1>4. \A n \in Nodes : n # Header /\ n # NULL /\ node[n].node_level \in Nat
  BY <1>0, <1>3, OnLevel, Distinct DEF Nodes, Types, Memory, Level
<1>5. LevelsAgree
  <2>1. SUFFICES ASSUME NEW i \in Level
                 PROVE  /\ Chain(i) = {n \in Chain(0) : node[n].node_level >= i}
                        /\ \A n \in Chain(i) : Next_(n, i) # NULL
                             => node[n].key < node[Next_(n, i)].key
    BY DEF LevelsAgree
  <2>2. Chain(i) = On(i) /\ Sorted(node, On(i), i) BY <1>3
  <2>3. On(i) = {n \in Nodes : node[n].node_level >= i}
    BY <1>3, <1>4, Distinct DEF Level
  <2>4. \A n \in On(i) : Next_(n, i) # NULL => node[n].key < node[Next_(n, i)].key
    BY <1>3, <1>4, <2>2 DEF Sorted, Follows, Next_
  <2>. QED BY <1>3, <2>2, <2>3, <2>4
<1>6. CountAndHeight
  <2>1. _element_count = Cardinality(Chain(0))
    <3>1. IsFiniteSet(Nodes) /\ Cardinality(Nodes) \in Nat
      BY <1>0, FiniteNodes DEF Structure
    <3>2. _element_count = Cardinality(Nodes) - 0 BY <1>0, <1>2 DEF HeightKept, Linking
    <3>. QED BY <1>3, <3>1, <3>2
  <2>2. _skip_list_level \in Level /\ _skip_list_level \in Nat
    BY <1>0, Distinct DEF Types, TypeOK, Level
  <2>3. ASSUME _skip_list_level > 0 PROVE Next_(Header, _skip_list_level) # NULL
    <3>1. PICK n \in Nodes : node[n].node_level = _skip_list_level
      BY <1>0, <1>2, <2>3 DEF HeightKept
    <3>2. n \in On(_skip_list_level) BY <1>3, <1>4, <2>2, <3>1
    <3>. QED BY <1>3, <2>2, <3>2 DEF Sorted, Follows, Next_
  <2>4. ASSUME NEW i \in Level, i > _skip_list_level PROVE Next_(Header, i) = NULL
    <3>1. i \in Nat BY Distinct DEF Level
    <3>2. \A n \in Nodes : ~(i <= node[n].node_level)
      <4>1. \A n \in Nodes : node[n].node_level <= _skip_list_level
        BY <1>0, <1>2 DEF HeightKept
      <4>. QED BY <1>4, <2>2, <2>4, <3>1, <4>1
    <3>3. On(i) = {} BY <1>3, <3>2
    <3>. QED BY <1>3, <3>3 DEF Sorted, Next_
  <2>. QED BY <2>1, <2>3, <2>4 DEF CountAndHeight
<1>. QED BY <1>5, <1>6

LEMMA InvNothingLeaks ==
  ASSUME Inv
  PROVE  NothingLeaks
<1>0. Structure BY DEF Inv, Structure
<1>1. ASSUME Settled PROVE live = Chain(0) \union {Header}
  <2>1. Chain(0) = Nodes
    BY <1>0, <1>1, LevelZero, ChainIsLevel DEF Settled
  <2>. QED BY <1>1, <2>1 DEF Settled, Nodes
<1>2. Header \notin live => live = {} BY <1>0 DEF Structure, MemoryKept
<1>. QED BY <1>1, <1>2 DEF NothingLeaks

LEMMA InvReaders ==
  ASSUME Inv
  PROVE  ReadersOnLiveNodes
<1>1. SUFFICES ASSUME NEW t \in Thread, pc[t] \in {"search", "dump"}
               PROVE current[t] \in live
  BY DEF ReadersOnLiveNodes
<1>2. Header \in live BY <1>1, Reading
<1>3. SearchKept(t) /\ DumpKept(t) BY DEF Inv
<1>4. \E i : current[t] \in On(i) \union {Header}
  BY <1>1, <1>3 DEF SearchKept, DumpKept
<1>. QED BY <1>2, <1>4 DEF On, Nodes

\* Whenever _mtx is free every level of the list is the sorted chain of exactly
\* the nodes that are high enough, and _element_count and _skip_list_level are
\* its length and height: insert_element, delete_element and the levels that
\* get_random_level draws can follow each other in any order.
THEOREM AlwaysWellFormed == Spec => []WellFormed
<1>1. Inv => WellFormed BY InvWellFormed
<1>. QED BY <1>1, Invariance, PTL

\* Whenever _mtx is free exactly the nodes of level 0 and the header are
\* allocated: delete_element frees each node it unlinked and none that is still
\* on a chain, and clear with the destructor frees all of them.
THEOREM NeverLeaks == Spec => []NothingLeaks
<1>1. Inv => NothingLeaks BY InvNothingLeaks
<1>. QED BY <1>1, Invariance, PTL

\* The node search_element or dump_file stands on is allocated, although neither
\* takes _mtx.
THEOREM ReadersStayOnLiveNodes == Spec => []ReadersOnLiveNodes
<1>1. Inv => ReadersOnLiveNodes BY InvReaders
<1>. QED BY <1>1, Invariance, PTL

-----------------------------------------------------------------------------
(* The list implements the map *)

\* What is stored under each key: the value that is being replaced, or else that
\* of the key's node on level 0.
ReadsAs(k, replaced) ==
  ~replaced => /\ \A n \in On(0) : node[n].key = k => MapOf[k] = node[n].value
               /\ (\A n \in On(0) : node[n].key # k) => MapOf[k] = Absent

MapReads ==
  /\ MapOf = [k \in Key |-> MapOf[k]]
  /\ \A k \in Key :
       /\ \A t \in Thread : Replacing(t, k) => MapOf[k] = oldValue[t]
       /\ ReadsAs(k, \E t \in Thread : Replacing(t, k))

LEMMA MapReading ==
  Inv => MapReads
<1>. SUFFICES ASSUME Inv PROVE MapReads
  OBVIOUS
<1>0. Types /\ Mutexes /\ Structure BY DEF Inv, Structure
<1>1. MapOf = [k \in Key |-> MapOf[k]] BY DEF MapOf
<1>2. ASSUME NEW k \in Key, NEW t \in Thread, Replacing(t, k)
      PROVE  MapOf[k] = oldValue[t]
  <2>1. ASSUME NEW u \in Thread, Replacing(u, k) PROVE u = t
    <3>1. pc[u] # "idle" /\ pc[t] # "idle" BY <1>2, <2>1 DEF Replacing
    <3>. QED BY <1>0, <3>1 DEF Mutexes
  <2>2. (CHOOSE u \in Thread : Replacing(u, k)) = t
    BY <1>2, <2>1, Zenon
  <2>. QED BY <1>2, <2>2, Zenon DEF MapOf
<1>3. ASSUME NEW k \in Key, ~ \E t \in Thread : Replacing(t, k)
      PROVE  /\ \A n \in On(0) : node[n].key = k => MapOf[k] = node[n].value
             /\ (\A n \in On(0) : node[n].key # k) => MapOf[k] = Absent
  <2>1. MapOf[k] = IF Header \in live /\ Stored(k) # {}
                   THEN node[CHOOSE n \in Stored(k) : TRUE].value ELSE Absent
    BY <1>3, Zenon DEF MapOf
  <2>2. 0 \in Level BY Distinct DEF Level
  <2>3. Header \in live => Stored(k) = {n \in On(0) : node[n].key = k}
    BY <1>0, <2>2, ChainIsLevel DEF Stored
  <2>4. Header \notin live => On(0) = {}
    BY <1>0 DEF Structure, MemoryKept, On, Nodes
  <2>5. \A m, n \in On(0) : node[m].key = node[n].key => m = n
    BY <1>0, <2>2, OnLevel DEF Keyed
  <2>6. ASSUME NEW n \in On(0), node[n].key = k PROVE MapOf[k] = node[n].value
    <3>1. Header \in live /\ n \in Stored(k) BY <2>3, <2>4, <2>6
    <3>2. \A m \in Stored(k) : m = n BY <2>3, <2>5, <2>6, <3>1
    <3>3. (CHOOSE m \in Stored(k) : TRUE) = n BY <3>1, <3>2
    <3>. QED BY <2>1, <3>1, <3>3
  <2>7. ASSUME \A n \in On(0) : node[n].key # k PROVE MapOf[k] = Absent
    <3>1. Header \in live => Stored(k) = {} BY <2>3, <2>7
    <3>. QED BY <2>1, <3>1
  <2>. QED BY <2>6, <2>7
<1>. QED BY <1>1, <1>2, <1>3 DEF MapReads, ReadsAs

\* What a set or a delete has done before it reports so.
Taken(t) ==
  \/ Op(t) = "set" /\ pc[t] = "link" /\ lvl[t] > 0
  \/ Op(t) = "delete" /\ pc[t] = "unlink" /\ lvl[t] > 0

\* While thread t is the only one in the list the map depends on its locals only.
Reads(t) ==
  /\ MapOf = [k \in Key |-> MapOf[k]]
  /\ \A k \in Key : /\ Replacing(t, k) => MapOf[k] = oldValue[t]
                    /\ ReadsAs(k, Replacing(t, k))
  /\ AnswerOf[t] = IF Taken(t) THEN [type |-> "stored"] ELSE answer[t]

LEMMA ReadsAlone ==
  ASSUME NEW t \in Thread
  PROVE  MapReads /\ (\A u \in Thread \ {t} : pc[u] = "idle") => Reads(t)
<1>. SUFFICES ASSUME MapReads, \A u \in Thread \ {t} : pc[u] = "idle" PROVE Reads(t)
  OBVIOUS
<1>1. ASSUME NEW k \in Key
      PROVE  (\E u \in Thread : Replacing(u, k)) <=> Replacing(t, k)
  BY DEF Replacing
<1>2. AnswerOf[t] = IF Taken(t) THEN [type |-> "stored"] ELSE answer[t]
  BY DEF AnswerOf, Taken
<1>. QED BY <1>1, <1>2 DEF MapReads, Reads, ReadsAs

\* Every step of a thread is its own.
LEMMA StepFrame ==
  ASSUME Inv, NEW t \in Thread, ThreadStep(t)
  PROVE  m_mtx \in {t, Absent} /\ OnlyThread(t)
<1>0. Types /\ Mutexes BY DEF Inv
<1>1. /\ pc \in [Thread -> {"idle", "search", "delete", "unlink", "insert", "link",
                        "dump", "load", "return"}]
      /\ call \in [Thread -> Calls]
      /\ answer = [u \in Thread |-> answer[u]] /\ todo = [u \in Thread |-> todo[u]]
  BY <1>0 DEF Types, TypeOK
<1>2. m_mtx \in {t, Absent}
  <2>1. CASE Call(t) BY <2>1 DEF Call, LockServer
  <2>2. CASE ~Call(t)
    <3>1. pc[t] # "idle"
      BY <2>2 DEF ThreadStep, Return, SearchHop, SearchEnd, DeleteBegin, Unlink, DeleteEnd,
                  InsertBegin, Link, InsertEnd, Dump, Load
    <3>. QED BY <1>0, <3>1 DEF Mutexes
  <2>. QED BY <2>1, <2>2
<1>3. ASSUME Call(t) PROVE OnlyThread(t)
  <2>1. PICK c, p, s : /\ call' = [call EXCEPT ![t] = c] /\ pc' = [pc EXCEPT ![t] = p]
                       /\ todo' = [todo EXCEPT ![t] = s] /\ answer' = answer
    <3>1. \E c, p : call' = [call EXCEPT ![t] = c] /\ pc' = [pc EXCEPT ![t] = p]
      BY <1>3, Zenon DEF Call, Goto
    <3>2. \E s : todo' = [todo EXCEPT ![t] = s] BY <1>3, Zenon DEF Call
    <3>3. answer' = answer BY <1>3 DEF Call
    <3>. QED BY <3>1, <3>2, <3>3, Zenon
  <2>. QED BY <1>1, <2>1 DEF OnlyThread
<1>4. ASSUME Return(t) PROVE OnlyThread(t)
  BY <1>1, <1>4 DEF OnlyThread, Return, Goto
<1>5. ASSUME SearchHop(t) \/ SearchEnd(t) PROVE OnlyThread(t)
  BY <1>1, <1>5 DEF OnlyThread, SearchHop, SearchEnd, Goto, Answer
<1>6. ASSUME DeleteBegin(t) \/ Unlink(t) \/ DeleteEnd(t) PROVE OnlyThread(t)
  BY <1>1, <1>6 DEF OnlyThread, DeleteBegin, Unlink, DeleteEnd, AfterDelete, Goto, Answer
<1>7. ASSUME InsertBegin(t) \/ Link(t) \/ InsertEnd(t) PROVE OnlyThread(t)
  <2>1. CASE AfterInsert(t) /\ UNCHANGED call
    BY <1>1, <2>1 DEF OnlyThread, AfterInsert, Goto, Answer
  <2>2. CASE UNCHANGED <<call, todo, answer>> /\ (pc' = [pc EXCEPT ![t] = "link"] \/ UNCHANGED pc)
    BY <1>1, <2>2 DEF OnlyThread
  <2>. QED BY <1>7, <2>1, <2>2 DEF InsertBegin, Link, InsertEnd, Goto
<1>8. ASSUME Dump(t) PROVE OnlyThread(t)
  BY <1>1, <1>8 DEF OnlyThread, Dump, Goto, Answer
<1>9. ASSUME Load(t) PROVE OnlyThread(t)
  BY <1>1, <1>9 DEF OnlyThread, Load, Goto, Answer
<1>. QED BY <1>2, <1>3, <1>4, <1>5, <1>6, <1>7, <1>8, <1>9, Zenon DEF ThreadStep

\* Before and after a step of a thread the map reads as its locals say, and the
\* other threads' answers stay.
LEMMA StepReads ==
  ASSUME Inv, Inv', NEW t \in Thread, ThreadStep(t)
  PROVE  /\ Reads(t) /\ Reads(t)'
         /\ AnswerOf' = [AnswerOf EXCEPT ![t] = AnswerOf'[t]]
         /\ call \in [Thread -> Calls]
<1>1. m_mtx \in {t, Absent} /\ OnlyThread(t) BY StepFrame
<1>2. \A u \in Thread \ {t} : pc[u] = "idle" /\ pc'[u] = "idle" /\ answer'[u] = answer[u]
  BY <1>1, OthersKept DEF OnlyThread
<1>3. Reads(t) BY <1>2, MapReading, ReadsAlone
<1>4. Reads(t)'
  <2>1. MapReads' BY MapReading, PTL
  <2>2. (\A u \in Thread \ {t} : pc[u] = "idle")' BY <1>2
  <2>. QED BY <2>1, <2>2, ReadsAlone, PTL
<1>5. AnswerOf' = [AnswerOf EXCEPT ![t] = AnswerOf'[t]]
  BY <1>2 DEF AnswerOf
<1>6. call \in [Thread -> Calls] BY DEF Inv, Types, TypeOK
<1>. QED BY <1>3, <1>4, <1>5, <1>6

MapStep == Map!Next \/ UNCHANGED <<MapOf, call, AnswerOf>>

\* The map stays while level 0 does, and a replaced value is replaced further on.
LEMMA MapStays ==
  ASSUME NEW t \in Thread, Reads(t), Reads(t)', On(0)' = On(0),
         \A n \in On(0) : node'[n].key = node[n].key /\ node'[n].value = node[n].value,
         \A k \in Key : \/ ~Replacing(t, k) /\ ~Replacing(t, k)'
                        \/ Replacing(t, k) /\ Replacing(t, k)' /\ oldValue'[t] = oldValue[t]
  PROVE  MapOf' = MapOf
<1>1. ASSUME NEW k \in Key PROVE MapOf'[k] = MapOf[k]
  <2>1. CASE Replacing(t, k) /\ Replacing(t, k)' /\ oldValue'[t] = oldValue[t]
    BY <2>1 DEF Reads
  <2>2. CASE ~Replacing(t, k) /\ ~Replacing(t, k)'
    <3>1. /\ \A n \in On(0) : node[n].key = k => MapOf[k] = node[n].value
          /\ (\A n \in On(0) : node[n].key # k) => MapOf[k] = Absent
      BY <2>2 DEF Reads, ReadsAs
    <3>2. /\ \A n \in On(0) : node[n].key = k => MapOf'[k] = node[n].value
          /\ (\A n \in On(0) : node[n].key # k) => MapOf'[k] = Absent
      BY <2>2 DEF Reads, ReadsAs
    <3>. QED BY <3>1, <3>2
  <2>. QED BY <2>1, <2>2
<1>2. MapOf = [k \in Key |-> MapOf[k]] /\ MapOf' = [k \in Key |-> MapOf'[k]]
  BY DEF Reads
<1>. QED BY <1>1, <1>2

LEMMA AnswerStays ==
  ASSUME NEW t \in Thread, Reads(t), Reads(t)',
         AnswerOf' = [AnswerOf EXCEPT ![t] = AnswerOf'[t]],
         \/ ~Taken(t) /\ ~Taken(t)' /\ answer'[t] = answer[t]
         \/ Taken(t) /\ Taken(t)'
         \/ Taken(t) /\ ~Taken(t)' /\ answer'[t] = [type |-> "stored"]
  PROVE  AnswerOf' = AnswerOf
<1>1. AnswerOf'[t] = AnswerOf[t] BY DEF Reads
<1>2. AnswerOf = [u \in Thread |-> AnswerOf[u]] BY DEF AnswerOf
<1>3. [AnswerOf EXCEPT ![t] = AnswerOf[t]] = AnswerOf BY <1>2
<1>. QED BY <1>1, <1>3

LEMMA MapAtCall ==
  ASSUME Inv, Inv', NEW t \in Thread, Call(t), Reads(t), Reads(t)',
         AnswerOf' = [AnswerOf EXCEPT ![t] = AnswerOf'[t]]
  PROVE  MapStep
<1>0. /\ Types /\ Mutexes /\ CallFits(t) /\ pc[t] = "idle" /\ m_mtx = Absent
      /\ UNCHANGED <<list, _mtx, answer>>
  BY DEF Inv, Call, LockServer
<1>1. _mtx = Absent BY <1>0, Nobody
<1>2. PICK c, p : /\ call' = [call EXCEPT ![t] = c] /\ pc' = [pc EXCEPT ![t] = p]
                  /\ p \in {"search", "delete", "dump", "load"}
  <2>1. \E c, p : /\ call' = [call EXCEPT ![t] = c] /\ pc' = [pc EXCEPT ![t] = p]
                  /\ p \in {"search", "delete", "dump", "load"}
    BY Zenon DEF Call, Goto
  <2>. QED BY <2>1, Zenon
<1>3. pc'[t] = p /\ call'[t] = c BY <1>0, <1>2 DEF Types, TypeOK
<1>4. On(0)' = On(0)
  <2>1. \A m : ~Off(m, 0)' /\ ~Off(m, 0) BY <1>0, <1>1 DEF Off
  <2>. QED BY <1>0, <2>1 DEF On, Nodes, list
<1>5. MapOf' = MapOf
  <2>1. \A k \in Key : ~Replacing(t, k) /\ ~Replacing(t, k)'
    BY <1>0, <1>2, <1>3 DEF Replacing
  <2>. QED BY <1>0, <1>4, <2>1, MapStays DEF list
<1>6. AnswerOf' = AnswerOf
  <2>1. ~Taken(t) /\ ~Taken(t)' BY <1>0, <1>2, <1>3 DEF Taken
  <2>. QED BY <1>0, <2>1, AnswerStays
<1>7. call[t] = <<"none">> BY <1>0, CallShape DEF CallFits
<1>8. c \in Map!Calls
  <2>1. CallFits(t)' /\ Types' BY DEF Inv
  <2>2. c \in Calls /\ Op(t)' = c[1] /\ c[1] # "none"
    BY <1>2, <1>3, <2>1 DEF Types, TypeOK, CallFits, Op
  <2>3. <<"none">>[1] = "none" OBVIOUS
  <2>. QED BY <2>2, <2>3 DEF Calls, Map!Calls
<1>9. Map!Call(t) BY <1>2, <1>5, <1>6, <1>7, <1>8 DEF Map!Call, Map!Idle
<1>. QED BY <1>9 DEF MapStep, Map!Next

LEMMA MapAtReturn ==
  ASSUME Inv, Inv', NEW t \in Thread, Return(t), Reads(t), Reads(t)',
         AnswerOf' = [AnswerOf EXCEPT ![t] = AnswerOf'[t]]
  PROVE  MapStep
<1>0. /\ Types /\ Mutexes /\ Locals(t) /\ pc[t] = "return" /\ m_mtx = t /\ _mtx = Absent
  BY Reading DEF Return
<1>1. /\ UNCHANGED <<list, _mtx>>
      /\ pc' = [pc EXCEPT ![t] = "idle"] /\ call' = [call EXCEPT ![t] = <<"none">>]
      /\ answer' = [answer EXCEPT ![t] = NoAnswer]
  BY DEF Return, Goto, NoAnswer
<1>2. pc'[t] = "idle" /\ answer'[t] = NoAnswer BY <1>0, <1>1 DEF Types, TypeOK
<1>3. On(0)' = On(0)
  <2>1. \A m : ~Off(m, 0)' /\ ~Off(m, 0) BY <1>0, <1>1 DEF Off
  <2>. QED BY <1>1, <2>1 DEF On, Nodes, list
<1>4. MapOf' = MapOf
  <2>1. \A k \in Key : ~Replacing(t, k) /\ ~Replacing(t, k)'
    BY <1>0, <1>2 DEF Replacing
  <2>. QED BY <1>1, <1>3, <2>1, MapStays DEF list
<1>5. ~Taken(t) /\ ~Taken(t)' BY <1>0, <1>2 DEF Taken
<1>6. AnswerOf[t] # NoAnswer /\ AnswerOf'[t] = NoAnswer
  <2>1. answer[t] # NoAnswer BY <1>0 DEF Locals, CallFits
  <2>. QED BY <1>2, <1>5, <2>1 DEF Reads
<1>7. AnswerOf' = [AnswerOf EXCEPT ![t] = NoAnswer] BY <1>6
<1>8. Map!Return(t)
  BY <1>1, <1>4, <1>6, <1>7 DEF Map!Return, Map!Idle, Map!NoAnswer, NoAnswer
<1>. QED BY <1>8 DEF MapStep, Map!Next

\* A step that neither enters nor leaves the pointer updates and reports nothing.
LEMMA MapAtRest ==
  ASSUME Inv, Inv', NEW t \in Thread, Reads(t), Reads(t)',
         AnswerOf' = [AnswerOf EXCEPT ![t] = AnswerOf'[t]],
         On(0)' = On(0), UNCHANGED call,
         \A n \in On(0) : node'[n].key = node[n].key /\ node'[n].value = node[n].value,
         \A k \in Key : \/ ~Replacing(t, k) /\ ~Replacing(t, k)'
                        \/ Replacing(t, k) /\ Replacing(t, k)' /\ oldValue'[t] = oldValue[t],
         \/ ~Taken(t) /\ ~Taken(t)' /\ answer'[t] = answer[t]
         \/ Taken(t) /\ Taken(t)'
         \/ Taken(t) /\ ~Taken(t)' /\ answer'[t] = [type |-> "stored"]
  PROVE  MapStep
<1>1. MapOf' = MapOf BY MapStays, Zenon
<1>2. AnswerOf' = AnswerOf BY AnswerStays, Zenon
<1>. QED BY <1>1, <1>2 DEF MapStep

LEMMA MapAtSearch ==
  ASSUME Inv, Inv', NEW t \in Thread, SearchHop(t) \/ SearchEnd(t), Reads(t), Reads(t)',
         AnswerOf' = [AnswerOf EXCEPT ![t] = AnswerOf'[t]]
  PROVE  MapStep
<1>. DEFINE n == Next_(current[t], 0)
            k == ArgKey(t)
            value == IF Holds(n, k) THEN node[n].value ELSE Absent
<1>0. /\ Types /\ Mutexes /\ Locals(t) /\ pc[t] = "search" /\ m_mtx = t /\ _mtx = Absent
      /\ UNCHANGED <<list, _mtx, call>>
  <2>1. pc[t] = "search" /\ UNCHANGED <<list, _mtx, call>> BY DEF SearchHop, SearchEnd
  <2>. QED BY <2>1, Reading
<1>1. On(0)' = On(0) /\ node' = node
  <2>1. \A m : ~Off(m, 0)' /\ ~Off(m, 0) BY <1>0 DEF Off
  <2>. QED BY <1>0, <2>1 DEF On, Nodes, list
<1>2. CASE SearchHop(t)
  <2>1. pc' = pc /\ answer' = answer BY <1>2 DEF SearchHop
  <2>2. \A kk \in Key : ~Replacing(t, kk) /\ ~Replacing(t, kk)'
    BY <1>0, <2>1 DEF Replacing
  <2>3. ~Taken(t) /\ ~Taken(t)' BY <1>0, <2>1 DEF Taken
  <2>. QED BY <1>0, <1>1, <2>1, <2>2, <2>3, MapAtRest
<1>3. CASE SearchEnd(t)
  <2>1. /\ lvl[t] = 0 /\ ~Before(n, k)
        /\ oldValue' = [oldValue EXCEPT ![t] = value]
        /\ \/ /\ Op(t) = "get" /\ pc' = [pc EXCEPT ![t] = "return"]
              /\ answer' = [answer EXCEPT ![t] = [type |-> "found", key |-> k, value |-> value]]
           \/ /\ Op(t) = "set"
              /\ pc' = [pc EXCEPT ![t] = IF Holds(n, k) THEN "delete" ELSE "insert"]
              /\ UNCHANGED answer
    BY <1>3 DEF SearchEnd, Answer, Goto
  <2>2. /\ k \in Key /\ (Holds(n, k) => n \in On(0) /\ node[n].key = k)
        /\ (~Holds(n, k) => \A m \in On(0) : node[m].key # k)
    <3>1. Holds(n, k) => node[n].key = k BY DEF Holds
    <3>. QED BY <1>0, <2>1, <3>1, SearchFinds
  <2>3. \A kk \in Key : ~Replacing(t, kk) BY <1>0 DEF Replacing
  <2>4. MapOf[k] = value BY <2>2, <2>3 DEF Reads, ReadsAs
  <2>5. oldValue'[t] = value BY <1>0, <2>1 DEF Types
  <2>. HIDE DEF n, k, value
  <2>6. CASE Op(t) = "get"
    <3>0. /\ pc' = [pc EXCEPT ![t] = "return"]
          /\ answer' = [answer EXCEPT ![t] = [type |-> "found", key |-> k, value |-> value]]
      BY <2>1, <2>6
    <3>1. pc'[t] = "return" /\ answer'[t] = [type |-> "found", key |-> k, value |-> value]
      BY <1>0, <3>0 DEF Types, TypeOK
    <3>2. \A kk \in Key : ~Replacing(t, kk)' BY <3>1 DEF Replacing
    <3>3. MapOf' = MapOf BY <1>1, <2>3, <3>2, MapStays
    <3>4. ~Taken(t) /\ ~Taken(t)' BY <1>0, <3>1 DEF Taken
    <3>5. AnswerOf' = [AnswerOf EXCEPT ![t] = [type |-> "found", key |-> k, value |-> MapOf[k]]]
      BY <2>4, <3>1, <3>4 DEF Reads
    <3>6. AnswerOf[t] = NoAnswer BY <1>0, <3>4 DEF Reads, Locals, CallFits
    <3>7. Map!Get(t)
      BY <1>0, <2>6, <3>3, <3>5, <3>6
         DEF Map!Get, Map!Inside, Map!Reports, Map!NoAnswer, NoAnswer, Op, ArgKey, k
    <3>. QED BY <3>7 DEF MapStep, Map!Next
  <2>7. CASE Op(t) = "set"
    <3>1. /\ pc'[t] = IF Holds(n, k) THEN "delete" ELSE "insert"
          /\ answer' = answer
      BY <1>0, <2>1, <2>7 DEF Types, TypeOK
    <3>2. \A kk \in Key : ~Replacing(t, kk)'
      <4>1. CASE Holds(n, k) BY <3>1, <4>1 DEF Replacing
      <4>2. CASE ~Holds(n, k)
        <5>1. value = Absent BY <4>2 DEF value
        <5>. QED BY <2>5, <5>1 DEF Replacing
      <4>. QED BY <4>1, <4>2
    <3>3. ~Taken(t) /\ ~Taken(t)' BY <1>0, <3>1 DEF Taken
    <3>. QED BY <1>0, <1>1, <2>3, <3>1, <3>2, <3>3, MapAtRest
  <2>. QED BY <2>1, <2>6, <2>7
<1>. QED BY <1>2, <1>3

\* A key that is deleted although nothing is stored under it.
LEMMA MapAtDeleteBegin ==
  ASSUME Inv, Inv', NEW t \in Thread, DeleteBegin(t), Reads(t), Reads(t)',
         AnswerOf' = [AnswerOf EXCEPT ![t] = AnswerOf'[t]]
  PROVE  MapStep
<1>. DEFINE k == ArgKey(t)
            preds == Predecessors(k)
            n == Next_(preds[0], 0)
<1>0. /\ Types /\ Mutexes /\ Structure /\ Locals(t) /\ Header \in live
      /\ pc[t] = "delete" /\ m_mtx = t /\ _mtx = Absent /\ 0 \in Level /\ On(0) = Nodes
  BY Reading, LevelZero DEF DeleteBegin
<1>1. /\ UNCHANGED <<list, m_mtx, call, oldValue, todo>>
      /\ \/ /\ Holds(n, k) /\ _mtx' = t /\ lvl' = [lvl EXCEPT ![t] = 0]
            /\ pc' = [pc EXCEPT ![t] = "unlink"]
            /\ UNCHANGED answer
         \/ /\ ~Holds(n, k) /\ UNCHANGED _mtx
            /\ \/ Op(t) = "set"
               \/ /\ Op(t) # "set" /\ pc' = [pc EXCEPT ![t] = "return"]
                  /\ answer' = [answer EXCEPT ![t] = [type |-> "stored"]]
  BY DEF DeleteBegin, AfterDelete, Answer, Goto
<1>2. Op(t) \in {"set", "delete"} /\ k \in Key /\ answer[t] = NoAnswer
  BY <1>0, CallShape DEF Locals, CallFits
<1>3. ~Holds(n, k) => \A m \in Nodes : node[m].key # k
  BY <1>0, <1>2, DescentFinds
<1>4. /\ \A kk \in Key : ~Replacing(t, kk)
      /\ ~Taken(t)
  BY <1>0 DEF Replacing, Taken
<1>. HIDE DEF n, preds, k
<1>5. CASE Holds(n, k)
  <2>1. /\ pc'[t] = "unlink" /\ lvl'[t] = 0 /\ _mtx' = t /\ answer' = answer
    BY <1>0, <1>1, <1>5 DEF Types, TypeOK
  <2>2. On(0)' = On(0)
    <3>1. \A m : ~Off(m, 0)' /\ ~Off(m, 0) BY <1>0, <2>1 DEF Off
    <3>. QED BY <1>1, <3>1 DEF On, Nodes, list
  <2>3. (\A kk \in Key : ~Replacing(t, kk)') /\ ~Taken(t)'
    BY <2>1 DEF Replacing, Taken
  <2>. QED BY <1>1, <1>4, <2>1, <2>2, <2>3, MapAtRest DEF list
<1>6. CASE ~Holds(n, k)
  <2>1. Op(t) # "set"
    <3>1. SUFFICES ASSUME Op(t) = "set" PROVE FALSE OBVIOUS
    <3>2. \E m \in Nodes : node[m].key = k BY <1>0, <3>1 DEF Locals, SetKept, k
    <3>. QED BY <1>3, <1>6, <3>2
  <2>2. Op(t) = "delete" /\ pc'[t] = "return" /\ answer'[t] = [type |-> "stored"]
        /\ _mtx' = _mtx
    BY <1>0, <1>1, <1>2, <1>6, <2>1 DEF Types, TypeOK
  <2>3. On(0)' = On(0)
    <3>1. \A m : ~Off(m, 0)' /\ ~Off(m, 0) BY <1>0, <2>2 DEF Off
    <3>. QED BY <1>1, <3>1 DEF On, Nodes, list
  <2>4. (\A kk \in Key : ~Replacing(t, kk)') /\ ~Taken(t)'
    BY <2>2 DEF Replacing, Taken
  <2>5. MapOf' = MapOf BY <1>1, <1>4, <2>3, <2>4, MapStays DEF list
  <2>6. MapOf[k] = Absent BY <1>0, <1>2, <1>3, <1>4, <1>6 DEF Reads, ReadsAs
  <2>7. MapOf' = [MapOf EXCEPT ![k] = Absent]
    <3>1. MapOf = [kk \in Key |-> MapOf[kk]] BY DEF Reads
    <3>2. [MapOf EXCEPT ![k] = MapOf[k]] = MapOf BY <3>1
    <3>. QED BY <2>5, <2>6, <3>2
  <2>8. AnswerOf' = [AnswerOf EXCEPT ![t] = [type |-> "stored"]]
    BY <2>2, <2>4 DEF Reads
  <2>9. AnswerOf[t] = NoAnswer BY <1>2, <1>4 DEF Reads
  <2>10. Map!Delete(t)
    BY <1>1, <2>2, <2>7, <2>8, <2>9
       DEF Map!Delete, Map!Inside, Map!Reports, Map!NoAnswer, NoAnswer, Op, ArgKey, k
  <2>. QED BY <2>10 DEF MapStep, Map!Next
<1>. QED BY <1>5, <1>6

\* What level 0 reads as when one node more or less is on it.
LEMMA MapChanges ==
  ASSUME NEW t \in Thread, Reads(t), Reads(t)', NEW k \in Key, NEW v,
         MapOf'[k] = v,
         \A n \in On(0) \union On(0)' :
            /\ node'[n].key = node[n].key /\ node'[n].value = node[n].value
            /\ node[n].key # k => n \in On(0) /\ n \in On(0)',
         \A kk \in Key : kk # k => ~Replacing(t, kk) /\ ~Replacing(t, kk)'
  PROVE  MapOf' = [MapOf EXCEPT ![k] = v]
<1>1. ASSUME NEW kk \in Key, kk # k PROVE MapOf'[kk] = MapOf[kk]
  <2>1. /\ \A n \in On(0) : node[n].key = kk => MapOf[kk] = node[n].value
        /\ (\A n \in On(0) : node[n].key # kk) => MapOf[kk] = Absent
    BY <1>1 DEF Reads, ReadsAs
  <2>2. /\ \A n \in On(0)' : node'[n].key = kk => MapOf'[kk] = node'[n].value
        /\ (\A n \in On(0)' : node'[n].key # kk) => MapOf'[kk] = Absent
    BY <1>1 DEF Reads, ReadsAs
  <2>. QED BY <1>1, <2>1, <2>2
<1>2. MapOf = [kk \in Key |-> MapOf[kk]] /\ MapOf' = [kk \in Key |-> MapOf'[kk]]
  BY DEF Reads
<1>. QED BY <1>1, <1>2

LEMMA MapAtUnlink ==
  ASSUME Inv, Inv', NEW t \in Thread, Unlink(t), Reads(t), Reads(t)',
         AnswerOf' = [AnswerOf EXCEPT ![t] = AnswerOf'[t]]
  PROVE  MapStep
<1>1. PICK c, i, k : c = current[t] /\ i = lvl[t] /\ k = ArgKey(t) OBVIOUS
<1>2. /\ i \in Level /\ c \in On(i)
      /\ \A m \in Slot : /\ node'[m].key = node[m].key
                         /\ node'[m].value = node[m].value
      /\ \A j \in Level : On(j)' = IF j = i THEN On(i) \ {c} ELSE On(j)
  BY <1>1, UnlinkEffect
<1>3. /\ pc[t] = "unlink" /\ lvl' = [lvl EXCEPT ![t] = i + 1]
      /\ UNCHANGED <<_mtx, pc, call, oldValue, answer>>
  BY <1>1 DEF Unlink
<1>4. /\ Types /\ Structure /\ Locals(t) /\ c \in Nodes /\ node[c].key = k
      /\ Op(t) \in {"set", "delete"} /\ k \in Key /\ answer[t] = NoAnswer
      /\ Op(t) = "set" => node[c].value = oldValue[t]
      /\ node[c].value \in Value
  <2>1. Types /\ Structure /\ Locals(t) /\ c \in Nodes BY <1>1, <1>3, Writing
  <2>2. node[c].key = k BY <1>1, <1>3, <2>1 DEF Locals, WriteKept
  <2>3. Op(t) \in {"set", "delete"} /\ answer[t] = NoAnswer
    BY <1>3, <2>1 DEF Locals, CallFits
  <2>4. k \in Key BY <1>1, <2>1, <2>3, CallShape
  <2>5. Op(t) = "set" => node[c].value = oldValue[t]
    BY <1>1, <1>3, <2>1 DEF Locals, SetKept
  <2>6. node[c].value \in Value BY <2>1 DEF Structure, MemoryKept
  <2>. QED BY <2>1, <2>2, <2>3, <2>4, <2>5, <2>6
<1>5. /\ 0 \in Level /\ i \in Nat /\ lvl'[t] = i + 1 /\ i + 1 > 0
      /\ On(0) \subseteq Slot /\ Keyed(node, On(0))
      /\ Op(t)' = Op(t) /\ ArgKey(t)' = k
  <2>1. 0 \in Level /\ i \in Nat BY <1>2, Distinct DEF Level
  <2>2. lvl'[t] = i + 1 BY <1>3, <1>4 DEF Types, TypeOK
  <2>3. On(0) \subseteq Slot /\ Keyed(node, On(0)) BY <1>4, <2>1, OnLevel
  <2>. QED BY <1>1, <1>3, <2>1, <2>2, <2>3 DEF Op, ArgKey
<1>6. \A kk \in Key : kk # k => ~Replacing(t, kk) /\ ~Replacing(t, kk)'
  BY <1>1, <1>5 DEF Replacing
<1>7. CASE i > 0
  <2>1. On(0)' = On(0) BY <1>2, <1>5, <1>7
  <2>2. Replacing(t, k)' <=> Replacing(t, k)
    BY <1>1, <1>3, <1>5, <1>7 DEF Replacing
  <2>3. Taken(t)' <=> Taken(t)
    BY <1>1, <1>3, <1>5, <1>7 DEF Taken
  <2>4. \A n \in On(0) : node'[n].key = node[n].key /\ node'[n].value = node[n].value
    BY <1>2, <1>5
  <2>5. \A kk \in Key :
          \/ ~Replacing(t, kk) /\ ~Replacing(t, kk)'
          \/ Replacing(t, kk) /\ Replacing(t, kk)' /\ oldValue'[t] = oldValue[t]
    BY <1>3, <1>6, <2>2
  <2>. QED BY <1>3, <2>1, <2>3, <2>4, <2>5, MapAtRest
<1>8. CASE i = 0
  <2>1. /\ On(0)' = On(0) \ {c} /\ c \in On(0)
        /\ ~Replacing(t, k) /\ ~Taken(t)
    BY <1>1, <1>2, <1>3, <1>5, <1>8 DEF Replacing, Taken
  <2>2. \A n \in On(0) : n # c => node[n].key # k BY <1>4, <1>5, <2>1 DEF Keyed
  <2>3. \A n \in On(0) \union On(0)' :
           /\ node'[n].key = node[n].key /\ node'[n].value = node[n].value
           /\ node[n].key # k => n \in On(0) /\ n \in On(0)'
    BY <1>2, <1>4, <1>5, <2>1
  <2>4. CASE Op(t) = "set"
    <3>1. Replacing(t, k)'
      BY <1>3, <1>4, <1>5, <2>4, Distinct DEF Replacing
    <3>2. MapOf'[k] = oldValue[t] BY <1>3, <1>4, <3>1 DEF Reads
    <3>3. MapOf[k] = oldValue[t] BY <1>4, <2>1, <2>4 DEF Reads, ReadsAs
    <3>4. MapOf' = [MapOf EXCEPT ![k] = MapOf[k]]
      BY <1>4, <1>6, <2>3, <3>2, <3>3, MapChanges
    <3>5. MapOf = [kk \in Key |-> MapOf[kk]] BY DEF Reads
    <3>6. MapOf' = MapOf BY <3>4, <3>5
    <3>7. AnswerOf' = AnswerOf
      <4>1. ~Taken(t)' BY <1>3, <1>5, <2>4 DEF Taken
      <4>. QED BY <1>3, <2>1, <4>1, AnswerStays
    <3>. QED BY <1>3, <3>6, <3>7 DEF MapStep
  <2>5. CASE Op(t) = "delete"
    <3>1. ~Replacing(t, k)' BY <1>5, <2>5 DEF Replacing
    <3>2. \A n \in On(0)' : node'[n].key # k BY <2>1, <2>2, <2>3
    <3>3. MapOf'[k] = Absent BY <1>4, <3>1, <3>2 DEF Reads, ReadsAs
    <3>4. MapOf' = [MapOf EXCEPT ![k] = Absent]
      BY <1>4, <1>6, <2>3, <3>3, MapChanges
    <3>5. Taken(t)' BY <1>3, <1>5, <2>5 DEF Taken
    <3>6. AnswerOf' = [AnswerOf EXCEPT ![t] = [type |-> "stored"]]
      BY <3>5 DEF Reads
    <3>7. AnswerOf[t] = NoAnswer BY <1>4, <2>1 DEF Reads
    <3>8. Map!Delete(t)
      BY <1>1, <1>3, <2>5, <3>4, <3>6, <3>7
         DEF Map!Delete, Map!Inside, Map!Reports, Map!NoAnswer, NoAnswer, Op, ArgKey
    <3>. QED BY <3>8 DEF MapStep, Map!Next
  <2>. QED BY <1>4, <2>4, <2>5
<1>. QED BY <1>5, <1>7, <1>8

LEMMA MapAtDeleteEnd ==
  ASSUME Inv, Inv', NEW t \in Thread, DeleteEnd(t), Reads(t), Reads(t)',
         AnswerOf' = [AnswerOf EXCEPT ![t] = AnswerOf'[t]]
  PROVE  MapStep
<1>1. PICK c : c = current[t] OBVIOUS
<1>2. /\ Types /\ Structure /\ Locals(t) /\ _mtx = t
      /\ pc[t] = "unlink" /\ c \in Nodes /\ c \in Slot
      /\ lvl[t] \in Nat /\ lvl[t] > 0 /\ 0 \in Level
  <2>1. pc[t] = "unlink" /\ ~Linked(t) BY DEF DeleteEnd
  <2>2. lvl[t] > node[c].node_level BY <1>1, <2>1, DeleteEndAbove
  <2>3. node[c].node_level \in Nat /\ lvl[t] \in 0 .. node[c].node_level + 1
    BY <1>1, <2>1, Writing
  <2>4. lvl[t] \in Nat /\ lvl[t] > 0 BY <2>2, <2>3
  <2>. QED BY <1>1, <2>1, <2>4, Writing, Distinct DEF Level
<1>3. /\ node' = [node EXCEPT ![c] = Free] /\ live' = live \ {c} /\ _mtx' = Absent
      /\ UNCHANGED <<call, lvl, oldValue>>
      /\ \/ /\ Op(t) = "set" /\ pc' = [pc EXCEPT ![t] = "insert"]
            /\ UNCHANGED answer
         \/ /\ Op(t) # "set" /\ pc' = [pc EXCEPT ![t] = "return"]
            /\ answer' = [answer EXCEPT ![t] = [type |-> "stored"]]
  BY <1>1 DEF DeleteEnd, AfterDelete, Answer, Goto
<1>4. On(0)' = On(0) /\ On(0) = Nodes \ {c} /\ Nodes \subseteq Slot
  <2>1. \A m : ~Off(m, 0)' BY <1>3 DEF Off
  <2>3. \A m : Off(m, 0) <=> m = c BY <1>1, <1>2, Distinct DEF Off
  <2>4. Nodes \subseteq Slot BY <1>2, OnLevel
  <2>5. \A m \in Nodes : 0 <= node[m].node_level
    BY <1>2, <2>4 DEF Types, Memory, Level
  <2>6. Nodes' = Nodes \ {c} /\ \A m \in Nodes \ {c} : node'[m] = node[m]
    BY <1>2, <1>3, <2>4 DEF Nodes, Types, Memory
  <2>. QED BY <2>1, <2>3, <2>4, <2>5, <2>6 DEF On
<1>5. \A n \in On(0) : node'[n].key = node[n].key /\ node'[n].value = node[n].value
  BY <1>2, <1>3, <1>4 DEF Types, Memory
<1>6. CASE Op(t) = "set"
  <2>1. pc'[t] = "insert" /\ answer' = answer BY <1>2, <1>3, <1>6 DEF Types, TypeOK
  <2>2. \A kk \in Key : Replacing(t, kk)' <=> Replacing(t, kk)
    BY <1>2, <1>3, <2>1 DEF Replacing, Op, ArgKey
  <2>3. ~Taken(t) /\ ~Taken(t)' BY <1>2, <1>6, <2>1 DEF Taken, Op
  <2>. QED BY <1>3, <1>4, <1>5, <2>1, <2>2, <2>3, MapAtRest
<1>7. CASE Op(t) # "set"
  <2>1. pc'[t] = "return" /\ answer'[t] = [type |-> "stored"]
    BY <1>2, <1>3, <1>7 DEF Types, TypeOK
  <2>2. Op(t) = "delete" BY <1>2, <1>7 DEF Locals, CallFits
  <2>3. \A kk \in Key : ~Replacing(t, kk)' /\ ~Replacing(t, kk)
    BY <2>1, <1>7 DEF Replacing
  <2>4. Taken(t) /\ ~Taken(t)' BY <1>2, <2>1, <2>2 DEF Taken
  <2>. QED BY <1>3, <1>4, <1>5, <2>1, <2>3, <2>4, MapAtRest
<1>. QED BY <1>6, <1>7

\* insert_element begins: the new node is on no level yet, or load_file's key is
\* there already.
LEMMA MapAtInsertBegin ==
  ASSUME Inv, Inv', NEW t \in Thread, InsertBegin(t), Reads(t), Reads(t)',
         AnswerOf' = [AnswerOf EXCEPT ![t] = AnswerOf'[t]]
  PROVE  MapStep
<1>. DEFINE k == Pair(t)[1]
            n == Next_(Predecessors(k)[0], 0)
<1>0. /\ Types /\ Structure /\ Locals(t) /\ Header \in live
      /\ pc[t] = "insert" /\ _mtx = Absent /\ 0 \in Level /\ On(0) = Nodes
  BY Reading, LevelZero DEF InsertBegin
<1>1. /\ UNCHANGED <<call, oldValue>>
      /\ \/ /\ Holds(n, k) /\ AfterInsert(t) /\ UNCHANGED <<list, _mtx>>
         \/ /\ \E a \in Address \ live : \E x :
                 /\ node' = [node EXCEPT ![a] = x] /\ live' = live \union {a}
                 /\ current' = [current EXCEPT ![t] = a]
            /\ lvl' = [lvl EXCEPT ![t] = 0]
            /\ _mtx' = t
            /\ pc' = [pc EXCEPT ![t] = "link"]
            /\ UNCHANGED answer
  <2>1. CASE Holds(n, k) BY <2>1 DEF InsertBegin
  <2>2. CASE ~Holds(n, k)
    <3>1. \E a \in Address \ live : \E x :
            /\ node' = [node EXCEPT ![a] = x] /\ live' = live \union {a}
            /\ current' = [current EXCEPT ![t] = a]
      BY <2>2, Zenon DEF InsertBegin
    <3>2. /\ lvl' = [lvl EXCEPT ![t] = 0] /\ _mtx' = t
          /\ pc' = [pc EXCEPT ![t] = "link"] /\ UNCHANGED <<answer, call, oldValue>>
      BY <2>2 DEF InsertBegin, Goto
    <3>. QED BY <3>1, <3>2
  <2>. QED BY <2>1, <2>2
<1>2. k \in Key /\ (Op(t) = "set" => k = ArgKey(t)) /\ Op(t) \in {"set", "load"}
  BY <1>0, PairShape DEF Locals
<1>3. Holds(n, k) => n \in Nodes /\ node[n].key = k
  BY <1>0, <1>2, DescentFinds
<1>4. ~Taken(t) BY <1>0 DEF Taken
<1>. HIDE DEF n, k
<1>5. CASE Holds(n, k) /\ AfterInsert(t) /\ UNCHANGED <<list, _mtx>>
  <2>1. Op(t) = "load"
    <3>1. SUFFICES ASSUME Op(t) = "set" PROVE FALSE BY <1>2
    <3>2. \A m \in Nodes : node[m].key # k BY <1>0, <1>2, <3>1 DEF Locals, SetKept
    <3>. QED BY <1>3, <1>5, <3>2
  <2>2. pc'[t] = "load" /\ answer' = answer
    BY <1>0, <1>5, <2>1 DEF AfterInsert, Goto, Types, TypeOK
  <2>3. On(0)' = On(0)
    <3>1. \A m : ~Off(m, 0)' /\ ~Off(m, 0) BY <1>0, <1>5 DEF Off
    <3>. QED BY <1>5, <3>1 DEF On, Nodes, list
  <2>4. \A kk \in Key : ~Replacing(t, kk) /\ ~Replacing(t, kk)'
    BY <2>1, <2>2 DEF Replacing
  <2>5. ~Taken(t)' BY <2>2 DEF Taken
  <2>. QED BY <1>1, <1>4, <1>5, <2>2, <2>3, <2>4, <2>5, MapAtRest DEF list
<1>6. ASSUME NEW a \in Address \ live, NEW x,
             node' = [node EXCEPT ![a] = x], live' = live \union {a},
             current' = [current EXCEPT ![t] = a], lvl' = [lvl EXCEPT ![t] = 0],
             _mtx' = t, pc' = [pc EXCEPT ![t] = "link"], UNCHANGED answer
      PROVE  MapStep
  <2>1. current'[t] = a /\ lvl'[t] = 0 /\ pc'[t] = "link"
    BY <1>0, <1>6 DEF Types, TypeOK
  <2>2. /\ Nodes \subseteq Slot /\ a \notin Nodes /\ Nodes' = Nodes \union {a}
        /\ \A m \in Nodes : node'[m] = node[m]
    BY <1>0, <1>6, OnLevel, Distinct DEF Nodes, Types, Memory
  <2>3. \A m \in Nodes : 0 <= node[m].node_level
    BY <1>0, <2>2 DEF Types, Memory, Level
  <2>4. On(0)' = On(0)
    <3>1. \A m : Off(m, 0)' <=> m = a
      BY <1>6, <2>1, Distinct DEF Off
    <3>. QED BY <1>0, <2>2, <2>3, <3>1 DEF On
  <2>5. \A kk \in Key : Replacing(t, kk)' <=> Replacing(t, kk)
    BY <1>0, <1>1, <2>1 DEF Replacing, Op, ArgKey
  <2>6. ~Taken(t)' BY <2>1 DEF Taken
  <2>. QED BY <1>0, <1>1, <1>4, <1>6, <2>2, <2>4, <2>5, <2>6, MapAtRest
<1>. QED BY <1>1, <1>5, <1>6

LEMMA MapAtLink ==
  ASSUME Inv, Inv', NEW t \in Thread, Link(t), Reads(t), Reads(t)',
         AnswerOf' = [AnswerOf EXCEPT ![t] = AnswerOf'[t]]
  PROVE  MapStep
<1>1. PICK c, i, k : c = current[t] /\ i = lvl[t] /\ k = Pair(t)[1] OBVIOUS
<1>2. /\ i \in Level /\ c \notin On(i)
      /\ \A m \in Slot : /\ node'[m].key = node[m].key
                         /\ node'[m].value = node[m].value
      /\ \A j \in Level : On(j)' = IF j = i THEN On(i) \union {c} ELSE On(j)
  BY <1>1, LinkEffect
<1>3. /\ pc[t] = "link" /\ lvl' = [lvl EXCEPT ![t] = i + 1]
      /\ UNCHANGED <<_mtx, pc, call, oldValue, answer, todo>>
  BY <1>1 DEF Link
<1>4. /\ Types /\ Structure /\ Locals(t) /\ c \in Nodes /\ c \in Slot
      /\ Op(t) \in {"set", "load"} /\ k \in Key /\ answer[t] = NoAnswer
      /\ node[c].key = k /\ node[c].value = Pair(t)[2] /\ Pair(t)[2] \in Value
      /\ Op(t) = "set" => k = ArgKey(t) /\ Pair(t)[2] = call[t][3]
      /\ Op(t) = "load" => k \in DOMAIN call[t][2]
  <2>1. Types /\ Structure /\ Locals(t) /\ c \in Nodes /\ c \in Slot
    BY <1>1, <1>3, Writing
  <2>2. /\ k \in Key /\ Op(t) \in {"set", "load"} /\ Pair(t) = <<Pair(t)[1], Pair(t)[2]>>
        /\ Op(t) = "set" => Pair(t) = <<ArgKey(t), call[t][3]>>
        /\ Op(t) = "load" => Pair(t)[1] \in DOMAIN call[t][2]
        /\ Pair(t)[2] \in Value
    BY <1>1, <1>3, <2>1, PairShape DEF Locals
  <2>3. <<node[c].key, node[c].value>> = Pair(t)
    BY <1>1, <1>3, <2>1 DEF Locals, WriteKept
  <2>4. answer[t] = NoAnswer BY <1>3, <2>1 DEF Locals, CallFits
  <2>. QED BY <1>1, <2>1, <2>2, <2>3, <2>4
<1>5. /\ 0 \in Level /\ i \in Nat /\ lvl'[t] = i + 1 /\ i + 1 > 0
      /\ On(0) \subseteq Nodes /\ Nodes \subseteq Slot /\ Keyed(node, Nodes)
      /\ Op(t)' = Op(t) /\ ArgKey(t)' = ArgKey(t)
  <2>1. 0 \in Level /\ i \in Nat BY <1>2, Distinct DEF Level
  <2>2. lvl'[t] = i + 1 BY <1>3, <1>4 DEF Types, TypeOK
  <2>3. On(0) \subseteq Nodes /\ Nodes \subseteq Slot /\ Keyed(node, Nodes)
    BY <1>4, <2>1, OnLevel DEF Structure
  <2>. QED BY <1>1, <1>3, <2>1, <2>2, <2>3 DEF Op, ArgKey
<1>6. \A kk \in Key : (kk # k => ~Replacing(t, kk)) /\ ~Replacing(t, kk)'
  BY <1>3, <1>4, <1>5 DEF Replacing
<1>7. CASE i > 0
  <2>1. On(0)' = On(0) BY <1>2, <1>5, <1>7
  <2>2. \A kk \in Key : ~Replacing(t, kk) BY <1>1, <1>3, <1>7 DEF Replacing
  <2>3. Taken(t)' <=> Taken(t)
    BY <1>1, <1>3, <1>5, <1>7 DEF Taken
  <2>4. \A n \in On(0) : node'[n].key = node[n].key /\ node'[n].value = node[n].value
    BY <1>2, <1>5
  <2>. QED BY <1>3, <1>6, <2>1, <2>2, <2>3, <2>4, MapAtRest
<1>8. CASE i = 0
  <2>1. On(0)' = On(0) \union {c} /\ c \notin On(0) /\ ~Taken(t)
    BY <1>1, <1>2, <1>3, <1>5, <1>8 DEF Taken
  <2>2. \A n \in On(0) : node[n].key # k BY <1>4, <1>5, <2>1 DEF Keyed
  <2>3. \A n \in On(0) \union On(0)' :
           /\ node'[n].key = node[n].key /\ node'[n].value = node[n].value
           /\ node[n].key # k => n \in On(0) /\ n \in On(0)'
    BY <1>2, <1>4, <1>5, <2>1
  <2>4. MapOf'[k] = node[c].value
    <3>1. c \in On(0)' /\ node'[c].key = k /\ node'[c].value = node[c].value
      BY <1>2, <1>4, <2>1
    <3>. QED BY <1>4, <1>6, <3>1 DEF Reads, ReadsAs
  <2>5. MapOf' = [MapOf EXCEPT ![k] = node[c].value]
    BY <1>4, <1>6, <2>3, <2>4, MapChanges
  <2>6. AnswerOf[t] = NoAnswer BY <1>4, <2>1 DEF Reads
  <2>7. CASE Op(t) = "set"
    <3>1. Taken(t)' BY <1>3, <1>5, <2>7 DEF Taken
    <3>2. AnswerOf' = [AnswerOf EXCEPT ![t] = [type |-> "stored"]]
      BY <3>1 DEF Reads
    <3>3. MapOf' = [MapOf EXCEPT ![ArgKey(t)] = call[t][3]] BY <1>4, <2>5, <2>7
    <3>4. Map!Set(t)
      BY <1>3, <2>6, <2>7, <3>2, <3>3
         DEF Map!Set, Map!Inside, Map!Reports, Map!NoAnswer, NoAnswer, Op, ArgKey
    <3>. QED BY <3>4 DEF MapStep, Map!Next
  <2>8. CASE Op(t) = "load"
    <3>1. ~Taken(t)' BY <1>5, <2>8 DEF Taken
    <3>2. AnswerOf' = AnswerOf BY <1>3, <2>1, <3>1, AnswerStays
    <3>3. MapOf[k] = Absent
      <4>1. ~Replacing(t, k) BY <2>8 DEF Replacing
      <4>. QED BY <1>4, <2>2, <4>1 DEF Reads, ReadsAs
    <3>4. /\ MapOf' = [MapOf EXCEPT ![k] = node[c].value]
          /\ node[c].value \in Value /\ k \in DOMAIN call[t][2]
      BY <1>4, <2>5, <2>8
    <3>5. Map!LoadOne(t)
      BY <1>3, <1>4, <2>6, <2>8, <3>2, <3>3, <3>4
         DEF Map!LoadOne, Map!Inside, Map!NoAnswer, NoAnswer, Op
    <3>. QED BY <3>5 DEF MapStep, Map!Next
  <2>. QED BY <1>4, <2>7, <2>8
<1>. QED BY <1>5, <1>7, <1>8

LEMMA MapAtInsertEnd ==
  ASSUME Inv, Inv', NEW t \in Thread, InsertEnd(t), Reads(t), Reads(t)',
         AnswerOf' = [AnswerOf EXCEPT ![t] = AnswerOf'[t]]
  PROVE  MapStep
<1>1. PICK c : c = current[t] OBVIOUS
<1>2. /\ Types /\ Structure /\ Locals(t) /\ _mtx = t
      /\ pc[t] = "link" /\ c \in Nodes
      /\ lvl[t] \in Nat /\ lvl[t] > 0
  <2>1. pc[t] = "link" /\ lvl[t] > node[c].node_level BY <1>1 DEF InsertEnd
  <2>2. node[c].node_level \in Nat /\ lvl[t] \in 0 .. node[c].node_level + 1
    BY <1>1, <2>1, Writing
  <2>3. lvl[t] \in Nat /\ lvl[t] > 0 BY <2>1, <2>2
  <2>. QED BY <1>1, <2>1, <2>3, Writing
<1>3. /\ _mtx' = Absent /\ AfterInsert(t)
      /\ UNCHANGED <<node, live, call, oldValue>>
  BY DEF InsertEnd
<1>4. On(0)' = On(0)
  <2>1. \A m : ~Off(m, 0)' BY <1>3 DEF Off
  <2>2. \A m : ~Off(m, 0) BY <1>2 DEF Off
  <2>. QED BY <1>3, <2>1, <2>2 DEF On, Nodes
<1>5. \A kk \in Key : ~Replacing(t, kk) BY <1>2 DEF Replacing
<1>6. CASE Op(t) = "load"
  <2>1. pc'[t] = "load" /\ answer' = answer
    BY <1>2, <1>3, <1>6 DEF AfterInsert, Goto, Types, TypeOK
  <2>2. (\A kk \in Key : ~Replacing(t, kk)') /\ ~Taken(t)' /\ ~Taken(t)
    BY <1>6, <2>1 DEF Replacing, Taken
  <2>. QED BY <1>3, <1>4, <1>5, <2>1, <2>2, MapAtRest
<1>7. CASE Op(t) # "load"
  <2>1. pc'[t] = "return" /\ answer'[t] = [type |-> "stored"]
    BY <1>2, <1>3, <1>7 DEF AfterInsert, Answer, Goto, Types, TypeOK
  <2>2. Op(t) = "set" BY <1>2, <1>7 DEF Locals, CallFits
  <2>3. (\A kk \in Key : ~Replacing(t, kk)') /\ ~Taken(t)' /\ Taken(t)
    BY <1>2, <2>1, <2>2 DEF Replacing, Taken
  <2>. QED BY <1>3, <1>4, <1>5, <2>1, <2>3, MapAtRest
<1>. QED BY <1>6, <1>7

\* What dump_file writes when it came past all of level 0 is the whole map.
LEMMA PairsOfLevel ==
  ASSUME Inv, NEW t \in Thread, Reads(t), \A k \in Key : ~Replacing(t, k)
  PROVE  PairsOf(On(0)) = Map!Pairs
<1>0. Structure /\ 0 \in Level /\ On(0) \subseteq Nodes
  <2>1. Structure BY DEF Inv, Structure
  <2>2. 0 \in Level BY Distinct DEF Level
  <2>. QED BY <2>1, <2>2, OnLevel
<1>1. \A n \in On(0) : node[n].key \in Key /\ node[n].value \in Value
  BY <1>0 DEF Structure, Keyed, MemoryKept
<1>2. \A k \in Key : /\ \A n \in On(0) : node[n].key = k => MapOf[k] = node[n].value
                     /\ (\A n \in On(0) : node[n].key # k) => MapOf[k] = Absent
  BY DEF Reads, ReadsAs
<1>3. ASSUME NEW p \in PairsOf(On(0)) PROVE p \in Map!Pairs
  <2>1. PICK n \in On(0) : p = <<node[n].key, node[n].value>> BY DEF PairsOf
  <2>2. PICK k \in Key, v \in Value : k = node[n].key /\ v = node[n].value
    BY <1>1
  <2>3. MapOf[k] = v /\ p = <<k, v>> BY <1>2, <2>1, <2>2
  <2>4. <<k, v>> \in Key \X Value /\ <<k, v>>[1] = k /\ <<k, v>>[2] = v OBVIOUS
  <2>. QED BY <2>3, <2>4 DEF Map!Pairs
<1>4. ASSUME NEW p \in Map!Pairs PROVE p \in PairsOf(On(0))
  <2>1. p \in Key \X Value /\ MapOf[p[1]] = p[2] BY DEF Map!Pairs
  <2>2. PICK k \in Key, v \in Value : p = <<k, v>> /\ k = p[1] /\ v = p[2] BY <2>1
  <2>3. MapOf[k] = v /\ v # Absent BY <2>1, <2>2, Distinct
  <2>4. PICK n \in On(0) : node[n].key = k BY <1>2, <2>3
  <2>5. node[n].value = v BY <1>2, <2>3, <2>4
  <2>. QED BY <2>2, <2>4, <2>5 DEF PairsOf
<1>. QED BY <1>3, <1>4

\* dump_file has come past all of level 0 when there is no next node.
LEMMA PassedAll ==
  ASSUME Structure, Header \in live, NEW c \in On(0) \union {Header}, Next_(c, 0) = NULL
  PROVE  Passed(c) = On(0)
<1>1. 0 \in Level BY Distinct DEF Level
<1>2. Sorted(node, On(0), 0) /\ Keyed(node, On(0)) BY <1>1, OnLevel
<1>3. \A p \in On(0) : ~Follows(node, c, p) BY <1>2 DEF Sorted, Next_
<1>4. \A p \in On(0) : c # Header /\ ~(node[c].key < node[p].key) BY <1>3 DEF Follows
<1>5. \A p \in On(0) : node[p].key \in Int BY <1>2, Distinct DEF Keyed
<1>6. \A p \in On(0) : c # Header /\ node[p].key <= node[c].key
  <2>1. SUFFICES ASSUME NEW p \in On(0) PROVE c # Header /\ node[p].key <= node[c].key
    OBVIOUS
  <2>2. c # Header /\ ~(node[c].key < node[p].key) BY <1>4
  <2>3. node[c].key \in Int /\ node[p].key \in Int BY <1>5, <2>2
  <2>. QED BY <2>2, <2>3
<1>. QED BY <1>6 DEF Passed

LEMMA MapAtDump ==
  ASSUME Inv, Inv', NEW t \in Thread, Dump(t), Reads(t), Reads(t)',
         AnswerOf' = [AnswerOf EXCEPT ![t] = AnswerOf'[t]]
  PROVE  MapStep
<1>. DEFINE n == Next_(current[t], 0)
            pairs == {todo[t][i] : i \in DOMAIN todo[t]}
            ans == [type |-> "dump", pairs |-> pairs]
<1>0. /\ Types /\ Structure /\ Locals(t) /\ Header \in live /\ pc[t] = "dump" /\ _mtx = Absent
      /\ UNCHANGED <<list, _mtx, call, oldValue>>
  BY Reading DEF Dump
<1>1. /\ n # NULL => UNCHANGED <<pc, answer>>
      /\ n = NULL => /\ answer' = [answer EXCEPT ![t] = ans]
                     /\ pc' = [pc EXCEPT ![t] = "return"]
  BY DEF Dump, Answer, Goto
<1>2. On(0)' = On(0) /\ node' = node
  <2>1. \A m : ~Off(m, 0)' /\ ~Off(m, 0) BY <1>0 DEF Off
  <2>. QED BY <1>0, <2>1 DEF On, Nodes, list
<1>3. /\ current[t] \in On(0) \union {Header} /\ pairs = PairsOf(Passed(current[t]))
      /\ Op(t) = "dump" /\ answer[t] = NoAnswer
  BY <1>0 DEF Locals, DumpKept, CallFits
<1>4. \A k \in Key : ~Replacing(t, k) /\ ~Replacing(t, k)'
  BY <1>0, <1>3 DEF Replacing, Op
<1>5. ~Taken(t) /\ ~Taken(t)' BY <1>0, <1>3 DEF Taken, Op
<1>6. n = NULL => Passed(current[t]) = On(0) BY <1>0, <1>3, PassedAll
<1>7. PairsOf(On(0)) = Map!Pairs BY <1>4, PairsOfLevel
<1>8. ans = [type |-> "dump", pairs |-> pairs] OBVIOUS
<1>. HIDE DEF n, pairs, ans
<1>9. CASE n # NULL
  BY <1>0, <1>1, <1>2, <1>4, <1>5, <1>9, MapAtRest
<1>10. CASE n = NULL
  <2>1. pairs = Map!Pairs BY <1>3, <1>6, <1>7, <1>10
  <2>2. answer'[t] = ans BY <1>0, <1>1, <1>10 DEF Types
  <2>3. AnswerOf' = [AnswerOf EXCEPT ![t] = [type |-> "dump", pairs |-> Map!Pairs]]
    BY <1>5, <1>8, <2>1, <2>2 DEF Reads
  <2>4. AnswerOf[t] = NoAnswer BY <1>3, <1>5 DEF Reads
  <2>5. MapOf' = MapOf BY <1>2, <1>4, MapStays
  <2>6. Map!Dump(t)
    BY <1>0, <1>3, <2>3, <2>4, <2>5
       DEF Map!Dump, Map!Inside, Map!Reports, Map!NoAnswer, NoAnswer, Op
  <2>. QED BY <2>6 DEF MapStep, Map!Next
<1>. QED BY <1>9, <1>10

-----------------------------------------------------------------------------
(* load_file: a key of the archive is stored or still to come *)

KeyStored(k) == \E n \in Nodes : node[n].key = k
ToCome(t, k) == \E i \in DOMAIN todo[t] : todo[t][i] = k

LoadKept(t) ==
  Op(t) = "load" => \A k \in DOMAIN call[t][2] : KeyStored(k) \/ ToCome(t, k)

Loads == \A t \in Thread : LoadKept(t)

LEMMA HeadOrTail ==
  ASSUME NEW S, NEW s \in Seq(S), s # <<>>, NEW i \in DOMAIN s
  PROVE  s[i] = Head(s) \/ \E j \in DOMAIN Tail(s) : Tail(s)[j] = s[i]
<1>1. i \in 1 .. Len(s) /\ Len(s) \in Nat OBVIOUS
<1>2. CASE i = 1 BY <1>2
<1>3. CASE i # 1
  <2>1. Len(Tail(s)) = Len(s) - 1 OBVIOUS
  <2>2. DOMAIN Tail(s) = 1 .. Len(Tail(s)) /\ Tail(s) \in Seq(S) OBVIOUS
  <2>3. i - 1 \in 1 .. Len(Tail(s)) BY <1>1, <1>3, <2>1
  <2>4. Tail(s)[i - 1] = s[i] BY <1>1, <1>3, <2>1, <2>3
  <2>. QED BY <2>2, <2>3, <2>4
<1>. QED BY <1>2, <1>3

\* insert_element took the first key off the list of those to come.
LEMMA LoadedFirst ==
  ASSUME Inv, NEW t \in Thread, pc[t] \in {"insert", "link"}, Op(t) = "load", LoadKept(t),
         AfterInsert(t), UNCHANGED <<node, live, call>>, KeyStored(Pair(t)[1])
  PROVE  LoadKept(t)'
<1>1. Types /\ CallFits(t) BY DEF Inv
<1>2. todo[t] \in Seq(DOMAIN call[t][2]) /\ todo[t] # <<>> BY <1>1 DEF CallFits
<1>3. todo'[t] = Tail(todo[t]) /\ Pair(t)[1] = Head(todo[t])
  BY <1>1 DEF AfterInsert, Pair, Types
<1>4. \A k : KeyStored(k)' <=> KeyStored(k) BY DEF KeyStored, Nodes
<1>5. ASSUME NEW k \in DOMAIN call[t][2] PROVE KeyStored(k) \/ ToCome(t, k)'
  <2>1. CASE KeyStored(k) BY <2>1
  <2>2. CASE ToCome(t, k)
    <3>1. PICK i \in DOMAIN todo[t] : todo[t][i] = k BY <2>2 DEF ToCome
    <3>2. k = Head(todo[t]) \/ \E j \in DOMAIN Tail(todo[t]) : Tail(todo[t])[j] = k
      BY <1>2, <3>1, HeadOrTail
    <3>. QED BY <1>3, <3>2 DEF ToCome
  <2>. QED BY <2>1, <2>2 DEF LoadKept
<1>. QED BY <1>4, <1>5 DEF LoadKept

LEMMA LoadStep ==
  ASSUME Inv, Inv', Loads, NEW t \in Thread, ThreadStep(t)
  PROVE  Loads'
<1>0. Types /\ Mutexes /\ CallFits(t) /\ LoadKept(t) BY DEF Inv, Loads
<1>1. \A u \in Thread \ {t} : LoadKept(u)'
  <2>1. \A u \in Thread \ {t} : pc'[u] = "idle" BY StepFrame, OthersKept DEF OnlyThread
  <2>2. \A u \in Thread : CallFits(u)' BY DEF Inv
  <2>. QED BY <2>1, <2>2 DEF CallFits, LoadKept
<1>2. SUFFICES ASSUME Op(t)' = "load" PROVE LoadKept(t)'
  BY <1>1 DEF Loads, LoadKept
<1>3. CASE Call(t)
  <2>1. PICK c : call' = [call EXCEPT ![t] = c] BY <1>3, Zenon DEF Call
  <2>2. call'[t] = c BY <1>0, <2>1 DEF Types, TypeOK
  <2>3. c \in Calls /\ c[1] = "load" BY <1>2, <2>2 DEF Inv, Types, TypeOK, Op
  <2>4. DOMAIN c[2] \subseteq Int /\ IsFiniteSet(DOMAIN c[2])
    BY <2>3, ArchiveShape, Distinct
  <2>5. todo' = [todo EXCEPT ![t] = InOrder(Brought(c))] BY <1>3, <2>2 DEF Call
  <2>6. todo'[t] = InOrder(DOMAIN c[2]) BY <1>0, <2>3, <2>5 DEF Brought, Types
  <2>7. \A k \in DOMAIN c[2] : ToCome(t, k)' BY <2>4, <2>6, InOrderLists DEF ToCome
  <2>. QED BY <2>2, <2>7 DEF LoadKept
<1>4. CASE ~Call(t)
  <2>1. ~Return(t)
    <3>1. Return(t) => Op(t)' = "none" BY <1>0 DEF Return, Op, Types, TypeOK
    <3>. QED BY <1>2, <3>1
  <2>2. call' = call
    BY <1>4, <2>1 DEF ThreadStep, SearchHop, SearchEnd, DeleteBegin, Unlink, DeleteEnd,
                      InsertBegin, Link, InsertEnd, Dump, Load
  <2>3. Op(t) = "load" BY <1>2, <2>2 DEF Op
  <2>4. pc[t] \in {"insert", "link", "load", "return"}
    BY <1>0, <2>3 DEF CallFits, Types, TypeOK
  <2>5. Load(t) \/ InsertBegin(t) \/ Link(t) \/ InsertEnd(t)
    BY <1>4, <2>1, <2>4 DEF ThreadStep, SearchHop, SearchEnd, DeleteBegin, Unlink,
                            DeleteEnd, Dump
  <2>6. ASSUME UNCHANGED todo, \A k : KeyStored(k) => KeyStored(k)'
        PROVE  LoadKept(t)'
    BY <1>0, <2>2, <2>6 DEF LoadKept, ToCome, Op
  <2>7. CASE Load(t)
    BY <2>6, <2>7 DEF Load, list, KeyStored, Nodes
  <2>8. CASE Link(t)
    <3>1. \A m \in Slot : node'[m].key = node[m].key BY <2>8, LinkEffect
    <3>2. Nodes' = Nodes /\ Nodes \subseteq Slot
      BY <1>0, <2>8 DEF Link, Nodes, Types, TypeOK
    <3>3. UNCHANGED todo BY <2>8 DEF Link
    <3>. QED BY <2>6, <3>1, <3>2, <3>3 DEF KeyStored
  <2>9. CASE InsertEnd(t)
    <3>1. pc[t] = "link" /\ AfterInsert(t) /\ UNCHANGED <<node, live, call>>
      BY <2>9 DEF InsertEnd
    <3>2. Locals(t) /\ current[t] \in Nodes BY <3>1, Writing
    <3>3. Pair(t) = <<node[current[t]].key, node[current[t]].value>>
      BY <3>1, <3>2 DEF Locals, WriteKept
    <3>4. KeyStored(Pair(t)[1]) BY <3>2, <3>3 DEF KeyStored
    <3>. QED BY <1>0, <2>3, <3>1, <3>4, LoadedFirst
  <2>10. CASE InsertBegin(t)
    <3>. DEFINE k == Pair(t)[1]
                n == Next_(Predecessors(k)[0], 0)
    <3>1. pc[t] = "insert" /\ Structure /\ _mtx = Absent /\ Header \in live
      BY <2>10, Reading DEF InsertBegin
    <3>2. k \in Key BY <1>0, <3>1, PairShape
    <3>3. CASE Holds(n, k)
      <4>1. AfterInsert(t) /\ UNCHANGED <<node, live, call>>
        BY <2>10, <3>3 DEF InsertBegin, list
      <4>2. n \in Nodes /\ node[n].key = k BY <3>1, <3>2, <3>3, DescentFinds
      <4>3. KeyStored(k) BY <4>2 DEF KeyStored
      <4>. QED BY <1>0, <2>3, <3>1, <4>1, <4>3, LoadedFirst
    <3>4. CASE ~Holds(n, k)
      <4>1. PICK a \in Address \ live :
              \E x : node' = [node EXCEPT ![a] = x] /\ live' = live \union {a}
        BY <2>10, <3>4, Zenon DEF InsertBegin
      <4>2. \A m \in Nodes : m \in Nodes' /\ node'[m] = node[m]
        BY <1>0, <4>1 DEF Nodes, Types, TypeOK
      <4>3. \A kk : KeyStored(kk) => KeyStored(kk)' BY <4>2 DEF KeyStored
      <4>4. UNCHANGED todo BY <2>10, <3>4 DEF InsertBegin
      <4>. QED BY <2>6, <4>3, <4>4
    <3>. QED BY <3>3, <3>4
  <2>. QED BY <2>5, <2>7, <2>8, <2>9, <2>10
<1>. QED BY <1>3, <1>4

\* While no thread is in load_file there is nothing to keep.
LEMMA LoadsAtRest ==
  ASSUME \A t \in Thread : pc[t] = "idle" /\ CallFits(t)
  PROVE  Loads
BY DEF Loads, LoadKept, CallFits

LEMMA LoadsKept ==
  ASSUME Inv, Inv', Loads, [Next]_vars
  PROVE  Loads'
<1>1. CASE \E t \in Thread : ThreadStep(t) BY <1>1, LoadStep
<1>2. CASE Destroy \/ Construct
  <2>1. \A t \in Thread : pc[t] = "idle" /\ pc'[t] = pc[t]
    BY <1>2 DEF Destroy, Construct, Inv, Mutexes
  <2>2. (\A t \in Thread : pc[t] = "idle" /\ CallFits(t))' BY <2>1 DEF Inv
  <2>. QED BY <2>2, LoadsAtRest, PTL
<1>3. CASE UNCHANGED vars
  BY <1>3 DEF Loads, LoadKept, KeyStored, ToCome, Nodes, Op, vars, list, locals
<1>. QED BY <1>1, <1>2, <1>3 DEF Next

\* load_file ends when nothing is to come: the map has every key of the archive.
LEMMA MapAtLoad ==
  ASSUME Inv, Inv', NEW t \in Thread, LoadKept(t), Load(t), Reads(t), Reads(t)',
         AnswerOf' = [AnswerOf EXCEPT ![t] = AnswerOf'[t]]
  PROVE  MapStep
<1>0. /\ Types /\ Structure /\ Locals(t) /\ pc[t] = "load" /\ _mtx = Absent
      /\ UNCHANGED <<list, _mtx, call, oldValue>>
  BY Reading DEF Load
<1>1. \/ UNCHANGED answer
      \/ todo[t] = <<>> /\ answer' = [answer EXCEPT ![t] = [type |-> "stored"]]
  BY DEF Load, Answer
<1>2. On(0)' = On(0) /\ node' = node
  <2>1. \A m : ~Off(m, 0)' /\ ~Off(m, 0) BY <1>0 DEF Off
  <2>. QED BY <1>0, <2>1 DEF On, Nodes, list
<1>3. Op(t) = "load" /\ answer[t] = NoAnswer BY <1>0 DEF Locals, CallFits
<1>4. \A k \in Key : ~Replacing(t, k) /\ ~Replacing(t, k)'
  BY <1>0, <1>3 DEF Replacing, Op
<1>5. ~Taken(t) /\ ~Taken(t)' BY <1>0, <1>3 DEF Taken, Op
<1>6. CASE UNCHANGED answer
  BY <1>0, <1>2, <1>4, <1>5, <1>6, MapAtRest
<1>7. CASE todo[t] = <<>> /\ answer' = [answer EXCEPT ![t] = [type |-> "stored"]]
  <2>1. answer'[t] = [type |-> "stored"] BY <1>0, <1>7 DEF Types
  <2>2. AnswerOf' = [AnswerOf EXCEPT ![t] = [type |-> "stored"]]
    BY <1>5, <2>1 DEF Reads
  <2>3. AnswerOf[t] = NoAnswer BY <1>3, <1>5 DEF Reads
  <2>4. MapOf' = MapOf BY <1>2, <1>4, MapStays
  <2>5. \A k \in DOMAIN call[t][2] : MapOf[k] # Absent
    <3>1. SUFFICES ASSUME NEW k \in DOMAIN call[t][2] PROVE MapOf[k] # Absent
      OBVIOUS
    <3>2. KeyStored(k) BY <1>3, <1>7 DEF LoadKept, ToCome
    <3>3. PICK n \in On(0) : node[n].key = k
      BY <1>0, <3>2, LevelZero DEF KeyStored
    <3>4. k \in Key BY <1>0, <1>3, CallShape, ArchiveShape DEF Op
    <3>5. MapOf[k] = node[n].value BY <1>4, <3>3, <3>4 DEF Reads, ReadsAs
    <3>6. n \in Nodes BY <3>3 DEF On
    <3>. QED BY <1>0, <3>5, <3>6, Distinct DEF Structure, MemoryKept
  <2>6. Map!LoadDone(t)
    BY <1>0, <1>3, <2>2, <2>3, <2>4, <2>5
       DEF Map!LoadDone, Map!Inside, Map!Reports, Map!NoAnswer, NoAnswer, Op
  <2>. QED BY <2>6 DEF MapStep, Map!Next
<1>. QED BY <1>1, <1>6, <1>7

\* A list with no node is an empty map.
LEMMA EmptyMap ==
  MapReads /\ On(0) = {} /\ (\A t \in Thread : pc[t] = "idle")
    => MapOf = [k \in Key |-> Absent]
BY DEF MapReads, ReadsAs, Replacing

LEMMA MapAtDestroy ==
  ASSUME Inv, Inv', Destroy
  PROVE  MapStep
<1>0. /\ \A t \in Thread : pc[t] = "idle" /\ CallFits(t) /\ Types
      /\ UNCHANGED <<pc, locals>>
  BY DEF Inv, Destroy
<1>1. Structure /\ Mutexes /\ Types /\ Header \in live BY DEF Inv, Structure, Destroy
<1>2. _mtx = Absent BY <1>0, <1>1, AllIdle
<1>3. Chain(0) = Nodes BY <1>1, <1>2, LevelZero, ChainIsLevel
<1>4. live' = {} BY <1>3 DEF Destroy, Nodes
<1>5. (On(0) = {} /\ \A t \in Thread : pc[t] = "idle")'
  BY <1>0, <1>4 DEF On, Nodes
<1>6. MapReads' BY MapReading, PTL
<1>7. (MapOf = [k \in Key |-> Absent])' BY <1>5, <1>6, EmptyMap, PTL
<1>8. AnswerOf' = AnswerOf /\ call' = call BY <1>0 DEF AnswerOf, Op, locals
<1>9. \A t \in Thread : call[t] = <<"none">> BY <1>0, CallShape DEF CallFits
<1>10. Map!Destroy BY <1>7, <1>8, <1>9 DEF Map!Destroy, Map!Idle
<1>. QED BY <1>10 DEF MapStep, Map!Next

LEMMA MapAtConstruct ==
  ASSUME Inv, Inv', Construct
  PROVE  MapStep
<1>0. /\ MemoryKept /\ Mutexes /\ Header \notin live
      /\ live' = live \union {Header} /\ UNCHANGED <<pc, locals>>
  BY DEF Inv, Construct
<1>1. \A t \in Thread : pc[t] = "idle" BY <1>0 DEF Mutexes
<1>2. live = {} /\ On(0) = {} BY <1>0 DEF MemoryKept, On, Nodes
<1>3. (On(0) = {} /\ \A t \in Thread : pc[t] = "idle")'
  BY <1>0, <1>1, <1>2 DEF On, Nodes
<1>4. MapReads /\ MapReads'
  <2>1. MapReads BY MapReading
  <2>2. MapReads' BY MapReading, PTL
  <2>. QED BY <2>1, <2>2
<1>5. MapOf = [k \in Key |-> Absent] BY <1>1, <1>2, <1>4, EmptyMap
<1>6. (MapOf = [k \in Key |-> Absent])' BY <1>3, <1>4, EmptyMap, PTL
<1>7. AnswerOf' = AnswerOf /\ call' = call BY <1>0 DEF AnswerOf, Op, locals
<1>. QED BY <1>5, <1>6, <1>7 DEF MapStep

LEMMA MapAtStutter ==
  ASSUME Inv, Inv', UNCHANGED vars
  PROVE  MapStep
<1>1. UNCHANGED <<node, live, _mtx, pc, call, current, lvl, oldValue, answer>>
  BY DEF vars, list, locals
<1>2. On(0)' = On(0)
  <2>1. \A n : Off(n, 0)' <=> Off(n, 0) BY <1>1 DEF Off
  <2>. QED BY <1>1, <2>1 DEF On, Nodes
<1>3. MapReads /\ MapReads'
  <2>1. MapReads BY MapReading
  <2>2. MapReads' BY MapReading, PTL
  <2>. QED BY <2>1, <2>2
<1>4. \A t \in Thread, k \in Key : Replacing(t, k)' <=> Replacing(t, k)
  BY <1>1 DEF Replacing, Op, ArgKey
<1>5. ASSUME NEW k \in Key PROVE MapOf'[k] = MapOf[k]
  <2>1. CASE \E t \in Thread : Replacing(t, k)
    <3>1. PICK t \in Thread : Replacing(t, k) BY <2>1
    <3>2. MapOf[k] = oldValue[t] BY <1>3, <3>1 DEF MapReads
    <3>3. Replacing(t, k)' BY <1>4, <3>1
    <3>4. MapOf'[k] = oldValue'[t] BY <1>3, <3>3 DEF MapReads
    <3>. QED BY <1>1, <3>2, <3>4
  <2>2. CASE ~ \E t \in Thread : Replacing(t, k)
    <3>1. /\ \A n \in On(0) : node[n].key = k => MapOf[k] = node[n].value
          /\ (\A n \in On(0) : node[n].key # k) => MapOf[k] = Absent
      BY <1>3, <2>2 DEF MapReads, ReadsAs
    <3>2. /\ \A n \in On(0) : node[n].key = k => MapOf'[k] = node[n].value
          /\ (\A n \in On(0) : node[n].key # k) => MapOf'[k] = Absent
      BY <1>1, <1>2, <1>3, <1>4, <2>2 DEF MapReads, ReadsAs
    <3>. QED BY <3>1, <3>2
  <2>. QED BY <2>1, <2>2
<1>6. MapOf' = MapOf BY <1>3, <1>5 DEF MapReads
<1>7. AnswerOf' = AnswerOf /\ call' = call BY <1>1 DEF AnswerOf, Op
<1>. QED BY <1>6, <1>7 DEF MapStep

LEMMA MapAtInit ==
  ASSUME Init
  PROVE  Map!Init
<1>1. MapReads BY InitInv, MapReading
<1>2. On(0) = {} /\ \A t \in Thread : pc[t] = "idle" BY DEF Init, On, Nodes
<1>3. MapOf = [k \in Key |-> Absent] BY <1>1, <1>2, EmptyMap
<1>4. AnswerOf = [t \in Thread |-> NoAnswer]
  BY DEF Init, AnswerOf, NoAnswer
<1>5. call = [t \in Thread |-> <<"none">>] BY DEF Init
<1>. QED BY <1>3, <1>4, <1>5 DEF Map!Init, Map!Idle, Map!NoAnswer, NoAnswer

LEMMA NextMaps ==
  ASSUME Inv, Inv', Loads, [Next]_vars
  PROVE  MapStep
<1>1. ASSUME NEW t \in Thread, ThreadStep(t) PROVE MapStep
  <2>1. /\ Reads(t) /\ Reads(t)'
        /\ AnswerOf' = [AnswerOf EXCEPT ![t] = AnswerOf'[t]]
    BY <1>1, StepReads
  <2>. QED BY <1>1, <2>1, MapAtCall, MapAtReturn, MapAtSearch, MapAtDeleteBegin, MapAtUnlink,
           MapAtDeleteEnd, MapAtInsertBegin, MapAtLink, MapAtInsertEnd, MapAtDump,
           MapAtLoad DEF ThreadStep, Loads
<1>. QED BY <1>1, MapAtDestroy, MapAtConstruct, MapAtStutter DEF Next

\* The pointers, the two mutexes and the threads' locals implement a map on which
\* every call of get, set, delete, dump and load takes effect at one moment: a
\* set when its node is linked on level 0, a delete when it is unlinked there, and
\* nobody sees insert_set_element between its delete_element and its
\* insert_element; load_file returns when every key of its archive has an element.
THEOREM ListImplementsMap == Spec => ImplementsMap
<1>1. Init => Map!Init BY MapAtInit
<1>2. Inv /\ Inv' /\ Loads /\ [Next]_vars => [Map!Next]_(Map!vars)
  <2>1. SUFFICES ASSUME Inv, Inv', Loads, [Next]_vars PROVE [Map!Next]_(Map!vars)
    OBVIOUS
  <2>2. MapStep BY <2>1, NextMaps
  <2>. QED BY <2>2 DEF MapStep, Map!vars
<1>3. Init => Loads BY InitInv, LoadsAtRest DEF Init, Inv
<1>4. Inv /\ Inv' /\ Loads /\ [Next]_vars => Loads' BY LoadsKept
<1>. QED BY <1>1, <1>2, <1>3, <1>4, Invariance, PTL DEF Spec, ImplementsMap, Map!Spec
=============================================================================
