------------------------------ MODULE SkipList ------------------------------
(***************************************************************************)
(* The storage engine of skipList.h, pointer by pointer.  Threads call it  *)
(* the way KvServer does, holding KvServer::m_mtx for the whole call;      *)
(* insert_element and delete_element take _mtx as well, search_element,    *)
(* dump_file and the loop of load_file do not.  A write to one forward     *)
(* pointer, or a hop of a reader along one, is a step.                     *)
(***************************************************************************)
EXTENDS Integers, Sequences, FiniteSets

CONSTANTS
  Key,        \* the keys, ordered
  Value,      \* the values; load_file stores keys as values
  Archives,   \* what load_file may be given: the dump of some list, from keys to values
  Address,    \* where nodes can be allocated
  Thread,     \* the threads that call
  MaxLevel,   \* _max_level
  NULL, Header, Absent

ASSUME SkipListAssumption ==
  /\ Key \subseteq Int /\ Key \subseteq Value
  /\ \A D \in Archives : \E K \in SUBSET Key : IsFiniteSet(K) /\ D \in [K -> Value]
  /\ MaxLevel \in Nat \ {0}
  /\ IsFiniteSet(Address)
  /\ Header \notin Address /\ NULL \notin Address \union {Header}
  /\ Absent \notin Value \union Thread

VARIABLES
  node,               \* memory: the node at each address, Header included
  live,               \* the addresses that are allocated
  _skip_list_level, _element_count,
  _mtx, m_mtx,        \* the thread that holds the list's, the server's mutex
  pc,                 \* where each thread is
  call,               \* its call: operation, key and value, or archive
  current, lvl,       \* its locals: the node and the level it is at
  update,             \* the predecessor on each level
  oldValue,           \* what its search found
  todo,               \* load_file: keys still to insert; dump_file: pairs seen
  answer              \* what the call reported

list == <<node, live, _skip_list_level, _element_count>>
locals == <<call, current, lvl, update, oldValue, todo, answer>>
vars == <<list, _mtx, m_mtx, pc, locals>>

Level == 0 .. MaxLevel
Slot == Address \union {Header}
Pointer == Slot \union {NULL}
NullPointers == [i \in Level |-> NULL]

\* Node(k, v, level): every forward pointer is NULL
NewNode(k, v, level) ==
  [key |-> k, value |-> v, node_level |-> level, forward |-> NullPointers]

\* Memory nothing is allocated in, and what get_key of the header returns.
Free == NewNode(Absent, Absent, 0)

Next_(n, i) == node[n].forward[i]

\* The node n, where there is one, comes before key k; or it is the key's.
Before(n, k) == n /= NULL /\ node[n].key < k
Holds(n, k) == n /= NULL /\ node[n].key = k

-----------------------------------------------------------------------------
(* What the structure holds: the chain of each level, and the map.         *)

\* The last node before key k on level i, starting from n on that level.
WalkFrom(k, i) ==
  LET walk[n \in Slot] ==
        IF Before(Next_(n, i), k) THEN walk[Next_(n, i)] ELSE n
  IN walk

\* The descent both writers start with: update[i] on each level in use.
Predecessors(k) ==
  LET at[i \in 0 .. _skip_list_level] ==
        WalkFrom(k, i)[IF i = _skip_list_level THEN Header ELSE at[i + 1]]
  IN [i \in Level |-> IF i <= _skip_list_level THEN at[i] ELSE NULL]

\* The nodes a level's chain reaches, in at most as many hops as there are slots.
Chain(i) ==
  LET reach[h \in 0 .. Cardinality(Address)] ==
        IF h = 0 THEN {Next_(Header, i)} \ {NULL}
        ELSE reach[h - 1] \union ({Next_(n, i) : n \in reach[h - 1]} \ {NULL})
  IN reach[Cardinality(Address)]

Stored(k) == {n \in Chain(0) : node[n].key = k}

-----------------------------------------------------------------------------
Init ==
  /\ node = [n \in Slot |-> Free]
  /\ live = {Header}
  /\ _skip_list_level = 0 /\ _element_count = 0
  /\ _mtx = Absent /\ m_mtx = Absent
  /\ pc = [t \in Thread |-> "idle"]
  /\ call = [t \in Thread |-> <<"none">>]
  /\ current = [t \in Thread |-> NULL]
  /\ lvl = [t \in Thread |-> 0]
  /\ update = [t \in Thread |-> NullPointers]
  /\ oldValue = [t \in Thread |-> Absent]
  /\ todo = [t \in Thread |-> <<>>]
  /\ answer = [t \in Thread |-> [type |-> "none"]]

Op(t) == call[t][1]
ArgKey(t) == call[t][2]

Goto(t, where) == pc' = [pc EXCEPT ![t] = where]
Answer(t, a) == answer' = [answer EXCEPT ![t] = a] /\ Goto(t, "return")

\* Mutant of LockServer: m_mtx is not waited for.
LockServerAtOnce(t) == UNCHANGED m_mtx

\* KvServer::m_mtx, taken by every function that reaches the list.
LockServer(t) == m_mtx = Absent /\ m_mtx' = t

\* The keys of K as dump_file writes them.
InOrder(K) == CHOOSE s \in [1 .. Cardinality(K) -> K] :
                \A i, j \in DOMAIN s : i < j => s[i] < s[j]

\* The keys a call brings: those of the archive load_file is given.
Brought(c) == IF c[1] = "load" THEN DOMAIN c[2] ELSE {}

\* A thread takes KvServer::m_mtx and calls one operation of the list.
Call(t) ==
  /\ pc[t] = "idle"
  /\ Header \in live
  /\ LockServer(t)
  /\ \/ \E k \in Key :
          /\ call' = [call EXCEPT ![t] = <<"get", k>>]
          /\ Goto(t, "search")
     \/ \E k \in Key, v \in Value :
          /\ call' = [call EXCEPT ![t] = <<"set", k, v>>]
          /\ Goto(t, "search")
     \/ \E k \in Key :
          /\ call' = [call EXCEPT ![t] = <<"delete", k>>]
          /\ Goto(t, "delete")
     \/ /\ call' = [call EXCEPT ![t] = <<"dump">>]
        /\ Goto(t, "dump")
     \/ \E D \in Archives :
          /\ call' = [call EXCEPT ![t] = <<"load", D>>]
          /\ Goto(t, "load")
  /\ current' = [current EXCEPT ![t] = Header]
  /\ lvl' = [lvl EXCEPT ![t] = IF pc'[t] = "search" THEN _skip_list_level ELSE 0]
  /\ todo' = [todo EXCEPT ![t] = InOrder(Brought(call'[t]))]
  /\ UNCHANGED <<list, _mtx, update, oldValue, answer>>

\* The call is over: its result is read, its locals die, m_mtx is released.
Return(t) ==
  /\ pc[t] = "return"
  /\ m_mtx' = IF m_mtx = t THEN Absent ELSE m_mtx
  /\ Goto(t, "idle")
  /\ call' = [call EXCEPT ![t] = <<"none">>]
  /\ current' = [current EXCEPT ![t] = NULL]
  /\ lvl' = [lvl EXCEPT ![t] = 0]
  /\ update' = [update EXCEPT ![t] = NullPointers]
  /\ oldValue' = [oldValue EXCEPT ![t] = Absent]
  /\ todo' = [todo EXCEPT ![t] = <<>>]
  /\ answer' = [answer EXCEPT ![t] = [type |-> "none"]]
  /\ UNCHANGED <<list, _mtx>>

-----------------------------------------------------------------------------
(* search_element: no lock of the list's own.                              *)

\* One hop to the right, or one level down.
SearchHop(t) ==
  /\ pc[t] = "search"
  /\ LET n == Next_(current[t], lvl[t]) IN
     \/ /\ Before(n, ArgKey(t))
        /\ current' = [current EXCEPT ![t] = n]
        /\ UNCHANGED lvl
     \/ /\ ~Before(n, ArgKey(t))
        /\ lvl[t] > 0
        /\ lvl' = [lvl EXCEPT ![t] = @ - 1]
        /\ UNCHANGED current
  /\ UNCHANGED <<list, _mtx, m_mtx, pc, call, update, oldValue, todo, answer>>

\* Level 0 is exhausted: current->forward[0] is the key's node or none is.
\* get answers; insert_set_element goes on to delete_element or insert_element.
SearchEnd(t) ==
  /\ pc[t] = "search" /\ lvl[t] = 0
  /\ LET n == Next_(current[t], 0)
         found == Holds(n, ArgKey(t))
         value == IF found THEN node[n].value ELSE Absent
     IN /\ ~Before(n, ArgKey(t))
        /\ oldValue' = [oldValue EXCEPT ![t] = value]
        /\ \/ /\ Op(t) = "get"
              /\ Answer(t, [type |-> "found", key |-> ArgKey(t), value |-> value])
           \/ /\ Op(t) = "set"
              /\ Goto(t, IF found THEN "delete" ELSE "insert")
              /\ UNCHANGED answer
  /\ UNCHANGED <<list, _mtx, m_mtx, call, current, lvl, update, todo>>

-----------------------------------------------------------------------------
(* delete_element                                                          *)

\* Mutant of AfterDelete: the element is not put back with its new value.
AfterDeleteReturns(t) == Answer(t, [type |-> "stored"])

\* The end of delete_element: insert_set_element goes on to insert_element.
AfterDelete(t) ==
  IF Op(t) = "set" THEN Goto(t, "insert") /\ UNCHANGED answer
                   ELSE Answer(t, [type |-> "stored"])

DeleteBegin(t) ==
  /\ pc[t] = "delete"
  /\ _mtx = Absent
  /\ LET preds == Predecessors(ArgKey(t))
         n == Next_(preds[0], 0)
     IN \/ /\ Holds(n, ArgKey(t))
           /\ _mtx' = t
           /\ update' = [update EXCEPT ![t] = preds]
           /\ current' = [current EXCEPT ![t] = n]
           /\ lvl' = [lvl EXCEPT ![t] = 0]
           /\ Goto(t, "unlink")
           /\ UNCHANGED answer
        \/ /\ ~Holds(n, ArgKey(t))
           /\ AfterDelete(t)
           /\ UNCHANGED <<_mtx, update, current, lvl>>
  /\ UNCHANGED <<list, m_mtx, call, oldValue, todo>>

\* Mutant of Linked: the loop stops below the top level.
LinkedBelowTop(t) ==
  lvl[t] < _skip_list_level /\ Next_(update[t][lvl[t]], lvl[t]) = current[t]

\* The node is taken out of the chain of level lvl, if it is in it.
Linked(t) ==
  lvl[t] <= _skip_list_level /\ Next_(update[t][lvl[t]], lvl[t]) = current[t]

Unlink(t) ==
  /\ pc[t] = "unlink" /\ Linked(t)
  /\ node' = [node EXCEPT ![update[t][lvl[t]]].forward[lvl[t]] =
                Next_(current[t], lvl[t])]
  /\ lvl' = [lvl EXCEPT ![t] = @ + 1]
  /\ UNCHANGED <<live, _skip_list_level, _element_count, _mtx, m_mtx, pc, call,
                 current, update, oldValue, todo, answer>>

\* The highest level that is not above an empty one only.
LoweredLevel ==
  LET lower[i \in Level] ==
        IF i > 0 /\ Next_(Header, i) = NULL THEN lower[i - 1] ELSE i
  IN lower[_skip_list_level]

DeleteEnd(t) ==
  /\ pc[t] = "unlink" /\ ~Linked(t)
  /\ _skip_list_level' = LoweredLevel
  /\ node' = [node EXCEPT ![current[t]] = Free]
  /\ live' = live \ {current[t]}
  /\ _element_count' = _element_count - 1
  /\ current' = [current EXCEPT ![t] = NULL]
  /\ _mtx' = Absent
  /\ AfterDelete(t)
  /\ UNCHANGED <<m_mtx, call, lvl, update, oldValue, todo>>

-----------------------------------------------------------------------------
(* insert_element, called by insert_set_element and by load_file           *)

\* What is being inserted: load_file inserts the key as its own value.
Pair(t) == IF Op(t) = "load" THEN <<Head(todo[t]), Head(todo[t])>>
                             ELSE <<call[t][2], call[t][3]>>

\* The end of insert_element: load_file goes on to its next key.
AfterInsert(t) ==
  IF Op(t) = "load"
  THEN Goto(t, "load") /\ todo' = [todo EXCEPT ![t] = Tail(@)] /\ UNCHANGED answer
  ELSE Answer(t, [type |-> "stored"]) /\ UNCHANGED todo

\* get_random_level
RandomLevel == 1 .. MaxLevel

\* update after the levels above _skip_list_level got the header
Raised(preds, level) ==
  [i \in Level |-> IF i \in _skip_list_level + 1 .. level THEN Header ELSE preds[i]]

HigherOf(i, j) == IF i > j THEN i ELSE j

InsertBegin(t) ==
  /\ pc[t] = "insert"
  /\ _mtx = Absent
  /\ LET k == Pair(t)[1]
         preds == Predecessors(k)
         n == Next_(preds[0], 0)
     IN \/ /\ Holds(n, k)
           /\ AfterInsert(t)
           /\ UNCHANGED <<list, _mtx, update, current, lvl>>
        \/ /\ ~Holds(n, k)
           /\ \E random_level \in RandomLevel, a \in Address \ live :
                /\ update' = [update EXCEPT ![t] = Raised(preds, random_level)]
                /\ _skip_list_level' = HigherOf(random_level, _skip_list_level)
                /\ node' = [node EXCEPT ![a] = NewNode(k, Pair(t)[2], random_level)]
                /\ live' = live \union {a}
                /\ current' = [current EXCEPT ![t] = a]
           /\ lvl' = [lvl EXCEPT ![t] = 0]
           /\ _mtx' = t
           /\ Goto(t, "link")
           /\ UNCHANGED <<_element_count, todo, answer>>
  /\ UNCHANGED <<m_mtx, call, oldValue>>

Link(t) ==
  /\ pc[t] = "link" /\ lvl[t] <= node[current[t]].node_level
  /\ LET i == lvl[t]
         pred == update[t][i]
     IN node' = [node EXCEPT ![current[t]].forward[i] = Next_(pred, i),
                             ![pred].forward[i] = current[t]]
  /\ lvl' = [lvl EXCEPT ![t] = @ + 1]
  /\ UNCHANGED <<live, _skip_list_level, _element_count, _mtx, m_mtx, pc, call,
                 current, update, oldValue, todo, answer>>

InsertEnd(t) ==
  /\ pc[t] = "link" /\ lvl[t] > node[current[t]].node_level
  /\ _element_count' = _element_count + 1
  /\ _mtx' = Absent
  /\ AfterInsert(t)
  /\ UNCHANGED <<node, live, _skip_list_level, m_mtx, call, current, lvl, update,
                 oldValue>>

-----------------------------------------------------------------------------
\* dump_file: along level 0, one node at a time.
Dump(t) ==
  /\ pc[t] = "dump"
  /\ LET n == Next_(current[t], 0) IN
     \/ /\ n /= NULL
        /\ current' = [current EXCEPT ![t] = n]
        /\ todo' = [todo EXCEPT ![t] = Append(@, <<node[n].key, node[n].value>>)]
        /\ UNCHANGED <<pc, answer>>
     \/ /\ n = NULL
        /\ Answer(t, [type |-> "dump", pairs |-> {todo[t][i] : i \in DOMAIN todo[t]}])
        /\ UNCHANGED <<current, todo>>
  /\ UNCHANGED <<list, _mtx, m_mtx, call, lvl, update, oldValue>>

\* load_file: insert the next key, or return when none is left.
Load(t) ==
  /\ pc[t] = "load"
  /\ \/ todo[t] /= <<>> /\ Goto(t, "insert") /\ UNCHANGED answer
     \/ todo[t] = <<>> /\ Answer(t, [type |-> "stored"])
  /\ UNCHANGED <<list, _mtx, m_mtx, call, current, lvl, update, oldValue, todo>>

\* Mutant of Destroy: the nodes of level 0 are left to themselves.
DestroyHeaderOnly ==
  /\ Header \in live
  /\ \A t \in Thread : pc[t] = "idle"
  /\ live' = live \ {Header}
  /\ UNCHANGED <<node, _skip_list_level, _element_count, _mtx, m_mtx, pc, locals>>

\* ~SkipList: clear deletes along level 0, then the header goes.
Destroy ==
  /\ Header \in live
  /\ \A t \in Thread : pc[t] = "idle"
  /\ live' = live \ (Chain(0) \union {Header})
  /\ node' = [n \in Slot |-> IF n \in live' THEN node[n] ELSE Free]
  /\ UNCHANGED <<_skip_list_level, _element_count, _mtx, m_mtx, pc, locals>>

\* SkipList(max_level)
Construct ==
  /\ Header \notin live
  /\ live' = live \union {Header}
  /\ _skip_list_level' = 0 /\ _element_count' = 0
  /\ UNCHANGED <<node, _mtx, m_mtx, pc, locals>>

ThreadStep(t) ==
  \/ Call(t) \/ Return(t)
  \/ SearchHop(t) \/ SearchEnd(t)
  \/ DeleteBegin(t) \/ Unlink(t) \/ DeleteEnd(t)
  \/ InsertBegin(t) \/ Link(t) \/ InsertEnd(t)
  \/ Dump(t) \/ Load(t)

Next == (\E t \in Thread : ThreadStep(t)) \/ Destroy \/ Construct

Spec == Init /\ [][Next]_vars
=============================================================================
