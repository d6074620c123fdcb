--------------------------- MODULE SkipListProps ---------------------------
(***************************************************************************)
(* What makes the storage engine correct, and that it is a map.            *)
(***************************************************************************)
EXTENDS SkipList

Calls == {<<"none">>, <<"dump">>} \union ({"load"} \X Archives)
         \union ({"get", "delete"} \X Key) \union ({"set"} \X Key \X Value)

\* Types of the memory, the counters and the threads' locals.
TypeOK ==
  /\ node \in [Slot -> [key : Key \union {Absent}, value : Value \union {Absent},
                        node_level : Level, forward : [Level -> Pointer]]]
  /\ live \subseteq Slot
  /\ _skip_list_level \in Level /\ _element_count \in Nat
  /\ {_mtx, m_mtx} \subseteq Thread \union {Absent}
  /\ pc \in [Thread -> {"idle", "search", "delete", "unlink", "insert", "link",
                        "dump", "load", "return"}]
  /\ call \in [Thread -> Calls]
  /\ current \in [Thread -> Pointer] /\ lvl \in [Thread -> 0 .. MaxLevel + 1]
  /\ update \in [Thread -> [Level -> Pointer]]

\* No thread is inside insert_element or delete_element.
Settled == _mtx = Absent /\ Header \in live

\* Whenever _mtx is free every level is a sorted chain, and a node is in the
\* chains of the levels up to its own and of no other: what the pointer updates
\* of insert_element and the break of delete_element's loop have to preserve
\* together.
LevelsAgree ==
  Settled =>
    \A i \in Level :
      /\ Chain(i) = {n \in Chain(0) : node[n].node_level >= i}
      /\ \A n \in Chain(i) :
           Next_(n, i) /= NULL => node[n].key < node[Next_(n, i)].key

\* Whenever _mtx is free _element_count counts the nodes, and _skip_list_level is
\* the highest level with one: the next descent starts there, and an insertion
\* above it takes the header as predecessor.
CountAndHeight ==
  Settled =>
    /\ _element_count = Cardinality(Chain(0))
    /\ _skip_list_level > 0 => Next_(Header, _skip_list_level) /= NULL
    /\ \A i \in Level : i > _skip_list_level => Next_(Header, i) = NULL

\* The list between two operations of its own: its levels are sorted sublists of
\* each other and the counters tell their length and height, whatever order of
\* insert_element, delete_element and RandomLevel led there.
WellFormed == TypeOK /\ LevelsAgree /\ CountAndHeight

\* Whenever _mtx is free the allocated nodes are those of level 0: a node that was
\* unlinked was deleted, and one that was deleted is on no chain; and once the
\* list is destroyed nothing is left.
NothingLeaks ==
  /\ Settled => live = Chain(0) \union {Header}
  /\ Header \notin live => live = {}

\* search_element and dump_file take no lock of the list's own: the node they
\* stand on is not deleted under them only because every caller holds m_mtx.
\* skipList.h:155 promises as much of the list itself.
ReadersOnLiveNodes ==
  \A t \in Thread : pc[t] \in {"search", "dump"} => current[t] \in live

-----------------------------------------------------------------------------
(* The map.  insert_set_element takes the element out and puts it back: in *)
(* between the map still holds the value its search found.                 *)

Replacing(t, k) ==
  /\ Op(t) = "set" /\ ArgKey(t) = k /\ oldValue[t] /= Absent
  /\ \/ pc[t] = "unlink" /\ lvl[t] > 0
     \/ pc[t] = "insert"
     \/ pc[t] = "link" /\ lvl[t] = 0

MapOf ==
  [k \in Key |->
     IF \E t \in Thread : Replacing(t, k)
     THEN oldValue[CHOOSE t \in Thread : Replacing(t, k)]
     ELSE IF Header \in live /\ Stored(k) /= {}
          THEN node[CHOOSE n \in Stored(k) : TRUE].value
          ELSE Absent]

\* A set has happened when the new node is on level 0, a delete when the old one
\* is off it, although neither has returned.
AnswerOf ==
  [t \in Thread |->
     IF \/ Op(t) = "set" /\ pc[t] = "link" /\ lvl[t] > 0
        \/ Op(t) = "delete" /\ pc[t] = "unlink" /\ lvl[t] > 0
     THEN [type |-> "stored"] ELSE answer[t]]

Map == INSTANCE SkipListMap WITH kv <- MapOf, answer <- AnswerOf

\* The list is a map on which every call takes effect at one moment: a search
\* reports what the last insert_set_element of its key stored, never the gap
\* between its delete_element and its insert_element; a dump is the whole map; and
\* when load_file returns every key of its archive has an element, the ones that
\* were there before unchanged.
ImplementsMap == Map!Spec

\* skipList.h:437 says of load_file's loop that it inserts all key-value pairs of
\* the dump: the element it links for a key has the archive's value.  It has the
\* key as its value.
LoadsWhatWasDumped ==
  \A t \in Thread :
    Op(t) = "load" /\ pc[t] = "link" =>
      node[current[t]].value = call[t][2][node[current[t]].key]
=============================================================================
