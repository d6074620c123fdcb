---------------------------- MODULE SkipListMap ----------------------------
(***************************************************************************)
(* What the storage engine promises to KvServer: a map from keys to values *)
(* on which every call of a thread takes effect at one moment.             *)
(***************************************************************************)
CONSTANTS Key, Value, Archives, Thread, Absent

VARIABLES
  kv,      \* the map; Absent where the key has no element
  call,    \* per thread, the call it is in: operation and arguments
  answer   \* per thread, what the call reported, until it returns

vars == <<kv, call, answer>>

Idle == <<"none">>
NoAnswer == [type |-> "none"]

Calls == {<<"dump">>} \union ({"load"} \X Archives)
         \union ({"get", "delete"} \X Key) \union ({"set"} \X Key \X Value)

Init ==
  /\ kv = [k \in Key |-> Absent]
  /\ call = [t \in Thread |-> Idle]
  /\ answer = [t \in Thread |-> NoAnswer]

Call(t) ==
  /\ call[t] = Idle
  /\ \E c \in Calls : call' = [call EXCEPT ![t] = c]
  /\ UNCHANGED <<kv, answer>>

Inside(t, op) == call[t][1] = op /\ answer[t] = NoAnswer
Reports(t, a) == answer' = [answer EXCEPT ![t] = a] /\ UNCHANGED call

Pairs == {p \in Key \X Value : kv[p[1]] = p[2]}

\* search_element
Get(t) ==
  /\ Inside(t, "get")
  /\ LET k == call[t][2] IN
       Reports(t, [type |-> "found", key |-> k, value |-> kv[k]])
  /\ UNCHANGED kv

\* insert_set_element: whatever was stored under the key is replaced at once
Set(t) ==
  /\ Inside(t, "set")
  /\ kv' = [kv EXCEPT ![call[t][2]] = call[t][3]]
  /\ Reports(t, [type |-> "stored"])

\* delete_element
Delete(t) ==
  /\ Inside(t, "delete")
  /\ kv' = [kv EXCEPT ![call[t][2]] = Absent]
  /\ Reports(t, [type |-> "stored"])

\* dump_file
Dump(t) ==
  /\ Inside(t, "dump")
  /\ Reports(t, [type |-> "dump", pairs |-> Pairs])
  /\ UNCHANGED kv

\* load_file: a key of the archive that has no element gets one, and an element
\* that is there stays.  Which value the new element has is left open: it should
\* be the archive's, and skipList.h:439 takes another (LoadsWhatWasDumped).
LoadOne(t) ==
  /\ Inside(t, "load")
  /\ \E k \in DOMAIN call[t][2], v \in Value :
       kv[k] = Absent /\ kv' = [kv EXCEPT ![k] = v]
  /\ UNCHANGED <<call, answer>>

\* load_file is over when every key of the archive has its element.
LoadDone(t) ==
  /\ Inside(t, "load")
  /\ \A k \in DOMAIN call[t][2] : kv[k] /= Absent
  /\ Reports(t, [type |-> "stored"])
  /\ UNCHANGED kv

Return(t) ==
  /\ answer[t] /= NoAnswer
  /\ call' = [call EXCEPT ![t] = Idle]
  /\ answer' = [answer EXCEPT ![t] = NoAnswer]
  /\ UNCHANGED kv

\* the destructor
Destroy ==
  /\ \A t \in Thread : call[t] = Idle
  /\ kv' = [k \in Key |-> Absent]
  /\ UNCHANGED <<call, answer>>

Next ==
  \/ \E t \in Thread : \/ Call(t) \/ Get(t) \/ Set(t) \/ Delete(t) \/ Dump(t)
                       \/ LoadOne(t) \/ LoadDone(t) \/ Return(t)
  \/ Destroy

Spec == Init /\ [][Next]_vars
=============================================================================
