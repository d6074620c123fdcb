# A formal model of the distributed KV store

This directory holds TLA+ modules that model the Raft-based KV store of this
repository, TLC configurations that model-check them, and theorems about them
that the TLA+ proof system checks. Paths such as `src/raftCore/raft.cpp` are
paths of the repository.

    tlc -config MCRaftHandover.cfg MCRaft.tla     # one run
    tlapm RaftLogProofs.tla                       # one module of proofs

## 1. The system and its components

A deployment is a fixed set of processes, forked by
`example/raftCoreExample/raftKvDB.cpp`. Each process is one `KvServer`, which owns
a `Raft` and a `Persister`; clients are `Clerk`s.

    Clerk --Get/PutAppend--> KvServer --Start--> Raft --RPC--> Raft of the peers
                                ^                 |  \
                                |   applyChan     |   persist / Save
                                +---(LockQueue)---+    --> Persister --> files
    every RPC: MprpcChannel (client) --TCP--> RpcProvider (server, muduo)
    Raft's tickers: fibers of an IOManager (Scheduler + Timer + epoll)

| Component | State | Operations | What makes it hard | What makes it correct |
|---|---|---|---|---|
| `Raft` (`raftCore/raft.cpp`) | term, vote, role, log, snapshot position, commit and apply index, per-peer indexes | the handlers `RequestVote`, `AppendEntries1`, `InstallSnapshot`; the callers' halves `sendRequestVote`, `sendAppendEntries`, `leaderSendSnapShot`; `doElection`, `doHeartBeat`, `getApplyLogs`, `Start`, `Snapshot` | detached threads answer late and in any order; counters shared by threads; several heartbeats in flight; the log is compacted under requests that refer to it; assertions end the process | one leader per term, logs that agree, commits that last, assertions that hold, entries that get applied |
| `Persister` | two files, a size | `SaveRaftState`, `Save`, `ReadRaftState`, `ReadSnapshot`, constructor | truncate, then write; reads that reopen the file | what was promised to a peer survives |
| `KvServer` | skip list, last request of each client, wait queues by log index, last snapshot index | `Get`, `PutAppend`, `GetCommandFromRaft`, `GetSnapShotFromRaft`, `MakeSnapShot` | the queue is created after `Start` returned; timeouts race with commits; two handlers on one index; Get writes the duplicate table out of log order | each request applied once, an OK only for what was applied |
| `Clerk` | request id, recent leader | `Get`, `PutAppend` (endless retry) | a retry of what was already done | at most one effect per request |
| `SkipList` | linked levels | insert, delete, search, insert-or-set, dump, load | insert-or-set takes the lock three times; load | a map |
| `MprpcChannel`, `RpcProvider` | one connection per peer; service table | `CallMethod`, `OnMessage` | one connection is shared by all threads that call; one read may hold several requests | an answer reaches its call |
| `Scheduler`, `Fiber`, `Thread` | task list, counts of active and idle threads | `scheduler`, `run`, `tickle`, `stop` | a fiber is handed on before it yielded | each task runs once, `stop` ends |
| `IOManager`, hook | events of each descriptor, waiting fibers | `addEvent`, `delEvent`, `cancelEvent`, `cancelAll`, `idle`, `do_io` | a timeout races with the event | a waiting fiber is woken exactly once |
| `Timer` | ordered set of timers, last time seen | `addTimer`, `cancel`, `refresh`, `reset`, `listExpiredCb` | unsigned time arithmetic, the clock read before the lock | a timer fires once, not early |
| `FdManager` | context of each descriptor | `get`, `del` | look under the read lock, create under the write lock | one context per descriptor |
| `LockQueue` | a queue | `Push`, `Pop`, `timeOutPop` | timeout against push | first in, first out |

The hazards behind the fourth column are listed one by one, with their lines, in
`PROJECT.json`.

## 2. The modules

| Module | What it is |
|---|---|
| `Raft` | the consensus core: state, one action per handler, specification `Spec` |
| `RaftProps` | the type invariant, invariants and action properties of `Raft`, and a statement of the repository that the code does not keep |
| `RaftRestart` | `Raft` plus the restart of an ended process: `RestartSpec` |
| `RaftLive` | fairness of the tickers and of delivery, the liveness property |
| `RaftLogProofs`, `RaftStepProofs`, `RaftMatchProofs` | proofs about types, logs and indexes; about votes and leaders, what a single step may do, the persister and entries; about what a leader believes of its peers and commits |
| `KvServer`, `KvProps`, `KvProofs` | clerks, handlers, wait queues, duplicate table and apply loop, over what Raft promises; their properties; proofs |
| `KvSnapshot`, `KvSnapshotProps`, `KvSnapshotProofs` | the composition of Raft's indexes and compaction, the persister's files, the apply channel with its producers, and the service's loop; its properties; proofs |
| `SkipList`, `SkipListProps`, `SkipListProofs` | the storage engine, pointer by pointer; its properties; proofs, of the refinement too |
| `SkipListMap` | the abstract specification: a map on which every call takes effect at one moment; `SkipListProps!Map` is the refinement mapping |
| `FiberRuntime` | scheduler, worker threads, idle fibers, timers, events of descriptors |
| `FiberHook`, `FiberProps`, `FiberProofs` | fibers that run on it and the hooked calls they make; the properties; proofs |
| `Wire` | what the generated message classes do with fields: clear, serialize, parse, merge; the dispatch tables of the services |
| `Rpc`, `RpcProps`, `RpcProofs` | channels and the threads that call over them, TCP, the provider and its IO threads; the properties; proofs |
| `MCRaft`, `MCRaftRestart`, `MCRaftLive`, `MCRaftStaleTail`, `MCKvServer`, `MCKvSnapshot`, `MCSkipList`, `MCFiber`, `MCRpc` | values for TLC |

What composes what: `RaftRestart` and `RaftLive` extend `Raft`; `FiberHook` extends
`FiberRuntime`; `Rpc` extends `Wire`; `KvSnapshot` is itself a composition, of the parts of
four classes that meet at a snapshot. `KvServer` stands on promises of `Raft`, which the
runs of `Raft` check.

### How `Raft` corresponds to `raft.cpp`

*Variables.* The members of `Raft` (`raft.h` 44-80) keep their names and are
functions of the server. `votedNum` is the counter that `doElection` shares with its
vote threads, `appendNums[s][k]` the one that `doHeartBeat` shares with the threads of
a round. `disk` is what the persister was last given. `exited` says why a process
ended. `votes` and `leaders` are history.

*Atomicity.* Every handler holds `m_mtx` from beginning to end, so a handler is one
action, the `persist()` in its `DEFER` included. A remote call is at least two actions:
the thread sends outside the mutex and takes it again for the answer. Between them its
request is an element of `voteCalls`, `appendCalls` or `snapCalls`, and later its answer
an element of `voteReplies`, `appendReplies` or `snapReplies`. They are sets: any
element may be taken next, so requests and answers are delayed and reordered freely. A
request or an answer is lost by never being taken; the thread of a failed call returns
without doing anything (`raft.cpp` 793, 877, 545). Starting a snapshot thread and the
thread's taking the mutex are two actions as well (`snapThreads`, `leaderSendSnapShot`),
because the thread reads the term and the snapshot position only then.

*Actions.*

| Action | Code |
|---|---|
| `doElection` | `doElection`; may happen at any time, since `electionTimeOutTicker` looks at the clock without the mutex and does not look again |
| `RequestVote` = `RefuseExpired` \/ `RefuseVote` \/ `GrantVote` | the handler, by its returns |
| `sendRequestVote` = `StepDown` \/ `Ignore` \/ `CountVote` \/ `BecomeLeader` | the caller after the answer |
| `doHeartBeat` | one round: requests or snapshot threads for all peers |
| `AppendEntries1` = `AppendExpired` \/ `AppendTooShort` \/ `AppendMismatch` \/ `AppendMatch` \/ `AppendBehindSnapshot` | the handler, by its branches; `Merged` is the entry-by-entry loop |
| `sendAppendEntries` = `StepDown` \/ `Ignore` \/ `Backtrack` \/ `Replicated` | the caller after the answer |
| `leaderSendSnapShot`, `InstallSnapshot`, `SnapshotAnswered` | the three parts of a snapshot call |
| `SnapshotPeerClosed` | the call to a process that ended: `recv` returns 0, the channel takes it for an answer and the empty bytes parse as term 0 |
| `Start`, `Snapshot`, `getApplyLogs` | the operations the KV layer and the applier call |
| `Crash`, `RaftRestart!Restart` | the process is killed; it is started again |

*Assertions.* `myAssert` ends the process. The one that can fail, in `matchLog` after the
branch for requests behind the snapshot, is the action `AppendBehindSnapshot`, which sets
`exited`. The conditions of the others are invariants that the runs check and, for the
most part, the proofs establish (`LeaderCanSend`, `IndexOrder`, `LogsContiguous`,
`EntryIdentity`, `ElectedOnce`). A step that would break one of them is not a step of the
model; the invariants are stated on the state before it, so they fail first.

*Restart.* The constructor of `Persister` truncates both files before anything reads them
(`Persister.cpp` 78, 84), so `Restart` sets every member to its initial value. Calls of and to
the old process go with its connections; answers it had already given may still arrive.

*Abstractions.* Commands are model values. A snapshot is its index and term; its bytes are
the subject of `KvSnapshot`. Answers reach the call they belong to; what the channel makes
of threads that share it is in `Rpc`. The answer to an outdated snapshot is delivered here,
although it has no bytes and in the code its caller waits for ever (`Rpc`): more can happen
in the model than in the code, and no liveness is claimed of it. Requests that arrive before
`Raft::init` has run (the provider is published first) are not modelled.
`leaderUpdateCommitIndex` is never called.

### How `KvServer` corresponds to `kvServer.cpp` and `clerk.cpp`

*Threads.* A handler of `Get` or `PutAppend` runs on a thread of the RPC provider and
takes and releases `m_mtx` several times; each stretch is an action. `handlers` holds the
threads past a successful `Start`, with `at` saying how far one has come:

| Action | Code |
|---|---|
| `Handle` = `StartRefused` \/ `StartAccepted` | the handler up to `Start` and its early return |
| `AwaitCommand` | the queue of the index is made (`kvServer.cpp` 91-99, 225-231) |
| `PopCommand`, `TimeOut` | `timeOutPop` returns with a command, or gives up (104-142, 236-258) |
| `ExecuteGet` | `ExecuteGetOpOnKVDB`, which also writes `m_lastRequestId` |
| `Reply` | the queue is erased, the clerk gets its answer |
| `TakeCommand`, `ExecutePut`, `SendMessage` | `GetCommandFromRaft`: the duplicate check, the execution, the notification, each under a lock of its own |
| `Request`, `CallFails`, and `Answer` in `Reply` and `StartRefused` | the clerk's loop |

A time-out is possible at any moment, even with a command in the queue, since
`timeOutPop` may be woken late. A call that fails leaves its request behind in `calls` or
`handlers`, where it goes on while the clerk already asks elsewhere. An answer nobody waits for
is dropped. A connection closed before the answer is taken for an empty reply by the
channel, and the clerk then asks the same server again.

*Raft* is represented by what it owes the service, and this module assumes it:

- `chosen` grows by one index at a time, by something `Start` put at that index;
- a server that is elected has every chosen entry, and a server's log never gets
  shorter, so that `Start` never returns an index twice (`LogEnds`: a new leader's log
  may end anywhere from there up to the longest log).

Who believes to lead is left open: `Start` may refuse or accept anywhere. The second half of
the second promise is checked of the code by `NeverGoesBack`; the first half is what
`StateMachineSafety` rests on, and `MCRaftStaleTail` shows that the code does not always
keep it. So the runs of `KvServer` say what the service adds to a Raft that keeps its
promises.

*Abstractions.* A value is the clerk's request that wrote it, so two writes never look
alike. `Append` is a request of its own kind that the servers execute as they execute `Put`:
`ExecuteAppendOpOnKVDB` calls `insert_set_element` (`kvServer.cpp` 26), although `clerk.h` 57
and `clerk.cpp` 98 say that it appends to the value. No property calls either outcome right:
`NoWriteIsLost` speaks of keys that were only put at, the other properties of whether
a command was chosen and what a server had applied.
The skip list is a map, which `SkipListProps!ImplementsMap` justifies. Snapshots are in
`KvSnapshot`; the end of a process is there as well. The RPC provider has only four IO
threads and a handler occupies one while it waits; here each handler has its own.

### How `KvSnapshot` corresponds to `raft.cpp`, `Persister.cpp` and `kvServer.cpp`

A snapshot crosses four classes and three threads, and no mutex covers its way:

| Action | Code | Thread |
|---|---|---|
| `getApplyLogs`, `applierTicker` | the batch is taken under Raft's mutex, then pushed one message at a time without it | applier fiber |
| `GetCommandFromRaft`, `IfNeedToSendSnapShotCommand`, `Snapshot` | a command is executed; the size of the kept state is looked at and the archive made under `KvServer`'s mutex; Raft is compacted under its own | `ReadRaftApplyCommandLoop` |
| `leaderSendSnapShot` | the archive is read back from the file | thread of the heartbeat |
| `InstallSnapshot`, `pushMsgToKvServer` | the receiver takes over the indexes, saves what it got, and hands the push to a detached thread | RPC thread, detached thread |
| `GetSnapShotFromRaft` | the snapshot is installed, or is no archive and the exception ends the process | `ReadRaftApplyCommandLoop` |
| `Restart` | the constructors, over truncated files | |

`Choose`, `Replicate` and `Learn` stand for consensus: a command is chosen, reaches a log,
and the log's owner learns that it is committed. An entry can reach a log only while some
server still has it, so that a server behind every compacted log depends on snapshots.

*The persister.* `Save` and `SaveRaftState` are what they do to the size counter and to the
snapshot file. `ReadSnapshot` closes its output stream and opens it again with the default
mode, which truncates the file; the `>>` in between yields one token. So `FirstWord` is what
a reader gets and the file is empty afterwards. The archive is what `boost` wrote,
abstracted to its index, its map and the last request; its first word (the length of the
archive's signature) is not an archive.

### How `SkipList` corresponds to `skipList.h`

`node` is the memory: an address holds a key, a value, a level and the array of forward
pointers, `live` says what is allocated. `_mtx` is the list's mutex, `m_mtx` that of
`KvServer`, which every caller of the list holds (`LockServer`; `kvServer.cpp` 22-70). A call
of a thread is a sequence of steps: a search is one step per pointer followed; an insertion is its
descent and then one step per level linked; a deletion likewise per level unlinked;
`insert_set_element` is a search, a deletion and an insertion, each under its own lock. The
height of a new node is any that `get_random_level` can return. `dump` and `load` are
`dump_file` and `load_file`; the latter inserts every key as its own value (line 439), where
the comment above it says that the dump's key-value pairs are inserted. The map leaves the
value of a loaded pair open, `LoadsWhatWasDumped` states what the comment says, and
`MCSkipListLoad.cfg` finds it violated. `Destroy` is the destructor with `clear`.

### How `FiberRuntime` and `FiberHook` correspond to `src/fiber`

`at[w]` is where worker `w` is between `run`, `resume` and the stages of `IOManager::idle`;
`running[w]` is the task it took. The stretches under `Scheduler::mutex_`, under the timers'
lock and under a descriptor's lock are one action each, with the `tickle` they end in.
`state[f]` is `Fiber::state_`, and `pc[f]` is where the fiber is in the hooked call it
makes. Four things are separate steps because the code separates them and the difference
matters:

- `stopping` reads the next timer and `pendingEventCnt_`, *then*, under the scheduler's
  lock, tasks and active threads (`Check`, `Ask`);
- `yield` marks the fiber READY, *then* the context is saved (`Yield`, `Switch`);
- `sleep`, `do_io` and `connect_with_timeout` make the timer and register the event
  *before* they yield (`Sleep`, `Arm`, `Add`);
- `idle` looks at the next timer, then at the rest of `stopping`, then waits (`Look`, `Check`
  and `Ask`, `Wait`).

A failed `CondPanic` sets `panicked`, and nothing happens afterwards. Time is relative:
`Tick` takes one unit off every timer and every `epoll_wait`. Peers (`Arrive`) make a
descriptor ready at any moment. The edge-triggered registration is `armed`: epoll reports an
event once and again only after it is registered anew. `addEvent` adds a descriptor with
`EPOLLEXCLUSIVE`, and the kernel refuses to modify what was added so (`EINVAL`). So an event
is registered when its descriptor has no other and is open (`Registered`); a second
direction gets the error path (`Refused`, `iomanager.cpp` 91-100), after which `do_io` gives
up and `connect_with_timeout` looks at the socket at once. For the same reason `idle` cannot
reset what is left of a descriptor that was closed, and skips it (`Handle`). A descriptor is
used by one fiber per direction, and its number is not used again before the fibers that
used it are done with it; both are conditions on the program that runs on the runtime.

### How `Wire` and `Rpc` correspond to the RPC framework

*Fields, not bytes.* A message is a function of its field names and the wire is a sequence
of pairs of a field number and a value. That is enough to tell apart what the properties
need: a default value has no bytes, a field that comes twice is overwritten or repeated, a
missing one keeps its default, and bytes of another message are read by number. The tables
of `Wire` give each generated class its fields; `Clear`, `SerializeToString`,
`MergeFromString` and `Parsed` are the generated functions, once for all classes.

*The channel.* `CallMethod`, `Connect`, `Send`, `Recv` and `Received` are the stages of
`MprpcChannel::CallMethod`. The descriptor is read again at each of them, as the code does.
`recv` that returns 0 parses as an empty answer; a reset connection fails the call and
closes the descriptor. TCP hands over what was sent in pieces: `OnMessage` may find a
request cut at any field (`MaxCuts`) or two in one buffer, of which it handles the first and
drops the rest. A handler runs on the IO thread that read its request and holds it up. A
process ends (`Stop`, `CallerEnds`) with its half of every connection. `handled`, `muted` and
`crossed` are history, and so is `raced` of a connection. `crossed` holds the channels on
whose connection calls have overlapped, or where an answer was longer than one `recv`, since
a thread that was alone made the connection; `raced` marks a connection made while
two threads of its channel were in `newConnect`.

## 3. What is checked

Constants bound the exploration and only ever disable actions: `MaxIndex` (log
length), `Rounds` (slots: how many heartbeat rounds of one server overlap; a new
round takes a slot and with it drops what is left of the slot's last round, which is then
lost), `Elections` (which server may stand in which term), `Compactors`, `MaxCrashes`;
`MaxCalls`, `MaxConns`, `MaxCuts`, `MaxStops` of `Rpc`; `MaxSends`, `MaxRestarts` of
`KvSnapshot`; `MaxCalls`, `Settings`, `Timeouts`, `UserTimers` of `FiberHook`.

| Run | Bounds | Properties |
|---|---|---|
| `MCRaftTwoTerms` | any of 3 servers in terms 1-2, 1 entry of 2 commands, 1 round | `TypeOK`, `ElectionSafety`, `ElectedOnce`, `EntryIdentity`, `DiskCurrent`, `CommitsOnMajority` |
| `MCRaftHandover` | 3 servers, s1 in term 1, s2 in term 2, 2 entries, 1 round | `MatchIndexTruthful`, `ReplicatedIsCommitted`, `LeaderAppendOnly`, `NeverGoesBack` |
| `MCRaftLive` | 2 servers, s1 in term 1, s2 in term 2, 2 entries, both compact, one restart, anything may be lost | `LogsContiguous`, `IndexOrder`, `LeaderCanSend`, `RepairedEverywhere` |
| `MCKvServer` | 2 servers that may both lead, 2 clerks of one process; one makes 2 requests, reads or writes, and asks up to twice for the first, the other puts or appends; 3 indexes, 1 key | `AcknowledgedIsChosen`, `NoWriteIsLost`, `ReadsSeeChosen`, `WaitersHaveQueues` |
| `MCKvSnapshot` | 2 servers, 3 commands that may repeat, 1 key, a snapshot due after every entry, 2 sent, 1 restart | `TakenInOrder`, `PassedOverIsCovered`, `ArchiveIsState`, `FilesInStep`, `CommandsReachService` |
| `MCSkipList` | 2 threads, 3 keys, 3 addresses, levels 0-2, 3 archives to load, any number of calls | `WellFormed`, `NothingLeaks`, `ReadersOnLiveNodes`, `ImplementsMap` |
| `MCFiber` | 1 worker, 2 fibers that make 2 calls and 1, 1 descriptor, timeouts of 1 unit, waits of at most 2 | `NoPanic`, `OneWakeUp`, `CountsRight`, `StopDrains`, `DeadlinesKept`, `StopReturns` |
| `MCFiberWorkers` | 2 workers, 2 tasks that may be meant for one of them, a timer of the program | `TasksRun` |
| `MCRpc` | 3 callers, of which 2 share a channel, 2 calls, up to 4 connections, 1 IO thread, 1 cut, 1 process that ends | `WholeOrNothing`, `AtMostOnce`, `OwnAnswer`, `ConnectionsKept`, `CallsReturn` |

What the runs show, by component:

- *Raft.* One leader per term and one winner's announcement per election, however late the
  votes; index and term name one command; what a leader believes of its peers is true, so that it
  commits only what a majority has (with one round at a time here; for any number of
  overlapping rounds and late snapshots this is proved, section 4);
  indexes and slice positions stay in step through appends, compaction and restarts; a
  restarted peer is repaired.
- *The service.* Nothing is acknowledged that was not chosen, whichever of wake-up,
  time-out and duplicate table decides; no Put is lost, and none is done again but behind a
  Get of its clerk; reads are not stale; no handler loses its queue.
- *Snapshots.* Pushes of several threads keep the commands in order; a command is passed over only
  if a snapshot stands for it; an archive is of the index it claims, although it is made
  before Raft is asked. What is *not* shown, because it is false, is that a receiver
  gets the state: it gets a word, and ends, or nothing, and goes on without
  (`kvServer.cpp` 346). The properties say exactly what is left.
- *The skip list* implements a map under the server's lock, up to the values of what
  `load_file` inserts.
- *The runtime*, with one worker: whatever of answer, timeout, close and stop comes
  first, a waiting fiber is resumed once; with two workers, a task is not stranded by a
  lost `tickle`, because no `epoll_wait` is longer than `MAX_TIMEOUT`.
- *RPC*, also where threads share a channel: no call is handled twice, no handler gets
  arguments half; a descriptor is lost only when two threads connect at once (which happens in
  the run). As long as calls do not overlap on a connection, answers belong to their calls
  and calls return. When they do, `MCRpcShared` shows what happens.

Why these bounds are enough to see the interesting cases: three servers are the smallest
cluster with a majority that is not everyone; two entries make a conflict that is
overwritten in the middle of a log and a request that is shorter than what has already
arrived; two terms make a conflict. For the service, two servers are enough to have a leader
and a deposed one, two attempts to have a request twice in the log, and the third index lets
the other clerk's request come before, between or after these. A clerk with two requests may
read and then write, so that its Get's handler meets its later write in the table of request
ids. That a late Get makes a write be executed twice takes three requests, two of them
repeated, and five indexes: `MCKvRepeated.cfg`. With the same bounds and `Append`s,
`MCKvLateReads.cfg` shows that `NoWriteIsLost` still holds there. For snapshots, three
commands leave room for one before the snapshot, one it covers and one that overtakes it; a
second one sent finds the file that the first emptied. Three keys and three levels have a
node between two others on every level and an insertion above the current height; an address
is used again after a deletion. In `MCFiber` one fiber can be inside a call while the other
closes its descriptor or sleeps. In `MCRpc` the second call finds whatever connection the
first left behind, or overlaps with it when its thread shares the channel. Every property of
every passing run has a mutant in `PROJECT.json` (a dropped guard, an index off by one, a
field that is not persisted) that the same run, with the same bounds, catches.

*Symmetry and view.* Servers are interchangeable as far as `Elections` and `Compactors`
allow. The view `LiveState` of `MCRaft` merges states that differ only in what no later
step can read: answers of a term their caller has left (terms never go back) or whose
caller has ended, refused votes, a leader's indexes at a server that does not lead, the
vote counter of a server that is no candidate of its term. `disk` enters it only as "is
it current", which is what the properties ask, and `m_lastApplied` only where compaction
reads it. `MCRaftRestart` and the liveness runs use no view.
The bounds end every behaviour of these models, so their runs do not check for deadlock;
`MCSkipList`, `MCFiber` and `MCFiberWorkers` do, for there calls and time never stop.
In `MCSkipList` addresses and threads are interchangeable.

The view of `MCKvServer` forgets what was started at indexes that are decided and what a
clerk's last request saw once it is answered, which no step and no property reads.

*Fairness.*

- `RaftLive`: `applierTicker` and `leaderHearBeatTicker` are endless loops, so
  `getApplyLogs` and `doHeartBeat` are weakly fair. A heartbeat that takes the slot of an older
  round loses what that round still had under way, so no single request needs to arrive; a
  link that is not dead delivers a request that is repeated for ever at last, which is
  strong fairness of delivery to each peer and of its answers. Nothing is assumed about
  elections: the property speaks of a process that leads. A process that ended is
  started again, by whoever operates the cluster.
- `KvSnapshot`: the applier, the apply loop and the detached push are threads that run.
- `FiberHook`: worker threads run and the clock goes on. Nothing is asked of peers, nor that
  `stop` is called. `DeadlinesKept` is conditional: only idle workers look at timers, so it
  assumes that some worker is idle time and again; `StopReturns` leaves out what keeps the
  workers by design, a recurring timer or a wait without a timeout.
- `Rpc`: calling threads run, what is sent arrives, handlers end (those that wait do so
  up to `CONSENSUS_TIMEOUT`). `CallsReturn` leaves out requests that were cut, answers without
  bytes, and calls that overlap on a connection, whose requests may arrive joined, of which
  the first is handled: after any of these a caller waits for ever.

*Refinement.* `SkipListMap` is a map with calls and answers: a `get` reports what the map
holds, a `set` replaces it, each at one moment. Under `MapOf` and `AnswerOf` every step of
the list is one of the map's or a stutter. The point of interest is `insert_set_element`:
between its deletion and its insertion the key is on no level, and the mapping still has the
old value there, which is right only because `KvServer` holds its own lock around the call.
A `load` is one step of the map per key that has no element yet, with any value (`LoadOne`),
and ends when every key of the archive has an element (`LoadDone`).
The run shows it on small instances, `ListImplementsMap` proves it for all.

### Where the code departs from what the repository says

Three of these are runs of the project (`findings` in `PROJECT.json` quotes the statement);
the other configurations are kept beside them and reproduce their counterexample with
`tlc -config X.cfg M.tla`, where M is the module of the column.

| Configuration | Module | Statement | What the code does |
|---|---|---|---|
| `MCRaftStaleTail` (run) | `MCRaftStaleTail` | strong consistency (`README.md` 9) | a conflicting entry is overwritten in place and the older tail behind it stays; the follower votes by that tail for a server that lacks a committed entry |
| `MCRpcShared` (run) | `MCRpc` | every call uses a connection of its own (`mprpcchannel.h` 37) | threads of one peer share a descriptor without a lock; one takes the other's answer |
| `MCRaftBehindSnapshot` | `MCRaft` | a request behind the follower's snapshot is refused (`raft.cpp` 45) | the branch lacks a return and falls into `matchLog`, whose assertion ends the follower |
| `MCRaftRestart` | `MCRaftRestart` | state is recovered after a restart (`Persister.h` 3) | the files are truncated first; a server votes twice in a term and two servers win it |
| `MCKvRepeated` | `MCKvServer` | "duplicate command will not be exed" (`kvServer.cpp` 164) | a Get executed late, by the handler of a call that had failed, sets its client's last request id back, and a Put that a retry put into the log twice is executed twice |
| `MCSkipListLoad` | `MCSkipList` | all key-value pairs of the dump are inserted (`skipList.h` 437) | `load_file` inserts each key as its own value (line 439). No archive gets as far today (`Persister.cpp` 26) |
| none; `OnlyPut` of `NoWriteIsLost` leaves it out | `KvServer` | `Append` appends to the value (`clerk.h` 57, `clerk.cpp` 98) | `ExecuteAppendOpOnKVDB` sets the value (`kvServer.cpp` 26) |
| `MCKvSameClient` | `MCKvServer` | the client id is unique and makes removing duplicates safe (`clerk.h` 24-25) | it comes from an unseeded `rand()`: the first clerks of two processes share it, and the Put of one is acknowledged and never executed |
| `MCRpcEmpty` | `MCRpc` | the answer of a handler that ended is sent to the caller (`rpcprovider.cpp` 317) | an all-default answer, such as that to an outdated snapshot (`raft.cpp` 438-443), has no bytes, nothing is sent, and the caller waits for ever |
| `MCRpcCut` | `MCRpc` | a request that did not arrive whole is dropped (`rpcprovider.cpp` 232) | a header cut before its last field passes, and the handler runs with default arguments |
| `MCFiberYield` | `MCFiber` | fibers may be scheduled on a pool of threads (`scheduler.hpp`) | with two workers a sleeping or waiting fiber is scheduled before it has yielded, or before its context is saved, and a `CondPanic` ends the process; with one worker `NoPanic` holds |
| `MCFiberStop` (run) | `MCFiber` | `stop` waits until all tasks are done (`scheduler.hpp` 87) | `stopping` looks at the next timer, then at the events, then at tasks and active threads (`iomanager.cpp` 360). With two workers the other one takes a fiber in between, which sleeps anew; the first sees no task and nobody active, both workers end, and the sleeping fiber is forgotten |

`MCRaftStaleTail` follows one course of events (who leads which term, who has which
entries when the next election starts) and explores all interleavings the course leaves
open; without the constraint its four terms are out of reach.

The majority is counted per heartbeat round (`raft.cpp` 935). With three servers one answer
is a majority, so nothing is lost by it and `ReplicatedIsCommitted` holds (`MCRaftHandover`,
and `ReplicationCommits` for any run of three servers). With four or more, entries
acknowledged over several rounds can stay uncommitted although every server has them, until
a later entry is replicated.

## 4. What is proved

For every value of the constants, from the named assumptions of each module and nothing
else. For Raft these are `ServerAssumption` (servers are finitely many and none is `Nil`)
and `BoundAssumption` (the bounds have their types); for the service the bounds are numbers,
there is a server and readers, writers and appenders are clerks; for snapshots, the bounds
are numbers (`SnapshotAssumption`); for RPC every thread has a channel, a caller calls
methods of the three services, and the bounds are numbers (`RpcAssumption`); for the runtime
workers, fibers and descriptors are finitely many, there is a worker, and delays are within
the bounds (`RuntimeAssumption`, `HookAssumption`); for the skip list keys are numbers that
are also values, archives are finite maps from keys to values, there is at least one level
above the lowest, memory is finite, and `Absent` is neither a value nor a thread
(`SkipListAssumption`).

Six theorems have a hypothesis of their own. Each says where the code needs a condition
that it does not establish by itself, and a configuration shows what happens without it.

| Hypothesis | Meaning | Why it is there |
|---|---|---|
| `UuidsDiffer` | no two clerks have one client id | it comes from an unseeded `rand()`; `MCKvSameClient` |
| `ThreeServers` | two or three servers; the repository is run with three (`README.md` 47, `run.sh` 46) | answers are counted per round: with four or more, two rounds can share them, and `ReplicatedIsCommitted` is false (section 3) |
| `OneWorker` | one worker thread, as configured (`FIBER_THREAD_NUM`, `config.h` 87) | with two, `NoPanic` and `StopDrains` are false; `MCFiberYield`, `MCFiberStop` |

| Theorem | Property |
|---|---|
| `RaftLogProofs!TypeCorrect` | `TypeOK` |
| `RaftLogProofs!LogsStayContiguous` | `LogsContiguous` |
| `RaftLogProofs!IndexesInOrder` | `IndexOrder` |
| `RaftLogProofs!LeaderCanAlwaysSend` | `LeaderCanSend` |
| `RaftStepProofs!OneLeaderPerTerm` | `ElectionSafety` |
| `RaftStepProofs!NeverElectedTwice` | `ElectedOnce` |
| `RaftStepProofs!NothingGoesBack` | `NeverGoesBack` |
| `RaftStepProofs!PersistedBeforeAnswer` | `DiskCurrent` |
| `RaftStepProofs!LeadersOnlyAppend` | `LeaderAppendOnly` |
| `RaftStepProofs!OneCommandPerEntry` | `EntryIdentity` |
| `RaftMatchProofs!MatchIndexIsTruthful` | `MatchIndexTruthful` |
| `RaftMatchProofs!CommittedByMajority` | `CommitsOnMajority` |
| `RaftMatchProofs!ReplicationCommits`, if `ThreeServers` | `ReplicatedIsCommitted` |
| `KvProofs!KvTypeCorrect` | `KvTypeOK` |
| `KvProofs!QueuesAreKept` | `WaitersHaveQueues` |
| `KvProofs!AcknowledgedWrites`, if `UuidsDiffer` | `AcknowledgedIsChosen` |
| `KvProofs!FreshReads`, if `UuidsDiffer` | `ReadsSeeChosen` |
| `KvProofs!WritesAreKept`, if `UuidsDiffer` | `NoWriteIsLost` |
| `KvSnapshotProofs!CommandsInOrder` | `TakenInOrder` |
| `KvSnapshotProofs!OnlySnapshotsPassOver` | `PassedOverIsCovered` |
| `KvSnapshotProofs!FilesStayInStep` | `FilesInStep` |
| `KvSnapshotProofs!ArchivesAreStates` | `ArchiveIsState` |
| `RpcProofs!NoDescriptorIsLost` | `ConnectionsKept` |
| `RpcProofs!RequestsArriveWhole` | `WholeOrNothing` |
| `RpcProofs!NoCallIsHandledTwice` | `AtMostOnce` |
| `RpcProofs!CallersGetTheirAnswers` | `OwnAnswer` |
| `FiberProofs!WakesOnce` | `OneWakeUp` |
| `FiberProofs!CountersAreRight` | `CountsRight` |
| `FiberProofs!NothingPanics`, if `OneWorker` | `NoPanic` |
| `FiberProofs!StopLeavesNothing`, if `OneWorker` | `StopDrains` |
| `SkipListProofs!AlwaysWellFormed` | `WellFormed` |
| `SkipListProofs!NeverLeaks` | `NothingLeaks` |
| `SkipListProofs!ReadersStayOnLiveNodes` | `ReadersOnLiveNodes` |
| `SkipListProofs!ListImplementsMap` | `ImplementsMap` |

The theorems about Raft are about `Spec`: processes may be killed, and are not started again. With
restarts `ElectionSafety` is false, as `MCRaftRestart` shows.

*Logs.* `LogInv` is the inductive invariant. None of the four properties is inductive alone:
that `nextIndex` stays in the leader's log rests on what an answer under way says, which
rests on what its request said, and requests outlive the state they were built from. The
fact that ties them together is that **the end of a log never moves back** (overwrites keep
the length, compaction keeps the end, a snapshot either keeps what follows it or ends beyond
the old end). So a request or an answer of a term can only speak of indexes that the
sender's log had when it led that term, and these stay within it. `LogInv` states this for
append requests, append answers, snapshot requests and snapshot answers, together with
types, contiguity and the order of the indexes. It is proved action by action, with lemmas
on `Merged`, on cutting a contiguous log, and on what each handler leaves alone.

*Elections.* `ElectionInv` says that a voter's vote of its current term is in `votes` and no
voter has two candidates in a term; that every granted answer under way stands for a vote
not yet counted; and that `votedNum` plus the votes still to be counted do not exceed the
votes cast for the candidate, while a winner has a majority of them behind it. That two
winners of a term share a voter is then the intersection of two majorities, proved from the
cardinality theorems; that late votes make no second majority is the count: what is left
after a majority is smaller than one. `ElectionInv` has been checked with TLC on three
servers and three terms before it was proved.

*Steps.* Three properties follow from `LogInv` by looking at each step once. Terms, votes,
positions and ends only advance: a handler that follows a sender has checked that its term is
not smaller, and only a larger one erases the vote. A step either leaves
the persisted members of every running process alone, or changes them at one process and
writes them there (`Kept`); the outdated snapshot is the only case where the code writes
on one condition and changes on another, and there the two conditions agree. Of the steps
that touch the log of a server, all but its own `Start` and `Snapshot` make it a follower
(`LogStep`), so a leader's log is changed by itself only.

*Entries.* That an index and a term name one command needs the invariants of logs and of
elections together. `EntriesOwned` says that every entry, in a log or in a request under
way, was made by the winner of its term, whose log still reaches as far as that entry. An
index that `Start` gives out is beyond the end of the leader's log, so its term has not had
it; that the winner is the same server is election safety, that its log reaches as far is
that ends never move back. The server need not have led all the time in between. Every other
step only moves and drops entries (`NoNewEntry`). It makes the assertion
of `AppendEntries1` on an equal term with another command one that never fails.

*Replication.* `MatchInv` says what everything under way stands for. A request of append
entries was made by the winner of its term, out of its log (`CallsTruthful`); a success
stands for entries that the answering server has accepted (`RepliesTruthful`); an answer
about a snapshot comes from a peer whose log reaches that far (`SnapshotsTruthful`); and so
what `matchIndex` says of a peer is true (`PeersTruthful`). Each holds as long as the
receiver stays in the term of the request: a term has one winner, only that winner's
requests write in its term, and a request that comes late finds its entries already there.
Here `EntryInv` is needed in full, for a success is given when index and term agree.
`CommitsOnMajority` needs `RoundInv` besides, which is about the counters: the requests of a
round to peers that get no snapshot end at one index (`OneEachPerRound`), and as many peers
as are counted are no longer awaited and have accepted that index (`CountsTruthful`), so the
majority counted is a set of servers that have the entry. Any number of rounds may overlap
and answer in any order.

*Commits.* The converse, that what a majority is known to have is committed, is true of two
and three servers, where the first success of a round is a majority's. `CommitInv` says
where an entry of the leader's term can still be uncommitted (`NothingDue` up to an index:
there is none): not up to what `matchIndex` says of a peer, nor before its `nextIndex`, nor
before the `prevLogIndex` of a request, nor where a refusal sends the leader back to. A
request brings such an entry only if its last entry is of the leader's term, because entries
of a leader's own term are the last of its log (`OwnAreLast`), and only until a first
success of its round has been counted, because that success finds the counter at one, the
last term right, and commits up to the end of the request. A success that comes later counts
from zero and finds nothing left to commit, because the requests of a round end at one index
(`OneEachPerRound`). A new leader has no entry of its term (`NoneOfItsTerm`), so there is
nothing due when it starts. TLC has checked `CommitInv` as an invariant of `MCRaftHandover`.

*The service.* For any number of servers (at least one), clerks, keys, requests and
attempts, from the assumptions of `KvServer`. `KvInv` adds to the types that a command under
execution was chosen, and to `WaitersHaveQueues` that every handler's index is within its
server's log and no other handler of the server has it. The index that `Start` returns is
beyond the log's end, hence new; and the queue a handler erases is then its own. The
uniqueness of the client ids is not needed for either.

With it, three things are proved of what clerks see. `ClientInv` follows requests wherever
they are, at a clerk, in a call, in a handler, in what `Start` put into a log: a client id
and a request id name one request (`KnownInv`); a clerk's requests are in the log in the
order in which it makes them, and none of them before it was made (`LogInv`); what the
duplicate table has, or an answer reports, of a clerk's last request is of a command the
server has executed or is executing, and a queue holds the command of its index
(`AnswerInv`). So an OK, whether it was given for the handler's own command or for one that
another index had already executed, is for a command that was chosen, and a read that was
answered has seen every write answered before it began. `SkipInv` adds for the skip list
that what the table has of a clerk is a request the server has executed (`TableInLog`); that
it covers every write executed unless a Get of that clerk, earlier than the write, is in the
log and may have set it back (`TableCoversWrites`); and that a command about to be executed
is new, or the repetition of one that such a Get precedes (`StillNew`). A write that comes
for the first time is never taken for a duplicate, because the table only ever holds
requests of the log and a clerk's requests enter the log in order. What stays possible, and
what the property says, is that a write is done again, with such a Get before it, and takes the
place of what was written in between. Clerks read, write and retry in any order and number.

*Snapshots.* For any number of servers, keys, commands, sendings and restarts. The two
properties about the loop are one argument: **what Raft has applied is done, covered by a
snapshot, or on its way** (`Accounted`), and what is on its way is in the order of the log,
first the channel, then the applier's batch, all of it beyond what is done (`ChanInOrder`,
`BatchInOrder`). So when a command is executed and an earlier one was not, that one cannot
be behind it in the queue, and only a snapshot is left. That a message is dropped for its
index (`Skipped`) is harmless because that index never exceeds `covered`
(`SnapshotsCovered`). What ties these together is the chain of `Indexes`: last index of the
service, covered, compacted, applied, committed, end of the log. It is why `Raft::Snapshot`,
called with an index the loop has executed, never moves `m_lastApplied`, and why a snapshot
that moves it finds the commands already in the channel still in order. `SnapshotInv`, all
of this with the types, is kept by each step; a lemma says that what a step does at one
server leaves the others' part alone. `StateInv` adds the contents: the skip list is what
the commands in `done` give, the table has the largest request among them, the archive that
the loop has just made is of the command it has just executed, which is the last in `done`,
and an archive in the file is of the index up to which Raft is compacted.

*Connections.* For any assignment of threads to channels. `RpcInv` says that every connection
open at its caller's end is the one its channel has, or was made by threads that raced
(`NoConnectionLost`), that the channel of a thread in `newConnect` has no descriptor or one
that was made in a race (`Connecting`), and that a provider which does not run has no end of
a connection. So what a thread overwrites with a new descriptor is nothing, or a connection
that is marked.

*Requests and answers.* For any number of calls, cuts, connections and ends of processes.
What parsing makes of a serialized message is proved first, for every message type of the
three services: what was serialized from a message parses to that message (`MessageBack`).
`Carries` says where on the wire each field's values are; that it holds of what `FlattenSeq`
joins is shown field by field, by a least counterexample, and `Read`, which looks a field up
by its places, then gives the values back (`ReadCarried`). No field of a packet but its
first has the number 0. So wherever the bytes were cut, a loop that finds a size at the
front finds the front of a packet, and what it takes from there is the call's arguments, or
none of them (`RequestFound`). `CallInv` says of each connection that its bytes, from any
size on, are a call's packet (`WiresOf`), and that the request of a call is **in one place
at a time**: with a caller that has not sent it, at one position of one connection, in one
loop, or once among those handled (`Once`). Calls are told apart by a number that every
request of the model carries.

`AnsInv` follows one call over its channel's connection, where no calls have crossed: its
thread is the only one in a call there (`Alone`), with nothing under way it sends, then its
request is there, then its handler runs, then its answer is there, and it takes all of it
(`Expects`, `Turn`); between calls nothing is under way (`Resting`). A request that was cut and
dropped leaves nothing, and its caller waits. A call that fails closes the connection, so that
what is still to come for it goes to a connection nobody reads; that is why a late answer is
never the next call's. Only a provider that has ended closes a connection whose client has
not, and what it leaves is an empty answer (`HasOwn`, `Gone`). A channel leaves `crossed` when
a thread that is the only one in a call there makes a new connection, on which nothing is
under way: the theorem says that a mix-up never outlives its connection. `OwnAnswer` is an
action property because what it promises is about the step that ends the call.

*Fibers.* For any number of workers, fibers and descriptors. `FiberInv` says of every fiber
which source will resume it: a fiber that has yielded, or is about to, has exactly one among
the tasks, the workers about to resume a task, the expired callbacks, the timers of sleeps
and the events it is registered for, and one that runs has none (`WokenOnce`). The sum
`Owners` is over sets of different kinds, and each step is shown to move one element from
one to the next: a timer to a callback, a callback to a task, an event to a task, a task to
a worker. What makes a timeout harmless is that it goes through the event: it takes the
registration out or finds none. The rest of `FiberInv` is what this needs of the program
(one fiber per direction) and of the counters. With one worker, `OneWorkerInv` adds that
nobody changes the events between `epoll_wait` and the loop over its report, that no timer
but the program's appears between the look at the next timer and the decision to end, and
that the worker that is done has left nothing behind; this is what the two-worker
configurations violate.

*The skip list.* For any keys, values, threads and levels and any finite memory. `On(i)` is
the set of the nodes on level i: those whose height reaches it, less the node that is being
inserted, on the levels it is not linked on yet, and the node that is being deleted, on the
levels it is unlinked from already (`Off`). `LevelsSorted` says of the forward pointers that
they sort `On(i)`: each node points to the least of those with a larger key. This holds
between any two pointer updates, and linking or unlinking is one element entering or
leaving one `On(i)` (`InsertSorted`, `RemoveSorted`). The rest of `Inv` is what each thread
knows at its place in the code: the array `update` holds the predecessors of its key until
it is used, because only the holder of the lock writes; a search stands on a node whose key is
smaller than its own; a dump has written what it has passed; whoever holds the server's lock
alone changes the list, and `insert_set_element` finds the key gone when it inserts. What
is computed along pointers, the walk of a level, the descent over levels, the chain and the
lowered height, is a recursive function of the model. That it exists and what it gives is
shown by a least counterexample: take the greatest key at which the walk goes wrong, and the
next node has a greater one. `Inv` gives the three properties.

The refinement maps the list to what is on level 0, except that a key whose old node is
unlinked and whose new one is not yet linked has its old value. A `set`, and each entry of a
`load`, takes effect when its node is linked on level 0, a `delete` when its node is unlinked
there. A search and a `dump` answer at their last step with what level 0 has. Every other step
changes neither the map nor an answer (`NextMaps`).

*Only model-checked.* Every invariant and every action property that a run passes is a theorem;
`ReplicatedIsCommitted` for two and three servers only, since it is false of more. `KvTypeOK`
is the other way round: it is proved and no run lists it.
The Raft properties that speak of what a later leader has are bounded by the departures
above: they hold under the courses the runs explore and not under the one of `MCRaftStaleTail`.
Liveness under fairness (`RepairedEverywhere`, `CommandsReachService`, `DeadlinesKept`,
`StopReturns`, `TasksRun`, `CallsReturn`) and `ENABLED` are outside what the prover can do and
stay with TLC.

## 5. Plan and limits

What is left to do, in this order:

1. Raft as an abstract replicated log that `KvServer` instantiates, and the refinement for
   the executions without restarts and stale tails.

### Not modelled, and why

- *Configuration* (`mprpcconfig.cpp`) and the address file that `RpcProvider::Run` appends to:
  text read once. `Load` inserts, so the first entry of a key wins and an old
  address stays (`mprpcconfig.cpp` 43).
- *Display, logging, accessors*: `display_list`, `DPrintf`, thread and fiber names; in the
  generated message classes accessors, arenas, swapping and reflection. `Wire` has what those
  classes do to the values that travel.
- *Data races* on `m_status`, the reset times and, in a debug line of `sendRequestVote`, on
  `m_logs` (`raft.cpp` 309, 345, 787). The first two only decide when a ticker acts, which the
  model leaves open; the last is undefined behaviour of a value that is printed.
- *The descriptor tables under several threads*: `IOManager::addEvent`'s resize
  (`iomanager.cpp` 83) and `FdManager::get` (`fd_manager.cpp` 101) look under the read lock
  and act under the write lock without looking again. In the model a descriptor is in the
  table and only `socket` makes a context, so neither can happen.
- *The hook with several workers*: a timer that fires before `addEvent` has registered
  (`hook.cpp` 115), a batch of `epoll_wait` that is outdated when it is handled
  (`iomanager.cpp` 333) need a second worker, with which a program that waits already panics
  (`MCFiberYield`); they can happen in the model and no property singles them out. A
  descriptor that is closed and given out again during the wait (`hook.cpp` 155) is excluded
  by a guard of `Socket`.
- *`ioctl(FIONBIO)`* (`hook.cpp` 499) passes 0 on to the kernel, after which a hooked read
  blocks its worker; the model has the flag of `fcntl` only.
- *The clock*: `TimerManager::detectClockRolllover` computes in unsigned milliseconds and is
  wrong in the first hour after the boot (`timer.cpp` 293). Time is relative in the model
  and is not set back.
- *Sizes*: an answer longer than the 1024 bytes of `mprpcchannel.cpp` 141 is cut, and its rest
  is read as the next call's answer, until the connection is replaced. In the run all answers
  fit; with `RecvBuffer = 3`, which passes as well, they do not. The theorems hold for any
  buffer and leave the channels concerned out. What a cut request does is in `MCRpcCut`.
- *Callers*: the example reuses one controller without `Reset`
  (`callFriendService.cpp` 27); it belongs to the caller.
- *`get_random_level`* (`skipList.h` 707) keeps a seed that its loop shifts to 0 in the end;
  the height is open in the model, and a list of height 1 is slow and not wrong.
- *Vendored code, the benchmarks, the examples and the launcher*, which never starts a
  process again by itself.
