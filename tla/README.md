# Verification of monster-db

monster-db is a Redis-compatible server in Go: one event loop over epoll, an
in-memory key space with expiry and eviction, lists with blocking pops,
transactions with optimistic locking, publish/subscribe, sorted sets, integer
sets, Bloom filters, a geospatial index, an append-only file, a snapshot and a
primitive replication. This directory holds its TLA+ specifications, the TLC
configurations that check them on small instances and proofs for TLAPS.

## 1. The system

| component | source (`src/internal/...`) | state | operations | modelled in |
|---|---|---|---|---|
| key space | `store/store.go`, `expire.go`, `key_cmd.go`, `eviction.go`, `evictionpool.go`, `server/cron.go` | `store`, `expires`, `ePool`, `KeyspaceStat` | SET GET INCR EXPIRE TTL DEL, creation of collections, lazy deletion, eviction, the expiry cron | `KeyspaceOps`, `Keyspace`, `ExpiringMap` |
| transactions | `store/tx_cmd.go`, `server/redis_cmd.go`, `client.go`, `server.go` | client flags, `multistate`, `watchedKeys` | MULTI EXEC DISCARD WATCH, queueing, `TouchWatchedKeys` | `Transactions`, `Sessions` |
| blocking lists | `store/blocking_cmd.go`, `list_cmd.go`, `server/client.go` | `waitingKeys`, `readyKeys`, `Client.when` | BLPOP, `MarkReady`, `processKeys`, `HandleBlockedClients` | `BlockingLists`, `Sessions` |
| event loop | `server/eventloop.go`, `file_events.go`, `accept.go`, `io.go`, `client.go` | `Events`, `clientsPendingWrite`, `ReplyBuf`, `con_clients` | accept, read, write, close, `beforeSleep` | `EventLoop` |
| publish/subscribe | `store/pubsub_cmd.go`, `server/client.go` | `subscribers`, `subscriptions` | SUBSCRIBE UNSUBSCRIBE PUBLISH | `Sessions`, `EventLoop` |
| command dispatch | `server/redis_cmd.go`, `store/store.go` | client flags, `multistate` | `respond`, `Lookup` | `Sessions`, `Transactions`, `Replication` |
| sorted sets | `store/zset.go`, `ds/skiplist.go` | `dict`, skiplist | ZADD ZREM ZSCORE ZRANGE | `SortedSet`, `Values` |
| lists | `ds/quicklist.go`, `ds/listpack.go` | chunks of a list | LPUSH RPUSH LPOP LLEN LRANGE | `Quicklist`, `Deque`, `Values`; the length alone in `BlockingLists` |
| integer sets | `ds/intset.go`, `store/set_cmd.go` | sorted array of 16-bit words | SADD SREM SMEMBERS SISMEMBER SCARD | `Intset`, `Values` |
| append-only file | `store/aof.go`, `aof_cmd.go` | the file and its `.tmp` | BGREWRITEAOF, replay | `AofRewrite` |
| snapshot | `store/rdb.go` | `dump.rdb` | `TriggerRDB` | not modelled: nothing loads it |
| replication | `server/master.go` | `replicas`, `pendindCommands`, `MasterFD` | REPLICAOF, REPLICA, `replicate` | `Replication` |
| shutdown | `server/server.go` | `eStatus` | `WaitForSignal`, `Main` | `Shutdown` |
| access clock | `store/lfu.go` | `Obj.LastAccessedAt` | `touch` | not modelled: the pool's order is left open |
| protocol | `resp/resp.go`, `server/redis_parser.go` | `QueryBuf` | `Decode`, `readCommands` | `Resp`, `Sessions` |
| Bloom filter | `ds/bloom.go`, `store/bloom_cmd.go` | words of bits | BF.RESERVE BF.ADD BF.EXISTS | `Bloom`, `Values` |
| geospatial index | `ds/geohash.go`, `ds/binary_trie.go`, `store/geospatial_cmd.go` | a trie and a map | GEOADD GEOSEARCH; GEODIST GEOPOS GEOHASH only reply | `GeoIndex`, `Values` |
| INFO, CLIENT, ... , start-up, logging | `store/stats.go`, `cmd/` | | | not modelled: replies and I/O |

**How the parts interact.** One goroutine runs `EventLoop.Main`. A round is:
`beforeSleep` (replication, `processKeys`, writing the clients of
`clientsPendingWrite`), `EpollWait`, the file events (commands, in the order in
which descriptors fired), then the time events (`serverCronHandler` every
second, `HandleBlockedClients` every 100 ms). `internal/store` knows the server
through two callbacks, `SignalModifiedKey` (= `TouchWatchedKeys`: flags the
watchers of a key) and `MarkReady` (notes a key for which clients wait), and
through the interface `ClientCommander`. A value knows nothing of the key
that holds it; the commands of `internal/store` create it, look at its type and
replace it. Servers meet over replication: REPLICAOF makes one a client of
another, and `beforeSleep` writes to `replicas` directly. A second goroutine, `WaitForSignal`,
meets the loop only in `eStatus`; forked children write the files.

**What is hard.** Little parallelism — commands are atomic — but order: what
commands of several clients, the cron, timers and the clock do to one entry
between two commands of one client; state that is cleaned up on one path and
not on another (deadlines, `keyset`, `CLIENT_CAS`, queues of waiters,
`clientsPendingWrite`, `replicas`); requests that arrive in pieces and in
batches, for clients whose mode changes within a batch; descriptors the kernel reuses while tables still refer
to their former owner; partial writes. `PROJECT.json` lists these hazards at
their lines, with the properties that cover them.

**What correctness means.**

- *Key space*: to clients it is a map whose entries vanish exactly at their
  deadlines; deadlines never outlive entries; what an acknowledged write stored
  is what is read; the store stays near its limit; everything that changes a
  value tells the watchers; lapsed entries go.
- *Transactions*: a signal between WATCH and EXEC is never lost, EXEC of an
  unflagged client works on what the client saw, and a transaction leaves
  nothing behind.
- *Blocking lists*: a blocked client is always in a queue from which it can be
  freed; no wake-up is lost; a timeout is answered, once.
- *Event loop*: the loop listens to exactly the open connections, a reply goes
  to the connection it is for, and it is sent.
- *Dispatch, protocol, publish/subscribe*: every request is answered, once and
  in order; a client is in one mode at a time; a subscriber gets the messages
  between its SUBSCRIBE and its UNSUBSCRIBE.
- *Replication*: the stream of commands reaches the replicas, whole and once,
  and nobody else; one connection's failure does not harm another.
- *Values*: a list is a sequence, a sorted set lists what was added in the order
  of the scores, a set has what was added and not removed, a filter and an index
  find what was added; and a key that is new, was deleted or overwritten starts
  from nothing.
- *Append-only file*: the file is a snapshot of one state of the store, never a
  part or a mixture of some.
- *Shutdown*: a signal ends the process, between two rounds.

Several of these hold with exceptions only. The properties state the exceptions
exactly, so that they describe the program: see the table of section 3.

## 2. Modules

**KeyspaceOps** has the functions of `internal/store` as operators from key
space to key space: `Get`, `Del`, `Puts`, `Evictions`, `Reaps`, `SetExpiry`. A
key space is one record of the Go maps `store` and `expires`, the counter
`stat`, the eviction pool (`pool`, `keyset`) and the keys signalled by the
current command (`sig`). What depends on the iteration order of a Go map is a
set of results. The order of the eviction pool is left open: any candidate may
be first. (In the code the order is by `LastAccessedAt` as `touch` stored it, a
minute shifted by eight bits whose low byte `touch` overwrites; leaving it open
covers it.) Deadlines are unsigned and wrap around at `Wide` (2^64): `setExpiry`
adds the duration, an `int64` of any value, as a `uint64` (`Deadline`).
`Restorations` is what `Restoreaof` can leave at the start: main replays the file
before it sets the limit and the callbacks, so the Puts of the replay make
candidates and evict nothing. `Push`'s test for a full pool is never true, because it comes after
an `append` that raises the capacity, so the pool has no bound in the model.

**Keyspace** adds the clock and the commands, one action each, with the
handlers' order of calls. GET and TTL read the clock more than once; they are
the only actions in which time passes within a command. INCR has the range of
its integers as constants, with the dropped error of `ParseInt` (`Parsed`) and
the wrap-around of `i++` (`Successor`). `CollCmd` stands for the commands that
look for a collection and create it if it is absent; SET and BF.RESERVE put
without looking (`Overwrite`). `reply` holds the last command and its answer, for the
action properties. `VIEW StateOnly` leaves it out of the fingerprint in runs
whose properties only read the reply of the step itself.

**ExpiringMap** is the abstract specification: the map clients see (`map`,
`due`), without lapsed entries, statistics, pool or cron. `Keyspace` implements
it under the mapping `map` = the visible entries, `due` = their deadlines,
`stale` = the keys with a lapsed entry still in the store, `got` = what a GET
answered. `stale` cannot be hidden: a SET without EX, or a BF.RESERVE, on such a
key is lost. Neither can the width of deadlines: an EXPIRE of a duration that goes
back beyond 1970 gives one far ahead (`Wide`).

**Transactions** composes the same operators with the clients' flags. `watched`
is `watchedKeys` turned around. Each queued command of an EXEC is a step of its
own, and while `exec` is not idle no other client runs. PUSH stands for the
commands that change an existing value in place, which do not signal. History
variables (`seen`, `told`, `moved`, `leftover`) are read by no action.

**BlockingLists** models a list as its length, the queues of waiters, the ready
keys and the phases of the loop: commands ("files"), `HandleBlockedClients`
("timers", one waiter per step, keys in any order), `processKeys` ("serve", in
any order). A type assertion that panics ends the run (`crashed`), so the
configurations of this module do not check for deadlock. A command that runs
into a bound inside EXEC is skipped (`CanRun`). History: `twice`, `skipped`,
`drained`.

**EventLoop** models connections above the kernel's descriptors: `owner` is who
is connected to a descriptor, `Free`/lowest first is what `accept` returns. A
reply is a unit of a buffer; `HardLimit` stands for `PubSubHardLimit` and bounds
the buffers. A read event is one command, a subscription, a PUBLISH, an end of
file or garbage; the write half of the same event may follow (`AfterRead`).
History: `haunted` (descriptors closed while `clientsPendingWrite` or
`subscribers` still referred to their client), `stray` (descriptors on which a
reply went to another peer than its client's).

**Sessions** is what a connection says and is answered. The socket and
`QueryBuf` are sequences of tokens of **Resp** (a header `*n`, a string, bytes of
no type), a read takes any number of them, `readCommands` decodes what there is
with `readLength`'s arithmetic on bytes, and `respond` folds its tests over the
batch. Request *n* of a client is the *n*-th thing it sent, and every reply names
the request it belongs to, so that "answered once and in order" can be said.
BLPOP finds an element or not, and one that waits is woken, by free choice;
`BlockingLists` says when. History: `sent`, `owed` (the messages a client should
get, by the replies it had when they were published).

**Replication** has several servers, each a record of its descriptors, the loop's
table and the epoll set, `MasterFD`, `pendindCommands` and `replicas`, and the
connections between them with what is on the way. `addReplica` blocks its server
between `ReplicaOf` and `JoinAccepted` or `JoinRejected`; `replicate` writes one
command to one replica per step. Connections break at any moment, and a failed
write closes the descriptor behind the loop's back. Commands of users are
numbered. History: `due`, `stray`, `orphaned`, `failed`.

**Values** composes the data structures: one key, its type (`kind`) and the
structure the type selects, under the commands that create, change and replace
it. A command that asserts the Go type of a value of another type ends the run
(`panicked`). Each structure is a module of its own, without a `Next`:

- **SortedSet** keeps the forward pointers of a skiplist as one sequence of nodes
  per level, so that following a pointer is taking the next element; `Updates` is
  the walk that both `Insert` and `Delete` begin with. The height of a new node is
  any. `Delete` looks for a node by score and member although `Insert` orders by
  score alone; what a failed deletion leaves behind stays in the model's lists as
  in the code's. History: `score`, `tied`.
- **Quicklist** has the nodes with `prev` and `next`, the headers of their
  listpacks and the thresholds of `AddToTail` and `AddToHead`; the bytes of an
  entry count by their number only. Under Values it implements **Deque**, one
  sequence with the replies of the list commands.
- **Intset** has the bytes of the sorted array, two to a member, and the binary
  search that every command relies on. History: `told`.
- **Bloom** has the words of bits; the hashes of an item and the sizes that
  `NewBloomFilter` computes in floating point are constants, negative and zero
  ones included. History: `put`.
- **GeoIndex** has `geoHash` on integer coordinates, exact for its twenty
  halvings, and the trie, which branches on words and so has two leaves.

**AofRewrite** has the children of BGREWRITEAOF, each with a copy of the store,
the two names and the files behind them. Opening truncates whatever file has the
temporary name, each `Write` is a step, a rename publishes whatever file has the
name then, and a restart replays the file. No error stops a child: an opening may
fail (`OpenFails`: the child writes to no file and still renames), a write may
fail with nothing or a `Part` of its command written, and so may the rename. A
cell of a file is one command; two commands written at one place may leave either
the second or torn bytes. `Restored` is what a replay can make of a file: of one
without broken cells its commands, of another nothing, or the commands up to the
first broken cell and some of those behind it. `Dated` is `setExpiry` of the
milliseconds in the file, taken for seconds, with the wrap-around. History:
`image` (the store a file is a dump of), `shared` (files a second child
disturbed), `failed` (files a write to which failed). `Unlisted` has what
`dumpkey` writes no RPUSH for. Left out: a crash of the machine before what was
written is on the disk, pieces of a cut command that are read as other commands
or elements, and the panic of a replay that deletes a lapsed key while
`SignalModifiedKey` is nil, which takes a file of two rewriters. The clock is the
same at each start.

**Shutdown** has the event loop and `WaitForSignal` with a step for each access
to `eStatus`. `Hang` and `Answered` are a REPLICAOF that reads the answer of its
master inside a round; nothing says that it comes. History: `raced`.

**Proofs**: `KeyspaceOpsProofs` (lemmas about the operators), `KeyspaceProofs`,
`TransactionsProofs`, `BlockingListsProofs`, `EventLoopProofs`,
`ReplicationProofs`, `AofRewriteProofs` and `ValuesProofs` (the theorems of
section 4). `EventLoopProofs` also extends Shutdown and has its theorems. The `MC*` modules only give constants their values.

Definitions commented "Fault:" are deliberately wrong variants of the
definition that follows them. No specification uses them: they serve to see
that each property fails when the code has that bug (`mutants` in
`PROJECT.json`).

## 3. What the runs check

| run | property | what it says of the code |
|---|---|---|
| keyspace | `TypeOK` | the state has its type; INCR, which drops the error of `ParseInt`, stays in the range of its integers |
| | `DeadlineHasEntry` | every path that deletes an entry deletes its deadline |
| | `AckedWriteIsRead` | what an acknowledged write stored is what a reader finds — except after SET without EX and BF.RESERVE over a lapsed, unreaped entry, which inherit the old deadline (`store.go:96`) |
| | `ChangeIsSignalled` | entries change with a signal — except INCR in place |
| | `EvictedOnce` | a popped candidate is never evicted again (`keyset` keeps it) |
| | `ImplementsExpiringMap` | the refinement described above: visible entries go by DEL, at their deadline, or by eviction at the limit |
| keyspace_reaped | `LapsedIsReaped` | a lapsed entry is removed in the end, unless more have lapsed than a pass of the cron takes; and all are, however many passes it takes, once no more entries lapse |
| | `ImplementsExpiringMap` | the same refinement, with EXPIRE, its wrap-around, and entries and deadlines that were restored |
| transactions | `FlagIsExact` | a signalled watcher is refused, and one that is refused was signalled — or keeps a flag of a transaction that ended (`tx_cmd.go:70`) |
| | `UnflaggedIsCurrent` | an unflagged client reads what it saw — except in-place changes and a deadline nobody noticed yet |
| | `NothingCarriedOver` | no command or abort survives a transaction |
| blocking_lists | `WakeUpIsPending` | elements and waiters coexist only while the key is ready — or after `processKeys` served one waiter of several |
| | `ReadyHasElement` | a ready key has an element — unless a command took it first |
| | `BlockedIsQueued` | a blocked client can be freed |
| | `WaiterIsBlocked` | who waits is blocked — unless EXEC queued it more than once |
| blocking_answered | `TimeoutIsAnswered` | a waiter whose time is over is freed: the timers are not starved |
| event_loop | `ReplyIsForPeer` | replies reach their client — unless the descriptor was closed with references left |
| | `EventIsForOwner` | file events and open connections agree (same exception) |
| | `ReplyIsScheduled` | a buffered reply is in `clientsPendingWrite` or waits for EPOLLOUT |
| event_loop_sent | `ReplyIsSent` | a reply is sent or its connection closed |
| replication | `DescriptorIsUsable` | the loop and the kernel poll the open descriptors and no other — unless a write to a replica failed there, after which the loop refuses whoever gets the descriptor |
| | `StreamIsForReplica` | the stream goes to replicas, in order — unless a replica's connection was closed by the end of file, after which whoever has its descriptor gets it |
| | `StreamIsWhole` | a flush writes all commands to every replica, also when another one fails on the way |
| | `ExecutedOnce` | no command comes round a circle of servers to who executed it — unless REPLICAOF was given more than once |
| | `JoinIsPending` | a server that blocks in REPLICAOF has its answer, or its request, on the way |
| sessions | `ModesExclude` | a client in MULTI is neither blocked nor a subscriber; a subscriber is served only the commands for subscribers — but within an EXEC |
| | `AnswersInOrder` | one reply to a request, in the order of the requests — but for EXEC, and for BLPOPs that wait: such an answer may come after those of later requests, which were executed once as many waits were over as requests had waited (each wait that ends unblocks its client, also from another one) |
| | `UnansweredIsExplained` | no request is lost in the buffers, and one that was read is answered — unless it came behind a BLPOP that waits (`redis_cmd.go:56`), is a SUBSCRIBE or UNSUBSCRIBE that changes nothing, or follows a `*-1`, which the parser takes for 2531 |
| | `ViewAgrees` | the client's set, the channels' lists and the flag say what the client was told |
| | `MessagesAreDue` | a subscriber gets each message it is due, once and in order |
| aof_rewrite | `AofIsSnapshot` | the file replays to the lists of one state of the store, and one with a string is never dumped (`aof.go:72`); openings and renamings that fail leave the file that was there — unless two rewriters met in one file or a write to it failed |
| shutdown | `RoundIsWhole`, `NoRoundAfter` | the process ends between rounds — unless a round began between the two accesses of `WaitForSignal` |
| | `SignalEnds` | a signal ends the process, also after the loop has failed — unless one REPLICAOF waits for ever (`master.go:50`) |
| values | `ListImplementsDeque` | the refinement described above |
| | `ListWellFormed` | the structure later commands rely on: links both ways, true headers, no empty chunk, no chunk over its limit by more than one entry |
| | `SkiplistWellFormed` | ZRANGE is in the order of the scores, each level is part of the one below, and walks start at the top one, also after deletions that failed |
| | `RangeIsExact` | ZSCORE and ZRANGE have what ZADD said, and no member is listed twice or after ZREM — unless it ever tied with another (`skiplist.go:66` against `:99`) |
| | `SetIsExact` | the set is what was added and not removed, to SMEMBERS, SCARD and SISMEMBER |
| | `AddedIsFound` | BF.EXISTS and GEOSEARCH find what was added |

A module's type invariant, where the table does not name it, is a conjunct of one
of these properties.

**Bounds.** Keyspace: three keys at a limit of three, so that the store
evicts, and two where a behaviour is followed to its end; a clock of two or three units with deadlines
one unit ahead or already past, integers in 0..1 with a literal one beyond, and
a statistics counter bounded in the guards (`MaxStat`): a key can lapse, be
overwritten, deleted, evicted and come back. A limit below three evicts nothing
(`evictCount` is 0). Deadlines wrap around at 16, and EXPIRE of -5 at the time 1 does
so. A
pass of the cron takes one key, fewer than may have lapsed. That the store can exceed its
limit takes a fourth key and samples smaller than the store; there the proof says when
(`GrowthIsBounded`). Transactions: two
clients, one key, transactions of one command, which is enough for the
transaction's own command to set the flag of its client or of the other; what
several commands of a batch do to each other is left to BlockingLists, whose EXEC
has two. BlockingLists: two
clients and two lists, so that a client can wait twice in one queue or in both
(one list for the liveness); lists of at most two elements, queues of at most
two, so that a service leaves an element and a waiter behind; three clock
units, so that a wait of one times out (one that lasts beyond them is a wait without
a timeout). EventLoop: three connections over two
descriptors, so that a descriptor is reused while another client is connected;
buffers of at most three replies, so that a partial write leaves one and the
limit is reached. Sessions: five conversations, of up to seven requests (the
scripts of `MCSessions`): transactions with BLPOP; SUBSCRIBE with either; what
follows the two waits of one transaction, up to a BLPOP that the end of one of them
unblocks and a request behind it; a subscriber of two channels and another that
publishes; and what is no request.
They are cut so because only publish/subscribe relates two clients; every way to
cut the bytes into reads and batches is taken. Replication: two servers with
three descriptors and three connections, the least with which a replica leaves
and another client gets its descriptor, a server has two replicas, or two servers
follow one another; two commands, so that a flush writes more than one. (Two
servers suffice for a circle; with a longer one a command passes through more
servers of the same kind.) AofRewrite: two
children, the least with which one truncates or renames a file another is still
writing or has left behind (the proof covers any number), two keys, two changes of
the store; deadlines wrap around at 16, so that the one a client sets, 2, is
replayed as 9, and that as 5. Shutdown: rounds of up to three events. Values:
two members (a deletion compares one member with another), two scores, three
levels, four nodes listed, two nodes per member; five elements of 4 or 20 bytes
and a limit of 31 bytes, at which `>` and `>=` differ, so that chunks hold one to
four elements; integers around zero, around the carry of the low byte and at both
ends of 16 bits; filters of one, three and no words; places in the corner cell of
`geoHash`, on its edges, just outside and at zero. The
actions have no threshold beyond these sizes.

**Fairness.** `Keyspace!FairSpec`: the cron runs every second (weak fairness on the
cron as a whole; which lapsed keys a pass takes, when there are more than its limit,
is left to the order of the map). `BlockingLists`: the
loop goes round for ever and the 100 ms timer fires in rounds after it is due
(strong fairness on starting it, since it is enabled once a round); clients are
free never to send anything. `EventLoop`: the loop goes round, and a connected
peer does not keep its receive window closed for ever, so that a write which is
tried again and again is not answered EAGAIN every time. That last one is an
assumption about peers, not about the code. `Shutdown`: `WaitForSignal` spins,
and need only see the loop idle if it is idle again and again (strong fairness);
between two rounds the loop sleeps in `EpollWait`. A round goes on as long as its
handlers return; that a REPLICAOF which waits is ever answered is not assumed.

## 4. What is proved

Every theorem is about the specification TLC checks, for all values of the
constants that satisfy the module's named assumptions: any finite sets of keys,
clients, connections or servers, any objects, limits and lengths. What the
assumptions ask for is in the modules that declare the constants, and TLC
evaluates it on every run. (`RepliesAssumption` of `Keyspace` says that the nil
reply is not a value, which is how a GET that found something differs from one
that did not.)

| module | theorem | property | run |
|---|---|---|---|
| `KeyspaceProofs` | `TypeCorrect`, `DeadlinesBelong` | `TypeOK`, `DeadlineHasEntry` | keyspace |
| | `StatNeverUnder` | `StatCoversStore` | none |
| | `GrowthIsBounded` | the action property `OverflowIsSpent`: the store grows at its limit only when eviction has run dry | none |
| | `ChangesAreSignalled`, `EvictedOnlyOnce`, `AckedWritesAreRead` | the action properties `ChangeIsSignalled`, `EvictedOnce`, `AckedWriteIsRead` | keyspace |
| | `KeyspaceImplements` | `ImplementsExpiringMap` | keyspace, keyspace_reaped |
| `TransactionsProofs` | `TransactionsStartClean`, `FlagsAreExact`, `OptimisticLocking` | `NothingCarriedOver`, `FlagIsExact`, `UnflaggedIsCurrent` | transactions |
| `BlockingListsProofs` | `NoLostWakeUp`, `ReadyForAReason`, `BlockedCanBeFreed`, `WaitersAreBlocked` | `WakeUpIsPending`, `ReadyHasElement`, `BlockedIsQueued`, `WaiterIsBlocked` | blocking_lists |
| `EventLoopProofs` | `RepliesReachTheirPeer`, `EventsAreTheOwners`, `RepliesAreScheduled` | `ReplyIsForPeer`, `EventIsForOwner`, `ReplyIsScheduled` | event_loop |
| | `ShutdownTypes`, `StatusTells`, `ExitIsClean`, `StoreIsFinal` | `ShutdownTypeOK`, `BusyIsWorking`, `RoundIsWhole`, `NoRoundAfter` | shutdown |
| `ReplicationProofs` | `DescriptorsAreUsable`, `StreamsReachReplicas`, `StreamsAreWhole`, `JoinsArePending` | `DescriptorIsUsable`, `StreamIsForReplica`, `StreamIsWhole`, `JoinIsPending` | replication |
| | `CommandsRunOnce` | `ExecutedOnce` | replication |
| `AofRewriteProofs` | `FileIsSnapshot` | `AofIsSnapshot` | aof_rewrite |
| `ValuesProofs` | `SetsAreExact`, `AddedAreFound` | `SetIsExact`, `AddedIsFound` | values |
| `ValuesProofs` | `SkiplistsAreWellFormed`, `RangesAreExact` | `SkiplistWellFormed`, `RangeIsExact` | values |

The argument is the same everywhere: an invariant `IInv` that the initial states
satisfy and every action preserves, one lemma per action, and each property as a
consequence of it. What has to be added to the properties to make them inductive
says why the code is right.

**Key space.** The invariant is `DbInv`: type, deadlines belong to entries, the count
covers the store, the pool is within `keyset`. `KeyspaceOpsProofs` shows operator by
operator that `Del`, `Get`, `SetExpiry`, `Evictions`, `Puts` and `Reaps` preserve it,
and that they signal what they change (`Told`); `StepOK` then only chains them per
action. INFO's `keys=` is never below the number of keys (it may be above, because
overwrites count). `GrowthIsBounded` needs no bound on the sample or the number of
keys, and holds from whatever a replay leaves: a write that makes the store grow at its
limit has evicted nothing, so either what it took from the pool was gone already, and
is spent by that, or the pool was empty after a sample had joined it, and so the whole
sample was spent before.

**The map clients see.** `Shows` relates a key space to a map, its deadlines and its
stale keys. Each operator is matched with what it does to those: a lazy deletion,
a reap or a deletion drops keys (`Dropped`), an eviction at most `MaxDrop` of them
and none below the limit, a `Put` changes one entry after that. `SettleOK` turns a
match into the step of `ExpiringMap`, taking away what lapsed while time passed,
and the lemma of each action applies it to what its handler calls, in the
handler's order.

**Transactions.** `Quiet` is what the key space contributes: where a command signals
nothing and changes nothing in place, a reader sees what it saw unless the entry
has lapsed. A client without a flag was told of no change of the keys it watches,
so step by step it reads what it read. Besides, nothing is queued or aborted
outside a transaction (`NothingQueued`).

**Blocking lists.** `Once`: a client that was never queued while it stood in a queue
has one place in one queue; that is why the timer and `processKeys`, which take it
from there, may unmark it. `WakeUpIsPending` and `ReadyHasElement` are inductive
together with it over the phases of the loop.

**Event loop.** The invariant says which references to a descriptor can be trusted:
`pending`, `subs` and the event table agree with the owner of each descriptor that
is not haunted. A step closes a descriptor, works at an open one for its client,
accepts or publishes; three lemmas cover those, and the actions are instances.

**Replication.** The invariant has five parts, none inductive without the others.
`Polling`: the kernel and the loop know of a descriptor what is open, but where a
write failed. `Ends`: each end of a connection is at one descriptor of one server,
the one the connection leads to. `Requests`: a REPLICA is the first thing on its
connection, and a server that has not answered it has not listed it. `Listing`: a
connection is listed once, at the descriptor that has its end unless that was
closed by an end of file. `Progress`: in a flush, what is still due to a replica is
the rest of the queue from where the walk is, also after the last replica was moved
into the place of one that failed. `Awaited` adds that the request of a server in
REPLICAOF is on its way. The proof also corrected the model: a write counts as due
only at the server's end of the replica's connection; a descriptor that the other
end of the same connection gets is a stray one.

*No command twice* (`ExecutedOnce`). Why a circle of servers does not pass a command
round for ever is that a command makes one hop: `Masters`, a server that listens to
a master has `MasterFD` set, and so executes what the master sends without queueing
it (`redis_cmd.go`). So a command stands in one queue, in one place (`Queues`), and
as long as it is there it is elsewhere only where the flush of that queue has just
written it (`Unsent`). What a flush is about to write is therefore new to a replica
that joined once (`OnceEach`), except to the server itself: a server that followed
itself would get its own stream, but it waits for its own answer in REPLICAOF and its
connection is never accepted (`Alone`). The invariant holds while nothing went astray
(`stray = {}`), which is what `ExecutedOnce` asks for: a command written to a wrong
descriptor may well be executed again. The lemma of each action is about what the
action adds: nothing, for most (`OnceStays`), a new command, a hop, the end of one.

**Append-only file.** The invariant follows a file from its opening: as long as one
child writes it and no write fails, what it holds replays to the keys that the child
has dumped (`IsWritten`), and when the last key is dumped that is the whole copy
(`IsSnapshot`). Files that are `shared` or have `failed` are `Spoilt` and left out of
it until a child opens them anew; a child that could not open a file holds none and
writes nowhere, and its rename, like one that fails, moves a name at most (`LetGoOK`).
It takes that a child which has not opened its file yet has none under its name
(`Fresh`). A replay is a fold, which is defined by recursion; `ReplayRuns` turns it
into the states it goes through, one for each prefix of the file, by an induction
over the numbers that is stated for a set of them (`NatInduct`), a form the provers
can use. The proof corrected the model: a child of a later process could stop at a
list that a replay had put together of several, which `DumpKey` did not cover when
it took its cases from the lists that clients make (`Unlisted`).

**Shutdown.** That a loop at work after the store has raced depends on what
`WaitForSignal` saw before it. `StatusInv` says how the loop and `eStatus` go
together, `DecidedInv` what holds from the last look at `eStatus` on.

**Sets.** The invariant `SetInv` says that the words of the array are in order and
say the members (`IsSet`). With an array in order, the numbers that are at most `v`
are the first ones (`Splits`), and `SearchIs` shows that the binary search ends at the
last of them: `Ends` is where it ends from any two bounds, and each step keeps it.
SADD puts the two bytes of a number right after that place and SREM takes those at it
out, which keeps the order (`InsertSorted`, `RemoveSorted`). `TwoBytes` is the
encoding: the low byte, and the high byte of the complement, read back as the number.

**Filters and indices.** `BloomInv`: a filter has the words of its size, so the bits of
an item are in words there are when BF.ADD does not panic (`BitsInside`), and no
command takes a bit away. `Filed`: who has an entry is filed in the leaf of its place.
A member that moves is filed anew and stays in the old leaf as well, which is why
GEOSEARCH may list it at places it has left, but does not miss it. Both need nothing of
`geoHash` and the hashes but that they are functions.

**Sorted sets.** `ZsetInv`: the levels are parts of each other, in one order and
without repetitions (`Nested`), the lowest is sorted (`Ordered`), no level is above the
height (`Flat`); a member that was added has its node listed with its score; and who
never shared a score has no other node listed. On any levels so nested the walk down
exists and stops before a node that is not ahead (`UpdatesIs`, by induction over the
levels). When what is ahead comes first in the list, as the smaller scores do for
Insert, the walk ends behind it on every level (`WalkSplits`), and the new node lands
at one place of all of them (`InsertIs`, `PutInKeeps`). For Delete, which orders equal
scores by member where Insert does not, what is ahead may be anywhere: its walk stops
early. But if the node it stops before on the lowest level is the one it looks for,
then it stops before that node on every level that lists it, because what was passed
on one level is not passed again below (`NextUp`, `NextOnAll`): the node is taken out
of all its levels or of none (`UnlinkedIs`). Among nodes of other scores it is found
(`DeleteFinds`), which gives `RangesAreExact`.

**Only model-checked.** Every liveness property (`LapsedIsReaped`,
`TimeoutIsAnswered`, `ReplyIsSent`, `SignalEnds`): fairness and ENABLED are outside
the prover's reach. The properties of `Sessions`: `readCommands` decodes a buffer by
recursion on it, and what all of a batch is answered is a fold over its requests; each
property relates the two over the whole history of a client. That of the
quicklist, with the refinement of `Deque`: what a list holds is what a walk along its
chunks gathers, by recursion on the links.

## 5. What is left out, and the plan

Abstracted everywhere: the text of replies, argument counting and syntax errors
(no state changes), logging. `components` in `PROJECT.json` says of each part
what its model leaves out. Not modelled:

- the snapshot (`rdb.go`: nothing loads it, and its child panics on the first
  key), code nothing calls (`bst.go`, `comm.go`, the eviction strategies `evict`
  does not use);
- `touch` and the order it gives the pool: any order is allowed instead;
- how many elements LRANGE announces: `Deque` says the number the code says
  (`quicklist.go:208`), so only the elements that follow are checked;
- arithmetic on floating-point numbers: distances, the sizes of filters, hashes;
- commands that only reply (INFO, CLIENT, LATENCY, COMMAND, GEODIST, GEOPOS),
  flags, logging, configuration.

That a REPLICAOF is answered in the end is not claimed: a server that follows
itself, or two that follow each other at once, wait for ever. `JoinIsPending`
says how far the code gets, and `SignalEnds` that only such a wait keeps a signal
from ending the process.

What could follow, in this order:

1. Proofs: `ModesExclude` and `ViewAgrees` of `Sessions`; `ListWellFormed` of
   `Values`.
2. A composition of `BlockingLists` and `EventLoop` over `KeyspaceOps`: expiry of
   a list under waiters, waiters that disconnect (`store.go:153`, `io.go:12`).
3. The bytes of a listpack: `encode`, `decode` and `RemoveElements` on them.
