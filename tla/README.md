# HighCache in TLA+

A verification project for HighCache, a single-node, multi-threaded in-memory
cache server in C++20. It models the server's components, checks them with TLC
on small instances and proves the core of two of them with TLAPS.

## The system and its parts

| Part | Source (under `src/`) | What it does |
| --- | --- | --- |
| `Cache` | `src/cache/cache.cpp` | map of entries, LRU list, byte accounting, expiry by generation |
| `TimingWheel` | `src/timer/timing_wheel.cpp` | 60-slot wheel of one-second ticks with round counters |
| `CacheEntry` | `src/cache/cache.cpp` | RAII owner of one value's block |
| `SlabAllocator`, `SystemAllocator` | `src/memory/` | blocks for values, with metrics |
| `CacheShard`, `CacheEngine` | `src/cache/` | one mutex per shard, routing by hash, capacity split, aggregates |
| `Buffer` | `src/net/buffer.cpp` | growing byte queue of a connection |
| protocol codec | `src/protocol/protocol_codec.cpp` | binary request and response frames |
| `Connection` | `src/net/connection.cpp` | non-blocking reading, executing, queueing and writing for one client |
| `CacheServer` | `src/net/cache_server.cpp` | acceptor thread (accept, timer, stop) and worker threads (epoll) |
| configuration, logger | `src/config`, `src/logging` | the file of `key = value` lines, the level filter |
| server process | `src/server/main.cpp` | configuration, signal mask, start, `sigwait`, stop, join, metrics, exit status |
| command-line client | `src/client/main.cpp` | one request, one response, an exit status |
| errors, benchmark | `src/common`, `benchmark` | around the server |

A client's bytes reach a worker through epoll; `Connection` appends them to its
input `Buffer`, decodes frames, calls the `CacheEngine`, which locks one
`CacheShard` and calls its `Cache`, and queues the encoded response in the output
`Buffer`. The acceptor thread hands accepted sockets to the workers in turn and
calls `CacheEngine::tick` once per expiration of a timerfd. The main thread loads
the configuration, blocks SIGINT and SIGTERM, constructs and starts the server,
waits for a signal, stops the acceptor, then the workers, and logs the final
metrics.

## Modules

| Module | Models | Abstracts |
| --- | --- | --- |
| `TimingWheel` | `schedule`, `tick` | a slot's list is a set (generations are distinct) |
| `CountdownTimers` | what the wheel promises: independent countdowns | |
| `Cache` (extends `TimingWheel`) | `set`, `get`, `erase`, `tick`, one loop iteration per step, with every point that can throw | keys and values are model values with sizes; list positions are looked up |
| `TtlLruStore` | what the cache promises: values, LRU order and a countdown per key, without wheel or generations | |
| `SlabAllocator` | both backends: free lists, carving, metrics | a block is its slab and offset |
| `CacheMemory` (extends `SlabAllocator`) | the `CacheEntry` objects that hold a value through moves, overwrite, eviction, expiry and unwinding | which entry is evicted is left open |
| `CacheEngine` | shards, routing, capacity split, `tick` shard by shard, aggregates, `handle_timer` | a call on one shard is one atomic step: it holds the mutex, and `Cache` shows what it does; the TTL is counted in ticks |
| `Buffer` | `append` with `prepare_append`, `retrieve` | reserved bytes that hold nothing have no value |
| `ByteQueue` | what the buffer promises | |
| `ProtocolCodec` | both encoders and decoders on bytes, decoding of a stream | a byte has `ByteBase` values |
| `Connection` | `handle_readable`, `handle_writable`, `note_peer_closed`, `handle_connection_event`, with peer, socket buffers and level-triggered epoll | a request is its kind (valid or not, length); a response byte is the number of its request |
| `CacheServer` | main, acceptor and worker threads, one step per access to shared state | an event keeps or closes a connection, which the module `Connection` decides |
| `Words`, `Config` | `trim`, the parsers of values, one iteration of `from_stream`; `Means`, the reference definition of what a file says | a line is a sequence of words, white space, `=` and `#` |
| `ServerProcess` (extends `Config`) | `main` of the server step by step, the signal mask and signals, the log, unwinding from every step that can throw | constructing, starting, stopping and joining the server are single steps, which `CacheServer` details |
| `Client` (extends `Words`) | `main` of the client: arguments, connecting, sending, receiving, time-outs, exit status | a request and a response are a few pieces |
| `Deployment` (extends `ServerProcess`, `Client`) | a server process and its clients: accepting, executing, `to_wire_status`, replying, closing | what `CacheServer`, `Connection` and `CacheEngine` are checked to do with one connection |
| `MC...` | constants for the runs | |
| `TimingWheelProofs`, `ListLemmas`, `CacheProofs` | theorems | |

Definitions keep the names of the functions they model where that is possible.
A definition whose comment begins with "Mutant of" is a deliberately wrong
version of the definition that follows; it is used by no specification and
serves to show that a property notices the mistake.

### How the state corresponds

* `Cache`: `entries`, `recency`, `memory_usage_bytes`, `generation_source` and
  `counters` are the members of the same names; `op` holds the locals of a
  `set` between its checks and its last assignment; `expired` is the vector
  that `TimingWheel::tick` returned and `Cache::tick` is working through; `reply`
  is the last answer. `Idle` stands for the shard's mutex.
* `CacheServer`: `main`, `acceptor` and `worker[w]` are program counters;
  `stop_requested`, `stop_event`, `stopping`, `wakeup`, `pending`,
  `connections`, `next_worker` are the members; `installing` and `batch` are
  locals of `install_pending` and `run`. `broken` is a history variable. The
  destructor after a failing `start` does what `join` does and is not
  distinguished from it.
* `Connection`: `input` counts the bytes of `input_`, `output` holds those of
  `output_`, the three flags are the members, `pc` and `events` are where
  `handle_connection_event` is, `interest` is what `modify_epoll` last set.
  `cause` is a history variable: why the connection was given up.
* `CacheMemory`: `frame` is the running `set`: its key and the `CacheEntry`
  objects it has constructed, oldest first, each with the value pointer it holds
  (null once it has been moved from). `leaving` says that the call is returning or
  unwinding: its objects are then destroyed, the youngest first, and a destructor
  releases whatever its object still points to.
* `CacheEngine`: `events` holds, for each shard, in how many ticks the events of its
  wheel are due, those of overwritten and erased entries included: only a tick
  that finds events in its slot needs memory and can throw. `begun` counts the
  calls of `tick`, a history variable. `remaining` and `next_shard` are the loop positions of
  `handle_timer` and `CacheEngine::tick`; `call` is the aggregate that is being
  read and `counts` the counter of each shard it reads, so that a behaviour
  carries one counter and not four; `born`, `ttl`, `owed`, `elapsed`, `failed`,
  `always`, `ever` and the reader's `before` are history.
* `ServerProcess`: `main` is the step `main` takes next, in the order of `Order`;
  `config` is the state of `from_stream` (the `Config`, the line number, the
  `has_` flags as a set, the error thrown); `unmasked` holds the threads, main's
  own and the server's taken together, that do not block the two signals;
  `threads` says whether the server's threads run, are stopping or have ended;
  `exit` is how the process ended.
* `Client`: `client` is where `main` is; `link` is the connection as the kernel
  and the server see it; `sent`, `replied` and `received` count pieces.
  `Deployment` adds `accepting` (the acceptor is in its loop) and the history
  variable `outcome` (what the engine did with the request).

## Runs

Every run finishes within three minutes on two cores.

| Run | Checks | Instance |
| --- | --- | --- |
| `wheel` | `ExactExpiry` (refinement of `CountdownTimers`) | 3 slots, TTLs of up to 3 turns and on both sides of a tick, several events per slot |
| `cache` | `CacheTypeOK`, `RecencyMatchesEntries`, `UsageIsCharged`, `VictimExists`, `CallConsistent`, `LossesAreCounted` | 3 valid keys and 2 refused ones, 4 values (empty, half, too large for the cache, too large at all), 3 generations, TTLs of 1 and 2 ticks on a wheel of one slot, so with and without rounds left, counters modulo 2 |
| `cache_store` | `ImplementsStore` (refinement of `TtlLruStore`), `CallsTerminate` | 3 keys, TTLs of 1 and 2 ticks on a 2-slot wheel: stale events of earlier generations overlap with new ones |
| `memory` | `OwnedOnce`, `BlocksPartitioned`, `ExtentsDisjoint`, `MetricsExact` | both backends, 3 keys, 2 classes, 3 slabs, sizes below, at and above each class |
| `engine` | `UsageWithinCapacity`, `AggregatesBracketed`, `ShardsInStep`, `NoOverstay`, `EarlyExpiryBounded` | 2 shards of unequal capacity, 3 keys, 2 intervals with any backlog, ticks that throw, entries without a TTL and with one of 2 ticks, a wheel of 60 slots, one key in the first shard and two that compete for the second, six of the seven aggregates (`hit_count` is the twin of `miss_count`) |
| `engine_ticks` | `EveryIntervalTicked`, which is violated | see Findings |
| `codec` | `DecodesTheStream`, `NothingHeldBack`, `RejectedAtHeader` | streams of two requests or two responses with field values at and around their limits, every cut |
| `buffer` | `MemoryBounded`, `ImplementsQueue` | strings of up to 3 of two bytes, 5 unread |
| `connection` | `InputAlwaysFits`, `OutputBounded`, `AnswersInOrder`, `NothingLost`, `HalfCloseEnds`, `EveryRequestAnswered` | 3 requests of 2, 3 and (refused) 5 bytes, chunks of 2, output limit 3 |
| `server` | `DescriptorsOwnedOnce`, `AcceptorStopsFirst`, `StoppedIsClean` | 2 workers, 2 descriptors, any number of connections |
| `server_live` | `ShutdownCompletes`, `HandoverCompletes` | 1 worker, 2 descriptors |
| `deployment` | `ParsesAsDeclared`, `EndsGracefully`, `FinalMetrics`, `ExitTruthful`, `SignalEndsProcess`, `ClientsEnd` | all files of two lines out of 27 right and wrong ones, and longer ones, with and without a read error; 12 command lines of the client; both signals at any time |

What `deployment` shows: a configuration file is read as its author meant it
or refused at its first wrong line; SIGINT or SIGTERM ends the process whenever it
comes, and can kill it only before a client can be connected; the metrics in the
log are those of an engine that no longer changes; whenever the process is gone
nothing of it is left; and a client always ends, with status 0 only if the
operation was done and 2 only if it was refused or failed (status 1 says nothing
about the operation: a time-out or a lost connection may hide that it was done).

### Bounds

The named bounds are `MaxGeneration` (also the code's own limit: `next_generation`
throws there, so the bound is reached as the code would reach it), `MaxSlabs`,
`MaxElapsed`, `MaxCount`, `MaxFrames`, `MaxReadable`, `MaxBacklog`. Each instance
is large enough for the case its properties are about: three generations let a
stale event meet a newer entry of its key while another key is evicted; a 3-byte
cache with 1- and 3-byte entries needs zero, one and two evictions; an output
limit between one and two responses is reached in the middle of a burst; two
descriptors are reused while one of them is still queued. In `codec` the numbers
are written with 5 values per byte, so that a 64-bit field is within TLC's
integers; field widths and offsets are the code's. A symmetry set is given
only to safety runs.

`deployment` has one client that is run again and again, which meets a server in
every state of its life; two clients at a time would share nothing but the cache.
Clients start once the server has tried to listen: before, `connect` fails, which
it may do later as well. A request and a response are two pieces each, so that
both can be cut.

`epoll_wait` of a worker is taken to report the eventfd whenever it is readable.
With more ready descriptors than the batch holds, the kernel reports it in one
of the next batches, since it rotates its ready list.

### Fairness

* `Cache!FairSpec`: a call that is in a loop goes on (the thread owns the mutex
  and nothing in the loops waits). A throwing step is never required.
* `Connection!FairSpec`: the worker thread runs, and the peer reads what it is
  sent. Nothing is assumed about the peer's sending.
* `CacheServer!FairSpec`: each thread goes on when it can; a worker in
  `epoll_wait` only has to return when its eventfd is readable; a signal need
  never come; no system call is required to fail.

* `Deployment!FairSpec`: main goes on once it has its configuration (the file may
  be one that never ends, so loading it need not), and `join` returns, which is
  `ShutdownCompletes` of `CacheServer`; each client goes on, because each of its
  calls ends at the latest by the time-outs of five seconds it sets. Nothing is
  assumed about the server accepting or answering, and no step is required to
  fail.

### Deadlock

Checked in all runs but those of `Connection`, `ProtocolCodec`, `CacheServer` and
`Deployment`, whose behaviours really end: a connection closes, a stream is used
up, a server is joined, a process exits.

## Proofs

`TimingWheelProofs` proves for every number of slots, resolution, key set and
TTL set that the wheel stays well-typed (`WheelTypeCorrect`) and that it
implements `CountdownTimers` (`WheelExactExpiry`). The argument: `TicksLeft`, the
distance of an event's slot plus a turn for every remaining round, equals the
TTL in ticks when the event is scheduled (the arithmetic of `target_slot` and
`remaining_rounds`), and falls by one at each tick, for events in the visited
slot through their round counter and for all others through their distance. An
event is returned exactly when it would reach zero.

`CacheProofs` proves the inductive invariant `CacheInv` (`CacheInvariant`) for
all keys, values, sizes, capacities and wheels, and from it

* `ExactAccounting`: `[]UsageIsCharged`;
* `ListMatchesMap`: `[]RecencyMatchesEntries`;
* `VictimAlwaysExists`: `[]VictimExists`.

`UsageIsCharged` is not inductive alone: during a `set` the final assignment uses
charges computed before any number of evictions, so `CallConsistent` carries that
the overwritten entry is still cached with its old charge, at the front of the
list. Evicting the last element then never hits it, because a list of one
element would leave nothing over the capacity. The sum of charges is stated as
the cardinality of a set of bytes, so that adding, removing and replacing one
entry are facts about finite sets. `ListLemmas` holds the facts about `RemoveAt`,
prefixes and injective sequences used for the LRU list.

The assumptions are `WheelAssumption` and `CacheAssumption`: sizes and limits are
natural numbers, the wheel has a slot and a resolution, and the markers are
distinct from what they mark. TLC evaluates them in every run that extends the modules.

Only model-checked: the refinements `ImplementsStore` and `ImplementsQueue`, the
invariants of the other modules, everything temporal (liveness under fairness
is outside the prover's reach), and what the codec's folds compute.

## Findings

`engine_ticks`: `docs/architecture.md:122` says that `CacheEngine::tick()` is called
once for every elapsed interval. `handle_timer` returns when a tick throws
(`src/net/cache_server.cpp:442`), having already read the timerfd: the remaining
expirations are dropped. In the run an entry is stored with a TTL of one tick, two
intervals elapse and are read together, and the first tick finds the entry's event
and cannot reserve memory for it (`src/timer/timing_wheel.cpp:31`): `tick` has been
called once, two intervals have elapsed, and nothing is left to handle. The later
shards' part of the failing tick is lost as well. The effect is that entries live longer by the dropped ticks; `ShardsInStep` bounds
how far the shards drift apart.

Two behaviours that are visible in the models and contradict nothing written:
connections handed to a worker whose `epoll_wait` has failed stay open and
unserved until the server is destroyed (`StoppedIsClean` names them); and ticks
made up for after a stall age entries that were set after the stall, which
therefore expire early, by no more than the ticks owed then
(`EarlyExpiryBounded`).

## Not modelled

* the single system calls of socket set-up and the wrappers around epoll, eventfd
  and timerfd: straight-line calls that throw on failure, one step each for the
  listen socket and for the rest of the constructor;
* `allocator_metrics` of the engine, the loop of the other aggregates over seven
  counters at once; `set_minimum_level` of the logger, which nothing calls while
  the server runs;
* the benchmark: a load generator whose results are times, and whose connections
  are to the server like any other client's;
* printed texts: error messages, names of statuses, the client's output;
* the bytes of keys and values outside the codec and the buffer;
* weak memory: the stop flags are read and written with relaxed order, but every
  hand-over of data goes through a mutex, a thread start or a join, and a flag
  that is seen late is seen after the eventfd at the latest, since the system
  calls order it.

## Plan

Prove next, in this order: `ImplementsStore` (the store mapping needs that a
generation is linked in the wheel at most once and never above
`generation_source`); `ImplementsQueue` and `MemoryBounded`; `InputAlwaysFits` and
`OutputBounded`; `ShardsInStep` and `UsageWithinCapacity`; `AcceptorStopsFirst` and
`DescriptorsOwnedOnce`; `EndsGracefully`; `BlocksPartitioned`.

Model next: a composition of `Connection` with `Buffer`.
