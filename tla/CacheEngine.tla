----------------------------- MODULE CacheEngine -----------------------------
(***************************************************************************)
(* src/cache/cache_engine.cpp over the shards of src/cache/cache_shard.cpp *)
(* and the timer loop of src/net/cache_server.cpp that drives its ticks.   *)
(* A call on one shard holds the shard's mutex and is one step, by the     *)
(* contract the module Cache is checked against.  Calls that visit all     *)
(* shards (tick and the aggregate readers) take one shard at a time and    *)
(* interleave with everything else.                                        *)
(***************************************************************************)
EXTENDS Integers, FiniteSets, SequencesExt

CONSTANTS
  Keys,
  NumShards,     \* shard_count
  Capacity,      \* capacity_bytes_
  ShardOf,       \* ShardOf[k]: std::hash of key k modulo shard_count
  Charges,       \* sizes of key plus value that a set may ask for
  Ttls,          \* lifetimes in ticks; 0 is no expiry
  SlotCount,     \* slots of a shard's timing wheel
  Calls,         \* the aggregates that are read
  MaxElapsed,    \* bound: intervals of the timer
  MaxCount,      \* bound: what a shard counts of one thing
  Idle           \* no aggregate is being read

ASSUME EngineAssumption ==
  /\ NumShards \in Nat \ {0}
  /\ Capacity \in Nat
  /\ ShardOf \in [Keys -> 1 .. NumShards]
  /\ Charges \subseteq Nat \ {0}
  /\ Ttls \subseteq Nat
  /\ SlotCount \in Nat \ {0}
  /\ Calls \subseteq {"size", "empty", "memory_usage_bytes", "hit_count",
                     "miss_count", "eviction_count", "expired_count"}
  /\ MaxElapsed \in Nat /\ MaxCount \in Nat

Shard == 1 .. NumShards

VARIABLES
  shards,        \* each shard's entries, most recently used first
  counts,        \* the counter of each shard that call reads, if it reads one
  ticks,         \* how often each shard's wheel has advanced
  events,        \* ticks to go of the events in each shard's wheel, stale ones
                 \* included
  elapsed,       \* intervals of the timer so far
  expirations,   \* what a read of timer_ would return
  remaining,     \* engine ticks handle_timer still has to make
  next_shard,    \* the shard CacheEngine::tick visits next, or 0
  begun,         \* calls of CacheEngine::tick
  failed,        \* those of them that have thrown
  call,          \* the aggregate that is read, again and again
  reader,        \* where a call of it is, or Idle
  always, ever   \* keys cached throughout, and at any time of, a call of size
                 \* or empty

clockVars == <<elapsed, expirations, remaining, next_shard, begun, failed>>
readVars == <<call, reader, always, ever>>
wheelVars == <<ticks, events>>
vars == <<shards, counts, wheelVars, clockVars, readVars>>

\* The shard every call on this key goes to.
shard_for(k) == ShardOf[k]

\* Mutant of ShardCapacity: one shard too many gets the extra byte.
ShardCapacityOneMore(s) ==
  Capacity \div NumShards + (IF s - 1 <= Capacity % NumShards THEN 1 ELSE 0)

\* The constructor gives each of the first capacity % count shards one byte
\* more (shard_index counts from 0 in the code).
ShardCapacity(s) ==
  Capacity \div NumShards + (IF s <= Capacity % NumShards THEN 1 ELSE 0)

Usage(list) ==
  LET upto[i \in 0 .. Len(list)] == IF i = 0 THEN 0 ELSE upto[i - 1] + list[i].charge
  IN  upto[Len(list)]

Cached(list) == {list[i].key : i \in DOMAIN list}

KeysIn(state) == UNION {Cached(state[s]) : s \in Shard}

EntryOf(list, k) == CHOOSE e \in ToSet(list) : e.key = k

Others(list, k) == SelectSeq(list, LAMBDA e : e.key # k)

\* The longest front of the list that leaves room for a charge: what evict_lru
\* called in a loop leaves behind.
MakeRoom(list, room) ==
  SubSeq(list, 1, Max({i \in 0 .. Len(list) : Usage(SubSeq(list, 1, i)) <= room}))

\* Calls whose answer depends on which keys are cached.
Counted == call \in {"size", "empty"}

\* Such a call in progress remembers the keys it could have met.
Watched ==
  /\ IF reader # Idle /\ Counted
     THEN /\ always' = always \intersect KeysIn(shards')
          /\ ever' = ever \union KeysIn(shards')
     ELSE UNCHANGED <<always, ever>>
  /\ UNCHANGED <<call, reader>>

\* Shard s adds n to one of its counters.
Bump(counter, s, n) ==
  counts' = IF call = counter THEN [counts EXCEPT ![s] = @ + n] ELSE counts

\* Ticks of the past that shard s has still to make: an entry stored now will
\* be aged by them.
Owed(s) == expirations + remaining
             + (IF next_shard \in 1 .. s THEN 1 ELSE 0)
------------------------------------------------------------------------------
\* When it was stored, and how many ticks its shard was behind, matters only for
\* an entry with a TTL.
NewEntry(k, c, ttl) ==
  [key |-> k, charge |-> c, left |-> ttl, ttl |-> ttl,
   born |-> IF ttl = 0 THEN 0 ELSE elapsed,
   owed |-> IF ttl = 0 THEN 0 ELSE Owed(shard_for(k))]

\* CacheEngine::set: the chosen shard refuses the item, or schedules its expiry,
\* evicts and stores it, or throws once it has evicted.
set(k, c, ttl) ==
  LET s == shard_for(k)
      others == Others(shards[s], k)
      kept == MakeRoom(others, ShardCapacity(s) - c)
  IN  /\ c <= ShardCapacity(s)
      /\ \/ shards' = [shards EXCEPT ![s] = <<NewEntry(k, c, ttl)>> \o kept]
         \/ /\ k \notin Cached(shards[s])
            /\ shards' = [shards EXCEPT ![s] = kept]
      /\ events' = [events EXCEPT ![s] = @ \union ({ttl} \ {0})]
      /\ Bump("eviction_count", s, Len(others) - Len(kept))
      /\ counts'[s] <= MaxCount
      /\ Watched
      /\ UNCHANGED <<ticks, clockVars>>

\* CacheEngine::get: a hit moves the entry to the front, a miss is counted.
get(k) ==
  LET s == shard_for(k)
  IN  /\ \/ /\ k \in Cached(shards[s])
            /\ shards' = [shards EXCEPT ![s] = <<EntryOf(@, k)>> \o Others(@, k)]
            /\ Bump("hit_count", s, 1)
         \/ /\ k \notin Cached(shards[s])
            /\ Bump("miss_count", s, 1)
            /\ UNCHANGED shards
      /\ counts'[s] <= MaxCount
      /\ Watched
      /\ UNCHANGED <<wheelVars, clockVars>>

\* CacheEngine::erase of a cached key; its event stays in the wheel.
erase(k) ==
  LET s == shard_for(k)
  IN  /\ k \in Cached(shards[s])
      /\ shards' = [shards EXCEPT ![s] = Others(@, k)]
      /\ Watched
      /\ UNCHANGED <<counts, wheelVars, clockVars>>
------------------------------------------------------------------------------
\* timerfd counts one more interval.
IntervalElapses ==
  /\ elapsed < MaxElapsed
  /\ elapsed' = elapsed + 1
  /\ expirations' = expirations + 1
  /\ UNCHANGED <<shards, counts, wheelVars, remaining, next_shard, begun, failed, readVars>>

\* Mutant of ReadTimer: one tick however many intervals have passed.
ReadTimerOnce ==
  /\ remaining = 0 /\ next_shard = 0
  /\ expirations > 0
  /\ remaining' = 1
  /\ expirations' = 0
  /\ UNCHANGED <<shards, counts, wheelVars, elapsed, next_shard, begun, failed, readVars>>

\* handle_timer reading the number of intervals since it last did.
ReadTimer ==
  /\ remaining = 0 /\ next_shard = 0
  /\ expirations > 0
  /\ remaining' = expirations
  /\ expirations' = 0
  /\ UNCHANGED <<shards, counts, wheelVars, elapsed, next_shard, begun, failed, readVars>>

\* Mutant of BeginTick: the first shard is skipped.
BeginTickLate ==
  /\ remaining > 0 /\ next_shard = 0
  /\ remaining' = remaining - 1
  /\ begun' = begun + 1
  /\ next_shard' = 2
  /\ UNCHANGED <<shards, counts, wheelVars, elapsed, expirations, failed, readVars>>

\* The loop of handle_timer calling CacheEngine::tick.
BeginTick ==
  /\ remaining > 0 /\ next_shard = 0
  /\ remaining' = remaining - 1
  /\ begun' = begun + 1
  /\ next_shard' = 1
  /\ UNCHANGED <<shards, counts, wheelVars, elapsed, expirations, failed, readVars>>

\* Mutant of Due: the tick before the last one expires the entry.
DueSoon(e) == e.left \in {1, 2}

Due(e) == e.left = 1

\* CacheShard::tick: entries whose countdown ends are removed.
Aged(list) ==
  LET kept == SelectSeq(list, LAMBDA e : ~Due(e))
  IN  [i \in DOMAIN kept |->
         [kept[i] EXCEPT !.left = IF @ = 0 THEN 0 ELSE @ - 1]]

TickShard ==
  /\ next_shard # 0
  /\ shards' = [shards EXCEPT ![next_shard] = Aged(@)]
  /\ Bump("expired_count", next_shard,
          Len(shards[next_shard]) - Len(Aged(shards[next_shard])))
  /\ ticks' = [ticks EXCEPT ![next_shard] = @ + 1]
  /\ events' = [events EXCEPT ![next_shard] = {n - 1 : n \in @ \ {1}}]
  /\ next_shard' = (next_shard + 1) % (NumShards + 1)
  /\ Watched
  /\ UNCHANGED <<elapsed, expirations, remaining, begun, failed>>

\* TimingWheel::tick finds events in the slot it moves to, due or with rounds
\* to go: an event with n ticks to go lies n slots on.
NextSlotFilled(s) == \E n \in events[s] : n % SlotCount = 1 % SlotCount

\* CacheShard::tick throws, having no memory for the events of the slot: its
\* wheel stays where it is, the later shards miss this tick, and handle_timer
\* returns without making the ticks that remain.
TickThrows ==
  /\ next_shard # 0
  /\ NextSlotFilled(next_shard)
  /\ next_shard' = 0
  /\ remaining' = 0
  /\ failed' = failed + 1
  /\ UNCHANGED <<shards, counts, wheelVars, elapsed, expirations, begun, readVars>>
------------------------------------------------------------------------------
TotalCount == FoldFunction(+, 0, counts)

\* What one shard answers under its mutex; for empty, 1 if it is not.
Answer(s) == CASE call = "size" -> Len(shards[s])
               [] call = "empty" -> IF shards[s] = <<>> THEN 0 ELSE 1
               [] call = "memory_usage_bytes" -> Usage(shards[s])
               [] OTHER -> counts[s]

\* Every aggregate is a running total that starts at zero (for empty, whether
\* an entry has been met) ...
BeginRead ==
  /\ reader = Idle
  /\ reader' = [shard |-> 1, total |-> 0, before |-> TotalCount]
  /\ always' = IF Counted THEN KeysIn(shards) ELSE {}
  /\ ever' = always'
  /\ UNCHANGED <<shards, counts, wheelVars, clockVars, call>>

\* Mutant of Added: the total is overwritten.
Overwritten(total, answer) == answer

Added(total, answer) == total + answer

\* ... and adds what one shard after the other answers; empty returns at the
\* first shard that is not.
ReadShard ==
  /\ reader # Idle
  /\ reader.shard \in Shard
  /\ LET answer == Answer(reader.shard)
         leave == call = "empty" /\ answer = 1
     IN  reader' = [reader EXCEPT !.shard = IF leave THEN NumShards + 1 ELSE @ + 1,
                                  !.total = Added(@, answer)]
  /\ UNCHANGED <<shards, counts, wheelVars, clockVars, call, always, ever>>

EndRead ==
  /\ reader # Idle
  /\ reader.shard \notin Shard
  /\ reader' = Idle
  /\ always' = {} /\ ever' = {}
  /\ UNCHANGED <<shards, counts, wheelVars, clockVars, call>>

Init ==
  /\ shards = [s \in Shard |-> <<>>]
  /\ counts = [s \in Shard |-> 0]
  /\ ticks = [s \in Shard |-> 0] /\ events = [s \in Shard |-> {}]
  /\ elapsed = 0 /\ expirations = 0 /\ remaining = 0
  /\ next_shard = 0 /\ begun = 0 /\ failed = 0
  /\ call \in Calls /\ reader = Idle /\ always = {} /\ ever = {}

Next ==
  \/ \E k \in Keys, c \in Charges, ttl \in Ttls : set(k, c, ttl)
  \/ \E k \in Keys : get(k) \/ erase(k)
  \/ IntervalElapses \/ ReadTimer \/ BeginTick \/ TickShard \/ TickThrows
  \/ BeginRead \/ ReadShard \/ EndRead

Spec == Init /\ [][Next]_vars
------------------------------------------------------------------------------
ReadEnds == reader # Idle /\ reader.shard \notin Shard

\* memory_usage_bytes never answers more than the engine's capacity, although
\* its shards are read at different times: the capacities of the shards add up
\* to the whole and no shard exceeds its own.
UsageWithinCapacity ==
  reader # Idle /\ call = "memory_usage_bytes" => reader.total <= Capacity

\* Under any concurrent calls and ticks: size counts every key that stayed
\* cached throughout the call and none that was not cached at some time of it;
\* empty says yes only if no key stayed and no only if there was one; a counter
\* that is added up answers a number that was right at some time of the call.
AggregatesBracketed ==
  ReadEnds =>
    CASE call = "size" -> reader.total \in Cardinality(always) .. Cardinality(ever)
      [] call = "empty" -> IF reader.total = 0 THEN always = {} ELSE ever # {}
      [] call = "memory_usage_bytes" -> TRUE
      [] OTHER -> reader.total \in reader.before .. TotalCount

\* No shard's time runs ahead of the timer, an earlier shard is never behind a
\* later one, and it is ahead by at most the tick under way and the ticks that
\* threw.
ShardsInStep ==
  \A s, t \in Shard : s < t =>
    /\ ticks[s] <= elapsed
    /\ ticks[t] <= ticks[s]
    /\ ticks[s] <= ticks[t] + failed + (IF next_shard = 0 THEN 0 ELSE 1)

\* Once handle_timer has caught up, and no tick has thrown, an entry set with
\* a TTL of n ticks has been cached for less than n whole intervals.
NoOverstay ==
  expirations = 0 /\ remaining = 0 /\ next_shard = 0 /\ failed = 0 =>
    \A s \in Shard : \A i \in DOMAIN shards[s] :
      LET e == shards[s][i]
      IN  e.ttl # 0 => elapsed - e.born < e.ttl

\* A tick removes only entries with a TTL, and none before its time but for
\* the ticks that were owed when it was stored: handle_timer catching up ages
\* what was set in the meantime, by no more than that.
EarlyExpiryBounded ==
  [][\A s \in Shard : ticks'[s] # ticks[s] =>
       \A e \in ToSet(shards[s]) :
         e.key \notin Cached(shards'[s]) =>
           e.ttl # 0 /\ elapsed - e.born + e.owed >= e.ttl]_vars

\* CacheEngine::tick has been called once for every interval that elapsed, apart
\* from those still to be handled: what docs/architecture.md says of the timer.
EveryIntervalTicked == begun + expirations + remaining = elapsed
==============================================================================
