-------------------------------- MODULE Cache --------------------------------
(***************************************************************************)
(* The cache of src/cache/cache.cpp: a map of entries, an LRU list, byte   *)
(* accounting and a timing wheel whose events are matched to entries by    *)
(* generation.  The loops of Cache::set (making room) and Cache::tick      *)
(* (handling the events of one tick) are stepped one iteration at a time;  *)
(* no other call runs between two iterations, as the shard's mutex is      *)
(* held.  Every point where an allocation of the code can throw is a step. *)
(***************************************************************************)
EXTENDS TimingWheel, SequencesExt

CONSTANTS
  Values,
  KeySize,          \* KeySize[k]: length of key k in bytes
  ValueSize,        \* ValueSize[v]: length of value v in bytes
  MaxKeyLength,     \* Cache::max_key_length, 250 in the code
  MaxValueLength,   \* Cache::max_value_length, 1 MiB in the code
  Capacity,         \* capacity_bytes_
  CounterModulus,   \* the counters are std::size_t and wrap
  NoOp,             \* no call of Cache::set is making room
  NoValue,          \* the value of an answer that carries none
  Forever           \* the lifetime of an entry without a TTL

\* A TTL of zero asks for no expiry; -1 stands for any negative TTL.
RequestTtls == Ttls \union {0, -1}

\* The locals Cache::set keeps across its eviction loop.
SetCall == [key : Keys, value : Values, ttl : RequestTtls,
            existing : BOOLEAN, old_charge : Nat, new_charge : Nat]

ASSUME CacheAssumption ==
  /\ KeySize \in [Keys -> Nat]
  /\ ValueSize \in [Values -> Nat]
  /\ MaxKeyLength \in Nat
  /\ MaxValueLength \in Nat
  /\ Capacity \in Nat
  /\ CounterModulus \in Nat \ {0}
  /\ NoOp \notin SetCall
  /\ NoValue \notin Values
  /\ Forever \notin Nat

VARIABLES
  entries,            \* entries_: each cached key's value and generation
  recency,            \* recency_: cached keys, most recently used first
  memory_usage_bytes, \* memory_usage_bytes_
  generation_source,  \* generation_source_
  counters,           \* hit_count_, miss_count_, eviction_count_, expired_count_
  op,                 \* locals of the Cache::set that is making room, or NoOp
  reply               \* what the latest finished call returned

Counter == {"hit", "miss", "eviction", "expired"}

cacheVars == <<entries, recency, memory_usage_bytes, generation_source,
               counters, op, reply>>
vars == <<wheelVars, cacheVars>>

Answer(s, v) == [status |-> s, value |-> v]

validate_key(key) ==
  IF KeySize[key] = 0 THEN "invalid_key"
  ELSE IF KeySize[key] > MaxKeyLength THEN "key_too_large"
  ELSE "ok"

entry_charge(key, value) == KeySize[key] + ValueSize[value]

\* The checks at the head of Cache::set, in the code's order.
set_status(key, value, ttl) ==
  IF validate_key(key) # "ok" THEN validate_key(key)
  ELSE IF ValueSize[value] > MaxValueLength THEN "value_too_large"
  ELSE IF ttl < 0 THEN "invalid_ttl"
  ELSE IF entry_charge(key, value) > Capacity THEN "item_too_large"
  ELSE "ok"

Bump(c) == [counters EXCEPT ![c] = (@ + 1) % CounterModulus]

\* An entry stores its position in recency_; here it is looked up.
RecencyPosition(key) == CHOOSE i \in DOMAIN recency : recency[i] = key

mark_mru(key) ==
  recency' = <<key>> \o RemoveAt(recency, RecencyPosition(key))

remove_entry(key) ==
  /\ memory_usage_bytes' =
       memory_usage_bytes - entry_charge(key, entries[key].value)
  /\ recency' = RemoveAt(recency, RecencyPosition(key))
  /\ entries' = Restrict(entries, DOMAIN entries \ {key})

\* Mutant of Idle: calls do not exclude the event loop of a tick.
UnlockedIdle == op = NoOp

\* The cache can start a call: no loop of set or tick is under way.
Idle == op = NoOp /\ expired = {}
------------------------------------------------------------------------------
\* Cache::set returning before it changes anything.
SetRejected(key, value, ttl) ==
  /\ Idle
  /\ set_status(key, value, ttl) # "ok"
  /\ reply' = Answer(set_status(key, value, ttl), NoValue)
  /\ UNCHANGED <<wheelVars, entries, recency, memory_usage_bytes,
                 generation_source, counters, op>>

\* Cache::set up to its eviction loop: next_generation, schedule, mark_mru.
SetBegin(key, value, ttl) ==
  LET existing == key \in DOMAIN entries
  IN  /\ Idle
      /\ set_status(key, value, ttl) = "ok"
      /\ generation_source < MaxGeneration
      /\ generation_source' = generation_source + 1
      /\ IF ttl > 0 THEN Schedule(key, generation_source', ttl)
                    ELSE UNCHANGED wheelVars
      /\ IF existing THEN mark_mru(key) ELSE UNCHANGED recency
      /\ op' = [key |-> key, value |-> value, ttl |-> ttl,
                existing |-> existing,
                old_charge |-> IF existing
                               THEN entry_charge(key, entries[key].value)
                               ELSE 0,
                new_charge |-> entry_charge(key, value)]
      /\ UNCHANGED <<entries, memory_usage_bytes, counters, reply>>

\* Condition of the loop that makes room for the new value.
NeedsRoom == memory_usage_bytes - op.old_charge > Capacity - op.new_charge

\* Mutants of evict_lru: the most recently used entry goes, and the eviction
\* is not counted.
evict_mru ==
  /\ op # NoOp
  /\ NeedsRoom
  /\ recency # <<>>
  /\ remove_entry(Head(recency))
  /\ counters' = Bump("eviction")
  /\ UNCHANGED <<wheelVars, generation_source, op, reply>>

evict_uncounted ==
  /\ op # NoOp
  /\ NeedsRoom
  /\ recency # <<>>
  /\ remove_entry(Last(recency))
  /\ UNCHANGED <<wheelVars, generation_source, counters, op, reply>>

evict_lru ==
  /\ op # NoOp
  /\ NeedsRoom
  /\ recency # <<>>
  /\ Last(recency) \in DOMAIN entries
  /\ remove_entry(Last(recency))
  /\ counters' = Bump("eviction")
  /\ UNCHANGED <<wheelVars, generation_source, op, reply>>

\* Mutant of SetReplace: the charge of the entry is not adjusted.
ReplaceUncharged ==
  /\ op # NoOp
  /\ ~NeedsRoom
  /\ op.existing
  /\ entries' = [entries EXCEPT ![op.key] =
                   [value |-> op.value, generation |-> generation_source]]
  /\ op' = NoOp
  /\ reply' = Answer("ok", NoValue)
  /\ UNCHANGED <<wheelVars, recency, memory_usage_bytes, generation_source, counters>>

\* The end of Cache::set for a key that is cached.
SetReplace ==
  /\ op # NoOp
  /\ ~NeedsRoom
  /\ op.existing
  /\ entries' = [entries EXCEPT ![op.key] =
                   [value |-> op.value, generation |-> generation_source]]
  /\ memory_usage_bytes' = memory_usage_bytes - op.old_charge + op.new_charge
  /\ op' = NoOp
  /\ reply' = Answer("ok", NoValue)
  /\ UNCHANGED <<wheelVars, recency, generation_source, counters>>

\* The end of Cache::set for a key that is not cached.
SetInsert ==
  /\ op # NoOp
  /\ ~NeedsRoom
  /\ ~op.existing
  /\ recency' = <<op.key>> \o recency
  /\ entries' = [k \in DOMAIN entries \union {op.key} |->
                   IF k = op.key
                   THEN [value |-> op.value, generation |-> generation_source]
                   ELSE entries[k]]
  /\ memory_usage_bytes' = memory_usage_bytes + op.new_charge
  /\ op' = NoOp
  /\ reply' = Answer("ok", NoValue)
  /\ UNCHANGED <<wheelVars, generation_source, counters>>

\* Mutant of SetInsertThrows: the list node is not taken back.
InsertThrowsLeavesNode ==
  /\ op # NoOp
  /\ ~NeedsRoom
  /\ ~op.existing
  /\ recency' = <<op.key>> \o recency
  /\ op' = NoOp
  /\ reply' = Answer("throws", NoValue)
  /\ UNCHANGED <<wheelVars, entries, memory_usage_bytes, generation_source, counters>>

\* recency_.push_front or entries_.emplace throws: the node is taken back,
\* what was evicted and scheduled stays so.
SetInsertThrows ==
  /\ op # NoOp
  /\ ~NeedsRoom
  /\ ~op.existing
  /\ op' = NoOp
  /\ reply' = Answer("throws", NoValue)
  /\ UNCHANGED <<wheelVars, entries, recency, memory_usage_bytes,
                 generation_source, counters>>

\* Mutant of ScheduleThrows: next_generation does not stop at the last one.
GenerationOverrun(key, value, ttl) ==
  /\ Idle
  /\ set_status(key, value, ttl) = "ok"
  /\ ttl > 0
  /\ generation_source <= MaxGeneration
  /\ generation_source' = generation_source + 1
  /\ reply' = Answer("throws", NoValue)
  /\ UNCHANGED <<wheelVars, entries, recency, memory_usage_bytes, counters, op>>

\* schedule throws after next_generation: only the generation is spent.
ScheduleThrows(key, value, ttl) ==
  /\ Idle
  /\ set_status(key, value, ttl) = "ok"
  /\ ttl > 0
  /\ generation_source < MaxGeneration
  /\ generation_source' = generation_source + 1
  /\ reply' = Answer("throws", NoValue)
  /\ UNCHANGED <<wheelVars, entries, recency, memory_usage_bytes, counters, op>>

\* A copy of the key, the value's block, the result string, the vector of
\* TimingWheel::tick cannot be allocated, or the generations are used up: the
\* call throws before it has changed anything.
CallThrows ==
  /\ Idle
  /\ reply' = Answer("throws", NoValue)
  /\ UNCHANGED <<wheelVars, entries, recency, memory_usage_bytes,
                 generation_source, counters, op>>
------------------------------------------------------------------------------
get(key) ==
  /\ Idle
  /\ \/ /\ validate_key(key) # "ok"
        /\ reply' = Answer(validate_key(key), NoValue)
        /\ UNCHANGED <<recency, counters>>
     \/ /\ validate_key(key) = "ok"
        /\ key \notin DOMAIN entries
        /\ reply' = Answer("not_found", NoValue)
        /\ counters' = Bump("miss")
        /\ UNCHANGED recency
     \/ /\ validate_key(key) = "ok"
        /\ key \in DOMAIN entries
        /\ reply' = Answer("ok", entries[key].value)
        /\ counters' = Bump("hit")
        /\ mark_mru(key)
  /\ UNCHANGED <<wheelVars, entries, memory_usage_bytes, generation_source, op>>

erase(key) ==
  /\ Idle
  /\ \/ /\ validate_key(key) # "ok"
        /\ reply' = Answer(validate_key(key), NoValue)
        /\ UNCHANGED <<entries, recency, memory_usage_bytes>>
     \/ /\ validate_key(key) = "ok"
        /\ key \notin DOMAIN entries
        /\ reply' = Answer("not_found", NoValue)
        /\ UNCHANGED <<entries, recency, memory_usage_bytes>>
     \/ /\ validate_key(key) = "ok"
        /\ key \in DOMAIN entries
        /\ remove_entry(key)
        /\ reply' = Answer("ok", NoValue)
  /\ UNCHANGED <<wheelVars, generation_source, counters, op>>

\* Cache::tick obtaining the due events from the wheel.
tick ==
  /\ Idle
  /\ WheelTick
  /\ UNCHANGED cacheVars

\* Mutant of Current: the generation is not compared.
CurrentByKey(event) == event.key \in DOMAIN entries

\* The event belongs to the entry that is cached under its key now.
Current(event) ==
  /\ event.key \in DOMAIN entries
  /\ entries[event.key].generation = event.generation

\* Mutant of HandleEvent: a stale event is not passed over.
HandleEventStuck(event) ==
  /\ event \in expired
  /\ \/ /\ Current(event)
        /\ expired' = expired \ {event}
        /\ remove_entry(event.key)
        /\ counters' = Bump("expired")
     \/ /\ ~Current(event)
        /\ UNCHANGED <<expired, entries, recency, memory_usage_bytes, counters>>
  /\ UNCHANGED <<current_slot, slots, generation_source, op, reply>>

\* One iteration of the loop of Cache::tick.
HandleEvent(event) ==
  /\ event \in expired
  /\ expired' = expired \ {event}
  /\ \/ /\ Current(event)
        /\ remove_entry(event.key)
        /\ counters' = Bump("expired")
     \/ /\ ~Current(event)
        /\ UNCHANGED <<entries, recency, memory_usage_bytes, counters>>
  /\ UNCHANGED <<current_slot, slots, generation_source, op, reply>>

Init ==
  /\ WheelInit
  /\ entries = [k \in {} |-> NoValue]
  /\ recency = <<>>
  /\ memory_usage_bytes = 0
  /\ generation_source = 0
  /\ counters = [c \in Counter |-> 0]
  /\ op = NoOp
  /\ reply = Answer("ok", NoValue)

Next ==
  \/ \E key \in Keys, value \in Values, ttl \in RequestTtls :
       \/ SetRejected(key, value, ttl)
       \/ SetBegin(key, value, ttl)
       \/ ScheduleThrows(key, value, ttl)
  \/ evict_lru
  \/ SetReplace
  \/ SetInsert
  \/ SetInsertThrows
  \/ CallThrows
  \/ \E key \in Keys : get(key) \/ erase(key)
  \/ tick
  \/ \E event \in expired : HandleEvent(event)

Spec == Init /\ [][Next]_vars

\* A call that is in one of its loops goes on: the thread holds the mutex and
\* nothing in the loops waits.
FairSpec ==
  Spec /\ WF_vars(\/ evict_lru \/ SetReplace \/ SetInsert
                  \/ \E event \in expired : HandleEvent(event))
------------------------------------------------------------------------------
Status == {"ok", "not_found", "invalid_key", "key_too_large",
           "value_too_large", "item_too_large", "invalid_ttl", "throws"}

Entry == [value : Values, generation : Generation]

\* Every variable has the type its declaration in cache.h gives it.
CacheTypeOK ==
  /\ WheelTypeOK
  /\ DOMAIN entries \subseteq Keys
  /\ entries \in [DOMAIN entries -> Entry]
  /\ recency \in Seq(Keys)
  /\ memory_usage_bytes \in Nat
  /\ generation_source \in 0 .. MaxGeneration
  /\ counters \in [Counter -> 0 .. CounterModulus - 1]
  /\ op \in SetCall \union {NoOp}
  /\ reply \in [status : Status, value : Values \union {NoValue}]

\* The LRU list and the map name the same keys, each once: mark_mru,
\* remove_entry, evict_lru and the insertion path keep them in step.
RecencyMatchesEntries ==
  /\ ToSet(recency) = DOMAIN entries
  /\ IsInjective(recency)

\* The bytes charged for a map of entries, one element per byte.
ChargedBytes(map) ==
  UNION {{k} \X (1 .. entry_charge(k, map[k].value)) : k \in DOMAIN map}

\* memory_usage_bytes_ is the sum of the charges of the cached entries, at
\* every step of every call, and never exceeds the capacity.
UsageIsCharged ==
  /\ memory_usage_bytes = Cardinality(ChargedBytes(entries))
  /\ memory_usage_bytes <= Capacity

\* When the loop of Cache::set asks for another victim there is one, and it
\* is not the entry being overwritten: the asserts of evict_lru hold, the
\* iterator kept across the loop stays valid and no unsigned subtraction of
\* the loop's condition wraps.
VictimExists ==
  op # NoOp =>
    /\ op.old_charge <= memory_usage_bytes
    /\ op.new_charge <= Capacity
    /\ op.existing => op.key \in DOMAIN entries
    /\ NeedsRoom =>
         /\ recency # <<>>
         /\ Last(recency) \in DOMAIN entries
         /\ Last(recency) # op.key

\* What Cache::set relies on between its checks and its last assignment: the
\* locals still describe the map after any number of evictions, and an entry
\* being overwritten stays at the front of the LRU list.
CallConsistent ==
  op # NoOp =>
    /\ expired = {}
    /\ generation_source > 0
    /\ op.new_charge = entry_charge(op.key, op.value)
    /\ op.new_charge <= Capacity
    /\ op.existing <=> op.key \in DOMAIN entries
    /\ ~op.existing => op.old_charge = 0
    /\ op.existing =>
         /\ op.old_charge = entry_charge(op.key, entries[op.key].value)
         /\ recency[1] = op.key

\* The inductive invariant of the accounting proofs.
CacheInv ==
  /\ CacheTypeOK
  /\ RecencyMatchesEntries
  /\ IsFiniteSet(ChargedBytes(entries))
  /\ UsageIsCharged
  /\ CallConsistent

\* An entry leaves the map only in erase, in evict_lru or by expiring, one at
\* a time, and the counters record exactly the last two.
LossesAreCounted ==
  [][LET lost == DOMAIN entries \ DOMAIN entries'
         counted(c) == counters'[c] = (counters[c] + 1) % CounterModulus
     IN  /\ Cardinality(lost) <= 1
         /\ counters'["eviction"] # counters["eviction"] =>
              counted("eviction") /\ lost # {} /\ op # NoOp
         /\ counters'["expired"] # counters["expired"] =>
              counted("expired") /\ lost # {} /\ expired' # expired
         /\ lost # {} /\ CounterModulus > 1 =>
              \/ counters'["eviction"] # counters["eviction"]
              \/ counters'["expired"] # counters["expired"]
              \/ Idle /\ counters' = counters /\ reply'.status = "ok"]_vars

\* Cache::set stops evicting and Cache::tick runs out of events: no call keeps
\* the shard's mutex for ever.
CallsTerminate == ~Idle ~> Idle
------------------------------------------------------------------------------
\* The countdown of a cached key, read off the wheel: the ticks its own event
\* still waits, zero when the event has been returned, Forever without event.
Countdown(k) ==
  LET g == entries[k].generation
  IN  IF \E e \in expired : e.generation = g THEN 0
      ELSE IF \E s \in Slot : \E e \in slots[s] : e.generation = g
      THEN LET s == CHOOSE s \in Slot : \E e \in slots[s] : e.generation = g
               e == CHOOSE e \in slots[s] : e.generation = g
           IN  TicksLeft(s, e)
      ELSE Forever

Store == INSTANCE TtlLruStore
           WITH Delays <- {TicksFor(t) : t \in Ttls},
                Refusals <- Status \ {"ok", "not_found"},
                store <- [k \in DOMAIN entries |->
                            [value |-> entries[k].value,
                             left |-> Countdown(k)]],
                order <- recency

\* The cache implements TtlLruStore: a get answers the value last set, a key
\* expires at exactly the tick its last set asked for whatever stale events
\* the wheel still holds, only the least recently used key is evicted, and a
\* rejected or throwing call changes no cached value.
ImplementsStore == Store!Spec
==============================================================================
