----------------------------- MODULE CacheProofs -----------------------------
(***************************************************************************)
(* Proofs about Cache for every set of keys and values, every capacity and *)
(* every wheel: type correctness, the agreement of LRU list and map, exact *)
(* byte accounting, and the existence of a victim whenever one is needed.  *)
(***************************************************************************)
EXTENDS Cache, ListLemmas, TimingWheelProofs, FiniteSetTheorems

\* The charge of a valid key and value is a number of bytes.
LEMMA ChargeType ==
  ASSUME NEW k \in Keys, NEW v \in Values
  PROVE  entry_charge(k, v) \in Nat
  BY CacheAssumption DEF entry_charge

\* The bytes charged for one key are as many as its charge.
LEMMA BytesOfKey ==
  ASSUME NEW k, NEW n \in Nat
  PROVE  /\ IsFiniteSet({k} \X (1 .. n))
         /\ Cardinality({k} \X (1 .. n)) = n
  <1>1. IsFiniteSet({k}) /\ Cardinality({k}) = 1
    BY FS_Singleton
  <1>2. IsFiniteSet(1 .. n) /\ Cardinality(1 .. n) = n
    BY FS_Interval
  <1>3. /\ IsFiniteSet({k} \X (1 .. n))
        /\ Cardinality({k} \X (1 .. n)) = Cardinality({k}) * Cardinality(1 .. n)
    BY <1>1, <1>2, FS_Product
  <1>. QED  BY <1>1, <1>2, <1>3

\* Removing an entry takes exactly its charge off the total.
LEMMA BytesWithout ==
  ASSUME NEW map, DOMAIN map \subseteq Keys, map \in [DOMAIN map -> Entry],
         NEW k \in DOMAIN map, IsFiniteSet(ChargedBytes(map))
  PROVE  LET rest == Restrict(map, DOMAIN map \ {k})
         IN  /\ IsFiniteSet(ChargedBytes(rest))
             /\ Cardinality(ChargedBytes(rest)) =
                  Cardinality(ChargedBytes(map)) - entry_charge(k, map[k].value)
             /\ Cardinality(ChargedBytes(rest)) \in Nat
             /\ Cardinality(ChargedBytes(map)) \in Nat
  <1> DEFINE rest == Restrict(map, DOMAIN map \ {k})
             B == ChargedBytes(map)
             D == ChargedBytes(rest)
             n == entry_charge(k, map[k].value)
             C == {k} \X (1 .. n)
  <1>1. n \in Nat
    BY ChargeType DEF Entry
  <1>2. IsFiniteSet(C) /\ Cardinality(C) = n
    BY <1>1, BytesOfKey
  <1>3. D = B \ C
    BY DEF ChargedBytes, Restrict
  <1>4. B \cap C = C
    BY DEF ChargedBytes
  <1> HIDE DEF B, C, D
  <1>5. IsFiniteSet(B \ C) /\ Cardinality(B \ C) = Cardinality(B) - Cardinality(C)
    <2>1. IsFiniteSet(B)
      BY DEF B
    <2>2. /\ IsFiniteSet(B \ C)
          /\ Cardinality(B \ C) = Cardinality(B) - Cardinality(B \cap C)
      BY <2>1, FS_Difference
    <2>. QED  BY <1>4, <2>2
  <1>6. Cardinality(B) \in Nat /\ Cardinality(D) \in Nat
    BY <1>3, <1>5, FS_CardinalityType DEF B
  <1>. QED  BY <1>2, <1>3, <1>5, <1>6 DEF B, D

\* Adding an entry adds exactly its charge to the total.
LEMMA BytesWith ==
  ASSUME NEW map, DOMAIN map \subseteq Keys, map \in [DOMAIN map -> Entry],
         NEW k \in Keys \ DOMAIN map, NEW e \in Entry,
         IsFiniteSet(ChargedBytes(map)),
         NEW more, more = [x \in DOMAIN map \union {k} |->
                             IF x = k THEN e ELSE map[x]]
  PROVE  /\ IsFiniteSet(ChargedBytes(more))
         /\ Cardinality(ChargedBytes(more)) =
              Cardinality(ChargedBytes(map)) + entry_charge(k, e.value)
  <1> DEFINE B == ChargedBytes(map)
             D == ChargedBytes(more)
             n == entry_charge(k, e.value)
             C == {k} \X (1 .. n)
  <1>1. n \in Nat
    BY ChargeType DEF Entry
  <1>2. IsFiniteSet(C) /\ Cardinality(C) = n
    BY <1>1, BytesOfKey
  <1>3. D = B \union C
    BY DEF ChargedBytes
  <1>4. B \cap C = {}
    BY DEF ChargedBytes
  <1>5. IsFiniteSet(B)
    OBVIOUS
  <1> HIDE DEF B, C, D
  <1>6. /\ IsFiniteSet(B \union C)
        /\ Cardinality(B \union C) =
             Cardinality(B) + Cardinality(C) - Cardinality(B \cap C)
    BY <1>2, <1>5, FS_Union
  <1>7. Cardinality(B) \in Nat /\ Cardinality(B \cap C) = 0
    BY <1>4, <1>5, FS_CardinalityType, FS_EmptySet
  <1> HIDE DEF n
  <1>8. Cardinality(D) = Cardinality(B) + n
    BY ONLY <1>1, <1>2, <1>3, <1>6, <1>7
  <1>. QED  BY <1>3, <1>6, <1>8 DEF B, D, n
------------------------------------------------------------------------------
\* The list iterator an entry keeps points at the node of its key.
LEMMA PositionOfKey ==
  ASSUME RecencyMatchesEntries, recency \in Seq(Keys), NEW k \in DOMAIN entries
  PROVE  /\ RecencyPosition(k) \in 1 .. Len(recency)
         /\ recency[RecencyPosition(k)] = k
  <1>1. \E i \in DOMAIN recency : recency[i] = k
    BY DEF RecencyMatchesEntries, ToSet
  <1>. QED  BY <1>1 DEF RecencyPosition

\* Cache::remove_entry keeps list, map and accounting in step.
LEMMA RemoveEntryKeeps ==
  ASSUME CacheInv, NEW k \in DOMAIN entries, remove_entry(k)
  PROVE  /\ DOMAIN entries' = DOMAIN entries \ {k}
         /\ \A x \in DOMAIN entries' : entries'[x] = entries[x]
         /\ entries' \in [DOMAIN entries' -> Entry]
         /\ recency' \in Seq(Keys)
         /\ Len(recency') = Len(recency) - 1
         /\ recency[1] # k => recency'[1] = recency[1]
         /\ RecencyMatchesEntries'
         /\ memory_usage_bytes' \in Nat
         /\ IsFiniteSet(ChargedBytes(entries))'
         /\ UsageIsCharged'
  <1> DEFINE i == RecencyPosition(k)
             n == entry_charge(k, entries[k].value)
  <1>1. /\ recency \in Seq(Keys) /\ IsInjective(recency)
        /\ i \in 1 .. Len(recency) /\ recency[i] = k
    BY PositionOfKey DEF CacheInv, CacheTypeOK, RecencyMatchesEntries
  <1>2. recency' = RemoveAt(recency, i)
    BY DEF remove_entry
  <1> HIDE DEF i
  <1>3. /\ recency' \in Seq(Keys)
        /\ Len(recency') = Len(recency) - 1
        /\ \A j \in 1 .. i - 1 : recency'[j] = recency[j]
        /\ IsInjective(recency')
        /\ ToSet(recency') = ToSet(recency) \ {k}
    BY <1>1, <1>2, RemoveFromList
  <1>4. recency[1] # k => recency'[1] = recency[1]
    BY <1>1, <1>3
  <1>5. /\ entries' = Restrict(entries, DOMAIN entries \ {k})
        /\ DOMAIN entries' = DOMAIN entries \ {k}
        /\ \A x \in DOMAIN entries' : entries'[x] = entries[x]
    BY DEF remove_entry, Restrict
  <1>6. /\ DOMAIN entries \subseteq Keys
        /\ entries \in [DOMAIN entries -> Entry]
        /\ IsFiniteSet(ChargedBytes(entries))
    BY DEF CacheInv, CacheTypeOK
  <1>7. entries' \in [DOMAIN entries' -> Entry]
    BY <1>5, <1>6 DEF Restrict
  <1>8. /\ IsFiniteSet(ChargedBytes(entries'))
        /\ Cardinality(ChargedBytes(entries')) =
             Cardinality(ChargedBytes(entries)) - n
        /\ Cardinality(ChargedBytes(entries')) \in Nat
    BY <1>5, <1>6, BytesWithout
  <1>9. n \in Nat
    BY <1>6, ChargeType DEF Entry
  <1>10. /\ memory_usage_bytes' = Cardinality(ChargedBytes(entries'))
         /\ memory_usage_bytes' <= Capacity
    BY <1>8, <1>9, CacheAssumption DEF remove_entry, CacheInv, CacheTypeOK, UsageIsCharged
  <1>11. RecencyMatchesEntries'
    BY <1>3, <1>5 DEF CacheInv, RecencyMatchesEntries
  <1>12. IsFiniteSet(ChargedBytes(entries))' /\ UsageIsCharged'
    BY <1>8, <1>10 DEF UsageIsCharged, ChargedBytes, entry_charge
  <1>. QED  BY <1>3, <1>4, <1>5, <1>7, <1>8, <1>10, <1>11, <1>12

\* Cache::mark_mru reorders the list without losing a key.
LEMMA MarkMruKeeps ==
  ASSUME CacheInv, NEW k \in DOMAIN entries, mark_mru(k)
  PROVE  /\ recency' \in Seq(Keys)
         /\ recency'[1] = k
         /\ ToSet(recency') = DOMAIN entries
         /\ IsInjective(recency')
  <1> DEFINE i == RecencyPosition(k)
             r == RemoveAt(recency, i)
  <1>1. /\ recency \in Seq(Keys) /\ IsInjective(recency) /\ k \in Keys
        /\ i \in 1 .. Len(recency) /\ recency[i] = k
    BY PositionOfKey DEF CacheInv, CacheTypeOK, RecencyMatchesEntries
  <1>2. recency' = <<k>> \o r
    BY DEF mark_mru
  <1> HIDE DEF i
  <1>3. /\ r \in Seq(Keys)
        /\ IsInjective(r)
        /\ ToSet(r) = ToSet(recency) \ {k}
    BY <1>1, RemoveFromList
  <1> HIDE DEF r
  <1>4. /\ <<k>> \o r \in Seq(Keys)
        /\ (<<k>> \o r)[1] = k
        /\ IsInjective(<<k>> \o r)
        /\ ToSet(<<k>> \o r) = ToSet(r) \union {k}
    BY <1>1, <1>3, PushFront
  <1>. QED  BY <1>2, <1>3, <1>4 DEF CacheInv, RecencyMatchesEntries

\* A step that touches neither map, list nor total keeps them in step.
LEMMA BooksUnchanged ==
  ASSUME CacheInv, UNCHANGED <<entries, recency, memory_usage_bytes>>
  PROVE  /\ DOMAIN entries' \subseteq Keys
         /\ entries' \in [DOMAIN entries' -> Entry]
         /\ recency' \in Seq(Keys)
         /\ memory_usage_bytes' \in Nat
         /\ RecencyMatchesEntries'
         /\ IsFiniteSet(ChargedBytes(entries))'
         /\ UsageIsCharged'
  BY DEF CacheInv, CacheTypeOK, RecencyMatchesEntries, UsageIsCharged,
         ChargedBytes, entry_charge

\* A counter that is bumped stays a counter.
LEMMA BumpType ==
  ASSUME CacheTypeOK, NEW c \in Counter
  PROVE  Bump(c) \in [Counter -> 0 .. CounterModulus - 1]
  BY CacheAssumption DEF CacheTypeOK, Bump

\* validate_key and the checks of Cache::set return statuses of the enum.
LEMMA StatusType ==
  ASSUME NEW k, NEW v, NEW t
  PROVE  validate_key(k) \in Status /\ set_status(k, v, t) \in Status
  BY DEF validate_key, set_status, Status
------------------------------------------------------------------------------
\* The accounting invariant holds in the empty cache.
LEMMA CacheInvInit == Init => CacheInv
  <1> SUFFICES ASSUME Init PROVE CacheInv
    OBVIOUS
  <1>1. WheelTypeOK
    BY WheelAssumption DEF Init, WheelInit, WheelTypeOK, Slot
  <1>2. ChargedBytes(entries) = {}
    BY DEF Init, ChargedBytes
  <1>3. IsFiniteSet({}) /\ Cardinality({}) = 0
    BY FS_EmptySet
  <1>4. memory_usage_bytes = 0 /\ 0 <= Capacity
    BY CacheAssumption DEF Init
  <1>5. RecencyMatchesEntries
    BY DEF Init, RecencyMatchesEntries, ToSet, IsInjective
  <1>6. CacheTypeOK
    BY <1>1, CacheAssumption, WheelAssumption
    DEF Init, CacheTypeOK, Answer, Status, Counter
  <1>7. UsageIsCharged /\ IsFiniteSet(ChargedBytes(entries))
    BY ONLY <1>2, <1>3, <1>4 DEF UsageIsCharged
  <1>. QED  BY <1>5, <1>6, <1>7 DEF CacheInv, CallConsistent, Init

\* The calls that answer without touching map, list, total or wheel.
LEMMA RefusalKeepsInv ==
  ASSUME CacheInv,
         \/ CallThrows
         \/ \E k \in Keys, v \in Values, t \in RequestTtls :
              SetRejected(k, v, t) \/ ScheduleThrows(k, v, t)
  PROVE  CacheInv'
  <1>1. UNCHANGED <<wheelVars, entries, recency, memory_usage_bytes, counters, op>>
    BY DEF CallThrows, SetRejected, ScheduleThrows
  <1>2. op = NoOp
    BY DEF CallThrows, SetRejected, ScheduleThrows, Idle
  <1>3. /\ generation_source' \in 0 .. MaxGeneration
        /\ reply' \in [status : Status, value : Values \union {NoValue}]
    BY StatusType, WheelAssumption DEF CallThrows, SetRejected, ScheduleThrows,
       Answer, Status, CacheInv, CacheTypeOK
  <1>4. CacheTypeOK'
    BY <1>1, <1>3, BooksUnchanged DEF CacheInv, CacheTypeOK, WheelTypeOK, wheelVars
  <1>. QED  BY <1>1, <1>2, <1>4, BooksUnchanged DEF CacheInv, CallConsistent

\* Cache::set reaching its eviction loop establishes CallConsistent.
LEMMA SetBeginKeepsInv ==
  ASSUME CacheInv, NEW k \in Keys, NEW v \in Values, NEW t \in RequestTtls,
         SetBegin(k, v, t)
  PROVE  CacheInv'
  <1>1. /\ generation_source' \in Generation
        /\ generation_source' \in 0 .. MaxGeneration
        /\ generation_source' > 0
        /\ UNCHANGED <<entries, memory_usage_bytes, counters, reply>>
    BY WheelAssumption DEF SetBegin, CacheInv, CacheTypeOK, Generation
  <1>2. WheelTypeOK'
    <2>1. CASE t > 0
      <3>1. t \in Ttls
        BY <2>1 DEF RequestTtls
      <3>2. Schedule(k, generation_source', t)
        BY <2>1 DEF SetBegin
      <3>. QED  BY <1>1, <3>1, <3>2, ScheduleType DEF CacheInv, CacheTypeOK
    <2>2. CASE ~(t > 0)
      BY <2>2 DEF SetBegin, CacheInv, CacheTypeOK, WheelTypeOK, wheelVars
    <2>. QED  BY <2>1, <2>2
  <1>3. expired' = {}
    BY DEF SetBegin, Idle, Schedule, wheelVars
  <1>4. /\ recency' \in Seq(Keys)
        /\ ToSet(recency') = DOMAIN entries
        /\ IsInjective(recency')
        /\ k \in DOMAIN entries => recency'[1] = k
    BY MarkMruKeeps DEF SetBegin, CacheInv, CacheTypeOK, RecencyMatchesEntries
  <1>5. entry_charge(k, v) \in Nat /\ entry_charge(k, v) <= Capacity
    <2>1. entry_charge(k, v) \in Nat
      BY ChargeType
    <2>2. ~(entry_charge(k, v) > Capacity)
      BY DEF SetBegin, set_status
    <2>. QED  BY <2>1, <2>2, CacheAssumption
  <1>6. k \in DOMAIN entries => entry_charge(k, entries[k].value) \in Nat
    BY ChargeType DEF CacheInv, CacheTypeOK, Entry
  <1>7. op' = [key |-> k, value |-> v, ttl |-> t,
               existing |-> k \in DOMAIN entries,
               old_charge |-> IF k \in DOMAIN entries
                              THEN entry_charge(k, entries[k].value) ELSE 0,
               new_charge |-> entry_charge(k, v)]
    BY DEF SetBegin
  <1>8. op' \in SetCall
    BY <1>5, <1>6, <1>7 DEF SetCall
  <1>9. CacheTypeOK'
    BY <1>1, <1>2, <1>4, <1>8 DEF CacheInv, CacheTypeOK
  <1>10. CallConsistent'
    BY <1>1, <1>3, <1>4, <1>5, <1>7 DEF CallConsistent, entry_charge
  <1>11. /\ RecencyMatchesEntries' /\ UsageIsCharged'
         /\ IsFiniteSet(ChargedBytes(entries))'
    BY <1>1, <1>4 DEF CacheInv, RecencyMatchesEntries, UsageIsCharged,
                      ChargedBytes, entry_charge
  <1>. QED  BY <1>9, <1>10, <1>11 DEF CacheInv

\* Evicting one entry keeps the locals of Cache::set true: the victim is not
\* the entry being overwritten, which is at the other end of the list.
LEMMA VictimIsAnother ==
  ASSUME CacheInv, op # NoOp, NeedsRoom
  PROVE  /\ recency # <<>>
         /\ Last(recency) \in DOMAIN entries
         /\ op.existing => Last(recency) # op.key
  <1>1. op \in SetCall
    BY DEF CacheInv, CacheTypeOK
  <1>2. /\ op.old_charge \in Nat /\ op.new_charge \in Nat
        /\ op.new_charge <= Capacity
        /\ memory_usage_bytes \in Nat /\ Capacity \in Nat
    BY <1>1, CacheAssumption DEF SetCall, CacheInv, CacheTypeOK, CallConsistent
  <1>3. memory_usage_bytes > op.old_charge
    BY <1>2 DEF NeedsRoom
  <1>4. recency # <<>>
    <2> SUFFICES ASSUME recency = <<>> PROVE FALSE
      OBVIOUS
    <2>1. DOMAIN entries = {}
      BY DEF CacheInv, RecencyMatchesEntries, ToSet
    <2>2. ChargedBytes(entries) = {}
      BY <2>1 DEF ChargedBytes
    <2>3. Cardinality({}) = 0
      BY FS_EmptySet
    <2>. QED  BY <1>2, <1>3, <2>2, <2>3 DEF CacheInv, UsageIsCharged
  <1>5. Len(recency) \in 1 .. Len(recency) /\ Last(recency) = recency[Len(recency)]
    BY <1>4 DEF CacheInv, CacheTypeOK, Last
  <1>6. Last(recency) \in DOMAIN entries
    BY <1>5 DEF CacheInv, CacheTypeOK, RecencyMatchesEntries, ToSet
  <1>7. ASSUME op.existing, Last(recency) = op.key PROVE FALSE
    <2>1. recency[1] = op.key /\ op.key \in DOMAIN entries
          /\ op.old_charge = entry_charge(op.key, entries[op.key].value)
      BY <1>7 DEF CacheInv, CallConsistent
    <2>2. Len(recency) = 1
      <3>1. \A x, y \in 1 .. Len(recency) : recency[x] = recency[y] => x = y
        BY DEF CacheInv, CacheTypeOK, RecencyMatchesEntries, IsInjective
      <3>2. 1 \in 1 .. Len(recency) /\ recency[1] = recency[Len(recency)]
        BY <1>5, <1>7, <2>1
      <3>. QED  BY <1>5, <3>1, <3>2
    <2>3. DOMAIN entries = {op.key}
      <3>1. DOMAIN recency = {1}
        BY <2>2 DEF CacheInv, CacheTypeOK
      <3>2. ToSet(recency) = {recency[1]}
        BY <3>1 DEF ToSet
      <3>. QED  BY <2>1, <3>2 DEF CacheInv, RecencyMatchesEntries
    <2>4. ChargedBytes(entries) = {op.key} \X (1 .. op.old_charge)
      BY <2>1, <2>3 DEF ChargedBytes
    <2>5. Cardinality(ChargedBytes(entries)) = op.old_charge
      BY <1>2, <2>4, BytesOfKey
    <2>. QED  BY <1>2, <1>3, <2>5 DEF CacheInv, UsageIsCharged
  <1>. QED  BY <1>4, <1>6, <1>7

\* An eviction in the loop of Cache::set.
LEMMA EvictKeepsInv ==
  ASSUME CacheInv, evict_lru
  PROVE  CacheInv'
  <1> DEFINE k == Last(recency)
  <1>1. /\ op # NoOp /\ NeedsRoom /\ k \in DOMAIN entries /\ remove_entry(k)
        /\ counters' = Bump("eviction")
        /\ UNCHANGED <<wheelVars, generation_source, op, reply>>
    BY DEF evict_lru
  <1>2. op.existing => k # op.key
    BY <1>1, VictimIsAnother
  <1> HIDE DEF k
  <1>3. /\ DOMAIN entries' = DOMAIN entries \ {k}
        /\ \A x \in DOMAIN entries' : entries'[x] = entries[x]
        /\ entries' \in [DOMAIN entries' -> Entry]
        /\ recency' \in Seq(Keys)
        /\ recency[1] # k => recency'[1] = recency[1]
        /\ RecencyMatchesEntries'
        /\ memory_usage_bytes' \in Nat
        /\ IsFiniteSet(ChargedBytes(entries))'
        /\ UsageIsCharged'
    BY <1>1, RemoveEntryKeeps
  <1>4. CacheTypeOK'
    BY <1>1, <1>3, BumpType DEF CacheInv, CacheTypeOK, WheelTypeOK, wheelVars, Counter
  <1>5. CallConsistent'
    <2>1. CallConsistent /\ op' = op /\ expired' = expired
          /\ generation_source' = generation_source
      BY <1>1 DEF CacheInv, wheelVars
    <2>. QED  BY <1>1, <1>2, <1>3, <2>1 DEF CallConsistent, entry_charge
  <1>. QED  BY <1>3, <1>4, <1>5 DEF CacheInv

\* The last assignments of Cache::set for a cached key.
LEMMA ReplaceKeepsInv ==
  ASSUME CacheInv, SetReplace
  PROVE  CacheInv'
  <1> DEFINE k == op.key
             e == [value |-> op.value, generation |-> generation_source]
             rest == Restrict(entries, DOMAIN entries \ {k})
  <1>1. /\ op \in SetCall /\ op' = NoOp /\ ~NeedsRoom
        /\ k \in DOMAIN entries
        /\ op.old_charge = entry_charge(k, entries[k].value)
        /\ op.new_charge = entry_charge(k, op.value)
        /\ op.new_charge <= Capacity
    BY DEF SetReplace, CacheInv, CacheTypeOK, CallConsistent
  <1>2. /\ entries' = [entries EXCEPT ![k] = e]
        /\ DOMAIN entries' = DOMAIN entries
        /\ memory_usage_bytes' = memory_usage_bytes - op.old_charge + op.new_charge
        /\ reply' = Answer("ok", NoValue)
        /\ UNCHANGED <<wheelVars, recency, generation_source, counters>>
    BY DEF SetReplace
  <1>3. e \in Entry /\ k \in Keys
    BY <1>1, WheelAssumption DEF SetReplace, Entry, SetCall, Generation, CacheInv,
       CacheTypeOK, CallConsistent
  <1>4. /\ DOMAIN entries \subseteq Keys
        /\ entries \in [DOMAIN entries -> Entry]
        /\ IsFiniteSet(ChargedBytes(entries))
    BY DEF CacheInv, CacheTypeOK
  <1>5. entries' \in [DOMAIN entries' -> Entry]
    BY <1>1, <1>2, <1>3, <1>4
  <1>6. /\ DOMAIN rest = DOMAIN entries \ {k}
        /\ DOMAIN rest \subseteq Keys
        /\ rest \in [DOMAIN rest -> Entry]
        /\ entries' = [x \in DOMAIN rest \union {k} |->
                         IF x = k THEN e ELSE rest[x]]
    BY <1>1, <1>2, <1>4 DEF Restrict
  <1>7. /\ IsFiniteSet(ChargedBytes(rest))
        /\ Cardinality(ChargedBytes(rest)) =
             Cardinality(ChargedBytes(entries)) - op.old_charge
    BY <1>1, <1>4, BytesWithout
  <1> HIDE DEF rest, e
  <1>8. e.value = op.value
    BY DEF e
  <1>9. /\ IsFiniteSet(ChargedBytes(entries'))
        /\ Cardinality(ChargedBytes(entries')) =
             Cardinality(ChargedBytes(rest)) + entry_charge(k, e.value)
    BY <1>3, <1>6, <1>7, BytesWith
  <1>10. /\ memory_usage_bytes' = Cardinality(ChargedBytes(entries'))
         /\ memory_usage_bytes' \in Nat /\ memory_usage_bytes' <= Capacity
    <2>1. /\ op.old_charge \in Nat /\ op.new_charge \in Nat /\ Capacity \in Nat
          /\ memory_usage_bytes \in Nat
          /\ memory_usage_bytes = Cardinality(ChargedBytes(entries))
      BY <1>1, CacheAssumption DEF SetCall, CacheInv, CacheTypeOK, UsageIsCharged
    <2>2. Cardinality(ChargedBytes(rest)) \in Nat
      BY <1>7, FS_CardinalityType
    <2>3. memory_usage_bytes - op.old_charge <= Capacity - op.new_charge
      BY <1>1, <2>1 DEF NeedsRoom
    <2>. QED  BY <1>1, <1>2, <1>7, <1>8, <1>9, <2>1, <2>2, <2>3
  <1>11. UsageIsCharged' /\ IsFiniteSet(ChargedBytes(entries))'
    BY <1>9, <1>10 DEF UsageIsCharged, ChargedBytes, entry_charge
  <1>12. RecencyMatchesEntries'
    BY <1>2 DEF CacheInv, RecencyMatchesEntries
  <1>13. CacheTypeOK'
    BY <1>1, <1>2, <1>4, <1>5, <1>10 DEF CacheInv, CacheTypeOK, WheelTypeOK,
       wheelVars, Answer, Status
  <1>. QED  BY <1>1, <1>11, <1>12, <1>13 DEF CacheInv, CallConsistent

\* The last assignments of Cache::set for a new key.
LEMMA InsertKeepsInv ==
  ASSUME CacheInv, SetInsert
  PROVE  CacheInv'
  <1> DEFINE k == op.key
             e == [value |-> op.value, generation |-> generation_source]
  <1>1. /\ op \in SetCall /\ op' = NoOp /\ ~NeedsRoom
        /\ k \notin DOMAIN entries
        /\ op.old_charge = 0
        /\ op.new_charge = entry_charge(k, op.value)
        /\ op.new_charge <= Capacity
    BY DEF SetInsert, CacheInv, CacheTypeOK, CallConsistent
  <1>2. /\ entries' = [x \in DOMAIN entries \union {k} |->
                         IF x = k THEN e ELSE entries[x]]
        /\ DOMAIN entries' = DOMAIN entries \union {k}
        /\ recency' = <<k>> \o recency
        /\ memory_usage_bytes' = memory_usage_bytes + op.new_charge
        /\ reply' = Answer("ok", NoValue)
        /\ UNCHANGED <<wheelVars, generation_source, counters>>
    BY DEF SetInsert
  <1>3. e \in Entry /\ k \in Keys
    BY <1>1, WheelAssumption DEF SetInsert, Entry, SetCall, Generation, CacheInv,
       CacheTypeOK, CallConsistent
  <1>4. /\ DOMAIN entries \subseteq Keys
        /\ entries \in [DOMAIN entries -> Entry]
        /\ IsFiniteSet(ChargedBytes(entries))
    BY DEF CacheInv, CacheTypeOK
  <1>5. entries' \in [DOMAIN entries' -> Entry]
    BY <1>2, <1>3, <1>4
  <1> HIDE DEF e
  <1>6. e.value = op.value
    BY DEF e
  <1>7. /\ IsFiniteSet(ChargedBytes(entries'))
        /\ Cardinality(ChargedBytes(entries')) =
             Cardinality(ChargedBytes(entries)) + entry_charge(k, e.value)
    <2>1. k \in Keys \ DOMAIN entries
      BY <1>1, <1>3
    <2>2. entries' = [x \in DOMAIN entries \union {k} |->
                        IF x = k THEN e ELSE entries[x]]
      BY <1>2
    <2> HIDE DEF k
    <2>. QED  BY <1>3, <1>4, <2>1, <2>2, BytesWith
  <1>8. /\ memory_usage_bytes' = Cardinality(ChargedBytes(entries'))
        /\ memory_usage_bytes' \in Nat /\ memory_usage_bytes' <= Capacity
    <2>1. /\ op.new_charge \in Nat /\ Capacity \in Nat
          /\ memory_usage_bytes \in Nat
          /\ memory_usage_bytes = Cardinality(ChargedBytes(entries))
      BY <1>1, CacheAssumption DEF SetCall, CacheInv, CacheTypeOK, UsageIsCharged
    <2>2. memory_usage_bytes <= Capacity - op.new_charge
      BY <1>1, <2>1 DEF NeedsRoom
    <2>. QED  BY <1>1, <1>2, <1>6, <1>7, <2>1, <2>2
  <1>9. UsageIsCharged' /\ IsFiniteSet(ChargedBytes(entries))'
    BY <1>7, <1>8 DEF UsageIsCharged, ChargedBytes, entry_charge
  <1>10. /\ recency' \in Seq(Keys)
         /\ IsInjective(recency')
         /\ ToSet(recency') = ToSet(recency) \union {k}
    <2>1. /\ recency \in Seq(Keys) /\ IsInjective(recency) /\ k \notin ToSet(recency)
      BY <1>1 DEF CacheInv, CacheTypeOK, RecencyMatchesEntries
    <2>. QED  BY <1>2, <1>3, <2>1, PushFront
  <1>11. RecencyMatchesEntries'
    BY <1>2, <1>10 DEF CacheInv, RecencyMatchesEntries
  <1>12. CacheTypeOK'
    BY <1>1, <1>2, <1>3, <1>4, <1>5, <1>8, <1>10 DEF CacheInv, CacheTypeOK,
       WheelTypeOK, wheelVars, Answer, Status
  <1>. QED  BY <1>1, <1>9, <1>11, <1>12 DEF CacheInv, CallConsistent

\* A throwing insertion changes neither map nor list.
LEMMA InsertThrowsKeepsInv ==
  ASSUME CacheInv, SetInsertThrows
  PROVE  CacheInv'
  <1>1. /\ op' = NoOp
        /\ reply' = Answer("throws", NoValue)
        /\ UNCHANGED <<wheelVars, entries, recency, memory_usage_bytes,
                       generation_source, counters>>
    BY DEF SetInsertThrows
  <1>2. CacheTypeOK'
    BY <1>1, BooksUnchanged DEF CacheInv, CacheTypeOK, WheelTypeOK, wheelVars,
       Answer, Status
  <1>. QED  BY <1>1, <1>2, BooksUnchanged DEF CacheInv, CallConsistent

\* Cache::get.
LEMMA GetKeepsInv ==
  ASSUME CacheInv, NEW k \in Keys, get(k)
  PROVE  CacheInv'
  <1>1. /\ op = NoOp
        /\ UNCHANGED <<wheelVars, entries, memory_usage_bytes, generation_source, op>>
    BY DEF get, Idle
  <1>2. /\ recency' \in Seq(Keys)
        /\ RecencyMatchesEntries'
    <2>1. CASE recency' = recency
      BY <1>1, <2>1 DEF CacheInv, CacheTypeOK, RecencyMatchesEntries
    <2>2. CASE k \in DOMAIN entries /\ mark_mru(k)
      BY <1>1, <2>2, MarkMruKeeps DEF RecencyMatchesEntries
    <2>. QED  BY <2>1, <2>2 DEF get
  <1>3. /\ counters' \in [Counter -> 0 .. CounterModulus - 1]
        /\ reply' \in [status : Status, value : Values \union {NoValue}]
    <2>1. CASE UNCHANGED counters /\ reply' = Answer(validate_key(k), NoValue)
      BY <2>1, StatusType DEF CacheInv, CacheTypeOK, Answer
    <2>2. CASE counters' = Bump("miss") /\ reply' = Answer("not_found", NoValue)
      BY <2>2, BumpType DEF CacheInv, Answer, Status, Counter
    <2>3. CASE /\ k \in DOMAIN entries
               /\ counters' = Bump("hit")
               /\ reply' = Answer("ok", entries[k].value)
      <3>1. entries[k].value \in Values
        BY <2>3 DEF CacheInv, CacheTypeOK, Entry
      <3>. QED  BY <2>3, <3>1, BumpType DEF CacheInv, Answer, Status, Counter
    <2>. QED  BY <2>1, <2>2, <2>3 DEF get
  <1>4. CacheTypeOK'
    BY <1>1, <1>2, <1>3 DEF CacheInv, CacheTypeOK, WheelTypeOK, wheelVars
  <1>5. UsageIsCharged' /\ IsFiniteSet(ChargedBytes(entries))'
    BY <1>1 DEF CacheInv, UsageIsCharged, ChargedBytes, entry_charge
  <1>. QED  BY <1>1, <1>2, <1>4, <1>5 DEF CacheInv, CallConsistent

\* Cache::erase.
LEMMA EraseKeepsInv ==
  ASSUME CacheInv, NEW k \in Keys, erase(k)
  PROVE  CacheInv'
  <1>1. op = NoOp /\ UNCHANGED <<wheelVars, generation_source, counters, op>>
    BY DEF erase, Idle
  <1>2. reply' \in [status : Status, value : Values \union {NoValue}]
    BY StatusType DEF erase, Answer, Status
  <1>3. /\ DOMAIN entries' \subseteq Keys
        /\ entries' \in [DOMAIN entries' -> Entry]
        /\ recency' \in Seq(Keys)
        /\ memory_usage_bytes' \in Nat
        /\ RecencyMatchesEntries'
        /\ IsFiniteSet(ChargedBytes(entries))'
        /\ UsageIsCharged'
    <2>1. CASE UNCHANGED <<entries, recency, memory_usage_bytes>>
      BY <2>1, BooksUnchanged
    <2>2. CASE k \in DOMAIN entries /\ remove_entry(k)
      BY <2>2, RemoveEntryKeeps DEF CacheInv, CacheTypeOK
    <2>. QED  BY <2>1, <2>2 DEF erase
  <1>4. CacheTypeOK'
    BY <1>1, <1>2, <1>3 DEF CacheInv, CacheTypeOK, WheelTypeOK, wheelVars
  <1>. QED  BY <1>1, <1>3, <1>4 DEF CacheInv, CallConsistent

\* Cache::tick taking the due events off the wheel.
LEMMA TickKeepsInv ==
  ASSUME CacheInv, tick
  PROVE  CacheInv'
  <1>1. op = NoOp /\ WheelTick /\ UNCHANGED cacheVars
    BY DEF tick, Idle
  <1>2. CacheTypeOK'
    BY <1>1, TickType, BooksUnchanged DEF CacheInv, CacheTypeOK, cacheVars
  <1>. QED  BY <1>1, <1>2, BooksUnchanged DEF CacheInv, CallConsistent, cacheVars

\* One event handled by Cache::tick.
LEMMA HandleEventKeepsInv ==
  ASSUME CacheInv, NEW event \in expired, HandleEvent(event)
  PROVE  CacheInv'
  <1>1. /\ expired' = expired \ {event}
        /\ UNCHANGED <<current_slot, slots, generation_source, op, reply>>
    BY DEF HandleEvent
  <1>2. op = NoOp
    BY DEF CacheInv, CallConsistent
  <1>3. counters' \in [Counter -> 0 .. CounterModulus - 1]
    BY BumpType DEF HandleEvent, CacheInv, CacheTypeOK, Counter
  <1>4. /\ DOMAIN entries' \subseteq Keys
        /\ entries' \in [DOMAIN entries' -> Entry]
        /\ recency' \in Seq(Keys)
        /\ memory_usage_bytes' \in Nat
        /\ RecencyMatchesEntries'
        /\ IsFiniteSet(ChargedBytes(entries))'
        /\ UsageIsCharged'
    <2>1. CASE UNCHANGED <<entries, recency, memory_usage_bytes>>
      BY <2>1, BooksUnchanged
    <2>2. CASE event.key \in DOMAIN entries /\ remove_entry(event.key)
      BY <2>2, RemoveEntryKeeps DEF CacheInv, CacheTypeOK
    <2>. QED  BY <2>1, <2>2 DEF HandleEvent, Current
  <1>5. CacheTypeOK'
    BY <1>1, <1>3, <1>4 DEF CacheInv, CacheTypeOK, WheelTypeOK
  <1>. QED  BY <1>1, <1>2, <1>4, <1>5 DEF CacheInv, CallConsistent
------------------------------------------------------------------------------
\* Every step of the cache keeps the accounting invariant.
LEMMA CacheInvNext == CacheInv /\ [Next]_vars => CacheInv'
  <1> SUFFICES ASSUME CacheInv, [Next]_vars PROVE CacheInv'
    OBVIOUS
  <1>1. CASE UNCHANGED vars
    <2>1. CacheTypeOK'
      BY <1>1, BooksUnchanged DEF vars, cacheVars, wheelVars, CacheInv, CacheTypeOK,
         WheelTypeOK
    <2>. QED  BY <1>1, <2>1, BooksUnchanged DEF vars, cacheVars, wheelVars, CacheInv,
              CallConsistent, entry_charge
  <1>2. CASE Next
    BY <1>2, RefusalKeepsInv, SetBeginKeepsInv, EvictKeepsInv, ReplaceKeepsInv,
       InsertKeepsInv, InsertThrowsKeepsInv, GetKeepsInv, EraseKeepsInv,
       TickKeepsInv, HandleEventKeepsInv DEF Next
  <1>. QED  BY <1>1, <1>2

\* The cache is type correct, its LRU list and map agree, memory_usage_bytes_
\* is the sum of the charges of the cached entries and within the capacity,
\* and the locals Cache::set keeps across its eviction loop stay true.
THEOREM CacheInvariant == Spec => []CacheInv
  BY CacheInvInit, CacheInvNext, PTL DEF Spec

\* The part of CacheInvariant about accounting: every call charges and
\* releases exactly the bytes of the entries it adds, replaces and removes.
THEOREM ExactAccounting == Spec => []UsageIsCharged
  <1>1. CacheInv => UsageIsCharged
    BY DEF CacheInv
  <1>. QED  BY <1>1, CacheInvariant, PTL

\* The part of CacheInvariant about the LRU list.
THEOREM ListMatchesMap == Spec => []RecencyMatchesEntries
  <1>1. CacheInv => RecencyMatchesEntries
    BY DEF CacheInv
  <1>. QED  BY <1>1, CacheInvariant, PTL

\* The asserts of evict_lru never fail, whatever the sizes of keys and values
\* and the capacity: the loop of Cache::set always finds a victim, it never
\* evicts the entry it overwrites, and its unsigned subtractions never wrap.
THEOREM VictimAlwaysExists == Spec => []VictimExists
  <1>1. CacheInv => VictimExists
    <2> SUFFICES ASSUME CacheInv, op # NoOp
                 PROVE  /\ op.old_charge <= memory_usage_bytes
                        /\ op.new_charge <= Capacity
                        /\ op.existing => op.key \in DOMAIN entries
                        /\ NeedsRoom =>
                             /\ recency # <<>>
                             /\ Last(recency) \in DOMAIN entries
                             /\ Last(recency) # op.key
      BY DEF VictimExists
    <2>1. op \in SetCall /\ memory_usage_bytes \in Nat
      BY DEF CacheInv, CacheTypeOK
    <2>2. op.old_charge <= memory_usage_bytes
      <3>1. CASE ~op.existing
        BY <2>1, <3>1 DEF CacheInv, CallConsistent
      <3>2. CASE op.existing
        <4>1. /\ op.key \in DOMAIN entries
              /\ op.old_charge = entry_charge(op.key, entries[op.key].value)
              /\ op.old_charge \in Nat
          BY <2>1, <3>2 DEF CacheInv, CallConsistent, SetCall
        <4>2. Cardinality(ChargedBytes(entries)) - op.old_charge \in Nat
          BY <4>1, BytesWithout DEF CacheInv, CacheTypeOK
        <4>. QED  BY <2>1, <4>1, <4>2 DEF CacheInv, UsageIsCharged
      <3>. QED  BY <3>1, <3>2
    <2>3. ASSUME NeedsRoom
          PROVE  /\ recency # <<>>
                 /\ Last(recency) \in DOMAIN entries
                 /\ Last(recency) # op.key
      <3>1. ~op.existing => op.key \notin DOMAIN entries
        BY DEF CacheInv, CallConsistent
      <3>. QED  BY <2>3, <3>1, VictimIsAnother
    <2>. QED  BY <2>2, <2>3 DEF CacheInv, CallConsistent
  <1>. QED  BY <1>1, CacheInvariant, PTL
==============================================================================
