----------------------------- MODULE CacheMemory -----------------------------
(***************************************************************************)
(* Who owns the blocks of the value allocator: the CacheEntry objects of   *)
(* the map of src/cache/cache.cpp and those that a Cache::set under way    *)
(* moves its value through, composed with the allocator itself.  When a    *)
(* set evicts, what it evicts and how often is left open here (the module  *)
(* Cache decides it); any other entry may be evicted.                      *)
(***************************************************************************)
EXTENDS SlabAllocator

CONSTANTS
  Keys,
  Null,      \* the data pointer of an empty value
  NoCall     \* no Cache::set is under way

ASSUME MemoryAssumption == Null \notin HeapBlocks \union (Nat \X Nat)

VARIABLES
  stored,    \* the CacheEntry of each cached key: its data_ and size_
  frame      \* the Cache::set under way: its key, the CacheEntry objects it has
             \* constructed, oldest first, and whether it returns or unwinds; or
             \* NoCall

memoryVars == <<backend, slabVars, stored, frame>>

CacheEntry(data, size) == [data |-> data, size |-> size]

\* CacheEntry::CacheEntry: a block of exactly the value's size.
Construct(size, entry) ==
  \/ size = 0 /\ entry = CacheEntry(Null, 0) /\ UNCHANGED slabVars
  \/ \E block \in Obtainable(size) :
       size > 0 /\ allocate(size, block) /\ entry = CacheEntry(block, size)

\* CacheEntry::~CacheEntry: one that was moved from has no allocator, and one
\* of an empty value gives back a null pointer.
Destroy(entry) ==
  \/ entry.data = Null /\ UNCHANGED slabVars
  \/ entry.data # Null /\ deallocate(entry.data, entry.size)

\* The set under way has changed nothing yet.
Preparing == frame # NoCall /\ ~frame.leaving /\ Len(frame.objects) = 1

\* Cache::set copying the value before it changes anything.
SetAllocates(key, size) ==
  /\ frame = NoCall
  /\ \E data \in Obtainable(size) \union {Null} :
       /\ Construct(size, CacheEntry(data, size))
       /\ frame' = [key |-> key, objects |-> <<CacheEntry(data, size)>>, leaving |-> FALSE]
  /\ UNCHANGED stored

\* remove_entry: the map element is destroyed and its value released.
RemoveEntry(key) ==
  /\ Destroy(stored[key])
  /\ stored' = Restrict(stored, DOMAIN stored \ {key})
  /\ UNCHANGED frame

SetEvicts(key) ==
  /\ Preparing
  /\ key # frame.key
  /\ RemoveEntry(key)

\* Mutant of Moved: the object moved from keeps its pointer.
MovedAndKept(objects) == Append(objects, Last(objects))

\* CacheEntry's move constructor: a new object takes the value of the last one,
\* which is left with none.
Moved(objects) ==
  Append([objects EXCEPT ![Len(objects)] = CacheEntry(Null, 0)], Last(objects))

\* The value is moved into the parameter of replace_value; or into the
\* StoredEntry that emplace is given and from there into the map's new node.
SetMoves ==
  /\ frame # NoCall /\ ~frame.leaving
  /\ Len(frame.objects) < (IF frame.key \in DOMAIN stored THEN 2 ELSE 3)
  /\ frame' = [frame EXCEPT !.objects = Moved(@)]
  /\ UNCHANGED <<slabVars, stored>>

\* CacheEntry::replace_value: the parameter and the entry swap their values.
replace_value ==
  /\ frame # NoCall /\ ~frame.leaving
  /\ frame.key \in DOMAIN stored /\ Len(frame.objects) = 2
  /\ stored' = [stored EXCEPT ![frame.key] = frame.objects[2]]
  /\ frame' = [frame EXCEPT !.objects[2] = stored[frame.key], !.leaving = TRUE]
  /\ UNCHANGED slabVars

\* emplace links the node that holds the value.
SetInserts ==
  /\ frame # NoCall /\ ~frame.leaving
  /\ frame.key \notin DOMAIN stored /\ Len(frame.objects) = 3
  /\ stored' = [k \in DOMAIN stored \union {frame.key} |->
                  IF k = frame.key THEN frame.objects[3] ELSE stored[k]]
  /\ frame' = [frame EXCEPT !.objects = Front(@), !.leaving = TRUE]
  /\ UNCHANGED slabVars

\* next_generation, schedule or push_front throws, or emplace does: for want of
\* a node, or of buckets once the value is in the node.
SetThrows ==
  /\ frame # NoCall /\ ~frame.leaving
  /\ Preparing \/ frame.key \notin DOMAIN stored
  /\ frame' = [frame EXCEPT !.leaving = TRUE]
  /\ UNCHANGED <<slabVars, stored>>

\* Returning or unwinding destroys what the set has constructed, last first.
SetDestroys ==
  /\ frame # NoCall /\ frame.leaving
  /\ Destroy(Last(frame.objects))
  /\ frame' = IF Len(frame.objects) = 1 THEN NoCall
              ELSE [frame EXCEPT !.objects = Front(@)]
  /\ UNCHANGED stored

\* Cache::erase, or Cache::tick for an entry that is due.
EraseOrExpire(key) ==
  /\ frame = NoCall
  /\ RemoveEntry(key)

MemoryInit ==
  /\ SlabInit
  /\ stored = [k \in {} |-> NoCall]
  /\ frame = NoCall

MemoryNext ==
  /\ UNCHANGED backend
  /\ \/ \E key \in Keys, size \in Sizes \union {0} : SetAllocates(key, size)
     \/ \E key \in DOMAIN stored : SetEvicts(key) \/ EraseOrExpire(key)
     \/ SetMoves \/ replace_value \/ SetInserts
     \/ SetThrows \/ SetDestroys

MemorySpec == MemoryInit /\ [][MemoryNext]_memoryVars
------------------------------------------------------------------------------
\* Every CacheEntry that exists, by the place it is in: the map, or the frame of
\* a set.
Holders ==
  LET inMap == {<<"map", key>> : key \in DOMAIN stored}
      inSet == IF frame = NoCall THEN {}
               ELSE {<<"set", i>> : i \in DOMAIN frame.objects}
  IN  [h \in inMap \union inSet |->
         IF h[1] = "map" THEN stored[h[2]] ELSE frame.objects[h[2]]]

\* Every block the allocator regards as in use belongs to exactly one
\* CacheEntry, which remembers the size it asked for: wherever a value has been
\* moved when something throws, it is not lost, an object it was moved from does
\* not release it again, and deallocate gets the original size ("The size must
\* exactly match the original non-zero allocation request").
OwnedOnce ==
  /\ {Holders[h].data : h \in DOMAIN Holders} \ {Null} = DOMAIN live
  /\ \A h \in DOMAIN Holders :
       IF Holders[h].data = Null THEN Holders[h].size = 0
       ELSE /\ live[Holders[h].data] = Holders[h].size
            /\ \A i \in DOMAIN Holders \ {h} : Holders[i].data # Holders[h].data
==============================================================================
