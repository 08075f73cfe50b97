---------------------------- MODULE SlabAllocator ----------------------------
(***************************************************************************)
(* The value allocators of src/memory.  SlabAllocator keeps one LIFO free  *)
(* list per size class, slabs that are carved into blocks and never given  *)
(* back, operator new for larger requests, and metrics; SystemAllocator    *)
(* asks operator new for everything.  A block of a slab is the pair of its *)
(* slab's number and its byte offset.  A request that fails (operator new  *)
(* or the vector of slabs throws) changes nothing, and neither does one of *)
(* zero bytes, which is answered with a null pointer.                      *)
(***************************************************************************)
EXTENDS Integers, FiniteSets, SequencesExt

CONSTANTS
  SizeClasses,   \* size_classes, ascending
  SlabSize,      \* slab_size
  Sizes,         \* the non-zero sizes callers ask for
  HeapBlocks,    \* blocks operator new hands out for one value
  MaxSlabs,      \* how many slabs operator new can provide
  CountModulus   \* the two call counters are std::size_t and wrap

Class == DOMAIN SizeClasses

ASSUME SlabAssumption ==
  /\ SizeClasses \in Seq(Nat \ {0}) /\ SizeClasses # <<>>
  /\ \A i, j \in Class : i < j => SizeClasses[i] < SizeClasses[j]
  /\ SlabSize \in Nat
  /\ \A c \in Class : SlabSize >= SizeClasses[c] /\ SlabSize % SizeClasses[c] = 0
  /\ Sizes \subseteq Nat \ {0}
  /\ HeapBlocks \cap (Nat \X Nat) = {}
  /\ MaxSlabs \in Nat
  /\ CountModulus \in Nat \ {0}

\* The backends make_value_allocator knows.
AllocatorBackend == {"slab", "system"}

VARIABLES
  backend,   \* the AllocatorBackend, which the configuration fixes for good
  slabs,     \* the class each slab belongs to, in the order slabs were added
  free,      \* free_head_ of each class: its free blocks, head first
  live,      \* the size asked for each block that callers hold
  metrics    \* metrics_

slabVars == <<slabs, free, live, metrics>>

LargestClass == SizeClasses[Len(SizeClasses)]

\* The request is served from a slab.
Small(size) == backend = "slab" /\ size <= LargestClass

\* Mutant of class_index: the size is rounded down to a class.
class_below(size) ==
  CHOOSE c \in Class : \A d \in Class :
    (SizeClasses[d] <= size => d <= c) /\ (SizeClasses[c] <= size \/ c = 1)

class_index(size) ==
  CHOOSE c \in Class : /\ size <= SizeClasses[c]
                       /\ \A d \in Class : size <= SizeClasses[d] => c <= d

\* The free list SlabClass::add_slab builds: every block is pushed at the head.
Carved(slab, class) ==
  LET count == SlabSize \div SizeClasses[class]
  IN  [i \in 1 .. count |-> <<slab, (count - i) * SizeClasses[class]>>]

Counted(calls) == (calls + 1) % CountModulus

Hand(block, size) ==
  live' = [b \in DOMAIN live \union {block} |-> IF b = block THEN size ELSE live[b]]

\* Mutant of Unlinked: the block stays on the free list.
StillLinked(blocks) == blocks

\* The free list without the block that is handed out.
Unlinked(blocks) == Tail(blocks)

\* Mutant of FreeGained: the block taken from the new slab counts as free.
FreeGainedWhole(class) == SlabSize

\* The free bytes a new slab adds when its first block is taken at once.
FreeGained(class) == SlabSize - SizeClasses[class]

TakeBack(block) == live' = Restrict(live, DOMAIN live \ {block})

\* SlabAllocator::allocate with a free block of the class at hand.
AllocateFree(size, block) ==
  LET c == class_index(size)
  IN  /\ Small(size)
      /\ free[c] # <<>>
      /\ block = Head(free[c])
      /\ Hand(block, size)
      /\ free' = [free EXCEPT ![c] = Unlinked(@)]
      /\ metrics' = [metrics EXCEPT
           !.used = @ + size,
           !.free = @ - SizeClasses[c],
           !.fragmentation = @ + (SizeClasses[c] - size),
           !.allocations = Counted(@)]
      /\ UNCHANGED slabs

\* SlabAllocator::allocate for a class that has to add a slab first.
AllocateSlab(size, block) ==
  LET c == class_index(size)
      fresh == Carved(Len(slabs) + 1, c)
  IN  /\ Small(size)
      /\ free[c] = <<>>
      /\ Len(slabs) < MaxSlabs
      /\ slabs' = Append(slabs, c)
      /\ block = Head(fresh)
      /\ Hand(block, size)
      /\ free' = [free EXCEPT ![c] = Tail(fresh)]
      /\ metrics' = [metrics EXCEPT
           !.allocated = @ + SlabSize,
           !.used = @ + size,
           !.free = @ + FreeGained(c),
           !.fragmentation = @ + (SizeClasses[c] - size),
           !.allocations = Counted(@),
           !.slabs = @ + 1]

\* SlabAllocator::allocate falling back to operator new, and the whole of
\* SystemAllocator::allocate.
AllocateHeap(size, block) ==
  /\ ~Small(size)
  /\ block \in HeapBlocks \ DOMAIN live
  /\ Hand(block, size)
  /\ metrics' = [metrics EXCEPT
       !.allocated = @ + size,
       !.used = @ + size,
       !.allocations = Counted(@)]
  /\ UNCHANGED <<slabs, free>>

\* SlabAllocator::deallocate of a block of a slab.
DeallocateSmall(block, size) ==
  LET c == class_index(size)
  IN  /\ Small(size)
      /\ TakeBack(block)
      /\ free' = [free EXCEPT ![c] = <<block>> \o @]
      /\ metrics' = [metrics EXCEPT
           !.used = @ - size,
           !.free = @ + SizeClasses[c],
           !.fragmentation = @ - (SizeClasses[c] - size),
           !.deallocations = Counted(@)]
      /\ UNCHANGED slabs

\* SlabAllocator::deallocate of a larger block, and the whole of
\* SystemAllocator::deallocate.
DeallocateHeap(block, size) ==
  /\ ~Small(size)
  /\ TakeBack(block)
  /\ metrics' = [metrics EXCEPT
       !.allocated = @ - size,
       !.used = @ - size,
       !.deallocations = Counted(@)]
  /\ UNCHANGED <<slabs, free>>

\* The block the next request of this size can be given.
Obtainable(size) ==
  LET c == class_index(size)
  IN  IF ~Small(size) THEN HeapBlocks \ DOMAIN live
      ELSE IF free[c] # <<>> THEN {Head(free[c])}
      ELSE IF Len(slabs) < MaxSlabs THEN {Head(Carved(Len(slabs) + 1, c))}
      ELSE {}

allocate(size, block) ==
  \/ AllocateFree(size, block)
  \/ AllocateSlab(size, block)
  \/ AllocateHeap(size, block)

deallocate(block, size) == DeallocateSmall(block, size) \/ DeallocateHeap(block, size)

SlabInit ==
  /\ backend \in AllocatorBackend
  /\ slabs = <<>>
  /\ free = [c \in Class |-> <<>>]
  /\ live = [b \in {} |-> 0]
  /\ metrics = [allocated |-> 0, used |-> 0, free |-> 0, fragmentation |-> 0,
                allocations |-> 0, deallocations |-> 0, slabs |-> 0]
------------------------------------------------------------------------------
\* The blocks a slab of class c is carved into.
BlocksOf(slab, c) ==
  {<<slab, i * SizeClasses[c]>> : i \in 0 .. (SlabSize \div SizeClasses[c]) - 1}

\* Every block of every slab is either on the free list of its own class, once,
\* or held by one caller, for a size of that class: no order of allocate and
\* deallocate hands a block out twice, loses it, or files it under another
\* class, where a larger request would run over its end.
BlocksPartitioned ==
  /\ \A c \in Class :
       /\ IsInjective(free[c])
       /\ ToSet(free[c]) \cap DOMAIN live = {}
       /\ \A b \in ToSet(free[c]) :
            \E s \in DOMAIN slabs : slabs[s] = c /\ b \in BlocksOf(s, c)
  /\ \A s \in DOMAIN slabs :
       BlocksOf(s, slabs[s]) \subseteq ToSet(free[slabs[s]]) \union DOMAIN live
  /\ \A b \in DOMAIN live :
       IF Small(live[b])
       THEN \E s \in DOMAIN slabs :
              slabs[s] = class_index(live[b]) /\ b \in BlocksOf(s, slabs[s])
       ELSE b \in HeapBlocks

\* The addresses a caller may use through a block.
Extent(block, size) == {<<block[1], block[2] + i>> : i \in 0 .. size - 1}

\* What two callers hold never overlaps and never leaves its slab.
ExtentsDisjoint ==
  \A b \in DOMAIN live : Small(live[b]) =>
    /\ b[2] + live[b] <= SlabSize
    /\ \A d \in DOMAIN live \ {b} : Small(live[d]) =>
         Extent(b, live[b]) \cap Extent(d, live[d]) = {}

\* The number of units a function assigns, one element per unit.
Tally(f) == Cardinality(UNION {{x} \X (1 .. f[x]) : x \in DOMAIN f})

\* The metrics describe the allocator exactly after every call: no subtraction
\* of allocate or deallocate drifts or wraps, whatever the order of the calls.
MetricsExact ==
  LET small == {b \in DOMAIN live : Small(live[b])}
  IN  /\ metrics.used = Tally(live)
      /\ metrics.fragmentation =
           Tally([b \in small |-> SizeClasses[class_index(live[b])] - live[b]])
      /\ metrics.free = Tally([c \in Class |-> Len(free[c]) * SizeClasses[c]])
      /\ metrics.allocated =
           (SlabSize * Len(slabs)) + Tally(Restrict(live, DOMAIN live \ small))
      /\ metrics.slabs = Len(slabs)
      /\ (metrics.allocations - metrics.deallocations) % CountModulus =
           Cardinality(DOMAIN live) % CountModulus
==============================================================================
