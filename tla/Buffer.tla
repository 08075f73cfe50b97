------------------------------- MODULE Buffer -------------------------------
(***************************************************************************)
(* src/net/buffer.cpp: a vector of bytes with a read index.  Appending     *)
(* uses the free space behind the bytes, or moves the unread bytes to the  *)
(* front, or moves them to a larger vector.  A byte of the vector that is  *)
(* reserved but holds nothing is not modelled; a vector reserves exactly   *)
(* what it is asked for.                                                   *)
(***************************************************************************)
EXTENDS Integers, SequencesExt

CONSTANTS
  Chunks,            \* byte strings that are appended
  InitialCapacity,   \* initial_capacity of the constructor
  MaxSize,           \* storage_.max_size()
  MaxReadable        \* bound: unread bytes, kept by the connection's limits

ASSUME BufferAssumption ==
  /\ InitialCapacity \in Nat /\ MaxSize \in Nat /\ MaxReadable \in Nat
  /\ InitialCapacity <= MaxSize

VARIABLES
  storage,        \* storage_
  capacity,       \* storage_.capacity()
  reader_index,   \* reader_index_
  peak            \* the most unread bytes there have been (history)

vars == <<storage, capacity, reader_index, peak>>

readable_bytes == Len(storage) - reader_index

writable_bytes == capacity - Len(storage)

readable_view == SubSeq(storage, reader_index + 1, Len(storage))

\* The room there is for length bytes more: behind, in front, or elsewhere.
Enough(length) == length <= writable_bytes

\* Mutant of Compactable: the front is never reused.
NeverCompactable(length) == FALSE

Compactable(length) == ~Enough(length) /\ length <= reader_index + writable_bytes

Grown(length) == Max({readable_bytes + length, capacity * 2})

Note(size) == peak' = Max({peak, size})
------------------------------------------------------------------------------
\* append when prepare_append has nothing to do.
AppendInPlace(chunk) ==
  /\ Enough(Len(chunk))
  /\ storage' = storage \o chunk
  /\ Note(readable_bytes + Len(chunk))
  /\ UNCHANGED <<capacity, reader_index>>

\* Mutant of AppendCompacting: the vector is shrunk, the bytes are not moved.
AppendUnmoved(chunk) ==
  /\ Compactable(Len(chunk))
  /\ storage' = SubSeq(storage, 1, readable_bytes) \o chunk
  /\ reader_index' = 0
  /\ Note(readable_bytes + Len(chunk))
  /\ UNCHANGED capacity

\* append after prepare_append has moved the unread bytes to the front.
AppendCompacting(chunk) ==
  /\ Compactable(Len(chunk))
  /\ storage' = readable_view \o chunk
  /\ reader_index' = 0
  /\ Note(readable_bytes + Len(chunk))
  /\ UNCHANGED capacity

\* append after prepare_append has moved the unread bytes to a new vector.
AppendGrowing(chunk) ==
  /\ ~Enough(Len(chunk)) /\ ~Compactable(Len(chunk))
  /\ Grown(Len(chunk)) <= MaxSize
  /\ storage' = readable_view \o chunk
  /\ capacity' = Grown(Len(chunk))
  /\ reader_index' = 0
  /\ Note(readable_bytes + Len(chunk))

\* append throws when the new vector is too large or cannot be allocated, and
\* leaves the buffer as it was: nothing to do for the model.
append(chunk) ==
  /\ chunk # <<>>
  /\ readable_bytes + Len(chunk) <= MaxReadable
  /\ AppendInPlace(chunk) \/ AppendCompacting(chunk) \/ AppendGrowing(chunk)

\* retrieve, and retrieve_all when it takes every byte.
retrieve(length) ==
  /\ length <= readable_bytes
  /\ \/ /\ length = readable_bytes
        /\ storage' = <<>>
        /\ reader_index' = 0
     \/ /\ length < readable_bytes
        /\ reader_index' = reader_index + length
        /\ UNCHANGED storage
  /\ UNCHANGED <<capacity, peak>>

Init ==
  /\ storage = <<>>
  /\ capacity = InitialCapacity
  /\ reader_index = 0
  /\ peak = 0

Next ==
  \/ \E chunk \in Chunks : append(chunk)
  \/ \E length \in 1 .. MaxReadable : retrieve(length)

Spec == Init /\ [][Next]_vars
------------------------------------------------------------------------------
\* Reading frees memory for writing: the reserved memory never exceeds twice
\* the most bytes that were unread at once, however many have passed through,
\* and it always holds the bytes, so that the resize of append never moves
\* them.
MemoryBounded ==
  /\ capacity <= InitialCapacity \/ capacity < 2 * peak
  /\ reader_index \in 0 .. Len(storage) /\ Len(storage) <= capacity

Queue == INSTANCE ByteQueue WITH queue <- readable_view

\* append, retrieve and the moves of prepare_append together are a first-in
\* first-out queue of bytes.
ImplementsQueue == Queue!Spec
==============================================================================
