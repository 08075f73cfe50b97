------------------------------ MODULE ByteQueue ------------------------------
(***************************************************************************)
(* What a network buffer promises: bytes come out in the order they went   *)
(* in, each once, whatever happens to the memory that holds them.          *)
(***************************************************************************)
EXTENDS Naturals, Sequences

CONSTANT Chunks   \* byte strings that may be appended

VARIABLE queue

Init == queue = <<>>

Put(chunk) == queue' = queue \o chunk

Take(n) == queue' = SubSeq(queue, n + 1, Len(queue))

Next ==
  \/ \E chunk \in Chunks : Put(chunk)
  \/ \E n \in 1 .. Len(queue) : Take(n)

Spec == Init /\ [][Next]_queue
==============================================================================
