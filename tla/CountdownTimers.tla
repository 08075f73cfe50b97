--------------------------- MODULE CountdownTimers ---------------------------
(***************************************************************************)
(* What a timer service promises, whatever its data structure: an event    *)
(* scheduled for n ticks is returned by the n-th following tick, once, and *)
(* by no other tick.  The timing wheel is shown to implement this module.  *)
(***************************************************************************)
EXTENDS Naturals

CONSTANTS
  Keys,          \* cache keys an event may name
  Generations,   \* generations a caller may stamp an event with
  Delays         \* numbers of ticks a caller may ask for

VARIABLES
  pending,       \* events not yet returned, with the ticks each still waits
  fired          \* events returned by the latest tick, not yet consumed

vars == <<pending, fired>>

Init ==
  /\ pending = {}
  /\ fired = {}

Schedule(k, g, n) ==
  /\ pending' = pending \union {[key |-> k, generation |-> g, left |-> n]}
  /\ UNCHANGED fired

Tick ==
  /\ fired' = {[key |-> p.key, generation |-> p.generation] :
                 p \in {q \in pending : q.left = 1}}
  /\ pending' = {[key |-> p.key, generation |-> p.generation,
                  left |-> p.left - 1] : p \in {q \in pending : q.left # 1}}

Next ==
  \/ \E k \in Keys, g \in Generations, n \in Delays : Schedule(k, g, n)
  \/ Tick

Spec == Init /\ [][Next]_vars

==============================================================================
