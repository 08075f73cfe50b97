----------------------------- MODULE TimingWheel -----------------------------
(***************************************************************************)
(* The single-level timing wheel of src/timer/timing_wheel.cpp.  The list  *)
(* of a slot is a set: events carry distinct generations (the caller takes *)
(* them from Cache::next_generation), and no caller depends on the order   *)
(* in which the events of one tick are returned.                           *)
(***************************************************************************)
EXTENDS Integers

CONSTANTS
  SlotCount,     \* TimingWheel::slot_count, 60 in the code
  Resolution,    \* milliseconds per tick, 1000 in the code
  Keys,          \* keys an event may name
  MaxGeneration, \* largest generation, 2^64 - 1 in the code
  Ttls           \* positive times to live, in milliseconds

ASSUME WheelAssumption ==
  /\ SlotCount \in Nat \ {0}
  /\ Resolution \in Nat \ {0}
  /\ MaxGeneration \in Nat
  /\ Ttls \subseteq Nat \ {0}

VARIABLES
  current_slot,  \* current_slot_
  slots,         \* slots_: the events linked in each slot
  expired        \* the vector returned by the latest tick

wheelVars == <<current_slot, slots, expired>>

Slot == 0 .. SlotCount - 1

Generation == 1 .. MaxGeneration

TimerEvent == [key : Keys, generation : Generation, remaining_rounds : Nat]

\* TTL in ticks, rounded up.
TicksFor(ttl) ==
  (ttl \div Resolution) + (IF ttl % Resolution # 0 THEN 1 ELSE 0)

TargetSlot(ticks) == (current_slot + (ticks % SlotCount)) % SlotCount

\* Mutant of RemainingRounds: a full turn counts as one round too many.
RoundsOneTurnLate(ticks) == ticks \div SlotCount

RemainingRounds(ticks) == (ticks - 1) \div SlotCount

\* TimingWheel::schedule
Schedule(key, generation, ttl) ==
  LET ticks == TicksFor(ttl)
      event == [key |-> key, generation |-> generation,
                remaining_rounds |-> RemainingRounds(ticks)]
  IN  /\ slots' = [slots EXCEPT ![TargetSlot(ticks)] = @ \union {event}]
      /\ UNCHANGED <<current_slot, expired>>

NextSlot == (current_slot + 1) % SlotCount

\* TimingWheel::tick once expired.reserve has succeeded.
WheelTick ==
  LET events == slots[NextSlot]
  IN  /\ current_slot' = NextSlot
      /\ expired' = {e \in events : e.remaining_rounds = 0}
      /\ slots' = [slots EXCEPT ![NextSlot] =
                     {[key |-> e.key, generation |-> e.generation,
                       remaining_rounds |-> e.remaining_rounds - 1] :
                        e \in {f \in events : f.remaining_rounds > 0}}]

Linked == UNION {slots[s] : s \in Slot}

WheelInit ==
  /\ current_slot = 0
  /\ slots = [s \in Slot |-> {}]
  /\ expired = {}

WheelNext ==
  \/ \E k \in Keys, g \in Generation, t \in Ttls :
       /\ \A e \in Linked \union expired : e.generation # g
       /\ Schedule(k, g, t)
  \/ WheelTick

WheelSpec == WheelInit /\ [][WheelNext]_wheelVars
------------------------------------------------------------------------------
\* Every slot holds timer events and current_slot_ indexes slots_.
WheelTypeOK ==
  /\ current_slot \in Slot
  /\ slots \in [Slot -> SUBSET TimerEvent]
  /\ expired \in SUBSET TimerEvent

\* How many ticks away slot s is: a full turn for the current slot itself.
Distance(s) == IF s > current_slot THEN s - current_slot
               ELSE s - current_slot + SlotCount

TicksLeft(s, e) == Distance(s) + (e.remaining_rounds * SlotCount)

Pending == UNION {{[key |-> e.key, generation |-> e.generation,
                    left |-> TicksLeft(s, e)] : e \in slots[s]} : s \in Slot}

Timers == INSTANCE CountdownTimers
            WITH Generations <- Generation,
                 Delays <- {TicksFor(t) : t \in Ttls},
                 pending <- Pending,
                 fired <- {[key |-> e.key, generation |-> e.generation] :
                             e \in expired}

\* TimingWheel::schedule and TimingWheel::tick together return every event at
\* exactly the tick its TTL, rounded up, asks for: never a turn of the wheel
\* early or late, including TTLs of exactly one or several turns.
ExactExpiry == Timers!Spec
==============================================================================
