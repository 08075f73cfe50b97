-------------------------- MODULE TimingWheelProofs --------------------------
(***************************************************************************)
(* Proofs about TimingWheel, for every number of slots and every           *)
(* resolution: it is type correct and implements CountdownTimers.          *)
(***************************************************************************)
EXTENDS TimingWheel, TLAPS

\* A positive TTL rounds up to a positive number of ticks.
LEMMA TicksPositive ==
  ASSUME NEW ttl \in Nat \ {0}
  PROVE  TicksFor(ttl) \in Nat \ {0}
  <1>1. /\ ttl % Resolution \in 0 .. Resolution - 1
        /\ ttl \div Resolution \in Nat
        /\ ttl = Resolution * (ttl \div Resolution) + (ttl % Resolution)
    BY WheelAssumption
  <1>2. CASE ttl % Resolution # 0
    BY <1>1, <1>2 DEF TicksFor
  <1>3. CASE ttl % Resolution = 0
    <2>1. ttl \div Resolution # 0
      BY <1>1, <1>3, WheelAssumption
    <2>. QED  BY <1>1, <1>3, <2>1 DEF TicksFor
  <1>. QED  BY <1>2, <1>3

\* schedule's slot and rounds place the event exactly `ticks` ticks ahead,
\* whether or not `ticks` is a multiple of the number of slots.
LEMMA ScheduleDistance ==
  ASSUME current_slot \in Slot, NEW ticks \in Nat \ {0}
  PROVE  /\ TargetSlot(ticks) \in Slot
         /\ RemainingRounds(ticks) \in Nat
         /\ Distance(TargetSlot(ticks)) + (RemainingRounds(ticks) * SlotCount)
              = ticks
  <1> DEFINE q == ticks \div SlotCount
             r == ticks % SlotCount
             p == (ticks - 1) \div SlotCount
             u == (ticks - 1) % SlotCount
             a == current_slot + r
  <1>1. /\ r \in 0 .. SlotCount - 1 /\ q \in Nat
        /\ ticks = SlotCount * q + r
    BY WheelAssumption
  <1>2. /\ u \in 0 .. SlotCount - 1 /\ p \in Nat
        /\ ticks - 1 = SlotCount * p + u
    BY WheelAssumption
  <1>3. IF r = 0 THEN p = q - 1 ELSE p = q
    BY <1>1, <1>2, WheelAssumption
  <1>4. TargetSlot(ticks) = IF a < SlotCount THEN a ELSE a - SlotCount
    <2>1. a \in 0 .. 2 * SlotCount - 1
      BY <1>1, WheelAssumption DEF Slot
    <2>2. TargetSlot(ticks) = a % SlotCount
      BY DEF TargetSlot
    <2>. HIDE DEF a
    <2>. QED  BY <2>1, <2>2, WheelAssumption
  <1>5. TargetSlot(ticks) \in Slot
    BY <1>1, <1>4, WheelAssumption DEF Slot
  <1>6. Distance(TargetSlot(ticks)) = IF r = 0 THEN SlotCount ELSE r
    BY <1>1, <1>4, WheelAssumption DEF Distance, Slot
  <1>7. (IF r = 0 THEN SlotCount ELSE r) + (p * SlotCount) = ticks
    BY <1>1, <1>2, <1>3, WheelAssumption
  <1>. QED  BY <1>2, <1>5, <1>6, <1>7 DEF RemainingRounds

\* Advancing the wheel brings every slot one tick nearer, and the slot it
\* reaches was exactly one tick away.
LEMMA TickDistance ==
  ASSUME current_slot \in Slot, current_slot' = NextSlot, NEW s \in Slot
  PROVE  /\ NextSlot \in Slot
         /\ s = NextSlot => Distance(s) = 1 /\ Distance(s)' = SlotCount
         /\ s # NextSlot => Distance(s) # 1 /\ Distance(s)' = Distance(s) - 1
         /\ Distance(s) \in 1 .. SlotCount
  <1>1. NextSlot = IF current_slot + 1 < SlotCount THEN current_slot + 1 ELSE 0
    <2>1. current_slot + 1 \in 0 .. 2 * SlotCount - 1
      BY WheelAssumption DEF Slot
    <2>. QED  BY <2>1, WheelAssumption DEF NextSlot, Slot
  <1>. QED  BY <1>1, WheelAssumption DEF Distance, Slot
------------------------------------------------------------------------------
\* TimingWheel::schedule links a well-formed event in an existing slot.
LEMMA ScheduleType ==
  ASSUME WheelTypeOK, NEW k \in Keys, NEW g \in Generation, NEW t \in Ttls,
         Schedule(k, g, t)
  PROVE  WheelTypeOK'
  <1>1. TicksFor(t) \in Nat \ {0}
    BY TicksPositive, WheelAssumption
  <1>2. /\ TargetSlot(TicksFor(t)) \in Slot
        /\ RemainingRounds(TicksFor(t)) \in Nat
    BY <1>1, ScheduleDistance DEF WheelTypeOK
  <1>. QED  BY <1>2 DEF WheelTypeOK, Schedule, TimerEvent

\* TimingWheel::tick keeps the events it leaves linked well formed.
LEMMA TickType ==
  ASSUME WheelTypeOK, WheelTick
  PROVE  WheelTypeOK'
  <1>1. NextSlot \in Slot
    BY TickDistance DEF WheelTypeOK, WheelTick
  <1>. QED  BY <1>1 DEF WheelTypeOK, WheelTick, TimerEvent

\* The wheel is type correct: TimingWheel::schedule and ::tick only index
\* existing slots and never take remaining_rounds below zero.
THEOREM WheelTypeCorrect == WheelSpec => []WheelTypeOK
  <1>1. WheelInit => WheelTypeOK
    BY WheelAssumption DEF WheelInit, WheelTypeOK, Slot
  <1>2. WheelTypeOK /\ [WheelNext]_wheelVars => WheelTypeOK'
    BY ScheduleType, TickType DEF WheelNext, WheelTypeOK, wheelVars
  <1>. QED  BY <1>1, <1>2, PTL DEF WheelSpec
------------------------------------------------------------------------------
\* The pending events of the abstract timers, one slot at a time.
LEMMA PendingMember ==
  ASSUME NEW p
  PROVE  p \in Pending <=>
           \E s \in Slot : \E e \in slots[s] :
             p = [key |-> e.key, generation |-> e.generation,
                  left |-> TicksLeft(s, e)]
  BY DEF Pending

\* TimingWheel::schedule adds one abstract timer, TicksFor(ttl) ticks ahead.
LEMMA ScheduleRefines ==
  ASSUME WheelTypeOK, NEW k \in Keys, NEW g \in Generation, NEW t \in Ttls,
         Schedule(k, g, t)
  PROVE  Timers!Schedule(k, g, TicksFor(t))
  <1> DEFINE n == TicksFor(t)
             event == [key |-> k, generation |-> g,
                       remaining_rounds |-> RemainingRounds(n)]
             timer == [key |-> k, generation |-> g, left |-> n]
  <1>1. n \in Nat \ {0}
    BY TicksPositive, WheelAssumption
  <1>2. /\ TargetSlot(n) \in Slot
        /\ RemainingRounds(n) \in Nat
        /\ Distance(TargetSlot(n)) + (RemainingRounds(n) * SlotCount) = n
    BY <1>1, ScheduleDistance DEF WheelTypeOK
  <1>3. TicksLeft(TargetSlot(n), event) = n
    BY <1>2 DEF TicksLeft
  <1>4. /\ slots' = [slots EXCEPT ![TargetSlot(n)] = @ \union {event}]
        /\ UNCHANGED <<current_slot, expired>>
    BY DEF Schedule
  <1>5. \A s \in Slot : \A e : TicksLeft(s, e)' = TicksLeft(s, e)
    BY <1>4 DEF TicksLeft, Distance
  <1>6. ASSUME NEW p PROVE p \in Pending' <=> p \in Pending \union {timer}
    <2> HIDE DEF n, event
    <2>1. p \in Pending' <=>
            \E s \in Slot : \E e \in slots'[s] :
              p = [key |-> e.key, generation |-> e.generation,
                   left |-> TicksLeft(s, e)]
      BY <1>5 DEF Pending
    <2>2. \A s \in Slot : slots'[s] = IF s = TargetSlot(n)
                                      THEN slots[s] \union {event}
                                      ELSE slots[s]
      BY <1>2, <1>4 DEF WheelTypeOK
    <2>3. [key |-> event.key, generation |-> event.generation,
           left |-> TicksLeft(TargetSlot(n), event)] = timer
      BY <1>3 DEF event
    <2>4. ASSUME p \in Pending' PROVE p \in Pending \union {timer}
      <3>1. PICK s \in Slot : \E e \in slots'[s] :
              p = [key |-> e.key, generation |-> e.generation,
                   left |-> TicksLeft(s, e)]
        BY <2>1, <2>4
      <3>2. PICK e \in slots'[s] :
              p = [key |-> e.key, generation |-> e.generation,
                   left |-> TicksLeft(s, e)]
        BY <3>1
      <3>3. CASE e \in slots[s]
        BY <3>2, <3>3, PendingMember
      <3>4. CASE s = TargetSlot(n) /\ e = event
        BY <2>3, <3>2, <3>4
      <3>. QED  BY <2>2, <3>3, <3>4
    <2>5. ASSUME p \in Pending PROVE p \in Pending'
      <3>1. PICK s \in Slot : \E e \in slots[s] :
              p = [key |-> e.key, generation |-> e.generation,
                   left |-> TicksLeft(s, e)]
        BY <2>5, PendingMember
      <3>. QED  BY <2>1, <2>2, <3>1
    <2>6. timer \in Pending'
      <3>1. event \in slots'[TargetSlot(n)]
        BY <1>2, <2>2
      <3>2. \E s \in Slot : \E e \in slots'[s] :
              timer = [key |-> e.key, generation |-> e.generation,
                       left |-> TicksLeft(s, e)]
        BY <1>2, <2>3, <3>1
      <3>. QED  BY <1>5, <3>2 DEF Pending
    <2>. QED  BY <2>4, <2>5, <2>6
  <1>7. Pending' = Pending \union {timer}
    BY <1>6
  <1>. QED  BY <1>4, <1>7 DEF Timers!Schedule

\* TimingWheel::tick counts every abstract timer down by one and returns
\* those that had one tick left.
LEMMA TickRefines ==
  ASSUME WheelTypeOK, WheelTick
  PROVE  Timers!Tick
  <1> DEFINE timer(s, e) == [key |-> e.key, generation |-> e.generation,
                             left |-> TicksLeft(s, e)]
             aged(e) == [key |-> e.key, generation |-> e.generation,
                         remaining_rounds |-> e.remaining_rounds - 1]
  <1>1. /\ NextSlot \in Slot
        /\ \A s \in Slot :
             /\ Distance(s) \in 1 .. SlotCount
             /\ s = NextSlot => Distance(s) = 1 /\ Distance(s)' = SlotCount
             /\ s # NextSlot =>
                  Distance(s) # 1 /\ Distance(s)' = Distance(s) - 1
    BY TickDistance DEF WheelTypeOK, WheelTick
  <1>2. \A s \in Slot : \A e \in slots[s] : e.remaining_rounds \in Nat
    BY DEF WheelTypeOK, TimerEvent
  <1>3. \A s \in Slot : \A e \in slots[s] :
          TicksLeft(s, e) \in Nat /\
          (TicksLeft(s, e) = 1 <=> s = NextSlot /\ e.remaining_rounds = 0)
    BY <1>1, <1>2, WheelAssumption DEF TicksLeft
  <1>4. \A s \in Slot \ {NextSlot} : \A e \in slots[s] :
          TicksLeft(s, e)' = TicksLeft(s, e) - 1
    BY <1>1, <1>2, WheelAssumption DEF TicksLeft
  <1>5. \A s \in Slot : \A e \in slots[s] :
          s = NextSlot /\ e.remaining_rounds > 0 =>
            TicksLeft(s, aged(e))' = TicksLeft(s, e) - 1
    <2> SUFFICES ASSUME NEW s \in Slot, NEW e \in slots[s],
                        s = NextSlot, e.remaining_rounds > 0
                 PROVE  TicksLeft(s, aged(e))' = TicksLeft(s, e) - 1
      OBVIOUS
    <2>1. TicksLeft(s, aged(e))'
            = Distance(s)' + ((e.remaining_rounds - 1) * SlotCount)
      BY DEF TicksLeft
    <2>2. Distance(s) = 1 /\ Distance(s)' = SlotCount
      BY <1>1
    <2>. QED  BY <1>2, <2>1, <2>2, WheelAssumption DEF TicksLeft
  <1>6. /\ slots'[NextSlot] = {aged(e) : e \in {f \in slots[NextSlot] :
                                                 f.remaining_rounds > 0}}
        /\ \A s \in Slot \ {NextSlot} : slots'[s] = slots[s]
    BY <1>1 DEF WheelTypeOK, WheelTick
  <1>7. {[key |-> e.key, generation |-> e.generation] : e \in expired'}
          = {[key |-> p.key, generation |-> p.generation] :
               p \in {q \in Pending : q.left = 1}}
    <2>1. expired' = {e \in slots[NextSlot] : e.remaining_rounds = 0}
      BY DEF WheelTick
    <2>2. ASSUME NEW e \in expired'
          PROVE  \E p \in Pending : /\ p.left = 1
                                    /\ p.key = e.key
                                    /\ p.generation = e.generation
      <3>1. timer(NextSlot, e) \in Pending
        BY <1>1, <2>1, <2>2, PendingMember
      <3>2. timer(NextSlot, e).left = 1
        BY <1>1, <1>3, <2>1, <2>2
      <3>. QED  BY <3>1, <3>2
    <2>3. ASSUME NEW p \in Pending, p.left = 1
          PROVE  \E e \in expired' : /\ p.key = e.key
                                     /\ p.generation = e.generation
      <3>1. PICK s \in Slot : \E e \in slots[s] : p = timer(s, e)
        BY PendingMember
      <3>2. PICK e \in slots[s] : p = timer(s, e)
        BY <3>1
      <3>. QED  BY <1>3, <2>1, <2>3, <3>2
    <2>. QED  BY <2>2, <2>3
  <1>8. Pending' = {[key |-> p.key, generation |-> p.generation,
                     left |-> p.left - 1] :
                      p \in {q \in Pending : q.left # 1}}
    <2> DEFINE later(s, f) == [key |-> f.key, generation |-> f.generation,
                               left |-> TicksLeft(s, f)']
    <2>0. \A p : p \in Pending' <=>
                 \E s \in Slot : \E f \in slots'[s] : p = later(s, f)
      BY DEF Pending
    <2>1. ASSUME NEW s \in Slot, NEW f \in slots'[s]
          PROVE  \E p \in Pending :
                   /\ p.left # 1
                   /\ later(s, f) =
                      [key |-> p.key, generation |-> p.generation,
                       left |-> p.left - 1]
      <3>1. CASE s # NextSlot
        <4>1. f \in slots[s] /\ timer(s, f) \in Pending
          BY <1>6, <2>1, <3>1, PendingMember
        <4>2. TicksLeft(s, f) # 1 /\ TicksLeft(s, f)' = TicksLeft(s, f) - 1
          BY <1>3, <1>4, <3>1, <4>1
        <4>. QED  BY <4>1, <4>2
      <3>2. CASE s = NextSlot
        <4>1. PICK e \in slots[s] : e.remaining_rounds > 0 /\ f = aged(e)
          BY <1>6, <2>1, <3>2
        <4>2. timer(s, e) \in Pending
          BY PendingMember
        <4>3. TicksLeft(s, e) # 1 /\ TicksLeft(s, f)' = TicksLeft(s, e) - 1
          BY <1>2, <1>3, <1>5, <3>2, <4>1
        <4>. QED  BY <4>1, <4>2, <4>3
      <3>. QED  BY <3>1, <3>2
    <2>2. ASSUME NEW p \in Pending, p.left # 1
          PROVE  [key |-> p.key, generation |-> p.generation,
                  left |-> p.left - 1] \in Pending'
      <3>1. PICK s \in Slot : \E e \in slots[s] : p = timer(s, e)
        BY PendingMember
      <3>2. PICK e \in slots[s] : p = timer(s, e)
        BY <3>1
      <3>3. CASE s # NextSlot
        <4>1. e \in slots'[s] /\ TicksLeft(s, e)' = p.left - 1
          BY <1>4, <1>6, <3>2, <3>3
        <4>2. later(s, e) = [key |-> p.key, generation |-> p.generation,
                             left |-> p.left - 1]
          BY <3>2, <4>1
        <4>. QED  BY <2>0, <4>1, <4>2
      <3>4. CASE s = NextSlot
        <4>1. e.remaining_rounds > 0
          BY <1>2, <1>3, <2>2, <3>2, <3>4
        <4>2. aged(e) \in slots'[s] /\ TicksLeft(s, aged(e))' = p.left - 1
          BY <1>5, <1>6, <3>2, <3>4, <4>1
        <4>3. later(s, aged(e)) = [key |-> p.key, generation |-> p.generation,
                                   left |-> p.left - 1]
          BY <3>2, <4>2
        <4>. QED  BY <2>0, <4>2, <4>3
      <3>. QED  BY <3>3, <3>4
    <2>3. ASSUME NEW p \in Pending'
          PROVE  \E q \in Pending :
                   /\ q.left # 1
                   /\ p = [key |-> q.key, generation |-> q.generation,
                           left |-> q.left - 1]
      <3>1. PICK s \in Slot : \E f \in slots'[s] : p = later(s, f)
        BY <2>0
      <3>2. PICK f \in slots'[s] : p = later(s, f)
        BY <3>1
      <3>. QED  BY <2>1, <3>2
    <2>. QED  BY <2>2, <2>3
  <1>. QED  BY <1>7, <1>8 DEF Timers!Tick
------------------------------------------------------------------------------
\* The timing wheel implements countdown timers: an event is returned by
\* TimingWheel::tick exactly TicksFor(ttl) ticks after TimingWheel::schedule,
\* once, for every number of slots, resolution and TTL.
THEOREM WheelExactExpiry == WheelSpec => ExactExpiry
  <1>1. WheelInit => Timers!Init
    BY DEF WheelInit, Timers!Init, Pending
  <1>2. WheelTypeOK /\ [WheelNext]_wheelVars => [Timers!Next]_(Timers!vars)
    <2> SUFFICES ASSUME WheelTypeOK, [WheelNext]_wheelVars
                 PROVE  [Timers!Next]_(Timers!vars)
      OBVIOUS
    <2>1. ASSUME NEW k \in Keys, NEW g \in Generation, NEW t \in Ttls,
                 Schedule(k, g, t)
          PROVE  Timers!Next
      BY <2>1, ScheduleRefines DEF Timers!Next
    <2>2. CASE WheelTick
      BY <2>2, TickRefines DEF Timers!Next
    <2>3. CASE UNCHANGED wheelVars
      BY <2>3 DEF wheelVars, Timers!vars, Pending, TicksLeft, Distance
    <2>. QED  BY <2>1, <2>2, <2>3 DEF WheelNext
  <1>. QED  BY <1>1, <1>2, WheelTypeCorrect, PTL
            DEF WheelSpec, ExactExpiry, Timers!Spec
==============================================================================
