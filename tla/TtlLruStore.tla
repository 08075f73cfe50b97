----------------------------- MODULE TtlLruStore -----------------------------
(***************************************************************************)
(* What the cache promises its callers.  A key holds the value last put    *)
(* for it until it is erased, evicted as the least recently used key, or   *)
(* its countdown of ticks reaches zero.  A key whose countdown is zero is  *)
(* never answered again.  Nothing is said about wheels, generations or     *)
(* byte accounting: the module Cache is shown to implement this one.       *)
(***************************************************************************)
EXTENDS Integers, SequencesExt

CONSTANTS
  Keys, Values,
  Delays,        \* lifetimes a put may ask for, in ticks
  Forever,       \* the lifetime of a key put without a TTL
  Refusals,      \* statuses of calls that have no effect on the store
  NoValue        \* the value field of an answer that carries none

VARIABLES
  store,         \* the live keys, each with its value and its countdown
  order,         \* the live keys, most recently used first
  reply          \* the answer to the latest call

vars == <<store, order, reply>>

Answer(s, v) == [status |-> s, value |-> v]

Without(s, k) == RemoveAt(s, CHOOSE i \in DOMAIN s : s[i] = k)

Expired(k) == k \in DOMAIN store /\ store[k].left = 0

Init ==
  /\ store = [k \in {} |-> NoValue]
  /\ order = <<>>
  /\ reply = Answer("ok", NoValue)

Put(k, v, n) ==
  /\ store' = [x \in DOMAIN store \union {k} |->
                 IF x = k THEN [value |-> v, left |-> n] ELSE store[x]]
  /\ order' = IF k \in DOMAIN store THEN <<k>> \o Without(order, k)
                                    ELSE <<k>> \o order
  /\ reply' = Answer("ok", NoValue)

\* A put of a live key makes it the most recently used before making room.
Touch(k) ==
  /\ k \in DOMAIN store
  /\ order' = <<k>> \o Without(order, k)
  /\ UNCHANGED <<store, reply>>

Drop(k) ==
  /\ k \in DOMAIN store
  /\ store' = Restrict(store, DOMAIN store \ {k})
  /\ order' = Without(order, k)

Evict ==
  /\ order # <<>>
  /\ Drop(Last(order))
  /\ UNCHANGED reply

Hit(k) ==
  /\ k \in DOMAIN store
  /\ ~Expired(k)
  /\ order' = <<k>> \o Without(order, k)
  /\ reply' = Answer("ok", store[k].value)
  /\ UNCHANGED store

Erase(k) ==
  /\ ~Expired(k)
  /\ Drop(k)
  /\ reply' = Answer("ok", NoValue)

\* A get or an erase of a key that is not there.
Miss(k) ==
  /\ k \notin DOMAIN store \/ Expired(k)
  /\ reply' = Answer("not_found", NoValue)
  /\ UNCHANGED <<store, order>>

Refuse(s) ==
  /\ reply' = Answer(s, NoValue)
  /\ UNCHANGED <<store, order>>

\* One tick: every countdown advances, none is skipped.
Tick ==
  /\ \A k \in DOMAIN store : ~Expired(k)
  /\ store' = [k \in DOMAIN store |->
                 IF store[k].left = Forever THEN store[k]
                 ELSE [value |-> store[k].value, left |-> store[k].left - 1]]
  /\ UNCHANGED <<order, reply>>

\* An expired key is reclaimed.
Purge(k) ==
  /\ Expired(k)
  /\ Drop(k)
  /\ UNCHANGED reply

Next ==
  \/ \E k \in Keys, v \in Values, n \in Delays \union {Forever} : Put(k, v, n)
  \/ \E k \in Keys : Touch(k) \/ Hit(k) \/ Miss(k) \/ Erase(k) \/ Purge(k)
  \/ \E s \in Refusals : Refuse(s)
  \/ Evict
  \/ Tick

Spec == Init /\ [][Next]_vars
==============================================================================
