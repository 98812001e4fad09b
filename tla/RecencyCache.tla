---------------------------- MODULE RecencyCache ----------------------------
(***************************************************************************)
(* What an LRU cache promises, stated with clocks instead of a list: every *)
(* entry carries the time of its last use, and an insertion into a full    *)
(* cache evicts the entry used longest ago.                                *)
(***************************************************************************)
EXTENDS Integers, FiniteSets

CONSTANTS Keys, Vals, Capacity

VARIABLES items,   \* key -> value
          used,    \* key -> the time it was last put or got
          now

Init ==
  /\ items = [k \in {} |-> 0]
  /\ used = [k \in {} |-> 0]
  /\ now = 0

Without(f, K) == [k \in DOMAIN f \ K |-> f[k]]
With(f, k, x) == [j \in DOMAIN f \cup {k} |-> IF j = k THEN x ELSE f[j]]

Use(k) ==
  /\ k \in DOMAIN items
  /\ now' = now + 1
  /\ used' = With(used, k, now')
  /\ UNCHANGED items

\* The entries an insertion of k has to give up.
Oldest == {k \in DOMAIN items : \A j \in DOMAIN items : used[k] <= used[j]}
Evicted(k) == IF k \notin DOMAIN items /\ Cardinality(DOMAIN items) >= Capacity
              THEN Oldest ELSE {}

Insert(k, v) ==
  /\ now' = now + 1
  /\ items' = With(Without(items, Evicted(k)), k, v)
  /\ used' = With(Without(used, Evicted(k)), k, now')

Drop(k) ==
  /\ items' = Without(items, {k})
  /\ used' = Without(used, {k})
  /\ UNCHANGED now

Next == \E k \in Keys : Use(k) \/ Drop(k) \/ \E v \in Vals : Insert(k, v)

Spec == Init /\ [][Next]_<<items, used, now>>
=============================================================================
