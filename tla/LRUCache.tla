------------------------------ MODULE LRUCache ------------------------------
(***************************************************************************)
(* cache/lru.go: the fixed-capacity cache behind the reconstruction cache  *)
(* and the per-client caches.  items finds an entry, order (a doubly       *)
(* linked list, front first) ranks the entries by last use.  Every method  *)
(* holds c.mu, so each is one action.                                      *)
(*                                                                         *)
(* now and used are history variables: they record when each entry was     *)
(* last put or got, and no action reads them.                              *)
(***************************************************************************)
EXTENDS Integers, Sequences, FiniteSets

CONSTANTS Keys, Vals,
          Size,      \* the argument of newLRUCache
          MaxTime    \* bound: number of puts and hits

ASSUME SizeAssumption == Size \in Int /\ MaxTime \in Nat

\* newLRUCache: a size below one is taken as one.
Capacity == IF Size <= 0 THEN 1 ELSE Size

VARIABLES
  items,    \* key -> value
  order,    \* the keys, most recently used first
  used,     \* history: key -> time of its last use
  now       \* history: number of uses so far

vars == <<items, order, used, now>>

Init ==
  /\ items = [k \in {} |-> 0]
  /\ order = <<>>
  /\ used = [k \in {} |-> 0]
  /\ now = 0

-----------------------------------------------------------------------------
\* The place of k in the list (entry.elem).
Place(s, k) == CHOOSE i \in DOMAIN s : s[i] = k

\* list.Remove, list.PushFront and list.MoveToFront.
ListRemove(s, i) == [j \in 1..Len(s) - 1 |-> IF j < i THEN s[j] ELSE s[j + 1]]
PushFront(s, k)  == <<k>> \o s
MoveToFront(s, k) == PushFront(ListRemove(s, Place(s, k)), k)

Without(f, K) == [k \in DOMAIN f \ K |-> f[k]]
With(f, k, x) == [j \in DOMAIN f \cup {k} |-> IF j = k THEN x ELSE f[j]]

\* Mutated form: a hit does not promote the entry.
GetNoPromote(k) ==
  /\ k \in DOMAIN items
  /\ now < MaxTime
  /\ now' = now + 1
  /\ used' = With(used, k, now')
  /\ UNCHANGED <<items, order>>

\* Get and Delete of an absent key return at once.
Miss(k) == k \notin DOMAIN items /\ UNCHANGED vars

\* A hit promotes the entry.
Get(k) ==
  /\ k \in DOMAIN items
  /\ now < MaxTime
  /\ now' = now + 1
  /\ used' = With(used, k, now')
  /\ order' = MoveToFront(order, k)
  /\ UNCHANGED items

PutExisting(k, v) ==
  /\ k \in DOMAIN items
  /\ items' = With(items, k, v)
  /\ order' = MoveToFront(order, k)
  /\ used' = With(used, k, now')

PutNew(k, v) ==
  /\ k \notin DOMAIN items
  /\ Cardinality(DOMAIN items) < Capacity
  /\ items' = With(items, k, v)
  /\ order' = PushFront(order, k)
  /\ used' = With(used, k, now')

\* Mutated form: the front of the list is evicted.
PutEvictingFront(k, v) ==
  /\ k \notin DOMAIN items
  /\ Cardinality(DOMAIN items) >= Capacity
  /\ items' = With(Without(items, {order[1]}), k, v)
  /\ order' = PushFront(ListRemove(order, 1), k)
  /\ used' = With(Without(used, {order[1]}), k, now')

\* Mutated form: the victim leaves the list and stays in items.
PutEvictingListOnly(k, v) ==
  /\ k \notin DOMAIN items
  /\ Cardinality(DOMAIN items) >= Capacity
  /\ items' = With(items, k, v)
  /\ order' = PushFront(ListRemove(order, Len(order)), k)
  /\ used' = With(used, k, now')

\* At capacity the back of the list, if there is one, makes room.
PutEvicting(k, v) ==
  /\ k \notin DOMAIN items
  /\ Cardinality(DOMAIN items) >= Capacity
  /\ LET back == {order[i] : i \in DOMAIN order \cap {Len(order)}} IN
     /\ items' = With(Without(items, back), k, v)
     /\ order' = PushFront(ListRemove(order, Len(order)), k)
     /\ used' = With(Without(used, back), k, now')

Put(k, v) ==
  /\ now < MaxTime
  /\ now' = now + 1
  /\ PutExisting(k, v) \/ PutNew(k, v) \/ PutEvicting(k, v)

Delete(k) ==
  /\ k \in DOMAIN items
  /\ items' = Without(items, {k})
  /\ order' = ListRemove(order, Place(order, k))
  /\ used' = Without(used, {k})
  /\ UNCHANGED now

Next == \E k \in Keys : Miss(k) \/ Get(k) \/ Delete(k) \/ \E v \in Vals : Put(k, v)

Spec == Init /\ [][Next]_vars

-----------------------------------------------------------------------------
TypeOK ==
  /\ DOMAIN items \subseteq Keys
  /\ \A k \in DOMAIN items : items[k] \in Vals
  /\ order \in Seq(Keys)
  /\ now \in Nat
  /\ DOMAIN used = DOMAIN items
  /\ \A k \in DOMAIN used : used[k] \in 1..now

\* The list holds exactly the keys of items, each once: an entry dropped from
\* one and left in the other would leak, or make eviction remove nothing.
ListMatchesItems ==
  /\ {order[i] : i \in DOMAIN order} = DOMAIN items
  /\ \A i, j \in DOMAIN order : order[i] = order[j] => i = j

\* "a thread-safe fixed-capacity LRU cache" (lru.go:19): never more entries
\* than the capacity, after any sequence of calls, and at least one place.
WithinCapacity == Len(order) <= Capacity /\ Cardinality(DOMAIN items) = Len(order)

\* The list is sorted by last use.
OrderIsRecency == \A i, j \in DOMAIN order : i < j => used[order[i]] > used[order[j]]

Abstract == INSTANCE RecencyCache

\* "the least-recently-used entry is evicted first" (lru.go:58): the list does
\* what clocks would do.
ImplementsRecencyCache == Abstract!Spec
=============================================================================
