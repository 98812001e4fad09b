--------------------------- MODULE LRUCacheProofs ---------------------------
(***************************************************************************)
(* For every set of keys and every size: the list and the map of the LRU   *)
(* cache agree, the capacity holds, and the list evicts what the clocks of *)
(* RecencyCache would evict.                                               *)
(***************************************************************************)
EXTENDS LRUCache, FiniteSetTheorems, TLAPS

\* The capacity alone does not show what eviction removes: the list must be
\* duplicate free, hold exactly the keys of items, and be sorted by last use.
IndInv == TypeOK /\ ListMatchesItems /\ OrderIsRecency /\ Len(order) <= Capacity

-----------------------------------------------------------------------------
(* Lists                                                                   *)

Elements(s)  == {s[i] : i \in DOMAIN s}
Distinct(s)  == \A i, j \in DOMAIN s : s[i] = s[j] => i = j
Sorted(s, f) == \A i, j \in DOMAIN s : i < j => f[s[i]] > f[s[j]]

\* list.Remove takes one element out and keeps the others in their order.
LEMMA ListRemoveCorrect ==
  ASSUME NEW S, NEW s \in Seq(S), Distinct(s), NEW i \in DOMAIN s
  PROVE  LET r == ListRemove(s, i) IN
         /\ r \in Seq(S) /\ Len(r) = Len(s) - 1
         /\ Elements(r) = Elements(s) \ {s[i]}
         /\ Distinct(r)
         /\ \A f : Sorted(s, f) => Sorted(r, f)
  <1> DEFINE n == Len(s)
             up(j) == IF j < i THEN j ELSE j + 1
             r == ListRemove(s, i)
  <1>1. n \in Nat /\ n >= 1 /\ i \in 1..n /\ DOMAIN s = 1..n
    OBVIOUS
  <1>2. \A j \in 1..n - 1 : up(j) \in 1..n /\ up(j) # i
    BY <1>1
  <1>3. \A j, k \in 1..n - 1 : j < k => up(j) < up(k)
    BY <1>1
  <1>4. \A k \in 1..n : k # i => \E j \in 1..n - 1 : up(j) = k
    <2> SUFFICES ASSUME NEW k \in 1..n, k # i PROVE \E j \in 1..n - 1 : up(j) = k
      OBVIOUS
    <2>1. CASE k < i
      BY <1>1, <2>1
    <2>2. CASE k > i
      <3>1. k - 1 \in 1..n - 1 /\ up(k - 1) = k
        BY <1>1, <2>2
      <3> QED BY <3>1
    <2> QED BY <1>1, <2>1, <2>2
  <1>5. DOMAIN r = 1..n - 1 /\ \A j \in 1..n - 1 : r[j] = s[up(j)]
    BY DEF ListRemove
  <1>6. r \in Seq(S) /\ Len(r) = n - 1
    BY <1>1, <1>2, <1>5 DEF ListRemove
  <1> HIDE DEF r, up
  <1>7. Elements(r) = Elements(s) \ {s[i]}
    <2>1. \A j \in 1..n - 1 : s[up(j)] # s[i]
      BY <1>1, <1>2 DEF Distinct
    <2>2. \A x : x \in Elements(r) <=> \E j \in 1..n - 1 : x = s[up(j)]
      BY <1>5 DEF Elements
    <2>3. \A x : x \in Elements(s) <=> \E j \in 1..n : x = s[j]
      BY <1>1 DEF Elements
    <2>4. ASSUME NEW x \in Elements(r) PROVE x \in Elements(s) \ {s[i]}
      BY <1>2, <2>1, <2>2, <2>3
    <2>5. ASSUME NEW x \in Elements(s) \ {s[i]} PROVE x \in Elements(r)
      <3>1. PICK k \in 1..n : x = s[k]
        BY <2>3
      <3>2. PICK j \in 1..n - 1 : up(j) = k
        BY <1>4, <3>1
      <3> QED
        BY <2>2, <3>1, <3>2
    <2> QED
      BY <2>4, <2>5
  <1>8. Distinct(r)
    <2> SUFFICES ASSUME NEW j \in 1..n - 1, NEW k \in 1..n - 1, r[j] = r[k] PROVE j = k
      BY <1>5 DEF Distinct
    <2>1. up(j) = up(k)
      BY <1>1, <1>2, <1>5 DEF Distinct
    <2>2. up(j) \in Int /\ up(k) \in Int
      BY <1>2
    <2> QED
      BY <1>1, <1>3, <2>1, <2>2
  <1>9. ASSUME NEW f, Sorted(s, f) PROVE Sorted(r, f)
    BY <1>1, <1>2, <1>3, <1>5, <1>9 DEF Sorted
  <1> QED
    BY <1>6, <1>7, <1>8, <1>9 DEF r

\* list.PushFront adds an element before all others.
LEMMA PushFrontCorrect ==
  ASSUME NEW S, NEW s \in Seq(S), NEW k \in S, Distinct(s), k \notin Elements(s)
  PROVE  LET r == PushFront(s, k) IN
         /\ r \in Seq(S) /\ Len(r) = Len(s) + 1
         /\ Elements(r) = Elements(s) \cup {k}
         /\ Distinct(r)
         /\ \A f : Sorted(s, f) /\ (\A j \in Elements(s) : f[k] > f[j]) => Sorted(r, f)
  <1> DEFINE n == Len(s)
             r == PushFront(s, k)
  <1>1. n \in Nat /\ DOMAIN s = 1..n
    OBVIOUS
  <1>2. /\ r \in Seq(S) /\ Len(r) = n + 1 /\ DOMAIN r = 1..n + 1
        /\ r[1] = k /\ \A i \in 2..n + 1 : r[i] = s[i - 1] /\ i - 1 \in 1..n
    BY DEF PushFront
  <1> HIDE DEF r
  <1>3. \A i \in 1..n : i + 1 \in 2..n + 1 /\ r[i + 1] = s[i]
    BY <1>1, <1>2
  <1>4. \A i \in 1..n + 1 : i = 1 \/ i \in 2..n + 1
    BY <1>1
  <1>5. Elements(r) = Elements(s) \cup {k}
    <2>1. \A x : x \in Elements(r) <=> \E j \in 1..n + 1 : x = r[j]
      BY <1>2 DEF Elements
    <2>2. \A x : x \in Elements(s) <=> \E j \in 1..n : x = s[j]
      BY <1>1 DEF Elements
    <2>3. ASSUME NEW x \in Elements(r) PROVE x \in Elements(s) \cup {k}
      <3>1. PICK j \in 1..n + 1 : x = r[j]
        BY <2>1
      <3>2. j = 1 \/ (j \in 2..n + 1 /\ r[j] = s[j - 1] /\ j - 1 \in 1..n)
        BY <1>2, <1>4
      <3> QED
        BY <1>2, <2>2, <3>1, <3>2
    <2>4. ASSUME NEW x \in Elements(s) PROVE x \in Elements(r)
      <3>1. PICK j \in 1..n : x = s[j]
        BY <2>2
      <3>2. j + 1 \in 1..n + 1 /\ r[j + 1] = x
        BY <1>1, <1>3, <3>1
      <3> QED
        BY <2>1, <3>2
    <2>5. k \in Elements(r)
      BY <1>1, <1>2, <2>1
    <2> QED
      BY <2>3, <2>4, <2>5
  <1>6. Distinct(r)
    <2> SUFFICES ASSUME NEW i \in 1..n + 1, NEW j \in 1..n + 1, r[i] = r[j] PROVE i = j
      BY <1>2 DEF Distinct
    <2>1. \A x \in 2..n + 1 : r[x] # k
      BY <1>1, <1>2 DEF Elements
    <2>2. CASE i \in 2..n + 1 /\ j \in 2..n + 1
      <3>1. i - 1 = j - 1
        BY <1>1, <1>2, <2>2 DEF Distinct
      <3> QED BY <2>2, <3>1
    <2> QED
      BY <1>2, <1>4, <2>1, <2>2
  <1>7. ASSUME NEW f, Sorted(s, f), \A j \in Elements(s) : f[k] > f[j] PROVE Sorted(r, f)
    <2> SUFFICES ASSUME NEW i \in 1..n + 1, NEW j \in 1..n + 1, i < j PROVE f[r[i]] > f[r[j]]
      BY <1>2 DEF Sorted
    <2>1. j \in 2..n + 1
      BY <1>1
    <2>2. CASE i = 1
      BY <1>1, <1>2, <1>7, <2>1, <2>2 DEF Elements
    <2>3. CASE i \in 2..n + 1
      <3>1. /\ r[i] = s[i - 1] /\ r[j] = s[j - 1]
            /\ i - 1 \in DOMAIN s /\ j - 1 \in DOMAIN s /\ i - 1 < j - 1
        BY <1>1, <1>2, <2>1, <2>3
      <3> QED
        BY <1>7, <3>1 DEF Sorted
    <2> QED
      BY <1>4, <2>2, <2>3
  <1> QED
    BY <1>2, <1>5, <1>6, <1>7 DEF r

-----------------------------------------------------------------------------
(* The invariant                                                           *)

\* The list in terms of the lemmas above.
LEMMA ListForm ==
  ListMatchesItems /\ OrderIsRecency <=>
    Elements(order) = DOMAIN items /\ Distinct(order) /\ Sorted(order, used)
  BY DEF ListMatchesItems, OrderIsRecency, Elements, Distinct, Sorted

\* Every key of items has a place in the list.
LEMMA PlaceOfKey ==
  ASSUME IndInv, NEW k \in DOMAIN items
  PROVE  Place(order, k) \in DOMAIN order /\ order[Place(order, k)] = k
  BY DEF IndInv, ListMatchesItems, Place

\* Taking an element out of the list leaves a sorted list of the other keys.
LEMMA RemoveElement ==
  ASSUME IndInv, NEW i \in DOMAIN order
  PROVE  /\ ListRemove(order, i) \in Seq(Keys)
         /\ Len(ListRemove(order, i)) = Len(order) - 1
         /\ Elements(ListRemove(order, i)) = DOMAIN items \ {order[i]}
         /\ Distinct(ListRemove(order, i))
         /\ Sorted(ListRemove(order, i), used)
  <1>1. order \in Seq(Keys) /\ Elements(order) = DOMAIN items /\ Distinct(order) /\ Sorted(order, used)
    BY ListForm DEF IndInv, TypeOK
  <1> QED
    BY <1>1, ListRemoveCorrect

\* Putting the key in use at the front keeps the list sorted by last use.
LEMMA UseAtFront ==
  ASSUME IndInv, NEW k \in Keys, NEW s \in Seq(Keys), Distinct(s), Sorted(s, used),
         Elements(s) \subseteq DOMAIN items \ {k}, now' = now + 1,
         NEW u, u[k] = now', \A j \in Elements(s) : u[j] = used[j]
  PROVE  /\ PushFront(s, k) \in Seq(Keys)
         /\ Len(PushFront(s, k)) = Len(s) + 1
         /\ Elements(PushFront(s, k)) = Elements(s) \cup {k}
         /\ Distinct(PushFront(s, k))
         /\ Sorted(PushFront(s, k), u)
  <1>1. \A j \in Elements(s) : u[k] > u[j]
    BY DEF IndInv, TypeOK
  <1>2. Sorted(s, u)
    BY DEF Sorted, Elements
  <1> QED
    BY <1>1, <1>2, PushFrontCorrect

\* What a step that uses k has to establish.
LEMMA UseInv ==
  ASSUME IndInv, NEW k \in Keys, now' = now + 1,
         NEW K \in SUBSET (DOMAIN items \ {k}),
         DOMAIN items' = K \cup {k}, \A j \in DOMAIN items' : items'[j] \in Vals,
         DOMAIN used' = K \cup {k}, used'[k] = now', \A j \in K : used'[j] = used[j],
         NEW s \in Seq(Keys), Distinct(s), Sorted(s, used), Elements(s) = K,
         Len(s) + 1 <= Capacity,
         order' = PushFront(s, k)
  PROVE  IndInv'
  <1>1. /\ order' \in Seq(Keys)
        /\ Len(order') = Len(s) + 1
        /\ Elements(order') = K \cup {k}
        /\ Distinct(order')
        /\ Sorted(order', used')
    BY UseAtFront
  <1>2. TypeOK'
    BY <1>1 DEF IndInv, TypeOK
  <1>3. ListMatchesItems' /\ OrderIsRecency'
    BY <1>1 DEF ListMatchesItems, OrderIsRecency, Elements, Distinct, Sorted
  <1>4. Len(order') <= Capacity
    BY <1>1
  <1> QED
    BY <1>2, <1>3, <1>4 DEF IndInv, Capacity

\* The capacity is at least one.
LEMMA CapacityPositive == Capacity \in Nat /\ Capacity >= 1
  BY SizeAssumption DEF Capacity

\* The cache starts empty.
LEMMA InitInv == Init => IndInv
  BY CapacityPositive DEF Init, IndInv, TypeOK, ListMatchesItems, OrderIsRecency

\* As many entries as list elements.
LEMMA CardinalityIsLen ==
  ASSUME IndInv
  PROVE  Len(order) \in Nat /\ DOMAIN order = 1..Len(order) /\ Cardinality(DOMAIN items) = Len(order)
  <1>1. order \in Seq(Keys) /\ Len(order) \in Nat /\ DOMAIN order = 1..Len(order)
    BY DEF IndInv, TypeOK
  <1>2. order \in Bijection(1..Len(order), DOMAIN items)
    BY <1>1 DEF IndInv, ListMatchesItems, Bijection, Injection, Surjection, IsInjective
  <1> QED
    BY <1>1, <1>2, FS_CountingElements DEF ExistsBijection

\* A hit, and a put of a key the cache has, keep the invariant.
LEMMA PromoteInv ==
  ASSUME IndInv, NEW k \in Keys, k \in DOMAIN items, now' = now + 1,
         order' = MoveToFront(order, k), used' = With(used, k, now'),
         DOMAIN items' = DOMAIN items, \A j \in DOMAIN items : items'[j] \in Vals
  PROVE  IndInv'
  <1> DEFINE i == Place(order, k)
             s == ListRemove(order, i)
             K == DOMAIN items \ {k}
  <1>1. i \in DOMAIN order /\ order[i] = k
    BY PlaceOfKey
  <1>2. /\ s \in Seq(Keys) /\ Len(s) = Len(order) - 1
        /\ Elements(s) = K /\ Distinct(s) /\ Sorted(s, used)
    BY <1>1, RemoveElement
  <1>3. order' = PushFront(s, k)
    BY DEF MoveToFront
  <1>4. DOMAIN used = DOMAIN items
    BY DEF IndInv, TypeOK
  <1>5. DOMAIN used' = K \cup {k} /\ used'[k] = now' /\ \A j \in K : used'[j] = used[j]
    BY <1>4 DEF With
  <1>6. Len(s) + 1 <= Capacity
    BY <1>2, CardinalityIsLen DEF IndInv
  <1>7. K \in SUBSET (DOMAIN items \ {k}) /\ DOMAIN items' = K \cup {k}
    OBVIOUS
  <1> HIDE DEF s, K, i
  <1> QED
    BY <1>2, <1>3, <1>5, <1>6, <1>7, UseInv

\* Inserting a key below capacity keeps the invariant.
LEMMA PutNewInv ==
  ASSUME IndInv, NEW k \in Keys, NEW v \in Vals, now' = now + 1, PutNew(k, v)
  PROVE  IndInv'
  <1> DEFINE K == DOMAIN items
  <1>1. /\ order \in Seq(Keys) /\ Elements(order) = K /\ Distinct(order) /\ Sorted(order, used)
        /\ DOMAIN used = K
    BY ListForm DEF IndInv, TypeOK
  <1>2. Len(order) + 1 <= Capacity
    BY CardinalityIsLen, CapacityPositive DEF PutNew
  <1>3. /\ DOMAIN items' = K \cup {k} /\ \A j \in DOMAIN items' : items'[j] \in Vals
        /\ DOMAIN used' = K \cup {k} /\ used'[k] = now' /\ \A j \in K : used'[j] = used[j]
        /\ K \in SUBSET (DOMAIN items \ {k}) /\ order' = PushFront(order, k)
    BY <1>1 DEF PutNew, With, IndInv, TypeOK
  <1> HIDE DEF K
  <1> QED
    BY <1>1, <1>2, <1>3, UseInv

\* Inserting a key at capacity takes the last element out of list and map.
LEMMA PutEvictingInv ==
  ASSUME IndInv, NEW k \in Keys, NEW v \in Vals, now' = now + 1, PutEvicting(k, v)
  PROVE  IndInv'
  <1> DEFINE n == Len(order)
             s == ListRemove(order, n)
             K == DOMAIN items \ {order[n]}
             back == {order[i] : i \in DOMAIN order \cap {Len(order)}}
  <1>1. n \in DOMAIN order /\ n <= Capacity /\ n \in Nat
    BY CardinalityIsLen, CapacityPositive DEF PutEvicting, IndInv
  <1>2. /\ s \in Seq(Keys) /\ Len(s) = n - 1
        /\ Elements(s) = K /\ Distinct(s) /\ Sorted(s, used)
    BY <1>1, RemoveElement
  <1>3. back = {order[n]}
    BY <1>1
  <1>4. /\ items' = With(Without(items, back), k, v)
        /\ used' = With(Without(used, back), k, now')
        /\ order' = PushFront(s, k) /\ k \notin DOMAIN items
    BY DEF PutEvicting
  <1>5. DOMAIN used = DOMAIN items /\ \A j \in DOMAIN items : items[j] \in Vals
    BY DEF IndInv, TypeOK
  <1> HIDE DEF n, s, back
  <1>6. /\ DOMAIN items' = K \cup {k} /\ \A j \in DOMAIN items' : items'[j] \in Vals
        /\ DOMAIN used' = K \cup {k} /\ used'[k] = now' /\ \A j \in K : used'[j] = used[j]
        /\ K \in SUBSET (DOMAIN items \ {k})
    BY <1>3, <1>4, <1>5 DEF With, Without
  <1>7. Len(s) + 1 <= Capacity
    BY <1>1, <1>2
  <1> HIDE DEF K
  <1> QED
    BY <1>2, <1>4, <1>6, <1>7, UseInv

\* Deleting a key takes it out of list and map.
LEMMA DeleteInv == ASSUME IndInv, NEW k \in Keys, Delete(k) PROVE IndInv'
  <1> DEFINE i == Place(order, k)
             s == ListRemove(order, i)
  <1>1. i \in DOMAIN order /\ order[i] = k
    BY PlaceOfKey DEF Delete
  <1>2. /\ s \in Seq(Keys) /\ Len(s) = Len(order) - 1
        /\ Elements(s) = DOMAIN items \ {k} /\ Distinct(s) /\ Sorted(s, used)
    BY <1>1, RemoveElement
  <1>3. /\ order' = s /\ items' = Without(items, {k}) /\ used' = Without(used, {k})
        /\ UNCHANGED now
    BY DEF Delete
  <1> HIDE DEF s
  <1>4. TypeOK'
    BY <1>2, <1>3 DEF IndInv, TypeOK, Without
  <1>5. Sorted(s, used')
    BY <1>2, <1>3 DEF Sorted, Elements, Without, IndInv, TypeOK
  <1>6. ListMatchesItems' /\ OrderIsRecency'
    BY <1>2, <1>3, <1>5 DEF ListMatchesItems, OrderIsRecency, Elements, Distinct, Sorted, Without
  <1>7. Len(order') <= Capacity
    BY <1>2, <1>3, CardinalityIsLen, CapacityPositive DEF IndInv
  <1> QED
    BY <1>4, <1>6, <1>7 DEF IndInv, Capacity

\* Every step keeps the invariant.
LEMMA NextInv == IndInv /\ [Next]_vars => IndInv'
  <1> SUFFICES ASSUME IndInv, [Next]_vars PROVE IndInv'
    OBVIOUS
  <1>1. CASE UNCHANGED vars
    BY <1>1 DEF vars, IndInv, TypeOK, ListMatchesItems, OrderIsRecency, Capacity
  <1>2. ASSUME NEW k \in Keys, Get(k) PROVE IndInv'
    BY <1>2, PromoteInv DEF Get, IndInv, TypeOK
  <1>3. ASSUME NEW k \in Keys, Delete(k) PROVE IndInv'
    BY <1>3, DeleteInv
  <1>4. ASSUME NEW k \in Keys, NEW v \in Vals, Put(k, v) PROVE IndInv'
    <2>1. CASE PutExisting(k, v)
      <3>1. DOMAIN items' = DOMAIN items /\ \A j \in DOMAIN items : items'[j] \in Vals
        BY <2>1 DEF PutExisting, With, IndInv, TypeOK
      <3> QED
        BY <1>4, <2>1, <3>1, PromoteInv DEF Put, PutExisting
    <2>2. CASE PutNew(k, v)
      BY <1>4, <2>2, PutNewInv DEF Put
    <2>3. CASE PutEvicting(k, v)
      BY <1>4, <2>3, PutEvictingInv DEF Put
    <2> QED
      BY <1>4, <2>1, <2>2, <2>3 DEF Put
  <1> QED
    BY <1>1, <1>2, <1>3, <1>4 DEF Next, Miss

\* The invariant holds in every reachable state of the cache.
THEOREM Invariance == Spec => []IndInv
  BY InitInv, NextInv, PTL DEF Spec

\* The map and the list keep their types (lru.go:19).
THEOREM TypeCorrect == Spec => []TypeOK
  <1>1. IndInv => TypeOK
    BY DEF IndInv
  <1> QED
    BY <1>1, Invariance, PTL

\* The list and the map always hold the same keys (lru.go:25).
THEOREM AlwaysMatching == Spec => []ListMatchesItems
  <1>1. IndInv => ListMatchesItems
    BY DEF IndInv
  <1> QED
    BY <1>1, Invariance, PTL

\* "a thread-safe fixed-capacity LRU cache" (lru.go:19), for every size given
\* to newLRUCache, zero and negative ones included.
THEOREM AlwaysWithinCapacity == Spec => []WithinCapacity
  <1>1. IndInv => WithinCapacity
    BY CardinalityIsLen DEF IndInv, WithinCapacity
  <1> QED
    BY <1>1, Invariance, PTL

\* The last element of the list, and no other, is the entry used longest ago.
LEMMA BackIsOldest ==
  ASSUME IndInv, Len(order) >= 1
  PROVE  Abstract!Oldest = {order[Len(order)]}
  <1> DEFINE n == Len(order)
  <1>1. n \in Nat /\ DOMAIN order = 1..n /\ n \in 1..n
    BY CardinalityIsLen
  <1>2. /\ \A i \in 1..n : order[i] \in DOMAIN items /\ used[order[i]] \in Nat
        /\ \A j \in DOMAIN items : \E i \in 1..n : order[i] = j
    BY <1>1 DEF IndInv, ListMatchesItems, TypeOK
  <1> HIDE DEF n
  <1>3. ASSUME NEW i \in 1..n, i # n PROVE used[order[i]] > used[order[n]]
    <2>1. \A m \in Nat : \A j \in 1..m : j # m => j < m
      OBVIOUS
    <2>3. i < n /\ i \in DOMAIN order /\ n \in DOMAIN order
      BY <1>1, <1>3, <2>1
    <2>2. OrderIsRecency
      BY DEF IndInv
    <2> QED
      BY <2>2, <2>3 DEF OrderIsRecency
  <1>4. order[n] \in Abstract!Oldest
    BY <1>1, <1>2, <1>3 DEF Abstract!Oldest
  <1>5. ASSUME NEW k \in Abstract!Oldest PROVE k = order[n]
    <2>1. k \in DOMAIN items /\ used[k] <= used[order[n]]
      BY <1>1, <1>2 DEF Abstract!Oldest
    <2>2. PICK i \in 1..n : order[i] = k
      BY <1>2, <2>1
    <2>3. used[k] \in Nat /\ used[order[n]] \in Nat
      BY <1>1, <1>2, <2>2
    <2>4. ~(used[k] > used[order[n]])
      BY <2>1, <2>3
    <2> QED
      BY <1>3, <2>2, <2>4
  <1> QED
    BY <1>4, <1>5 DEF n

\* "the least-recently-used entry is evicted first" (lru.go:58): the list
\* implements RecencyCache, whose clocks say which entry that is.
THEOREM Refinement == Spec => ImplementsRecencyCache
  <1>1. Init => Abstract!Init
    BY DEF Init, Abstract!Init
  <1>2. IndInv /\ [Next]_vars => [Abstract!Next]_<<items, used, now>>
    <2> SUFFICES ASSUME IndInv, [Next]_vars PROVE [Abstract!Next]_<<items, used, now>>
      OBVIOUS
    <2>0. /\ \A f, K : Abstract!Without(f, K) = Without(f, K)
          /\ \A f, k, x : Abstract!With(f, k, x) = With(f, k, x)
      BY DEF Abstract!Without, Abstract!With, Without, With
    <2>1. CASE UNCHANGED vars
      BY <2>1 DEF vars
    <2>2. ASSUME NEW k \in Keys, Get(k) PROVE Abstract!Next
      <3>1. Abstract!Use(k)
        BY <2>0, <2>2 DEF Get, Abstract!Use
      <3> QED BY <3>1 DEF Abstract!Next
    <2>3. ASSUME NEW k \in Keys, Delete(k) PROVE Abstract!Next
      <3>1. Abstract!Drop(k)
        BY <2>0, <2>3 DEF Delete, Abstract!Drop
      <3> QED BY <3>1 DEF Abstract!Next
    <2>4. ASSUME NEW k \in Keys, NEW v \in Vals, Put(k, v) PROVE Abstract!Next
      <3> SUFFICES Abstract!Insert(k, v)
        BY DEF Abstract!Next
      <3>1. now' = now + 1
        BY <2>4 DEF Put
      <3>2. ASSUME NEW f PROVE Without(f, {}) = [j \in DOMAIN f |-> f[j]]
        BY DEF Without
      <3>3. ASSUME NEW f, NEW x PROVE With(Without(f, {}), k, x) = With(f, k, x)
        BY DEF With, Without
      <3>0. \A S : Abstract!Cardinality(S) = Cardinality(S)
        BY DEF Abstract!Cardinality, Cardinality
      <3>4. CASE PutExisting(k, v)
        <4>1. Abstract!Evicted(k) = {}
          BY <3>4 DEF PutExisting, Abstract!Evicted
        <4> QED
          BY <2>0, <3>1, <3>3, <3>4, <4>1 DEF PutExisting, Abstract!Insert
      <3>5. CASE PutNew(k, v)
        <4>1. Abstract!Evicted(k) = {}
          BY <3>0, <3>5, CardinalityIsLen, CapacityPositive DEF PutNew, Abstract!Evicted
        <4> QED
          BY <2>0, <3>1, <3>3, <3>5, <4>1 DEF PutNew, Abstract!Insert
      <3>6. CASE PutEvicting(k, v)
        <4>1. Len(order) >= 1 /\ Len(order) \in DOMAIN order
          BY <3>6, CardinalityIsLen, CapacityPositive DEF PutEvicting
        <4>2. Abstract!Evicted(k) = {order[Len(order)]}
          BY <3>0, <3>6, <4>1, BackIsOldest DEF PutEvicting, Abstract!Evicted
        <4>3. {order[i] : i \in DOMAIN order \cap {Len(order)}} = {order[Len(order)]}
          BY <4>1
        <4> QED
          BY <2>0, <3>1, <3>6, <4>2, <4>3 DEF PutEvicting, Abstract!Insert
      <3> QED
        BY <2>4, <3>4, <3>5, <3>6 DEF Put
    <2> QED
      BY <2>1, <2>2, <2>3, <2>4 DEF Next, Miss
  <1> QED
    BY <1>1, <1>2, Invariance, PTL DEF Spec, ImplementsRecencyCache, Abstract!Spec
=============================================================================
