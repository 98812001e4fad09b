-------------------------- MODULE DedupStoreProofs --------------------------
(***************************************************************************)
(* Theorems about DedupStore, for every set of keys and of trees: GC never *)
(* takes what is referred to and leaves nothing else, no two live nodes    *)
(* stand for one tree, an Upsert reads back as what it was given, and the  *)
(* store implements the map of ObjectStore, and counts its references.     *)
(*                                                                         *)
(* The first half proves IndInv: what anything refers to is live.  The     *)
(* second half proves StoreInv: what is live reads as a tree that was      *)
(* stored.  Reconstruct is recursive over IDs and Normal over trees; since *)
(* children have smaller IDs and no tree contains itself, both follow from *)
(* the least ID, or the innermost tree, that would break them.  The last   *)
(* part proves CountInv: the reference counts are numbers of paths.  What  *)
(* a total is follows from the smallest set that would break it.           *)
(***************************************************************************)
EXTENDS DedupStore, FiniteSetTheorems, TLAPS

-----------------------------------------------------------------------------
(* Sorting map entries                                                     *)

Rank(E, e) == Cardinality({f \in E : f.key < e.key})

\* Ranks order entries with distinct keys as their keys do, and every rank is
\* taken: the CHOOSE of SortEntries always has one entry to choose.
LEMMA RanksTaken ==
  ASSUME NEW E, IsFiniteSet(E), \A e \in E : e.key \in Nat,
         \A e, f \in E : e.key = f.key => e = f
  PROVE  /\ Cardinality(E) \in Nat
         /\ \A e \in E : Rank(E, e) \in 0..Cardinality(E) - 1
         /\ \A e, f \in E : e.key < f.key => Rank(E, e) < Rank(E, f)
         /\ \A i \in 1..Cardinality(E) : \E e \in E : Rank(E, e) = i - 1
  <1> DEFINE n == Cardinality(E)
             below(e) == {f \in E : f.key < e.key}
             r == [e \in E |-> Rank(E, e)]
  <1>1. n \in Nat
    BY FS_CardinalityType
  <1>2. ASSUME NEW e \in E PROVE Rank(E, e) \in 0..n - 1
    <2>1. below(e) \subseteq E \ {e}
      OBVIOUS
    <2>2. IsFiniteSet(E \ {e}) /\ Cardinality(E \ {e}) = n - 1
      BY FS_RemoveElement
    <2>3. IsFiniteSet(below(e)) /\ Cardinality(below(e)) <= n - 1
      BY <2>1, <2>2, FS_Subset
    <2>4. Cardinality(below(e)) \in Nat
      BY <2>3, FS_CardinalityType
    <2> QED
      BY <1>1, <2>3, <2>4 DEF Rank
  <1>3. ASSUME NEW e \in E, NEW f \in E, e.key < f.key PROVE Rank(E, e) < Rank(E, f)
    <2>1. below(e) \subseteq below(f) /\ f \notin below(e) /\ e \in below(f) /\ e \notin below(e)
      BY <1>3
    <2>2. IsFiniteSet(below(f))
      BY FS_Subset
    <2>3. /\ Cardinality(below(e)) <= Cardinality(below(f))
          /\ Cardinality(below(e)) # Cardinality(below(f))
      BY <2>1, <2>2, FS_Subset
    <2>4. Cardinality(below(e)) \in Int /\ Cardinality(below(f)) \in Int
      BY <2>1, <2>2, FS_Subset, FS_CardinalityType
    <2> QED
      BY <2>3, <2>4 DEF Rank
  <1>4. r \in Injection(E, 0..n - 1)
    <2>1. r \in [E -> 0..n - 1]
      BY <1>2
    <2>2. ASSUME NEW e \in E, NEW f \in E, r[e] = r[f] PROVE e = f
      <3>1. CASE e.key < f.key
        BY <1>2, <1>3, <2>2, <3>1
      <3>2. CASE f.key < e.key
        BY <1>2, <1>3, <2>2, <3>2
      <3> QED
        BY <3>1, <3>2
    <2> QED
      BY <2>1, <2>2 DEF Injection, IsInjective
  <1>5. IsFiniteSet(0..n - 1) /\ Cardinality(0..n - 1) = n
    BY <1>1, FS_Interval
  <1>6. r \in Surjection(E, 0..n - 1)
    BY <1>4, <1>5, FS_Injection
  <1>7. ASSUME NEW i \in 1..n PROVE \E e \in E : Rank(E, e) = i - 1
    <2>1. i - 1 \in 0..n - 1
      BY <1>1
    <2> QED
      BY <1>6, <2>1 DEF Surjection
  <1> QED
    BY <1>1, <1>2, <1>3, <1>7

\* Sorting a map's entries loses none, invents none, and orders them by key.
LEMMA SortCorrect ==
  ASSUME NEW n \in Nat, NEW es, DOMAIN es = 1..n,
         \A i \in 1..n : es[i].key \in Nat,
         \A i, j \in 1..n : es[i].key = es[j].key => es[i] = es[j]
  PROVE  LET E == {es[i] : i \in 1..n} IN
         /\ SortEntries(es) \in Seq(E)
         /\ E = {SortEntries(es)[i] : i \in DOMAIN SortEntries(es)}
         /\ \A i, j \in DOMAIN SortEntries(es) :
              i < j => SortEntries(es)[i].key < SortEntries(es)[j].key
  <1> DEFINE E == {es[i] : i \in 1..n}
             m == Cardinality(E)
  <1>1. IsFiniteSet(E)
    <2> DEFINE f == [i \in 1..n |-> es[i]]
    <2>1. f \in Surjection(1..n, E)
      BY DEF Surjection
    <2>2. IsFiniteSet(1..n)
      BY FS_Interval
    <2> QED
      BY <2>1, <2>2, FS_Surjection
  <1>2. \A e \in E : e.key \in Nat
    OBVIOUS
  <1>3. \A e, f \in E : e.key = f.key => e = f
    OBVIOUS
  <1> HIDE DEF E
  <1>4. /\ m \in Nat
        /\ \A e \in E : Rank(E, e) \in 0..m - 1
        /\ \A e, f \in E : e.key < f.key => Rank(E, e) < Rank(E, f)
        /\ \A i \in 1..m : \E e \in E : Rank(E, e) = i - 1
    BY <1>1, <1>2, <1>3, RanksTaken
  <1> DEFINE s == [i \in 1..m |-> CHOOSE e \in E : Rank(E, e) = i - 1]
  <1>5. SortEntries(es) = s
    BY DEF SortEntries, Rank, E
  <1>6. \A i \in 1..m : s[i] \in E /\ Rank(E, s[i]) = i - 1
    BY <1>4
  <1>7. DOMAIN s = 1..m
    OBVIOUS
  <1> HIDE DEF s, m
  <1>8. s \in Seq(E)
    BY <1>4, <1>6, <1>7 DEF s
  <1>9. ASSUME NEW e \in E PROVE \E i \in 1..m : s[i] = e
    <2> DEFINE i == Rank(E, e) + 1
    <2>1. i \in 1..m /\ Rank(E, e) \in Nat /\ i - 1 = Rank(E, e)
      BY <1>4
    <2> HIDE DEF i
    <2>2. s[i] \in E /\ Rank(E, s[i]) = Rank(E, e)
      BY <1>6, <2>1
    <2>3. s[i].key = e.key
      <3>1. ~(s[i].key < e.key) /\ ~(e.key < s[i].key)
        BY <1>4, <2>1, <2>2
      <3>2. s[i].key \in Nat /\ e.key \in Nat
        BY <1>2, <2>2
      <3> QED
        BY <3>1, <3>2
    <2> QED
      BY <1>3, <2>1, <2>2, <2>3
  <1>10. ASSUME NEW i \in 1..m, NEW j \in 1..m, i < j PROVE s[i].key < s[j].key
    <2>1. s[i] \in E /\ s[j] \in E /\ Rank(E, s[i]) < Rank(E, s[j])
      BY <1>4, <1>6, <1>10
    <2>2. Rank(E, s[i]) \in Int /\ Rank(E, s[j]) \in Int
      BY <1>4, <2>1
    <2>3. s[i].key \in Nat /\ s[j].key \in Nat
      BY <1>2, <2>1
    <2>4. ~(s[j].key < s[i].key) /\ s[i].key # s[j].key
      BY <1>3, <1>4, <2>1, <2>2
    <2> QED
      BY <2>3, <2>4
  <1> QED
    BY <1>5, <1>6, <1>7, <1>8, <1>9, <1>10 DEF E

\* The members of a sequence.
LEMMA ElementOfSeq ==
  ASSUME NEW S, NEW q \in Seq(S), NEW i \in DOMAIN q PROVE q[i] \in S
  OBVIOUS

\* Sorting sees only which entries there are.
LEMMA SortOfSet ==
  ASSUME NEW a, NEW b, {a[i] : i \in DOMAIN a} = {b[i] : i \in DOMAIN b}
  PROVE  SortEntries(a) = SortEntries(b)
  <1> DEFINE sorted(E) == [i \in 1..Cardinality(E) |->
                             CHOOSE e \in E : Cardinality({f \in E : f.key < e.key}) = i - 1]
  <1>1. SortEntries(a) = sorted({a[i] : i \in DOMAIN a}) /\ SortEntries(b) = sorted({b[i] : i \in DOMAIN b})
    BY DEF SortEntries
  <1> HIDE DEF sorted
  <1> QED
    BY <1>1

\* A function on 1..n is a sequence.
LEMMA SeqIntro ==
  ASSUME NEW S, NEW n \in Nat, NEW f \in [1..n -> S] PROVE f \in Seq(S)
  OBVIOUS

-----------------------------------------------------------------------------
(* Pools                                                                   *)

PoolOf(D) == [slots : Seq(D), live : SUBSET Nat]

\* q has every slot of p, and at most the ID of c is live in q and not in p.
Grown(p, q, c) ==
  /\ p.live \subseteq q.live
  /\ \A i \in q.live : i \in p.live \/ q.slots[i] = c
  /\ Len(p.slots) <= Len(q.slots)
  /\ DOMAIN p.slots \subseteq DOMAIN q.slots
  /\ \A i \in DOMAIN p.slots : q.slots[i] = p.slots[i]

\* q is p without the IDs outside keep.
Swept(p, q, keep) ==
  /\ q.live = p.live \cap keep
  /\ DOMAIN q.slots = DOMAIN p.slots
  /\ Len(q.slots) = Len(p.slots)
  /\ \A i \in q.live : q.slots[i] = p.slots[i]

\* IdOf returns a live ID that holds the content.
LEMMA IdOfLive ==
  ASSUME NEW p, NEW c, Has(p, c)
  PROVE  IdOf(p, c) \in p.live /\ p.slots[IdOf(p, c)] = c
  BY DEF Has, IdOf

\* Intern keeps a pool well formed, keeps every slot, and adds at most the
\* content's own ID to the live ones.
LEMMA InternKeeps ==
  ASSUME NEW C, NEW D, C \subseteq D, NEW p \in PoolOf(D), WellFormed(p, C), NEW c \in C
  PROVE  /\ Intern(p, c) \in PoolOf(D)
         /\ WellFormed(Intern(p, c), C)
         /\ Has(Intern(p, c), c)
         /\ Grown(p, Intern(p, c), c)
  <1>1. CASE Has(p, c)
    BY <1>1 DEF Intern, Grown, WellFormed, PoolOf
  <1>2. CASE ~Has(p, c)
    <2> DEFINE new == Len(p.slots) + 1
               q == [slots |-> Append(p.slots, c), live |-> p.live \cup {new}]
    <2>1. Intern(p, c) = q
      BY <1>2 DEF Intern
    <2>2. /\ p.slots \in Seq(D) /\ p.live \subseteq DOMAIN p.slots
          /\ q.slots = Append(p.slots, c) /\ q.live = p.live \cup {new}
          /\ c \in D
      BY DEF PoolOf, WellFormed
    <2>3. /\ q.slots \in Seq(D)
          /\ Len(q.slots) = new
          /\ Len(p.slots) <= Len(q.slots)
          /\ DOMAIN q.slots = DOMAIN p.slots \cup {new}
          /\ new \in Nat /\ new \notin DOMAIN p.slots
          /\ q.slots[new] = c
          /\ \A i \in DOMAIN p.slots : q.slots[i] = p.slots[i]
      BY <2>2
    <2>4. q \in PoolOf(D)
      BY <2>2, <2>3 DEF PoolOf
    <2>5. \A i \in p.live : p.slots[i] # c
      BY <1>2 DEF Has
    <2> HIDE DEF q, new
    <2>6. WellFormed(q, C)
      BY <2>2, <2>3, <2>5 DEF WellFormed
    <2> QED
      BY <2>1, <2>2, <2>3, <2>4, <2>6 DEF Has, Grown
  <1> QED
    BY <1>1, <1>2

\* Sweep keeps a pool well formed and every kept ID's content.
LEMMA SweepKeeps ==
  ASSUME NEW C, NEW D, NEW p \in PoolOf(D), WellFormed(p, C), NEW keep, NEW z \in D
  PROVE  /\ Sweep(p, keep, z) \in PoolOf(D)
         /\ WellFormed(Sweep(p, keep, z), C)
         /\ Swept(p, Sweep(p, keep, z), keep)
  <1> DEFINE f == [i \in DOMAIN p.slots |-> IF i \in p.live \ keep THEN z ELSE p.slots[i]]
             q == [slots |-> f, live |-> p.live \cap keep]
  <1>1. Sweep(p, keep, z) = q
    BY DEF Sweep
  <1>2. p.slots \in Seq(D) /\ p.live \subseteq DOMAIN p.slots
    BY DEF PoolOf, WellFormed
  <1>3. f \in Seq(D) /\ Len(f) = Len(p.slots) /\ DOMAIN f = DOMAIN p.slots
    BY <1>2
  <1>4. q.slots = f /\ q.live = p.live \cap keep
    OBVIOUS
  <1>5. \A i \in q.live : q.slots[i] = p.slots[i]
    BY <1>2, <1>4
  <1>6. q \in PoolOf(D)
    BY <1>3 DEF PoolOf
  <1> HIDE DEF f, q
  <1>7. WellFormed(q, C)
    BY <1>3, <1>4, <1>5 DEF WellFormed
  <1> QED
    BY <1>1, <1>3, <1>4, <1>5, <1>6, <1>7 DEF Swept

-----------------------------------------------------------------------------
(* The inductive invariant                                                 *)

\* NoDangling is not inductive alone: Upsert builds nodes from memo and from
\* the value pool, GC keeps what its walk has marked, so what those refer to
\* must be live, and IDs must stand for one content each.
IndInv ==
  /\ TypeOK
  /\ WellFormed(values, Contents)
  /\ WellFormed(subtrees, Node)
  /\ NoDangling
  /\ RootsLive

\* What one step may do to the value pool while nodes are being interned.
ValuesGrow ==
  /\ values' \in PoolOf(Contents \cup {Nil})
  /\ WellFormed(values', Contents)
  /\ values.live \subseteq values'.live

\* The store starts empty.
LEMMA InitInv == Init => IndInv
  <1> SUFFICES ASSUME Init PROVE IndInv
    OBVIOUS
  <1>1. /\ values.slots = <<>> /\ values.live = {} /\ subtrees.slots = <<>> /\ subtrees.live = {}
        /\ Roots = {} /\ DOMAIN memo = {} /\ marked = {} /\ DOMAIN refcounts = {}
    BY DEF Init, EmptyPool, Roots
  <1>2. TypeOK
    BY <1>1 DEF Init, EmptyPool, TypeOK
  <1>3. WellFormed(values, Contents) /\ WellFormed(subtrees, Node) /\ NoDangling
    BY <1>1 DEF WellFormed, NoDangling
  <1>4. RootsLive
    BY <1>1 DEF RootsLive, Init
  <1> QED
    BY <1>2, <1>3, <1>4 DEF IndInv

\* Interning a node whose children and values are live keeps the invariant.
LEMMA InternNodeKeeps ==
  ASSUME IndInv, ValuesGrow, NEW t \in Trees, NEW n \in Node,
         Children(n) \subseteq subtrees.live,
         ValueIDs(n) \subseteq values'.live \cup {0},
         InternNode(t, n)
  PROVE  IndInv'
  <1>1. subtrees \in PoolOf(Node) /\ WellFormed(subtrees, Node)
    BY DEF IndInv, TypeOK, PoolOf
  <1>2. /\ subtrees' \in PoolOf(Node)
        /\ WellFormed(subtrees', Node)
        /\ Has(subtrees', n)
        /\ Grown(subtrees, subtrees', n)
    BY <1>1, InternKeeps DEF InternNode
  <1>3. IdOf(subtrees', n) \in subtrees'.live
    BY <1>2, IdOfLive
  <1>4. UNCHANGED <<objects, refcounts, mu, call, marked>>
    BY DEF InternNode
  <1>5. TypeOK'
    <2>1. DOMAIN memo' \subseteq Trees
      BY DEF InternNode, IndInv, TypeOK
    <2>2. objects' \in [Keys -> 0..Len(subtrees'.slots)]
      <3>1. Len(subtrees.slots) \in Nat /\ Len(subtrees'.slots) \in Nat
        BY <1>1, <1>2 DEF PoolOf
      <3> QED
        BY <1>2, <1>4, <3>1 DEF IndInv, TypeOK, Grown
    <2> QED
      BY <1>2, <1>4, <2>1, <2>2 DEF IndInv, TypeOK, ValuesGrow, PoolOf, Grown
  <1>6. NoDangling'
    <2> SUFFICES ASSUME NEW i \in subtrees'.live
                 PROVE  /\ Children(NodeAt(i)') \subseteq subtrees'.live
                        /\ ValueIDs(NodeAt(i)') \subseteq values'.live \cup {0}
      BY DEF NoDangling
    <2>1. NodeAt(i)' = subtrees'.slots[i]
      BY <1>2 DEF NodeAt, WellFormed
    <2>2. CASE i \in subtrees.live
      <3>1. NodeAt(i)' = NodeAt(i)
        BY <1>1, <1>2, <2>1, <2>2 DEF NodeAt, WellFormed, Grown
      <3>2. /\ Children(NodeAt(i)) \subseteq subtrees.live
            /\ ValueIDs(NodeAt(i)) \subseteq values.live \cup {0}
        BY <2>2 DEF IndInv, NoDangling
      <3> QED
        BY <1>2, <3>1, <3>2 DEF ValuesGrow, Grown
    <2>3. CASE subtrees'.slots[i] = n
      BY <1>2, <2>1, <2>3 DEF Grown
    <2> QED
      BY <1>2, <2>2, <2>3 DEF Grown
  <1>7. RootsLive'
    <2>1. Roots' = Roots
      BY <1>4 DEF Roots
    <2>2. ASSUME NEW u \in DOMAIN memo' PROVE memo'[u] \in subtrees'.live
      BY <1>2, <1>3 DEF InternNode, IndInv, RootsLive, Grown
    <2> QED
      BY <1>2, <1>4, <2>1, <2>2 DEF IndInv, RootsLive, Grown
  <1> QED
    BY <1>2, <1>5, <1>6, <1>7 DEF IndInv, ValuesGrow

\* Interning a content the value pool may hold only grows that pool.
LEMMA ValuesIntern ==
  ASSUME IndInv, NEW c \in Contents, values' = Intern(values, c)
  PROVE  ValuesGrow /\ IdOf(values', c) \in values'.live /\ values'.live \subseteq Nat
  <1>1. values \in PoolOf(Contents \cup {Nil}) /\ WellFormed(values, Contents)
    BY DEF IndInv, TypeOK, PoolOf
  <1>2. Contents \subseteq Contents \cup {Nil}
    OBVIOUS
  <1>3. /\ values' \in PoolOf(Contents \cup {Nil})
        /\ WellFormed(values', Contents)
        /\ Has(values', c)
        /\ Grown(values, values', c)
    BY <1>1, <1>2, InternKeeps
  <1> QED
    BY <1>3, IdOfLive DEF ValuesGrow, Grown, PoolOf

\* A step that leaves the value pool alone.
LEMMA ValuesSame ==
  ASSUME IndInv, UNCHANGED values PROVE ValuesGrow
  BY DEF IndInv, TypeOK, PoolOf, ValuesGrow

\* Decomposing a scalar keeps the invariant.
LEMMA DecomposeScalarInv ==
  ASSUME IndInv, NEW t \in Trees, DecomposeScalar(t) PROVE IndInv'
  <1>1. t.kind = "scalar"
    BY DEF DecomposeScalar
  <1>2. CASE t.val = Nil /\ InternNode(t, ScalarNode(0)) /\ UNCHANGED values
    <2> DEFINE n == ScalarNode(0)
    <2>1. n \in Node /\ Children(n) = {} /\ ValueIDs(n) = {0}
      BY DEF Node, ScalarNode, Children, ValueIDs
    <2>2. ValuesGrow
      BY <1>2, ValuesSame
    <2> HIDE DEF n
    <2> QED
      BY <1>2, <2>1, <2>2, InternNodeKeeps DEF n
  <1>3. CASE /\ values' = Intern(values, Normalise(t.val))
             /\ InternNode(t, ScalarNode(IdOf(values', Normalise(t.val))))
    <2> DEFINE c == Normalise(t.val)
               vid == IdOf(values', c)
               n == ScalarNode(vid)
    <2>1. c \in Contents
      BY <1>1 DEF Contents
    <2>2. ValuesGrow /\ vid \in values'.live /\ vid \in Nat
      BY <1>3, <2>1, ValuesIntern
    <2> HIDE DEF vid
    <2>3. n \in Node /\ Children(n) = {} /\ ValueIDs(n) = {vid}
      BY <2>2 DEF Node, ScalarNode, Children, ValueIDs
    <2>4. InternNode(t, n)
      BY <1>3 DEF vid
    <2> HIDE DEF n
    <2> QED
      BY <2>2, <2>3, <2>4, InternNodeKeeps
  <1> QED
    BY <1>2, <1>3 DEF DecomposeScalar

\* Decomposing a slice whose items have been decomposed keeps the invariant.
LEMMA DecomposeSliceInv ==
  ASSUME IndInv, NEW t \in Trees, Kids(t) \subseteq DOMAIN memo, DecomposeSlice(t)
  PROVE  IndInv'
  <1> DEFINE ids == [i \in DOMAIN t.items |-> memo[t.items[i]]]
             n == SliceNode(ids)
  <1>1. t.kind = "slice" /\ t.items \in Seq(Trees)
    BY TreesAssumption DEF DecomposeSlice, IsTree
  <1>2. \A i \in DOMAIN t.items : t.items[i] \in Kids(t)
    BY <1>1 DEF Kids
  <1>3. \A i \in DOMAIN t.items : ids[i] \in subtrees.live /\ ids[i] \in Nat
    BY <1>2 DEF IndInv, RootsLive, TypeOK
  <1>4. ids \in Seq(Nat) /\ DOMAIN ids = DOMAIN t.items
    <2>1. DOMAIN t.items = 1..Len(t.items) /\ Len(t.items) \in Nat
      BY <1>1
    <2>2. DOMAIN ids = DOMAIN t.items
      OBVIOUS
    <2>3. ids \in [1..Len(t.items) -> Nat]
      BY <1>3, <2>1
    <2> QED
      BY <2>1, <2>2, <2>3
  <1> HIDE DEF ids
  <1>5. n \in Node /\ Children(n) \subseteq subtrees.live /\ ValueIDs(n) = {}
    BY <1>3, <1>4 DEF Node, SliceNode, Children, ValueIDs
  <1>6. InternNode(t, n) /\ ValuesGrow
    BY ValuesSame DEF DecomposeSlice, ids
  <1> HIDE DEF n
  <1> QED
    BY <1>5, <1>6, InternNodeKeeps

\* The entry decompose makes of key k of map t.
EntryOf(t, k) == [key |-> IdOf(values, StringValue(k)), val |-> memo[t.entries[k]]]

\* In whatever order Go visits a map, its node lists one entry per key, sorted.
LEMMA DecomposeMapNode ==
  ASSUME IndInv, NEW t \in Trees, Kids(t) \subseteq DOMAIN memo, DecomposeMap(t)
  PROVE  \E s \in Seq([key : Nat, val : Nat]) :
           /\ InternNode(t, MapNode(s))
           /\ SortEntries(s) = s
           /\ {s[i] : i \in DOMAIN s} = {EntryOf(t, k) : k \in DOMAIN t.entries}
           /\ \A i, j \in DOMAIN s : s[i].key = s[j].key => i = j
           /\ \A k \in DOMAIN t.entries :
                /\ EntryOf(t, k).key \in values.live
                /\ values.slots[EntryOf(t, k).key] = StringValue(k)
                /\ EntryOf(t, k).val \in subtrees.live
  <1> DEFINE K == DOMAIN t.entries
             m == Cardinality(K)
  <1>1. t.kind = "map" /\ IsFiniteSet(K)
    BY TreesAssumption DEF DecomposeMap, IsTree
  <1>2. m \in Nat
    BY <1>1, FS_CardinalityType
  <1>3. \A k \in K : Has(values, StringValue(k))
    BY DEF DecomposeMap
  <1>4. PICK iter \in Iterations(K) :
          InternNode(t, MapNode(SortEntries([i \in DOMAIN iter |-> EntryOf(t, iter[i])])))
    BY DEF DecomposeMap, EntryOf
  <1> DEFINE es == [i \in 1..m |-> EntryOf(t, iter[i])]
             E == {es[i] : i \in 1..m}
             s == SortEntries(es)
  <1>5. /\ iter \in [1..m -> K]
        /\ \A i, j \in 1..m : iter[i] = iter[j] => i = j
        /\ DOMAIN iter = 1..m
    BY DEF Iterations
  <1>6. ASSUME NEW k \in K
        PROVE  /\ EntryOf(t, k) \in [key : Nat, val : Nat]
               /\ EntryOf(t, k).key \in values.live
               /\ values.slots[EntryOf(t, k).key] = StringValue(k)
               /\ EntryOf(t, k).val \in subtrees.live
    <2>1. t.entries[k] \in DOMAIN memo
      BY <1>1 DEF Kids
    <2>2. memo[t.entries[k]] \in subtrees.live /\ memo[t.entries[k]] \in Nat
      BY <2>1 DEF IndInv, RootsLive, TypeOK
    <2>3. /\ IdOf(values, StringValue(k)) \in values.live
          /\ values.slots[IdOf(values, StringValue(k))] = StringValue(k)
      BY <1>3, IdOfLive
    <2>4. values.live \subseteq Nat
      BY DEF IndInv, TypeOK
    <2> QED
      BY <2>2, <2>3, <2>4 DEF EntryOf
  <1>7. DOMAIN es = 1..m /\ \A i \in 1..m : es[i].key \in Nat
    BY <1>5, <1>6
  <1>8. ASSUME NEW i \in 1..m, NEW j \in 1..m, es[i].key = es[j].key PROVE es[i] = es[j]
    <2>1. StringValue(iter[i]) = StringValue(iter[j])
      BY <1>5, <1>6, <1>8
    <2>2. iter[i] = iter[j]
      BY <2>1 DEF StringValue
    <2> QED
      BY <2>2
  <1>9. E = {EntryOf(t, k) : k \in K}
    <2>1. iter \in Injection(1..m, K)
      BY <1>5 DEF Injection, IsInjective
    <2>2. IsFiniteSet(1..m) /\ Cardinality(1..m) = m
      BY <1>2, FS_Interval
    <2>3. iter \in Surjection(1..m, K)
      BY <1>1, <2>1, <2>2, FS_Injection
    <2>4. \A k \in K : \E i \in 1..m : iter[i] = k
      BY <2>3 DEF Surjection
    <2> QED
      BY <1>5, <2>4
  <1>10. \A e \in E : e \in [key : Nat, val : Nat]
    BY <1>6, <1>9
  <1>11. E = {es[i] : i \in DOMAIN es}
    BY <1>7
  <1> HIDE DEF es
  <1>12. /\ s \in Seq(E)
         /\ E = {s[i] : i \in DOMAIN s}
         /\ \A i, j \in DOMAIN s : i < j => s[i].key < s[j].key
    BY <1>2, <1>7, <1>8, SortCorrect
  <1> HIDE DEF E
  <1>13. SortEntries(s) = s
    <2>1. {s[i] : i \in DOMAIN s} = {es[i] : i \in DOMAIN es}
      BY <1>11, <1>12
    <2> QED
      BY <2>1, SortOfSet
  <1> HIDE DEF s
  <1>14. s \in Seq([key : Nat, val : Nat])
    <2>1. Len(s) \in Nat /\ s \in [1..Len(s) -> E]
      BY <1>12
    <2>2. s \in [1..Len(s) -> [key : Nat, val : Nat]]
      BY <1>10, <2>1
    <2> QED
      BY <2>1, <2>2, SeqIntro
  <1>15. ASSUME NEW i \in DOMAIN s, NEW j \in DOMAIN s, s[i].key = s[j].key PROVE i = j
    <2>1. i \in Int /\ j \in Int /\ s[i].key \in Nat
      <3>1. s[i] \in [key : Nat, val : Nat]
        BY <1>14, ElementOfSeq
      <3>2. DOMAIN s \subseteq Int
        BY <1>14
      <3> QED
        BY <3>1, <3>2
    <2>2. ~(i < j) /\ ~(j < i)
      BY <1>12, <1>15, <2>1
    <2> QED
      BY <2>1, <2>2
  <1>16. InternNode(t, MapNode(s))
    BY <1>4, <1>5 DEF s, es
  <1>17. {s[i] : i \in DOMAIN s} = {EntryOf(t, k) : k \in K}
    BY <1>9, <1>12
  <1>18. \A k \in K : /\ EntryOf(t, k).key \in values.live
                      /\ values.slots[EntryOf(t, k).key] = StringValue(k)
                      /\ EntryOf(t, k).val \in subtrees.live
    BY <1>6
  <1> HIDE DEF K
  <1> QED
    BY <1>13, <1>14, <1>15, <1>16, <1>17, <1>18 DEF K

\* Decomposing a map whose values have been decomposed and whose keys have
\* been interned keeps the invariant, in whatever order Go visits it.
LEMMA DecomposeMapInv ==
  ASSUME IndInv, NEW t \in Trees, Kids(t) \subseteq DOMAIN memo, DecomposeMap(t)
  PROVE  IndInv'
  <1>1. PICK s \in Seq([key : Nat, val : Nat]) :
          /\ InternNode(t, MapNode(s))
          /\ {s[i] : i \in DOMAIN s} = {EntryOf(t, k) : k \in DOMAIN t.entries}
          /\ \A k \in DOMAIN t.entries :
               /\ EntryOf(t, k).key \in values.live
               /\ EntryOf(t, k).val \in subtrees.live
    BY DecomposeMapNode
  <1> DEFINE n == MapNode(s)
  <1>2. ASSUME NEW i \in DOMAIN s PROVE s[i].key \in values.live /\ s[i].val \in subtrees.live
    <2>1. s[i] \in {EntryOf(t, k) : k \in DOMAIN t.entries}
      BY <1>1
    <2> QED
      BY <1>1, <2>1
  <1>3. /\ n \in Node
        /\ Children(n) \subseteq subtrees.live
        /\ ValueIDs(n) \subseteq values.live
    BY <1>2 DEF Node, MapNode, Children, ValueIDs
  <1>4. UNCHANGED values /\ ValuesGrow
    BY ValuesSame DEF DecomposeMap
  <1>5. InternNode(t, n)
    BY <1>1
  <1> HIDE DEF n
  <1> QED
    BY <1>3, <1>4, <1>5, InternNodeKeeps

\* The three forms of decompose.
LEMMA DecomposeInv ==
  ASSUME IndInv, NEW t \in Trees, Decompose(t) PROVE IndInv'
  <1>1. CASE DecomposeScalar(t)
    BY <1>1, DecomposeScalarInv
  <1>2. CASE DecomposeMap(t)
    BY <1>2, DecomposeMapInv DEF Decompose
  <1>3. CASE DecomposeSlice(t)
    BY <1>3, DecomposeSliceInv DEF Decompose
  <1> QED
    BY <1>1, <1>2, <1>3 DEF Decompose

\* A step that changes neither subtrees nor the IDs anything refers to, and at
\* most grows the value pool, keeps nodes from dangling.
LEMMA SubtreesSame ==
  ASSUME IndInv, UNCHANGED subtrees, ValuesGrow
  PROVE  NoDangling' /\ WellFormed(subtrees, Node)' /\ WellFormed(values, Contents)'
  <1>1. \A i : NodeAt(i)' = NodeAt(i)
    BY DEF NodeAt
  <1> QED
    BY <1>1 DEF IndInv, NoDangling, ValuesGrow, WellFormed

\* Interning a map key keeps the invariant.
LEMMA InternKeyInv ==
  ASSUME IndInv, NEW k \in MapKeys(Trees), InternKey(k) PROVE IndInv'
  <1>1. StringValue(k) \in Contents
    BY DEF Contents
  <1>2. ValuesGrow
    BY <1>1, ValuesIntern DEF InternKey
  <1>3. UNCHANGED <<subtrees, objects, refcounts, mu, call, memo, marked>>
    BY DEF InternKey
  <1>4. TypeOK'
    BY <1>2, <1>3 DEF IndInv, TypeOK, ValuesGrow, PoolOf
  <1>5. RootsLive'
    BY <1>3 DEF IndInv, RootsLive, Roots
  <1> QED
    BY <1>2, <1>3, <1>4, <1>5, SubtreesSame DEF IndInv

\* Starting an Upsert keeps the invariant.
LEMMA UpsertBeginInv ==
  ASSUME IndInv, NEW k \in Keys, NEW o \in Objects, UpsertBegin(k, o) PROVE IndInv'
  <1>1. TypeOK'
    BY DEF IndInv, TypeOK, UpsertBegin
  <1>2. RootsLive'
    BY DEF IndInv, RootsLive, Roots, UpsertBegin
  <1> QED
    BY <1>1, <1>2, SubtreesSame, ValuesSame DEF IndInv, UpsertBegin

\* The root of a finished decomposition is live, so the object it becomes has
\* a live root.
LEMMA UpsertCommitInv == ASSUME IndInv, UpsertCommit PROVE IndInv'
  <1> DEFINE root == memo[call.obj]
  <1>1. /\ call.key \in Keys /\ root \in subtrees.live
        /\ subtrees.live \subseteq DOMAIN subtrees.slots
        /\ subtrees.slots \in Seq(Node)
    BY DEF IndInv, TypeOK, RootsLive, UpsertCommit, WellFormed
  <1>2. root \in 1..Len(subtrees.slots) /\ Len(subtrees.slots) \in Nat
    BY <1>1
  <1>3. /\ objects' = [objects EXCEPT ![call.key] = root]
        /\ UNCHANGED <<values, subtrees>>
        /\ mu' = "free" /\ call' = NoCall /\ DOMAIN memo' = {} /\ marked' = {}
    BY DEF UpsertCommit, Release
  <1> HIDE DEF root
  <1>4. DOMAIN refcounts' \subseteq DOMAIN subtrees.slots
    <2>1. \A refs : DOMAIN IncRef(refs, root) \subseteq DOMAIN refs \cup 1..root
      BY DEF IncRef
    <2>2. DOMAIN DecRef(refcounts, objects[call.key]) = DOMAIN refcounts
      BY DEF DecRef
    <2>3. DOMAIN refcounts' \subseteq DOMAIN refcounts \cup 1..root
      BY <2>1, <2>2 DEF UpsertCommit, root
    <2>4. 1..root \subseteq DOMAIN subtrees.slots
      BY <1>1, <1>2
    <2> QED
      BY <2>3, <2>4 DEF IndInv, TypeOK
  <1>5. TypeOK'
    BY <1>1, <1>2, <1>3, <1>4 DEF IndInv, TypeOK
  <1>6. RootsLive'
    <2>1. Roots' \subseteq Roots \cup {root}
      BY <1>1, <1>3 DEF Roots, IndInv, TypeOK
    <2> QED
      BY <1>1, <1>3, <2>1 DEF IndInv, RootsLive
  <1> QED
    BY <1>3, <1>5, <1>6, SubtreesSame, ValuesSame DEF IndInv

\* Deleting an object keeps the invariant.
LEMMA DeleteInv == ASSUME IndInv, NEW k \in Keys, Delete(k) PROVE IndInv'
  <1>1. /\ objects' = [objects EXCEPT ![k] = 0]
        /\ mu = "free"
        /\ UNCHANGED <<values, subtrees, mu, call, memo, marked>>
        /\ DOMAIN refcounts' = DOMAIN refcounts
    BY DEF Delete, DecRef
  <1>2. TypeOK'
    BY <1>1 DEF IndInv, TypeOK
  <1>3. RootsLive'
    <2>1. Roots' \subseteq Roots
      BY <1>1 DEF Roots, IndInv, TypeOK
    <2> QED
      BY <1>1, <2>1 DEF IndInv, RootsLive
  <1> QED
    BY <1>1, <1>2, <1>3, SubtreesSame, ValuesSame DEF IndInv

\* Starting and continuing the walk of GC marks only live nodes.
LEMMA GCWalkInv == ASSUME IndInv, GCBegin \/ GCWalk PROVE IndInv'
  <1>1. UNCHANGED <<values, subtrees, objects, call, memo>> /\ mu' = "gc"
    BY DEF GCBegin, GCWalk
  <1>2. DOMAIN refcounts' \subseteq DOMAIN refcounts
    BY DEF GCBegin, GCWalk
  <1>3. marked' \subseteq subtrees.live /\ Roots \subseteq marked'
    <2>1. CASE GCBegin
      BY <2>1 DEF GCBegin, IndInv, RootsLive
    <2>2. CASE GCWalk
      BY <2>2 DEF GCWalk, Reached, IndInv, RootsLive, NoDangling
    <2> QED
      BY <2>1, <2>2
  <1>4. TypeOK'
    BY <1>1, <1>2, <1>3 DEF IndInv, TypeOK, WellFormed
  <1>5. RootsLive'
    BY <1>1, <1>3 DEF IndInv, RootsLive, Roots
  <1> QED
    BY <1>1, <1>4, <1>5, SubtreesSame, ValuesSame DEF IndInv

\* When the walk has nothing left to visit, what is marked is closed under
\* children and values, so the sweep takes nothing that is still referred to.
LEMMA GCSweepInv == ASSUME IndInv, GCSweep PROVE IndInv'
  <1> DEFINE keep == UNION {ValueIDs(NodeAt(id)) : id \in marked}
  <1>1. /\ subtrees' = Sweep(subtrees, marked, ZeroNode)
        /\ values' = Sweep(values, keep, Nil)
        /\ Reached = marked /\ mu = "gc"
        /\ UNCHANGED <<objects, refcounts>>
        /\ mu' = "free" /\ call' = NoCall /\ DOMAIN memo' = {} /\ marked' = {}
    BY DEF GCSweep, Release
  <1> HIDE DEF keep
  <1>2. /\ subtrees' \in PoolOf(Node)
        /\ WellFormed(subtrees', Node)
        /\ Swept(subtrees, subtrees', marked)
    <2>1. subtrees \in PoolOf(Node) /\ WellFormed(subtrees, Node) /\ ZeroNode \in Node
      BY DEF IndInv, TypeOK, PoolOf, ZeroNode, Node
    <2> QED
      BY <1>1, <2>1, SweepKeeps
  <1>3. /\ values' \in PoolOf(Contents \cup {Nil})
        /\ WellFormed(values', Contents)
        /\ Swept(values, values', keep)
    <2>1. /\ values \in PoolOf(Contents \cup {Nil})
          /\ WellFormed(values, Contents)
          /\ Nil \in Contents \cup {Nil}
      BY DEF IndInv, TypeOK, PoolOf
    <2> QED
      BY <1>1, <2>1, SweepKeeps
  <1>4. TypeOK'
    BY <1>1, <1>2, <1>3 DEF IndInv, TypeOK, PoolOf, Swept
  <1>5. NoDangling'
    <2> SUFFICES ASSUME NEW i \in subtrees'.live
                 PROVE  /\ Children(NodeAt(i)') \subseteq subtrees'.live
                        /\ ValueIDs(NodeAt(i)') \subseteq values'.live \cup {0}
      BY DEF NoDangling
    <2>1. i \in subtrees.live /\ i \in marked
      BY <1>2 DEF Swept
    <2>2. NodeAt(i)' = NodeAt(i)
      BY <1>2, <2>1 DEF NodeAt, Swept, WellFormed
    <2>3. /\ Children(NodeAt(i)) \subseteq subtrees.live
          /\ ValueIDs(NodeAt(i)) \subseteq values.live \cup {0}
      BY <2>1 DEF IndInv, NoDangling
    <2>4. Children(NodeAt(i)) \subseteq marked
      BY <1>1, <2>1 DEF Reached
    <2>5. ValueIDs(NodeAt(i)) \subseteq keep
      BY <2>1 DEF keep
    <2> QED
      BY <1>2, <1>3, <2>2, <2>3, <2>4, <2>5 DEF Swept
  <1>6. RootsLive'
    <2>1. Roots' = Roots
      BY <1>1 DEF Roots
    <2> QED
      BY <1>1, <1>2, <2>1 DEF IndInv, RootsLive, Swept
  <1> QED
    BY <1>2, <1>3, <1>4, <1>5, <1>6 DEF IndInv

\* Every step keeps the invariant.
LEMMA NextInv == IndInv /\ [Next]_vars => IndInv'
  <1> SUFFICES ASSUME IndInv, [Next]_vars PROVE IndInv'
    OBVIOUS
  <1>1. ASSUME NEW k \in Keys, Delete(k) PROVE IndInv'
    BY <1>1, DeleteInv
  <1>2. ASSUME NEW k \in Keys, NEW o \in Objects, UpsertBegin(k, o) PROVE IndInv'
    BY <1>2, UpsertBeginInv
  <1>3. ASSUME NEW t \in Trees, Decompose(t) PROVE IndInv'
    BY <1>3, DecomposeInv
  <1>4. ASSUME NEW k \in MapKeys(Trees), InternKey(k) PROVE IndInv'
    BY <1>4, InternKeyInv
  <1>5. CASE UpsertCommit
    BY <1>5, UpsertCommitInv
  <1>6. CASE GCBegin \/ GCWalk
    BY <1>6, GCWalkInv
  <1>7. CASE GCSweep
    BY <1>7, GCSweepInv
  <1>8. CASE UNCHANGED vars
    <2>1. TypeOK'
      BY <1>8 DEF vars, IndInv, TypeOK
    <2>2. RootsLive'
      BY <1>8 DEF vars, IndInv, RootsLive, Roots
    <2> QED
      BY <1>8, <2>1, <2>2, SubtreesSame, ValuesSame DEF IndInv, vars
  <1> QED
    BY <1>1, <1>2, <1>3, <1>4, <1>5, <1>6, <1>7, <1>8 DEF Next

\* The inductive invariant holds in every reachable state of the store.
THEOREM Invariance == Spec => []IndInv
  BY InitInv, NextInv, PTL DEF Spec

\* The store's state keeps its types: in particular roots, reference counts
\* and marks are allocated NodeIDs, through any calls.
THEOREM TypeCorrect == Spec => []TypeOK
  <1>1. IndInv => TypeOK
    BY DEF IndInv
  <1> QED
    BY <1>1, Invariance, PTL

\* GC (dedup_store.go:147) never clears a node or a value that a live node
\* refers to, and no Upsert builds on a cleared one: no reader of a live node
\* meets a cleared slot.
THEOREM NeverDangling == Spec => []NoDangling
  <1>1. IndInv => NoDangling
    BY DEF IndInv
  <1> QED
    BY <1>1, Invariance, PTL

\* GC never takes a stored object's root, whatever was deleted, replaced or
\* shared before it ran.
THEOREM RootsAlwaysLive == Spec => []RootsLive
  <1>1. IndInv => RootsLive
    BY DEF IndInv
  <1> QED
    BY <1>1, Invariance, PTL

-----------------------------------------------------------------------------
(* Reading a store: one level of the recursion                             *)

\* Every non-empty set of IDs has a smallest: what the provers have of induction.
LEMMA Smallest ==
  ASSUME NEW b \in Nat, NEW S \in SUBSET (0..b), S # {}
  PROVE  \E x \in S : \A y \in S : x <= y
  <1> DEFINE R == StrictSubsetOrdering(0..b)
             F == {(0..x) : x \in S}
  <1>1. IsWellFoundedOn(R, FiniteSubsetsOf(0..b))
    BY FS_StrictSubsetOrderingWellFounded
  <1>2. F \subseteq FiniteSubsetsOf(0..b)
    <2>1. SUFFICES ASSUME NEW x \in S PROVE (0..x) \in FiniteSubsetsOf(0..b)
      OBVIOUS
    <2>2. x \in Int /\ (0..x) \subseteq (0..b)
      OBVIOUS
    <2>3. IsFiniteSet(0..x)
      BY <2>2, FS_Interval
    <2> QED
      BY <2>2, <2>3 DEF FiniteSubsetsOf
  <1>3. PICK U \in F : \A V \in F : <<V, U>> \notin R
    <2>1. F # {}
      OBVIOUS
    <2> HIDE DEF R, F
    <2> QED
      BY <1>1, <1>2, <2>1, WFMin
  <1>4. PICK x \in S : U = (0..x)
    OBVIOUS
  <1>5. ASSUME NEW y \in S, y < x PROVE FALSE
    <2>1. x \in (0..x) /\ x \notin (0..y) /\ (0..y) \subseteq (0..x) /\ (0..x) \subseteq (0..b) /\ (0..y) \subseteq (0..b)
      BY <1>5
    <2>2. <<(0..y), (0..x)>> \in R
      BY <2>1 DEF StrictSubsetOrdering
    <2> QED
      BY <1>3, <1>4, <2>2
  <1> QED
    BY <1>5

\* NodeAt, ValueAt, KeyString, Rebuild and Reconstruct of the slots s and v.
NodeIn(s, id) == IF id \in DOMAIN s THEN s[id] ELSE ZeroNode
ValueIn(v, id) == IF id \in DOMAIN v THEN v[id] ELSE Nil
KeyIn(v, id) == IF ValueIn(v, id)[1] = "string" THEN ValueIn(v, id)[2] ELSE ""

\* The entry that wins a key.
EntryFor(v, es, k) == Max({i \in DOMAIN es : KeyIn(v, es[i].key) = k})

RebuildIn(v, n, tree) ==
  CASE n.kind = "scalar" -> [kind |-> "scalar", val |-> ValueIn(v, n.vid)]
    [] n.kind = "map"    ->
         [kind |-> "map",
          entries |-> [k \in {KeyIn(v, n.entries[i].key) : i \in DOMAIN n.entries} |->
            tree[n.entries[EntryFor(v, n.entries, k)].val]]]
    [] n.kind = "slice"  -> [kind |-> "slice", items |-> [i \in DOMAIN n.items |-> tree[n.items[i]]]]

ReadIn(v, s) == CHOOSE tree : tree = [id \in 0..Len(s) |-> RebuildIn(v, NodeIn(s, id), tree)]

\* The state's own, before and after a step.
LEMMA ReadNow ==
  /\ Reconstruct = ReadIn(values.slots, subtrees.slots)
  /\ Reconstruct' = ReadIn(values'.slots, subtrees'.slots)
  BY DEF Reconstruct, ReadIn, Rebuild, RebuildIn, EntryFor, NodeAt, NodeIn,
         ValueAt, ValueIn, KeyString, KeyIn

\* Nodes and values likewise.
LEMMA NodeNow ==
  /\ \A id : NodeAt(id) = NodeIn(subtrees.slots, id) /\ NodeAt(id)' = NodeIn(subtrees'.slots, id)
  /\ \A id : ValueAt(id) = ValueIn(values.slots, id) /\ ValueAt(id)' = ValueIn(values'.slots, id)
  BY DEF NodeAt, NodeIn, ValueAt, ValueIn

\* A map node lists its entries sorted, under keys that are different strings.
Whole(v, n) ==
  n.kind = "map" =>
    /\ SortEntries(n.entries) = n.entries
    /\ \A i \in DOMAIN n.entries :
         ValueIn(v, n.entries[i].key) = StringValue(KeyIn(v, n.entries[i].key))
    /\ \A i, j \in DOMAIN n.entries :
         KeyIn(v, n.entries[i].key) = KeyIn(v, n.entries[j].key) => i = j

\* Every slot holds such a node, whose children have smaller IDs.
Readable(v, s) ==
  /\ s \in Seq(Node)
  /\ \A id \in DOMAIN s : Whole(v, s[id]) /\ Children(s[id]) \subseteq 0..id - 1

\* The largest of one number.
LEMMA MaxOfOne == \A i \in Int : Max({i}) = i
  BY DEF Max

\* Of the entries of such a node each key finds its own.
LEMMA EntryOfKey ==
  ASSUME NEW v, NEW n \in Node, Whole(v, n), n.kind = "map", NEW i \in DOMAIN n.entries
  PROVE  /\ i \in Int
         /\ EntryFor(v, n.entries, KeyIn(v, n.entries[i].key)) = i
  <1>1. n.entries \in Seq([key : Nat, val : Nat])
    BY DEF Node
  <1>2. i \in Int
    BY <1>1
  <1>3. {j \in DOMAIN n.entries : KeyIn(v, n.entries[j].key) = KeyIn(v, n.entries[i].key)} = {i}
    BY DEF Whole
  <1> QED
    BY <1>2, <1>3, MaxOfOne DEF EntryFor

\* What a node reads as depends only on its values and on its children.
LEMMA RebuildSame ==
  ASSUME NEW v, NEW w, NEW n \in Node, Whole(v, n), NEW f, NEW g,
         \A c \in Children(n) : f[c] = g[c],
         \A x \in ValueIDs(n) : ValueIn(v, x) = ValueIn(w, x)
  PROVE  RebuildIn(v, n, f) = RebuildIn(w, n, g)
  <1>1. CASE n.kind = "scalar"
    BY <1>1 DEF RebuildIn, ValueIDs
  <1>2. CASE n.kind = "slice"
    <2>1. \A i \in DOMAIN n.items : f[n.items[i]] = g[n.items[i]]
      BY <1>2 DEF Children
    <2>2. [i \in DOMAIN n.items |-> f[n.items[i]]] = [i \in DOMAIN n.items |-> g[n.items[i]]]
      BY <2>1
    <2> QED
      BY <1>2, <2>2 DEF RebuildIn
  <1>3. CASE n.kind = "map"
    <2> DEFINE es == n.entries
               at(k) == EntryFor(v, es, k)
               K == {KeyIn(v, es[i].key) : i \in DOMAIN es}
    <2>1. \A i \in DOMAIN es : KeyIn(w, es[i].key) = KeyIn(v, es[i].key)
      BY <1>3 DEF ValueIDs, KeyIn
    <2>2. {KeyIn(w, es[i].key) : i \in DOMAIN es} = K
      BY <2>1
    <2>3. \A k : EntryFor(w, es, k) = EntryFor(v, es, k)
      <3>1. \A k : {i \in DOMAIN es : KeyIn(w, es[i].key) = k} = {i \in DOMAIN es : KeyIn(v, es[i].key) = k}
        BY <2>1
      <3> QED
        BY <3>1 DEF EntryFor
    <2>4. \A k \in K : f[es[at(k)].val] = g[es[at(k)].val]
      <3> SUFFICES ASSUME NEW k \in K PROVE f[es[at(k)].val] = g[es[at(k)].val]
        OBVIOUS
      <3>1. PICK i \in DOMAIN es : k = KeyIn(v, es[i].key)
        OBVIOUS
      <3>2. at(k) = i
        BY <1>3, <3>1, EntryOfKey
      <3>3. es[i].val \in Children(n)
        BY <1>3 DEF Children
      <3> HIDE DEF at, es
      <3> QED
        BY <3>2, <3>3
    <2>5. RebuildIn(v, n, f) = [kind |-> "map", entries |-> [k \in K |-> f[es[at(k)].val]]]
      BY <1>3 DEF RebuildIn
    <2>6. RebuildIn(w, n, g) = [kind |-> "map", entries |-> [k \in K |-> g[es[at(k)].val]]]
      <3>1. RebuildIn(w, n, g) =
              [kind |-> "map",
               entries |-> [k \in {KeyIn(w, es[i].key) : i \in DOMAIN es} |->
                              g[es[EntryFor(w, es, k)].val]]]
        BY <1>3 DEF RebuildIn
      <3> HIDE DEF es
      <3> QED
        BY <2>2, <2>3, <3>1
    <2> HIDE DEF K, at, es
    <2>7. [k \in K |-> f[es[at(k)].val]] = [k \in K |-> g[es[at(k)].val]]
      BY <2>4
    <2> QED
      BY <2>5, <2>6, <2>7
  <1> QED
    BY <1>1, <1>2, <1>3 DEF Node

\* The nodes of a readable store, the reserved ID 0 and unknown ones included.
LEMMA NodesReadable ==
  ASSUME NEW v, NEW s, Readable(v, s), NEW id \in 0..Len(s)
  PROVE  /\ NodeIn(s, id) \in Node
         /\ Whole(v, NodeIn(s, id))
         /\ Children(NodeIn(s, id)) \subseteq 0..id - 1
  <1>1. s \in Seq(Node) /\ DOMAIN s = 1..Len(s)
    BY DEF Readable
  <1>2. ZeroNode \in Node /\ ZeroNode.kind = "scalar" /\ Children(ZeroNode) = {}
    BY DEF ZeroNode, Node, Children
  <1>3. CASE id \in DOMAIN s
    BY <1>1, <1>3 DEF NodeIn, Readable
  <1>4. CASE id \notin DOMAIN s
    BY <1>2, <1>4 DEF NodeIn, Whole
  <1> QED
    BY <1>3, <1>4

\* f reads the nodes up to m as the recursion asks.
ReadsTo(v, s, m, f) ==
  /\ f = [id \in 0..m |-> f[id]]
  /\ \A id \in 0..m : f[id] = RebuildIn(v, NodeIn(s, id), f)

\* Reading a readable store is well defined: children are read before their parents.
LEMMA ReadExists ==
  ASSUME NEW v, NEW s, Readable(v, s)
  PROVE  \A m \in 0..Len(s) : \E f : ReadsTo(v, s, m, f)
  <1> DEFINE L == Len(s)
             Bad == {m \in 0..L : ~\E f : ReadsTo(v, s, m, f)}
  <1>1. L \in Nat
    BY DEF Readable
  <1>2. SUFFICES ASSUME Bad # {} PROVE FALSE
    OBVIOUS
  <1>3. Bad \in SUBSET (0..L)
    OBVIOUS
  <1> HIDE DEF Bad, L
  <1>4. PICK m \in Bad : \A y \in Bad : m <= y
    BY <1>1, <1>2, <1>3, Smallest
  <1>5. m \in 0..L /\ m \in Nat /\ m - 1 < m /\ ~(m <= m - 1)
    BY <1>1, <1>3, <1>4
  <1>6. \E f : ReadsTo(v, s, m - 1, f)
    <2>1. CASE m = 0
      <3>1. 0..-1 = {}
        OBVIOUS
      <3>2. ReadsTo(v, s, -1, [id \in {} |-> 0])
        BY <3>1 DEF ReadsTo
      <3> QED
        BY <2>1, <3>2
    <2>2. CASE m # 0
      <3>1. m - 1 \in 0..L /\ m - 1 \notin Bad
        BY <1>1, <1>4, <1>5, <2>2
      <3> QED
        BY <3>1 DEF Bad
    <2> QED
      BY <2>1, <2>2
  <1>7. PICK f : ReadsTo(v, s, m - 1, f)
    BY <1>6
  <1> DEFINE g == [id \in 0..m |-> IF id = m THEN RebuildIn(v, NodeIn(s, m), f) ELSE f[id]]
  <1>8. \A id \in 0..m - 1 : g[id] = f[id] /\ id \in 0..m /\ id # m
    BY <1>5
  <1>9. g[m] = RebuildIn(v, NodeIn(s, m), f) /\ g = [id \in 0..m |-> g[id]]
    BY <1>5
  <1> HIDE DEF g
  <1>10. ASSUME NEW id \in 0..m PROVE g[id] = RebuildIn(v, NodeIn(s, id), g)
    <2>1. /\ NodeIn(s, id) \in Node /\ Whole(v, NodeIn(s, id))
          /\ Children(NodeIn(s, id)) \subseteq 0..id - 1
      <3>1. id \in 0..Len(s)
        BY <1>1, <1>5 DEF L
      <3> QED
        BY <3>1, NodesReadable
    <2>2. \A c \in Children(NodeIn(s, id)) : f[c] = g[c]
      <3>1. 0..id - 1 \subseteq 0..m - 1
        BY <1>5
      <3> QED
        BY <1>8, <2>1, <3>1
    <2>3. RebuildIn(v, NodeIn(s, id), f) = RebuildIn(v, NodeIn(s, id), g)
      BY <2>1, <2>2, RebuildSame
    <2>4. g[id] = RebuildIn(v, NodeIn(s, id), f)
      <3>1. CASE id = m
        BY <1>9, <3>1
      <3>2. CASE id # m
        <4>1. id \in 0..m - 1
          BY <1>5, <3>2
        <4> QED
          BY <1>7, <1>8, <4>1 DEF ReadsTo
      <3> QED
        BY <3>1, <3>2
    <2> QED
      BY <2>3, <2>4
  <1>11. ReadsTo(v, s, m, g)
    BY <1>9, <1>10 DEF ReadsTo
  <1>12. m \notin Bad
    BY <1>11 DEF Bad
  <1> QED
    BY <1>4, <1>12

\* So every node reads as its own level over what its children read as.
LEMMA ReadUnfolds ==
  ASSUME NEW v, NEW s, Readable(v, s)
  PROVE  \A id \in 0..Len(s) : ReadIn(v, s)[id] = RebuildIn(v, NodeIn(s, id), ReadIn(v, s))
  <1>1. Len(s) \in 0..Len(s)
    BY DEF Readable
  <1>2. PICK f : ReadsTo(v, s, Len(s), f)
    BY <1>1, ReadExists
  <1>3. f = [id \in 0..Len(s) |-> RebuildIn(v, NodeIn(s, id), f)]
    BY <1>2 DEF ReadsTo
  <1>4. ReadIn(v, s) = [id \in 0..Len(s) |-> RebuildIn(v, NodeIn(s, id), ReadIn(v, s))]
    BY <1>3, Zenon DEF ReadIn
  <1> DEFINE r == ReadIn(v, s)
  <1>5. r = [id \in 0..Len(s) |-> RebuildIn(v, NodeIn(s, id), r)]
    BY <1>4
  <1> HIDE DEF r
  <1>6. \A id \in 0..Len(s) : r[id] = RebuildIn(v, NodeIn(s, id), r)
    BY <1>5
  <1> QED
    BY <1>6 DEF r

\* Two stores that have the same nodes and values in a set of IDs closed under
\* children read the same there.
LEMMA ReadAgrees ==
  ASSUME NEW v, NEW s, Readable(v, s), NEW w, NEW u, Readable(w, u),
         NEW A, A \subseteq 0..Len(s), A \subseteq 0..Len(u),
         \A id \in A : /\ NodeIn(u, id) = NodeIn(s, id)
                      /\ Children(NodeIn(s, id)) \subseteq A
                      /\ \A x \in ValueIDs(NodeIn(s, id)) : ValueIn(v, x) = ValueIn(w, x)
  PROVE  \A id \in A : ReadIn(w, u)[id] = ReadIn(v, s)[id]
  <1> DEFINE Bad == {id \in A : ReadIn(w, u)[id] # ReadIn(v, s)[id]}
  <1>1. Len(s) \in Nat /\ Bad \in SUBSET (0..Len(s))
    <2>1. Len(s) \in Nat
      BY DEF Readable
    <2> QED
      BY <2>1
  <1>2. SUFFICES ASSUME Bad # {} PROVE FALSE
    OBVIOUS
  <1>3. PICK id \in Bad : \A y \in Bad : id <= y
    <2> HIDE DEF Bad
    <2> QED
      BY <1>1, <1>2, Smallest
  <1>4. id \in A /\ id \in 0..Len(s) /\ id \in 0..Len(u)
    OBVIOUS
  <1>5. /\ NodeIn(s, id) \in Node /\ Whole(v, NodeIn(s, id))
        /\ Children(NodeIn(s, id)) \subseteq 0..id - 1
    BY <1>4, NodesReadable
  <1>6. ASSUME NEW c \in Children(NodeIn(s, id)) PROVE ReadIn(v, s)[c] = ReadIn(w, u)[c]
    <2>1. c \in A /\ c \in 0..id - 1 /\ ~(id <= c)
      BY <1>4, <1>5, <1>6
    <2> QED
      BY <1>3, <2>1
  <1> HIDE DEF Bad
  <1>7. RebuildIn(v, NodeIn(s, id), ReadIn(v, s)) = RebuildIn(w, NodeIn(s, id), ReadIn(w, u))
    BY <1>4, <1>5, <1>6, RebuildSame
  <1>8. ReadIn(v, s)[id] = RebuildIn(v, NodeIn(s, id), ReadIn(v, s))
    BY <1>4, ReadUnfolds
  <1>9. ReadIn(w, u)[id] = RebuildIn(w, NodeIn(u, id), ReadIn(w, u))
    BY <1>4, ReadUnfolds
  <1> QED
    BY <1>4, <1>7, <1>8, <1>9 DEF Bad

-----------------------------------------------------------------------------
(* Reading tells nodes apart                                               *)

\* Two nodes that read the same are the same, if their children that read the
\* same are, and their values that are the same have one ID.
LEMMA RebuildInjective ==
  ASSUME NEW v, NEW n \in Node, NEW m \in Node, Whole(v, n), Whole(v, m), NEW f,
         \A c \in Children(n), d \in Children(m) : f[c] = f[d] => c = d,
         \A x \in ValueIDs(n), y \in ValueIDs(m) : ValueIn(v, x) = ValueIn(v, y) => x = y,
         RebuildIn(v, n, f) = RebuildIn(v, m, f)
  PROVE  n = m
  <1>0. n.kind \in {"scalar", "map", "slice"} /\ m.kind \in {"scalar", "map", "slice"}
    BY DEF Node
  <1>1. RebuildIn(v, n, f).kind = n.kind /\ RebuildIn(v, m, f).kind = m.kind
    BY <1>0 DEF RebuildIn
  <1>2. m.kind = n.kind
    BY <1>1
  <1>3. CASE n.kind = "scalar"
    <2>1. ValueIn(v, n.vid) = ValueIn(v, m.vid)
      <3>1. RebuildIn(v, n, f).val = ValueIn(v, n.vid) /\ RebuildIn(v, m, f).val = ValueIn(v, m.vid)
        BY <1>2, <1>3 DEF RebuildIn
      <3> QED
        BY <3>1
    <2>2. n.vid = m.vid
      BY <1>2, <1>3, <2>1 DEF ValueIDs
    <2> QED
      BY <1>2, <1>3, <2>2 DEF Node
  <1>4. CASE n.kind = "slice"
    <2> DEFINE a == n.items
               b == m.items
    <2>1. n = [kind |-> "slice", items |-> a] /\ m = [kind |-> "slice", items |-> b]
          /\ a \in Seq(Nat) /\ b \in Seq(Nat)
      BY <1>2, <1>4 DEF Node
    <2>2. Children(n) = {a[i] : i \in DOMAIN a} /\ Children(m) = {b[i] : i \in DOMAIN b}
      BY <1>2, <1>4 DEF Children
    <2>3. [i \in DOMAIN a |-> f[a[i]]] = [i \in DOMAIN b |-> f[b[i]]]
      <3>1. /\ RebuildIn(v, n, f).items = [i \in DOMAIN a |-> f[a[i]]]
            /\ RebuildIn(v, m, f).items = [i \in DOMAIN b |-> f[b[i]]]
        BY <1>2, <1>4 DEF RebuildIn
      <3> QED
        BY <3>1
    <2> HIDE DEF a, b
    <2>4. DOMAIN a = DOMAIN b /\ \A i \in DOMAIN a : f[a[i]] = f[b[i]]
      BY <2>3
    <2>5. \A i \in DOMAIN a : a[i] = b[i]
      BY <2>2, <2>4
    <2>6. a = b
      BY <2>1, <2>4, <2>5
    <2> QED
      BY <2>1, <2>6
  <1>5. CASE n.kind = "map"
    <2> DEFINE a == n.entries
               b == m.entries
               atA(k) == EntryFor(v, a, k)
               atB(k) == EntryFor(v, b, k)
               K == {KeyIn(v, a[i].key) : i \in DOMAIN a}
               L == {KeyIn(v, b[i].key) : i \in DOMAIN b}
    <2>1. n = [kind |-> "map", entries |-> a] /\ m = [kind |-> "map", entries |-> b]
          /\ a \in Seq([key : Nat, val : Nat]) /\ b \in Seq([key : Nat, val : Nat])
      BY <1>2, <1>5 DEF Node
    <2>2. /\ Children(n) = {a[i].val : i \in DOMAIN a} /\ Children(m) = {b[i].val : i \in DOMAIN b}
          /\ ValueIDs(n) = {a[i].key : i \in DOMAIN a} /\ ValueIDs(m) = {b[i].key : i \in DOMAIN b}
      BY <1>2, <1>5 DEF Children, ValueIDs
    <2>3. [k \in K |-> f[a[atA(k)].val]] = [k \in L |-> f[b[atB(k)].val]]
      <3>1. /\ RebuildIn(v, n, f).entries = [k \in K |-> f[a[atA(k)].val]]
            /\ RebuildIn(v, m, f).entries = [k \in L |-> f[b[atB(k)].val]]
        BY <1>2, <1>5 DEF RebuildIn
      <3> QED
        BY <3>1
    <2>4. \A i \in DOMAIN a : atA(KeyIn(v, a[i].key)) = i
      BY <1>5, EntryOfKey
    <2>5. \A i \in DOMAIN b : atB(KeyIn(v, b[i].key)) = i
      BY <1>2, <1>5, EntryOfKey
    <2>6. /\ \A i \in DOMAIN a : ValueIn(v, a[i].key) = StringValue(KeyIn(v, a[i].key))
          /\ \A i \in DOMAIN b : ValueIn(v, b[i].key) = StringValue(KeyIn(v, b[i].key))
          /\ SortEntries(a) = a /\ SortEntries(b) = b
      BY <1>2, <1>5 DEF Whole
    <2> HIDE DEF atA, atB, a, b
    <2>7. K = L /\ \A k \in K : f[a[atA(k)].val] = f[b[atB(k)].val]
      <3> HIDE DEF K, L
      <3> QED
        BY <2>3
    <2>8. ASSUME NEW i \in DOMAIN a, NEW j \in DOMAIN b, KeyIn(v, a[i].key) = KeyIn(v, b[j].key)
          PROVE  a[i] = b[j]
      <3>1. a[i].key = b[j].key
        BY <2>2, <2>6, <2>8
      <3>2. f[a[i].val] = f[b[j].val]
        <4>1. KeyIn(v, a[i].key) \in K
          OBVIOUS
        <4> HIDE DEF K, L
        <4> QED
          BY <2>4, <2>5, <2>7, <2>8, <4>1
      <3>3. a[i].val = b[j].val
        BY <2>2, <3>2
      <3>4. a[i] \in [key : Nat, val : Nat] /\ b[j] \in [key : Nat, val : Nat]
        <4>1. a \in Seq([key : Nat, val : Nat]) /\ b \in Seq([key : Nat, val : Nat])
          BY <2>1
        <4> QED
          BY <4>1, ElementOfSeq
      <3> QED
        BY <3>1, <3>3, <3>4
    <2>9. \A i \in DOMAIN a : \E j \in DOMAIN b : KeyIn(v, a[i].key) = KeyIn(v, b[j].key)
      BY <2>7
    <2>10. \A j \in DOMAIN b : \E i \in DOMAIN a : KeyIn(v, a[i].key) = KeyIn(v, b[j].key)
      BY <2>7
    <2> HIDE DEF K, L
    <2>11. {a[i] : i \in DOMAIN a} = {b[i] : i \in DOMAIN b}
      BY <2>8, <2>9, <2>10
    <2>12. a = b
      BY <2>6, <2>11, SortOfSet
    <2> QED
      BY <2>1, <2>12
  <1> QED
    BY <1>0, <1>3, <1>4, <1>5

\* In a closed set of IDs with no two nodes the same, no two nodes read the same.
LEMMA ReadInjective ==
  ASSUME NEW v, NEW s, Readable(v, s), NEW A, A \subseteq DOMAIN s, NEW V,
         \A id \in A : Children(s[id]) \subseteq A /\ ValueIDs(s[id]) \subseteq V,
         \A i, j \in A : s[i] = s[j] => i = j,
         \A x, y \in V : ValueIn(v, x) = ValueIn(v, y) => x = y
  PROVE  \A i, j \in A : ReadIn(v, s)[i] = ReadIn(v, s)[j] => i = j
  <1> DEFINE r == ReadIn(v, s)
             Bad == {i \in A : \E j \in A : r[i] = r[j] /\ i # j}
  <1>1. Len(s) \in Nat /\ DOMAIN s = 1..Len(s) /\ A \subseteq 0..Len(s)
    <2>1. s \in Seq(Node)
      BY DEF Readable
    <2> QED
      BY <2>1
  <1>2. SUFFICES ASSUME Bad # {} PROVE FALSE
    OBVIOUS
  <1>3. Bad \in SUBSET (0..Len(s))
    BY <1>1
  <1>4. PICK i \in Bad : \A y \in Bad : i <= y
    <2> HIDE DEF Bad
    <2> QED
      BY <1>1, <1>2, <1>3, Smallest
  <1>5. PICK j \in A : r[i] = r[j] /\ i # j
    OBVIOUS
  <1>6. i \in A /\ NodeIn(s, i) = s[i] /\ NodeIn(s, j) = s[j]
    BY DEF NodeIn
  <1>7. /\ s[i] \in Node /\ Whole(v, s[i]) /\ Children(s[i]) \subseteq 0..i - 1
        /\ s[j] \in Node /\ Whole(v, s[j])
        /\ r[i] = RebuildIn(v, s[i], r) /\ r[j] = RebuildIn(v, s[j], r)
    <2>1. i \in 0..Len(s) /\ j \in 0..Len(s)
      BY <1>1, <1>5, <1>6
    <2> HIDE DEF Bad
    <2> QED
      BY <1>6, <2>1, NodesReadable, ReadUnfolds
  <1>8. ASSUME NEW c \in Children(s[i]), NEW d \in Children(s[j]), r[c] = r[d] PROVE c = d
    <2>1. c \in A /\ d \in A
      BY <1>5, <1>6
    <2>2. c \in 0..i - 1 /\ ~(i <= c)
      BY <1>1, <1>6, <1>7
    <2>3. c \notin Bad
      BY <1>4, <2>2
    <2> HIDE DEF r
    <2> QED
      BY <1>8, <2>1, <2>3
  <1>9. \A x \in ValueIDs(s[i]), y \in ValueIDs(s[j]) : ValueIn(v, x) = ValueIn(v, y) => x = y
    BY <1>5, <1>6
  <1> HIDE DEF r, Bad
  <1>10. s[i] = s[j]
    <2>1. \A c \in Children(s[i]), d \in Children(s[j]) : r[c] = r[d] => c = d
      BY <1>8
    <2>2. RebuildIn(v, s[i], r) = RebuildIn(v, s[j], r)
      BY <1>5, <1>7
    <2>3. s[i] \in Node /\ s[j] \in Node /\ Whole(v, s[i]) /\ Whole(v, s[j])
      BY <1>7
    <2> QED
      BY <1>9, <2>1, <2>2, <2>3, RebuildInjective
  <1> QED
    BY <1>5, <1>6, <1>10

-----------------------------------------------------------------------------
(* What a tree reads back as                                               *)

\* What a tree is normalised to depends only on what its subtrees are.
LEMMA NormalisedSame ==
  ASSUME NEW t \in Trees, NEW f, NEW g, \A c \in Kids(t) : f[c] = g[c]
  PROVE  Normalised(t, f) = Normalised(t, g)
  <1>1. IsTree(t)
    BY TreesAssumption
  <1>2. CASE t.kind = "scalar"
    BY <1>2 DEF Normalised
  <1>3. CASE t.kind = "map"
    <2> DEFINE K == DOMAIN t.entries
    <2>1. \A k \in K : f[t.entries[k]] = g[t.entries[k]]
      BY <1>3 DEF Kids
    <2>2. [k \in K |-> f[t.entries[k]]] = [k \in K |-> g[t.entries[k]]]
      BY <2>1
    <2> QED
      BY <1>3, <2>2 DEF Normalised
  <1>4. CASE t.kind = "slice"
    <2> DEFINE K == DOMAIN t.items
    <2>1. \A k \in K : f[t.items[k]] = g[t.items[k]]
      BY <1>4 DEF Kids
    <2>2. [k \in K |-> f[t.items[k]]] = [k \in K |-> g[t.items[k]]]
      BY <2>1
    <2> QED
      BY <1>4, <2>2 DEF Normalised
  <1> QED
    BY <1>1, <1>2, <1>3, <1>4 DEF IsTree

\* f normalises the trees of D, which has their subtrees, as the recursion asks.
Normalises(D, f) ==
  /\ D \subseteq Trees /\ \A t \in D : Kids(t) \subseteq D
  /\ f = [t \in D |-> f[t]]
  /\ \A t \in D : f[t] = Normalised(t, f)

\* There is one way to do so.
LEMMA NormalUnique ==
  ASSUME NEW D, NEW f, Normalises(D, f), NEW E, NEW g, Normalises(E, g)
  PROVE  \A t \in D \cap E : f[t] = g[t]
  <1> DEFINE Bad == {t \in D \cap E : f[t] # g[t]}
  <1>1. SUFFICES ASSUME Bad # {} PROVE FALSE
    OBVIOUS
  <1>2. Bad \in SUBSET Trees
    BY DEF Normalises
  <1>3. PICK t \in Bad : Kids(t) \cap Bad = {}
    BY <1>1, <1>2, NoCycles
  <1>4. t \in Trees /\ t \in D /\ t \in E /\ Kids(t) \subseteq D \cap E
    BY DEF Normalises
  <1>5. \A c \in Kids(t) : f[c] = g[c]
    BY <1>3, <1>4
  <1>6. Normalised(t, f) = Normalised(t, g)
    BY <1>4, <1>5, NormalisedSame
  <1> QED
    BY <1>4, <1>6 DEF Normalises

\* And there is a way, for all trees: no tree contains itself.
LEMMA NormalExists == \E f : Normalises(Trees, f)
  <1> DEFINE U == {t \in Trees : \E D, f : t \in D /\ Normalises(D, f)}
             F == [t \in U |-> CHOOSE x : \E D, f : t \in D /\ Normalises(D, f) /\ x = f[t]]
  <1>1. ASSUME NEW D, NEW f, Normalises(D, f) PROVE D \subseteq U /\ \A t \in D : F[t] = f[t]
    <2>1. D \subseteq U
      BY <1>1 DEF Normalises
    <2>2. ASSUME NEW t \in D PROVE F[t] = f[t]
      <3> DEFINE x == CHOOSE x : \E E, g : t \in E /\ Normalises(E, g) /\ x = g[t]
      <3>1. F[t] = x
        BY <2>1
      <3>2. \E E, g : t \in E /\ Normalises(E, g) /\ f[t] = g[t]
        BY <1>1
      <3>3. \E E, g : t \in E /\ Normalises(E, g) /\ x = g[t]
        BY <3>2
      <3> HIDE DEF x, F, U
      <3>4. x = f[t]
        BY <1>1, <3>3, NormalUnique
      <3> QED
        BY <3>1, <3>4
    <2> QED
      BY <2>1, <2>2
  <1>2. F = [t \in U |-> F[t]] /\ U \subseteq Trees
    OBVIOUS
  <1>3. ASSUME NEW t \in U PROVE Kids(t) \subseteq U /\ F[t] = Normalised(t, F)
    <2>1. PICK D, f : t \in D /\ Normalises(D, f)
      OBVIOUS
    <2> HIDE DEF F, U
    <2>2. Kids(t) \subseteq D /\ f[t] = Normalised(t, f) /\ t \in Trees
      BY <2>1 DEF Normalises
    <2>3. Kids(t) \subseteq U /\ \A c \in Kids(t) : F[c] = f[c]
      BY <1>1, <2>1, <2>2
    <2>4. Normalised(t, F) = Normalised(t, f)
      BY <2>2, <2>3, NormalisedSame
    <2> QED
      BY <1>1, <2>1, <2>2, <2>3, <2>4
  <1> HIDE DEF F
  <1>4. U = Trees
    <2>1. SUFFICES ASSUME Trees \ U # {} PROVE FALSE
      OBVIOUS
    <2>2. PICK t \in Trees \ U : Kids(t) \cap (Trees \ U) = {}
      <3> HIDE DEF U
      <3> QED
        BY <2>1, NoCycles
    <2> DEFINE D == U \cup {t}
               f == [u \in D |-> IF u = t THEN Normalised(t, F) ELSE F[u]]
    <2>3. Kids(t) \subseteq U /\ t \notin U /\ t \in Trees
      BY <2>2, TreesAssumption
    <2> HIDE DEF U
    <2>4. \A u \in U : f[u] = F[u]
      BY <2>3
    <2>5. f[t] = Normalised(t, F) /\ f = [u \in D |-> f[u]]
      OBVIOUS
    <2>6. D \subseteq Trees /\ \A u \in D : Kids(u) \subseteq D
      BY <1>2, <1>3, <2>3
    <2> HIDE DEF f
    <2>7. ASSUME NEW u \in D PROVE f[u] = Normalised(u, f)
      <3>1. u \in Trees /\ Kids(u) \subseteq U
        BY <1>2, <1>3, <2>3
      <3>2. Normalised(u, f) = Normalised(u, F)
        BY <2>4, <3>1, NormalisedSame
      <3> QED
        BY <1>3, <2>4, <2>5, <3>2
    <2>8. Normalises(D, f)
      BY <2>5, <2>6, <2>7 DEF Normalises
    <2>9. t \in U
      BY <2>3, <2>8 DEF U
    <2> QED
      BY <2>3, <2>9
  <1> HIDE DEF U
  <1>5. Normalises(Trees, F)
    BY <1>2, <1>3, <1>4 DEF Normalises
  <1> QED
    BY <1>5

\* So every tree reads back as its own level over its subtrees.
LEMMA NormalUnfolds == \A t \in Trees : Normal[t] = Normalised(t, Normal)
  <1>1. PICK f : Normalises(Trees, f)
    BY NormalExists
  <1>2. f = [t \in Trees |-> Normalised(t, f)]
    BY <1>1 DEF Normalises
  <1> DEFINE g == CHOOSE g : g = [t \in Trees |-> Normalised(t, g)]
  <1>3. Normal = g
    BY DEF Normal
  <1>4. g = [t \in Trees |-> Normalised(t, g)]
    BY <1>2, Zenon
  <1> HIDE DEF g
  <1> QED
    BY <1>3, <1>4

-----------------------------------------------------------------------------
(* The invariant of what can be read                                       *)

\* No live value is nil, and a slot that is not live has been cleared.
Cleared ==
  /\ \A x \in values.live : values.slots[x] # Nil
  /\ \A id \in DOMAIN subtrees.slots : id \in subtrees.live \/ subtrees.slots[id] = ZeroNode

\* What decompose has returned so far reads as the tree it was given, and every
\* stored object as one that was.
ReadsBack ==
  /\ \A t \in DOMAIN memo : Reconstruct[memo[t]] = Normal[t]
  /\ \A k \in Keys : objects[k] # 0 => \E o \in Objects : Reconstruct[objects[k]] = Normal[o]

StoreInv == IndInv /\ Readable(values.slots, subtrees.slots) /\ Cleared /\ ReadsBack

\* A cleared slot holds a whole node without children.
LEMMA ZeroWhole == \A v : Whole(v, ZeroNode) /\ Children(ZeroNode) = {}
  BY DEF Whole, ZeroNode, Children

\* A node stays whole as long as its values stay.
LEMMA WholeSame ==
  ASSUME NEW v, NEW w, NEW n \in Node, Whole(v, n),
         \A x \in ValueIDs(n) : ValueIn(v, x) = ValueIn(w, x)
  PROVE  Whole(w, n)
  <1> SUFFICES ASSUME n.kind = "map" PROVE Whole(w, n)
    BY DEF Whole
  <1>1. \A i \in DOMAIN n.entries : n.entries[i].key \in ValueIDs(n)
    BY DEF ValueIDs
  <1>2. \A i \in DOMAIN n.entries : ValueIn(v, n.entries[i].key) = ValueIn(w, n.entries[i].key)
    BY <1>1
  <1>3. \A i \in DOMAIN n.entries : KeyIn(v, n.entries[i].key) = KeyIn(w, n.entries[i].key)
    BY <1>2 DEF KeyIn
  <1> QED
    BY <1>2, <1>3 DEF Whole

\* Live IDs are positions of their pool.
LEMMA LivePositions ==
  ASSUME IndInv
  PROVE  /\ subtrees.slots \in Seq(Node) /\ Len(subtrees.slots) \in Nat
         /\ DOMAIN subtrees.slots = 1..Len(subtrees.slots)
         /\ subtrees.live \subseteq 1..Len(subtrees.slots)
         /\ \A id \in subtrees.live : NodeAt(id) = subtrees.slots[id] /\ subtrees.slots[id] \in Node
         /\ values.live \subseteq DOMAIN values.slots
         /\ 0 \notin DOMAIN values.slots
         /\ \A x \in values.live : ValueIn(values.slots, x) = values.slots[x]
  <1>1. /\ subtrees.slots \in Seq(Node) /\ subtrees.live \subseteq DOMAIN subtrees.slots
        /\ values.slots \in Seq(Contents \cup {Nil}) /\ values.live \subseteq DOMAIN values.slots
    BY DEF IndInv, TypeOK, WellFormed
  <1>2. DOMAIN subtrees.slots = 1..Len(subtrees.slots) /\ Len(subtrees.slots) \in Nat /\ 0 \notin DOMAIN values.slots
    BY <1>1
  <1>3. \A id \in subtrees.live : NodeAt(id) = subtrees.slots[id] /\ subtrees.slots[id] \in Node
    BY <1>1 DEF NodeAt
  <1>4. \A x \in values.live : ValueIn(values.slots, x) = values.slots[x]
    BY <1>1 DEF ValueIn
  <1> QED
    BY <1>1, <1>2, <1>3, <1>4

\* The step changes nothing of what a live node reads as.
ReadsKept == \A id \in subtrees.live : Reconstruct'[id] = Reconstruct[id]

\* The IDs of A keep their nodes and values; every other slot holds a whole node.
LEMMA KeepsReading ==
  ASSUME StoreInv, NEW A, A \subseteq subtrees.live, subtrees'.slots \in Seq(Node),
         A \subseteq DOMAIN subtrees'.slots,
         \A id \in A : /\ subtrees'.slots[id] = subtrees.slots[id]
                       /\ Children(subtrees.slots[id]) \subseteq A
                       /\ \A x \in ValueIDs(subtrees.slots[id]) :
                            ValueIn(values.slots, x) = ValueIn(values'.slots, x),
         \A id \in DOMAIN subtrees'.slots \ A :
           /\ Whole(values'.slots, subtrees'.slots[id])
           /\ Children(subtrees'.slots[id]) \subseteq 0..id - 1
  PROVE  /\ Readable(values'.slots, subtrees'.slots)
         /\ \A id \in A : Reconstruct'[id] = Reconstruct[id]
  <1> DEFINE v == values.slots
             s == subtrees.slots
             w == values'.slots
             u == subtrees'.slots
  <1>1. /\ Readable(v, s) /\ s \in Seq(Node) /\ DOMAIN s = 1..Len(s) /\ A \subseteq DOMAIN s
    BY LivePositions DEF StoreInv
  <1>2. ASSUME NEW id \in A PROVE Whole(w, u[id]) /\ Children(u[id]) \subseteq 0..id - 1
    <2>1. s[id] \in Node /\ Whole(v, s[id]) /\ Children(s[id]) \subseteq 0..id - 1
      BY <1>1 DEF Readable
    <2> HIDE DEF v, s, w, u
    <2>2. Whole(w, s[id])
      BY <2>1, WholeSame DEF v, s, w, u
    <2> QED
      BY <2>1, <2>2 DEF v, s, w, u
  <1>3. Readable(w, u)
    BY <1>2 DEF Readable
  <1>4. A \subseteq 0..Len(s) /\ A \subseteq 0..Len(u)
    <2>1. DOMAIN u = 1..Len(u)
      OBVIOUS
    <2> QED
      BY <1>1, <2>1
  <1>5. \A id \in A : NodeIn(u, id) = u[id] /\ NodeIn(s, id) = s[id]
    BY <1>1 DEF NodeIn
  <1>6. \A id \in A : /\ NodeIn(u, id) = NodeIn(s, id)
                      /\ Children(NodeIn(s, id)) \subseteq A
                      /\ \A x \in ValueIDs(NodeIn(s, id)) : ValueIn(v, x) = ValueIn(w, x)
    BY <1>5
  <1> HIDE DEF v, s, w, u
  <1>7. \A id \in A : ReadIn(w, u)[id] = ReadIn(v, s)[id]
    BY <1>1, <1>3, <1>4, <1>6, ReadAgrees
  <1> QED
    BY <1>3, <1>7, ReadNow DEF v, s, w, u

\* The step keeps the contents of every live value, and adds none that is nil.
ValuesKept ==
  /\ \A x \in values.live \cup {0} : ValueIn(values.slots, x) = ValueIn(values'.slots, x)
  /\ \A x \in values'.live : values'.slots[x] # Nil

\* Interning a content that is not nil, or nothing, keeps them.
LEMMA InternKeepsValues ==
  ASSUME StoreInv, NEW c \in Contents, c # Nil, values' = Intern(values, c)
  PROVE  /\ ValuesKept
         /\ IdOf(values', c) \in values'.live
         /\ ValueIn(values'.slots, IdOf(values', c)) = c
  <1>1. values \in PoolOf(Contents \cup {Nil}) /\ WellFormed(values, Contents)
    BY DEF StoreInv, IndInv, TypeOK, PoolOf
  <1>2. /\ values' \in PoolOf(Contents \cup {Nil})
        /\ WellFormed(values', Contents)
        /\ Has(values', c)
        /\ Grown(values, values', c)
    <2>1. Contents \subseteq Contents \cup {Nil}
      OBVIOUS
    <2> QED
      BY <1>1, <2>1, InternKeeps
  <1>3. 0 \notin DOMAIN values.slots /\ 0 \notin DOMAIN values'.slots
    BY <1>1, <1>2 DEF PoolOf
  <1>4. \A x \in values.live \cup {0} : ValueIn(values.slots, x) = ValueIn(values'.slots, x)
    BY <1>1, <1>2, <1>3 DEF ValueIn, Grown, WellFormed
  <1>5. \A x \in values'.live : values'.slots[x] # Nil
    BY <1>1, <1>2 DEF Grown, WellFormed, StoreInv, Cleared
  <1>6. IdOf(values', c) \in values'.live /\ values'.slots[IdOf(values', c)] = c
    BY <1>2, IdOfLive
  <1> QED
    BY <1>2, <1>4, <1>5, <1>6 DEF ValuesKept, ValueIn, WellFormed

\* A step that leaves the value pool alone keeps them.
LEMMA SameKeepsValues == ASSUME StoreInv, values' = values PROVE ValuesKept
  BY DEF StoreInv, Cleared, ValuesKept

\* What Intern adds is one slot at the end, with the content.
LEMMA InternAdds ==
  ASSUME NEW D, NEW p \in PoolOf(D), NEW c
  PROVE  \A id \in DOMAIN Intern(p, c).slots \ DOMAIN p.slots :
           id = Len(p.slots) + 1 /\ Intern(p, c).slots[id] = c
  <1>1. p.slots \in Seq(D)
    BY DEF PoolOf
  <1>2. CASE Has(p, c)
    BY <1>2 DEF Intern
  <1>3. CASE ~Has(p, c)
    <2> DEFINE q == Append(p.slots, c)
    <2>1. Intern(p, c).slots = q
      BY <1>3 DEF Intern
    <2>2. DOMAIN q = DOMAIN p.slots \cup {Len(p.slots) + 1} /\ q[Len(p.slots) + 1] = c
      BY <1>1
    <2> QED
      BY <2>1, <2>2
  <1> QED
    BY <1>2, <1>3

\* Interning a whole node changes nothing of what can be read, and the ID it
\* returns reads as the node does over what could be read before.
LEMMA InternReads ==
  ASSUME StoreInv, ValuesKept, NEW n \in Node, Whole(values'.slots, n),
         Children(n) \subseteq subtrees.live, subtrees' = Intern(subtrees, n)
  PROVE  /\ Readable(values'.slots, subtrees'.slots)
         /\ \A id \in subtrees.live : Reconstruct'[id] = Reconstruct[id]
         /\ Reconstruct'[IdOf(subtrees', n)] = RebuildIn(values'.slots, n, Reconstruct)
         /\ \A id \in DOMAIN subtrees'.slots : id \in subtrees'.live \/ subtrees'.slots[id] = ZeroNode
  <1>1. subtrees \in PoolOf(Node) /\ WellFormed(subtrees, Node)
    BY DEF StoreInv, IndInv, TypeOK, PoolOf
  <1>2. /\ subtrees' \in PoolOf(Node)
        /\ WellFormed(subtrees', Node)
        /\ Has(subtrees', n)
        /\ Grown(subtrees, subtrees', n)
    BY <1>1, InternKeeps
  <1>3. subtrees'.slots \in Seq(Node) /\ DOMAIN subtrees'.slots = 1..Len(subtrees'.slots)
    BY <1>2 DEF PoolOf
  <1>4. subtrees.live \subseteq 1..Len(subtrees.slots) /\ Len(subtrees.slots) \in Nat
    BY LivePositions DEF StoreInv
  <1>5. ASSUME NEW id \in subtrees.live
        PROVE  /\ id \in DOMAIN subtrees'.slots
               /\ subtrees'.slots[id] = subtrees.slots[id]
               /\ Children(subtrees.slots[id]) \subseteq subtrees.live
               /\ \A x \in ValueIDs(subtrees.slots[id]) :
                    ValueIn(values.slots, x) = ValueIn(values'.slots, x)
    <2>1. NodeAt(id) = subtrees.slots[id]
      BY LivePositions DEF StoreInv
    <2>2. Children(NodeAt(id)) \subseteq subtrees.live /\ ValueIDs(NodeAt(id)) \subseteq values.live \cup {0}
      BY DEF StoreInv, IndInv, NoDangling
    <2> QED
      BY <1>1, <1>2, <2>1, <2>2 DEF ValuesKept, Grown, WellFormed
  <1>6. ASSUME NEW id \in DOMAIN subtrees'.slots \ subtrees.live
        PROVE  \/ subtrees'.slots[id] = ZeroNode
               \/ /\ subtrees'.slots[id] = n /\ id = Len(subtrees.slots) + 1
                  /\ id \in subtrees'.live
    <2>1. CASE id \in DOMAIN subtrees.slots
      <3>1. subtrees.slots[id] = ZeroNode
        BY <1>6, <2>1 DEF StoreInv, Cleared
      <3>2. subtrees'.slots[id] = subtrees.slots[id]
        BY <1>2, <2>1 DEF Grown
      <3> QED
        BY <3>1, <3>2
    <2>2. CASE id \notin DOMAIN subtrees.slots
      <3>1. id = Len(subtrees.slots) + 1 /\ subtrees'.slots[id] = n
        BY <1>1, <1>6, <2>2, InternAdds
      <3>2. subtrees'.live = subtrees.live \cup {Len(subtrees.slots) + 1}
        BY <1>6, <2>2 DEF Intern
      <3> QED
        BY <3>1, <3>2
    <2> QED
      BY <2>1, <2>2
  <1>7. ASSUME NEW id \in DOMAIN subtrees'.slots \ subtrees.live
        PROVE  Whole(values'.slots, subtrees'.slots[id]) /\ Children(subtrees'.slots[id]) \subseteq 0..id - 1
    <2>1. CASE subtrees'.slots[id] = ZeroNode
      BY <2>1, ZeroWhole
    <2>2. CASE subtrees'.slots[id] = n /\ id = Len(subtrees.slots) + 1
      <3>1. 1..Len(subtrees.slots) \subseteq 0..id - 1
        BY <1>4, <2>2
      <3> QED
        BY <1>4, <2>2, <3>1
    <2> QED
      BY <1>6, <1>7, <2>1, <2>2
  <1>8. subtrees.live \subseteq DOMAIN subtrees'.slots
    BY <1>5
  <1>9. /\ Readable(values'.slots, subtrees'.slots)
        /\ \A id \in subtrees.live : Reconstruct'[id] = Reconstruct[id]
    BY <1>3, <1>5, <1>7, <1>8, KeepsReading
  <1>10. IdOf(subtrees', n) \in subtrees'.live /\ subtrees'.slots[IdOf(subtrees', n)] = n
    BY <1>2, IdOfLive
  <1>11. Reconstruct'[IdOf(subtrees', n)] = RebuildIn(values'.slots, n, Reconstruct)
    <2> DEFINE id == IdOf(subtrees', n)
               u == subtrees'.slots
               w == values'.slots
    <2>1. id \in DOMAIN u /\ u[id] = n /\ id \in 0..Len(u)
      BY <1>2, <1>3, <1>10 DEF WellFormed
    <2>2. NodeIn(u, id) = n
      BY <2>1 DEF NodeIn
    <2> HIDE DEF id, u, w
    <2>3. ReadIn(w, u)[id] = RebuildIn(w, n, ReadIn(w, u))
      BY <1>9, <2>1, <2>2, ReadUnfolds DEF u, w
    <2>4. Reconstruct' = ReadIn(w, u)
      BY ReadNow DEF u, w
    <2>5. \A c \in Children(n) : Reconstruct'[c] = Reconstruct[c]
      BY <1>9
    <2>6. RebuildIn(w, n, Reconstruct') = RebuildIn(w, n, Reconstruct)
      BY <2>5, RebuildSame DEF w
    <2> QED
      BY <2>3, <2>4, <2>6 DEF id, w
  <1>12. \A id \in DOMAIN subtrees'.slots : id \in subtrees'.live \/ subtrees'.slots[id] = ZeroNode
    BY <1>2, <1>6 DEF Grown
  <1> QED
    BY <1>9, <1>11, <1>12

\* decompose of t interns a node that reads as t does: the step keeps what
\* memo and objects read as.
LEMMA InternNodeReads ==
  ASSUME StoreInv, IndInv', ValuesKept, NEW t \in Trees, NEW n \in Node, Whole(values'.slots, n),
         Children(n) \subseteq subtrees.live, InternNode(t, n),
         RebuildIn(values'.slots, n, Reconstruct) = Normal[t]
  PROVE  StoreInv' /\ ReadsKept
  <1>1. subtrees' = Intern(subtrees, n) /\ objects' = objects
    BY DEF InternNode
  <1>2. /\ Readable(values'.slots, subtrees'.slots)
        /\ \A id \in subtrees.live : Reconstruct'[id] = Reconstruct[id]
        /\ Reconstruct'[IdOf(subtrees', n)] = Normal[t]
        /\ \A id \in DOMAIN subtrees'.slots : id \in subtrees'.live \/ subtrees'.slots[id] = ZeroNode
    BY <1>1, InternReads
  <1>3. ASSUME NEW u \in DOMAIN memo' PROVE Reconstruct'[memo'[u]] = Normal[u]
    <2>1. CASE u = t
      BY <1>2, <1>3, <2>1 DEF InternNode
    <2>2. CASE u # t
      <3>1. u \in DOMAIN memo /\ memo'[u] = memo[u]
        BY <1>3, <2>2 DEF InternNode
      <3>2. memo[u] \in subtrees.live /\ Reconstruct[memo[u]] = Normal[u]
        BY <3>1 DEF StoreInv, IndInv, RootsLive, ReadsBack
      <3> QED
        BY <1>2, <3>1, <3>2
    <2> QED
      BY <2>1, <2>2
  <1>4. ASSUME NEW k \in Keys, objects'[k] # 0
        PROVE  \E o \in Objects : Reconstruct'[objects'[k]] = Normal[o]
    <2>1. objects[k] \in subtrees.live
      BY <1>1, <1>4 DEF StoreInv, IndInv, RootsLive, Roots
    <2> QED
      BY <1>1, <1>2, <1>4, <2>1 DEF StoreInv, ReadsBack
  <1>5. ReadsBack'
    BY <1>3, <1>4 DEF ReadsBack
  <1>6. Cleared'
    BY <1>2 DEF Cleared, ValuesKept
  <1> QED
    BY <1>2, <1>5, <1>6 DEF StoreInv, ReadsKept

\* Only nil is normalised to nil, and nil to nil.
LEMMA NormaliseNil == Normalise(Nil) = Nil /\ \A x : x # Nil => Normalise(x) # Nil
  <1>1. Nil[1] = "nil" /\ DOMAIN Nil = 1..1
    BY DEF Nil
  <1>2. \A a, b : DOMAIN <<a, b>> = 1..2 /\ <<a, b>> # Nil
    <2>1. 1..2 # 1..1
      <3>1. 2 \in 1..2 /\ 2 \notin 1..1
        OBVIOUS
      <3> QED
        BY <3>1
    <2> QED
      BY <1>1, <2>1
  <1> HIDE DEF Nil
  <1> QED
    BY <1>1, <1>2 DEF Normalise, IntegerTypes, CanonicalTypes

\* A decomposed scalar reads as the scalar, normalised.
LEMMA DecomposeScalarReads ==
  ASSUME StoreInv, IndInv', NEW t \in Trees, DecomposeScalar(t) PROVE StoreInv' /\ ReadsKept
  <1>1. t.kind = "scalar" /\ Normal[t] = [kind |-> "scalar", val |-> Normalise(t.val)]
    BY NormalUnfolds DEF DecomposeScalar, Normalised
  <1>2. ASSUME NEW x \in Nat, ValueIn(values'.slots, x) = Normalise(t.val), ValuesKept,
               InternNode(t, ScalarNode(x))
        PROVE  StoreInv' /\ ReadsKept
    <2> DEFINE n == ScalarNode(x)
    <2>1. n \in Node /\ n.kind = "scalar" /\ n.vid = x /\ Children(n) = {}
      BY DEF Node, ScalarNode, Children
    <2>2. InternNode(t, n)
      BY <1>2
    <2> HIDE DEF n
    <2>3. Whole(values'.slots, n)
      BY <2>1 DEF Whole
    <2>4. RebuildIn(values'.slots, n, Reconstruct) = Normal[t]
      BY <1>1, <1>2, <2>1 DEF RebuildIn
    <2>5. Children(n) \subseteq subtrees.live
      BY <2>1
    <2> QED
      BY <1>2, <2>1, <2>2, <2>3, <2>4, <2>5, InternNodeReads
  <1>3. CASE t.val = Nil /\ InternNode(t, ScalarNode(0)) /\ UNCHANGED values
    <2>1. ValuesKept
      BY <1>3, SameKeepsValues
    <2>2. ValueIn(values'.slots, 0) = Nil
      BY <1>3, LivePositions DEF ValueIn, StoreInv
    <2> QED
      BY <1>2, <1>3, <2>1, <2>2, NormaliseNil
  <1>4. CASE /\ t.val # Nil
             /\ values' = Intern(values, Normalise(t.val))
             /\ InternNode(t, ScalarNode(IdOf(values', Normalise(t.val))))
    <2> DEFINE c == Normalise(t.val)
    <2>1. c \in Contents /\ c # Nil
      BY <1>1, <1>4, NormaliseNil DEF Contents
    <2> HIDE DEF c
    <2>2. ValuesKept /\ IdOf(values', c) \in values'.live /\ ValueIn(values'.slots, IdOf(values', c)) = c
      BY <1>4, <2>1, InternKeepsValues DEF c
    <2>3. IdOf(values', c) \in Nat
      BY <2>2 DEF IndInv, TypeOK
    <2> QED
      BY <1>2, <1>4, <2>2, <2>3 DEF c
  <1> QED
    BY <1>3, <1>4 DEF DecomposeScalar

\* A decomposed slice reads as the slice of what its items read as.
LEMMA DecomposeSliceReads ==
  ASSUME StoreInv, IndInv', NEW t \in Trees, Kids(t) \subseteq DOMAIN memo, DecomposeSlice(t)
  PROVE  StoreInv' /\ ReadsKept
  <1> DEFINE ids == [i \in DOMAIN t.items |-> memo[t.items[i]]]
             n == SliceNode(ids)
  <1>1. t.kind = "slice" /\ t.items \in Seq(Trees)
    BY TreesAssumption DEF DecomposeSlice, IsTree
  <1>2. \A i \in DOMAIN t.items : t.items[i] \in Kids(t)
    BY <1>1 DEF Kids
  <1>3. \A i \in DOMAIN t.items :
          /\ ids[i] \in subtrees.live /\ ids[i] \in Nat
          /\ Reconstruct[ids[i]] = Normal[t.items[i]]
    BY <1>2 DEF StoreInv, ReadsBack, IndInv, RootsLive, TypeOK
  <1>4. ids \in Seq(Nat) /\ DOMAIN ids = DOMAIN t.items
    <2>1. DOMAIN t.items = 1..Len(t.items) /\ Len(t.items) \in Nat
      BY <1>1
    <2>2. ids \in [1..Len(t.items) -> Nat]
      BY <1>3, <2>1
    <2> QED
      BY <2>1, <2>2
  <1> HIDE DEF ids
  <1>5. n \in Node /\ n.kind = "slice" /\ n.items = ids /\ Children(n) \subseteq subtrees.live
    BY <1>3, <1>4 DEF Node, SliceNode, Children
  <1>6. InternNode(t, n) /\ ValuesKept
    BY SameKeepsValues DEF DecomposeSlice, ids
  <1> HIDE DEF n
  <1>7. RebuildIn(values'.slots, n, Reconstruct) = Normal[t]
    <2>1. RebuildIn(values'.slots, n, Reconstruct) =
            [kind |-> "slice", items |-> [i \in DOMAIN ids |-> Reconstruct[ids[i]]]]
      BY <1>5 DEF RebuildIn
    <2>2. Normal[t] = [kind |-> "slice", items |-> [i \in DOMAIN t.items |-> Normal[t.items[i]]]]
      BY <1>1, NormalUnfolds DEF Normalised
    <2>3. [i \in DOMAIN ids |-> Reconstruct[ids[i]]] = [i \in DOMAIN t.items |-> Normal[t.items[i]]]
      BY <1>3, <1>4
    <2> QED
      BY <2>1, <2>2, <2>3
  <1>8. Whole(values'.slots, n)
    BY <1>5 DEF Whole
  <1> QED
    BY <1>5, <1>6, <1>7, <1>8, InternNodeReads

\* A decomposed map reads as the map of what its values read as, under the same
\* keys, in whatever order Go visited them.
LEMMA DecomposeMapReads ==
  ASSUME StoreInv, IndInv', NEW t \in Trees, Kids(t) \subseteq DOMAIN memo, DecomposeMap(t)
  PROVE  StoreInv' /\ ReadsKept
  <1> DEFINE K == DOMAIN t.entries
             e(k) == EntryOf(t, k)
             v == values'.slots
  <1>1. t.kind = "map" /\ values' = values
    BY DEF DecomposeMap
  <1>2. PICK s \in Seq([key : Nat, val : Nat]) :
          /\ InternNode(t, MapNode(s))
          /\ SortEntries(s) = s
          /\ {s[i] : i \in DOMAIN s} = {EntryOf(t, k) : k \in DOMAIN t.entries}
          /\ \A i, j \in DOMAIN s : s[i].key = s[j].key => i = j
          /\ \A k \in DOMAIN t.entries :
               /\ EntryOf(t, k).key \in values.live
               /\ values.slots[EntryOf(t, k).key] = StringValue(k)
               /\ EntryOf(t, k).val \in subtrees.live
    BY DecomposeMapNode DEF StoreInv
  <1> DEFINE n == MapNode(s)
  <1>3. n \in Node /\ n.kind = "map" /\ n.entries = s /\ Children(n) = {s[i].val : i \in DOMAIN s}
    BY DEF Node, MapNode, Children
  <1>4. InternNode(t, n)
    BY <1>2
  <1> HIDE DEF n
  <1>5. ASSUME NEW k \in K
        PROVE  /\ ValueIn(v, e(k).key) = StringValue(k)
               /\ KeyIn(v, e(k).key) = k
               /\ e(k).val \in subtrees.live
               /\ Reconstruct[e(k).val] = Normal[t.entries[k]]
    <2>1. ValueIn(v, e(k).key) = StringValue(k) /\ e(k).val \in subtrees.live
      BY <1>1, <1>2, LivePositions DEF StoreInv
    <2>2. StringValue(k)[1] = "string" /\ StringValue(k)[2] = k
      BY DEF StringValue
    <2>3. t.entries[k] \in DOMAIN memo
      BY <1>1 DEF Kids
    <2>4. Reconstruct[e(k).val] = Normal[t.entries[k]]
      BY <2>3 DEF StoreInv, ReadsBack, EntryOf
    <2> QED
      BY <2>1, <2>2, <2>4 DEF KeyIn
  <1>6. ASSUME NEW i \in DOMAIN s PROVE \E k \in K : s[i] = e(k)
    <2>1. s[i] \in {EntryOf(t, k) : k \in DOMAIN t.entries}
      BY <1>2
    <2> QED
      BY <2>1
  <1>7. ASSUME NEW k \in K PROVE \E i \in DOMAIN s : s[i] = e(k)
    <2>1. EntryOf(t, k) \in {s[i] : i \in DOMAIN s}
      BY <1>2
    <2> QED
      BY <2>1
  <1> HIDE DEF e, v
  <1>8. Whole(v, n)
    <2>1. \A i \in DOMAIN s : ValueIn(v, s[i].key) = StringValue(KeyIn(v, s[i].key))
      BY <1>5, <1>6
    <2>2. ASSUME NEW i \in DOMAIN s, NEW j \in DOMAIN s, KeyIn(v, s[i].key) = KeyIn(v, s[j].key)
          PROVE  i = j
      <3>1. s[i] = s[j]
        BY <1>5, <1>6, <2>2
      <3> QED
        BY <1>2, <3>1
    <2> QED
      BY <1>2, <1>3, <2>1, <2>2 DEF Whole
  <1>9. Children(n) \subseteq subtrees.live
    BY <1>3, <1>5, <1>6
  <1>10. RebuildIn(v, n, Reconstruct) = Normal[t]
    <2> DEFINE L == {KeyIn(v, s[i].key) : i \in DOMAIN s}
    <2>1. L = K
      BY <1>5, <1>6, <1>7
    <2>2. ASSUME NEW k \in K PROVE Reconstruct[s[EntryFor(v, s, k)].val] = Normal[t.entries[k]]
      <3>1. PICK i \in DOMAIN s : s[i] = e(k)
        BY <1>7
      <3>2. KeyIn(v, s[i].key) = k
        BY <1>5, <3>1
      <3>3. EntryFor(v, s, k) = i
        BY <1>3, <1>8, <3>2, EntryOfKey
      <3> QED
        BY <1>5, <3>1, <3>3
    <2>3. RebuildIn(v, n, Reconstruct) =
            [kind |-> "map", entries |-> [k \in L |-> Reconstruct[s[EntryFor(v, s, k)].val]]]
      BY <1>3 DEF RebuildIn
    <2>4. Normal[t] = [kind |-> "map", entries |-> [k \in K |-> Normal[t.entries[k]]]]
      BY <1>1, NormalUnfolds DEF Normalised
    <2> HIDE DEF L, K
    <2>5. [k \in L |-> Reconstruct[s[EntryFor(v, s, k)].val]] = [k \in K |-> Normal[t.entries[k]]]
      BY <2>1, <2>2
    <2> QED
      BY <2>3, <2>4, <2>5
  <1>11. ValuesKept
    BY <1>1, SameKeepsValues
  <1> QED
    BY <1>3, <1>4, <1>8, <1>9, <1>10, <1>11, InternNodeReads DEF v

\* The three forms of decompose.
LEMMA DecomposeReads == ASSUME StoreInv, IndInv', NEW t \in Trees, Decompose(t) PROVE StoreInv' /\ ReadsKept
  <1>1. CASE DecomposeScalar(t)
    BY <1>1, DecomposeScalarReads
  <1>2. CASE DecomposeMap(t)
    BY <1>2, DecomposeMapReads DEF Decompose
  <1>3. CASE DecomposeSlice(t)
    BY <1>3, DecomposeSliceReads DEF Decompose
  <1> QED
    BY <1>1, <1>2, <1>3 DEF Decompose

\* Interning a key of a map, on the way to its node.
LEMMA InternKeyReads ==
  ASSUME StoreInv, IndInv', NEW k \in MapKeys(Trees), InternKey(k)
  PROVE  StoreInv' /\ ReadsKept
  <1>1. /\ values' = Intern(values, StringValue(k))
        /\ UNCHANGED <<subtrees, objects, memo>>
    BY DEF InternKey
  <1>2. StringValue(k) \in Contents /\ StringValue(k) # Nil
    <2>1. 2 \in DOMAIN StringValue(k) /\ 2 \notin DOMAIN Nil
      BY DEF StringValue, Nil
    <2>2. StringValue(k) # Nil
      BY <2>1
    <2> QED
      BY <2>2 DEF Contents
  <1>3. ValuesKept
    BY <1>1, <1>2, InternKeepsValues
  <1>4. ASSUME NEW id \in subtrees.live
        PROVE  /\ Children(subtrees.slots[id]) \subseteq subtrees.live
               /\ \A x \in ValueIDs(subtrees.slots[id]) :
                    ValueIn(values.slots, x) = ValueIn(values'.slots, x)
    <2>1. NodeAt(id) = subtrees.slots[id]
      BY LivePositions DEF StoreInv
    <2>2. Children(NodeAt(id)) \subseteq subtrees.live /\ ValueIDs(NodeAt(id)) \subseteq values.live \cup {0}
      BY DEF StoreInv, IndInv, NoDangling
    <2> QED
      BY <1>3, <2>1, <2>2 DEF ValuesKept
  <1>5. \A id \in DOMAIN subtrees'.slots \ subtrees.live :
          /\ Whole(values'.slots, subtrees'.slots[id])
          /\ Children(subtrees'.slots[id]) \subseteq 0..id - 1
    <2>1. \A id \in DOMAIN subtrees'.slots \ subtrees.live : subtrees'.slots[id] = ZeroNode
      BY <1>1 DEF StoreInv, Cleared
    <2> QED
      BY <2>1, ZeroWhole
  <1>6. subtrees'.slots \in Seq(Node) /\ subtrees.live \subseteq DOMAIN subtrees'.slots
    BY <1>1, LivePositions DEF StoreInv
  <1>7. /\ Readable(values'.slots, subtrees'.slots)
        /\ \A id \in subtrees.live : Reconstruct'[id] = Reconstruct[id]
    BY <1>1, <1>4, <1>5, <1>6, KeepsReading
  <1>8. ReadsBack'
    <2>1. \A u \in DOMAIN memo : memo[u] \in subtrees.live
      BY DEF StoreInv, IndInv, RootsLive
    <2>2. \A j \in Keys : objects[j] # 0 => objects[j] \in subtrees.live
      BY DEF StoreInv, IndInv, RootsLive, Roots
    <2> QED
      BY <1>1, <1>7, <2>1, <2>2 DEF StoreInv, ReadsBack
  <1>9. Cleared'
    BY <1>1, <1>3 DEF StoreInv, Cleared, ValuesKept
  <1> QED
    BY <1>7, <1>8, <1>9 DEF StoreInv, ReadsKept

\* A step that leaves both pools alone reads every node as before.
LEMMA PoolsSame ==
  ASSUME StoreInv, UNCHANGED <<values, subtrees>>
  PROVE  /\ Reconstruct' = Reconstruct
         /\ Readable(values'.slots, subtrees'.slots)
         /\ Cleared'
  BY ReadNow DEF StoreInv, Cleared

\* What decompose returned becomes the object of the key.
LEMMA UpsertCommitReads == ASSUME StoreInv, IndInv', UpsertCommit PROVE StoreInv'
  <1>1. /\ objects' = [objects EXCEPT ![call.key] = memo[call.obj]]
        /\ UNCHANGED <<values, subtrees>>
        /\ DOMAIN memo' = {} /\ call.obj \in DOMAIN memo
    BY DEF UpsertCommit, Release
  <1>2. call.obj \in Objects /\ objects \in [Keys -> 0..Len(subtrees.slots)]
    BY DEF UpsertCommit, StoreInv, IndInv, TypeOK
  <1>3. Reconstruct[memo[call.obj]] = Normal[call.obj]
    BY <1>1 DEF StoreInv, ReadsBack
  <1>4. ReadsBack'
    BY <1>1, <1>2, <1>3, PoolsSame DEF StoreInv, ReadsBack
  <1> QED
    BY <1>1, <1>4, PoolsSame DEF StoreInv

\* Delete only forgets a root.
LEMMA DeleteReads == ASSUME StoreInv, IndInv', NEW k \in Keys, Delete(k) PROVE StoreInv'
  <1>1. /\ objects' = [objects EXCEPT ![k] = 0]
        /\ UNCHANGED <<values, subtrees, memo>>
        /\ objects \in [Keys -> 0..Len(subtrees.slots)]
    BY DEF Delete, StoreInv, IndInv, TypeOK
  <1>2. ReadsBack'
    BY <1>1, PoolsSame DEF StoreInv, ReadsBack
  <1> QED
    BY <1>1, <1>2, PoolsSame DEF StoreInv

\* The walk of GC, the beginning of an Upsert, and steps of others.
LEMMA NothingReads ==
  ASSUME StoreInv, IndInv', UNCHANGED <<values, subtrees, objects, memo>> PROVE StoreInv'
  <1>1. ReadsBack'
    BY PoolsSame DEF StoreInv, ReadsBack
  <1> QED
    BY <1>1, PoolsSame DEF StoreInv

\* The sweep of GC changes nothing of what the marked nodes read as.
LEMMA GCSweepReads ==
  ASSUME StoreInv, IndInv', GCSweep
  PROVE  /\ StoreInv'
         /\ subtrees'.live = marked
         /\ \A id \in marked : NodeAt(id)' = NodeAt(id) /\ Reconstruct'[id] = Reconstruct[id]
         /\ values'.live = (UNION {ValueIDs(NodeAt(id)) : id \in marked}) \ {0}
  <1> DEFINE keep == UNION {ValueIDs(NodeAt(id)) : id \in marked}
  <1>1. /\ subtrees' = Sweep(subtrees, marked, ZeroNode)
        /\ values' = Sweep(values, keep, Nil)
        /\ Reached = marked /\ mu = "gc"
        /\ UNCHANGED objects
        /\ DOMAIN memo' = {}
    BY DEF GCSweep, Release
  <1>2. marked \subseteq subtrees.live /\ Roots \subseteq marked
    BY <1>1 DEF StoreInv, IndInv, RootsLive
  <1>3. \A id \in marked : Children(NodeAt(id)) \subseteq marked /\ ValueIDs(NodeAt(id)) \subseteq keep
    BY <1>1 DEF Reached
  <1>4. keep \subseteq values.live \cup {0}
    BY <1>2 DEF StoreInv, IndInv, NoDangling
  <1> HIDE DEF keep
  <1>5. /\ subtrees' \in PoolOf(Node)
        /\ Swept(subtrees, subtrees', marked)
    <2>1. subtrees \in PoolOf(Node) /\ WellFormed(subtrees, Node) /\ ZeroNode \in Node
      BY DEF StoreInv, IndInv, TypeOK, PoolOf, ZeroNode, Node
    <2> QED
      BY <1>1, <2>1, SweepKeeps
  <1>6. Swept(values, values', keep)
    <2>1. /\ values \in PoolOf(Contents \cup {Nil})
          /\ WellFormed(values, Contents)
          /\ Nil \in Contents \cup {Nil}
      BY DEF StoreInv, IndInv, TypeOK, PoolOf
    <2> QED
      BY <1>1, <2>1, SweepKeeps
  <1>7. subtrees'.live = marked
    BY <1>2, <1>5 DEF Swept
  <1>8. values'.live = keep \ {0}
    BY <1>4, <1>6, LivePositions DEF Swept, StoreInv
  <1>9. \A x \in keep : ValueIn(values.slots, x) = ValueIn(values'.slots, x)
    BY <1>6, <1>8, LivePositions DEF Swept, StoreInv, ValueIn
  <1>10. \A id \in DOMAIN subtrees'.slots \ marked : subtrees'.slots[id] = ZeroNode
    <2>1. subtrees'.slots = [id \in DOMAIN subtrees.slots |->
                               IF id \in subtrees.live \ marked THEN ZeroNode ELSE subtrees.slots[id]]
      BY <1>1 DEF Sweep
    <2> QED
      BY <2>1 DEF StoreInv, Cleared
  <1>11. ASSUME NEW id \in marked
         PROVE  /\ id \in DOMAIN subtrees'.slots
                /\ subtrees'.slots[id] = subtrees.slots[id]
                /\ NodeAt(id) = subtrees.slots[id]
                /\ NodeAt(id)' = NodeAt(id)
                /\ Children(subtrees.slots[id]) \subseteq marked
                /\ \A x \in ValueIDs(subtrees.slots[id]) :
                     ValueIn(values.slots, x) = ValueIn(values'.slots, x)
    <2>1. NodeAt(id) = subtrees.slots[id] /\ id \in DOMAIN subtrees.slots
      BY <1>2, LivePositions DEF StoreInv
    <2>2. id \in DOMAIN subtrees'.slots /\ subtrees'.slots[id] = subtrees.slots[id]
      BY <1>5, <1>7, <2>1 DEF Swept
    <2>3. NodeAt(id)' = NodeAt(id)
      BY <2>1, <2>2 DEF NodeAt
    <2> QED
      BY <1>3, <1>9, <2>1, <2>2, <2>3
  <1>12. \A id \in DOMAIN subtrees'.slots \ marked :
           /\ Whole(values'.slots, subtrees'.slots[id])
           /\ Children(subtrees'.slots[id]) \subseteq 0..id - 1
    BY <1>10, ZeroWhole
  <1>13. subtrees'.slots \in Seq(Node) /\ marked \subseteq DOMAIN subtrees'.slots
    BY <1>5, <1>11 DEF PoolOf
  <1>14. /\ Readable(values'.slots, subtrees'.slots)
         /\ \A id \in marked : Reconstruct'[id] = Reconstruct[id]
    BY <1>2, <1>11, <1>12, <1>13, KeepsReading
  <1>15. ReadsBack'
    <2>1. \A k \in Keys : objects[k] # 0 => objects[k] \in marked
      BY <1>2 DEF Roots
    <2> QED
      BY <1>1, <1>14, <2>1 DEF StoreInv, ReadsBack
  <1>16. Cleared'
    <2>1. \A x \in values'.live : values'.slots[x] # Nil
      BY <1>6 DEF Swept, StoreInv, Cleared
    <2> QED
      BY <1>7, <1>10, <2>1 DEF Cleared
  <1> QED
    <2>1. StoreInv'
      BY <1>14, <1>15, <1>16 DEF StoreInv
    <2>2. values'.live = (UNION {ValueIDs(NodeAt(id)) : id \in marked}) \ {0}
      BY <1>8 DEF keep
    <2>3. \A id \in marked : NodeAt(id)' = NodeAt(id) /\ Reconstruct'[id] = Reconstruct[id]
      BY <1>11, <1>14
    <2> QED
      BY <1>7, <2>1, <2>2, <2>3

\* The store starts empty.
LEMMA StoreInvInit == Init => StoreInv
  <1> SUFFICES ASSUME Init PROVE StoreInv
    OBVIOUS
  <1>1. /\ values.slots = <<>> /\ values.live = {} /\ subtrees.slots = <<>> /\ subtrees.live = {}
        /\ DOMAIN memo = {} /\ objects = [k \in Keys |-> 0]
    BY DEF Init, EmptyPool
  <1>2. Readable(values.slots, subtrees.slots) /\ Cleared
    BY <1>1 DEF Readable, Cleared
  <1>3. ReadsBack
    BY <1>1 DEF ReadsBack
  <1> QED
    BY <1>2, <1>3, InitInv DEF StoreInv

\* Every step keeps the invariant.
LEMMA StoreInvNext == StoreInv /\ [Next]_vars => StoreInv'
  <1> SUFFICES ASSUME StoreInv, [Next]_vars PROVE StoreInv'
    OBVIOUS
  <1>0. IndInv'
    BY NextInv DEF StoreInv
  <1>1. ASSUME NEW k \in Keys, Delete(k) PROVE StoreInv'
    BY <1>0, <1>1, DeleteReads
  <1>2. ASSUME NEW k \in Keys, NEW o \in Objects, UpsertBegin(k, o) PROVE StoreInv'
    BY <1>0, <1>2, NothingReads DEF UpsertBegin
  <1>3. ASSUME NEW t \in Trees, Decompose(t) PROVE StoreInv'
    BY <1>0, <1>3, DecomposeReads
  <1>4. ASSUME NEW k \in MapKeys(Trees), InternKey(k) PROVE StoreInv'
    BY <1>0, <1>4, InternKeyReads
  <1>5. CASE UpsertCommit
    BY <1>0, <1>5, UpsertCommitReads
  <1>6. CASE GCBegin \/ GCWalk
    BY <1>0, <1>6, NothingReads DEF GCBegin, GCWalk
  <1>7. CASE GCSweep
    BY <1>0, <1>7, GCSweepReads
  <1>8. CASE UNCHANGED vars
    BY <1>0, <1>8, NothingReads DEF vars
  <1> QED
    BY <1>1, <1>2, <1>3, <1>4, <1>5, <1>6, <1>7, <1>8 DEF Next

\* In every reachable state every slot of the pools can be read, a slot that is
\* not live is cleared, and every stored object reads back as one that callers
\* store, normalised: reconstruct (dedup_store.go:279) never meets a cleared slot
\* or a node it cannot rebuild.
THEOREM AlwaysReadable == Spec => []StoreInv
  BY StoreInvInit, StoreInvNext, PTL DEF Spec

-----------------------------------------------------------------------------
(* Deduplication                                                           *)

\* Both pools have one ID per content, so one ID per tree.
LEMMA TreesDistinct == StoreInv => FullyDeduplicated
  <1> SUFFICES ASSUME StoreInv PROVE FullyDeduplicated
    OBVIOUS
  <1> DEFINE v == values.slots
             s == subtrees.slots
             A == subtrees.live
             V == values.live \cup {0}
  <1>1. Readable(v, s) /\ A \subseteq DOMAIN s
    BY LivePositions DEF StoreInv
  <1>2. \A id \in A : Children(s[id]) \subseteq A /\ ValueIDs(s[id]) \subseteq V
    BY LivePositions DEF StoreInv, IndInv, NoDangling
  <1>3. \A i, j \in A : s[i] = s[j] => i = j
    BY DEF StoreInv, IndInv, WellFormed
  <1>4. \A x, y \in V : ValueIn(v, x) = ValueIn(v, y) => x = y
    <2>1. ValueIn(v, 0) = Nil
      BY LivePositions DEF StoreInv, ValueIn
    <2>2. \A x \in values.live : ValueIn(v, x) = v[x] /\ v[x] # Nil
      BY LivePositions DEF StoreInv, Cleared
    <2>3. \A x, y \in values.live : v[x] = v[y] => x = y
      BY DEF StoreInv, IndInv, WellFormed
    <2> QED
      BY <2>1, <2>2, <2>3
  <1> HIDE DEF v, s, A, V
  <1>5. \A i, j \in A : ReadIn(v, s)[i] = ReadIn(v, s)[j] => i = j
    BY <1>1, <1>2, <1>3, <1>4, ReadInjective
  <1>6. Reconstruct = ReadIn(v, s)
    BY ReadNow DEF v, s
  <1> QED
    BY <1>5, <1>6 DEF FullyDeduplicated, A

-----------------------------------------------------------------------------
(* What Get returns                                                        *)

\* A node that reads as an object is the node of a map.
LEMMA MapRoot ==
  ASSUME NEW v, NEW s, Readable(v, s), NEW id \in 0..Len(s), NEW o \in Objects,
         ReadIn(v, s)[id] = Normal[o]
  PROVE  NodeIn(s, id).kind = "map"
  <1>1. o \in Trees /\ o.kind = "map"
    BY TreesAssumption
  <1>2. Normal[o].kind = "map"
    <2>1. Normal[o] = [kind |-> "map", entries |-> [k \in DOMAIN o.entries |-> Normal[o.entries[k]]]]
      BY <1>1, NormalUnfolds DEF Normalised
    <2> QED
      BY <2>1
  <1>3. NodeIn(s, id).kind \in {"scalar", "map", "slice"}
    BY NodesReadable DEF Node
  <1>4. RebuildIn(v, NodeIn(s, id), ReadIn(v, s)).kind = NodeIn(s, id).kind
    BY <1>3 DEF RebuildIn
  <1>5. ReadIn(v, s)[id] = RebuildIn(v, NodeIn(s, id), ReadIn(v, s))
    BY ReadUnfolds
  <1> QED
    BY <1>2, <1>4, <1>5

\* Get finds every object that is there, before a step and after it.
LEMMA GetFinds ==
  /\ StoreInv =>
       \A k \in Keys : Get(k) = IF objects[k] = 0 THEN Missing ELSE Reconstruct[objects[k]]
  /\ StoreInv' =>
       \A k \in Keys : Get(k)' = IF objects'[k] = 0 THEN Missing ELSE Reconstruct'[objects'[k]]
  <1>1. ASSUME StoreInv, NEW k \in Keys, objects[k] # 0 PROVE NodeAt(objects[k]).kind = "map"
    <2>1. /\ \E o \in Objects : Reconstruct[objects[k]] = Normal[o]
          /\ objects[k] \in 0..Len(subtrees.slots)
          /\ Readable(values.slots, subtrees.slots)
      BY <1>1 DEF StoreInv, ReadsBack, IndInv, TypeOK
    <2> QED
      BY <2>1, MapRoot, ReadNow, NodeNow
  <1>2. ASSUME StoreInv', NEW k \in Keys, objects'[k] # 0 PROVE NodeAt(objects[k])'.kind = "map"
    <2>1. /\ \E o \in Objects : Reconstruct'[objects'[k]] = Normal[o]
          /\ objects'[k] \in 0..Len(subtrees'.slots)
          /\ Readable(values'.slots, subtrees'.slots)
      BY <1>2 DEF StoreInv, ReadsBack, IndInv, TypeOK
    <2>2. NodeAt(objects[k])' = NodeIn(subtrees'.slots, objects'[k])
      BY DEF NodeAt, NodeIn
    <2> QED
      BY <2>1, <2>2, MapRoot, ReadNow
  <1> QED
    BY <1>1, <1>2 DEF Get

\* A key that keeps its root keeps its object, in a step that keeps what the
\* root reads as.
LEMMA GetKept ==
  ASSUME StoreInv, StoreInv', NEW k \in Keys, objects'[k] = objects[k],
         objects[k] # 0 => Reconstruct'[objects[k]] = Reconstruct[objects[k]]
  PROVE  Get(k)' = Get(k)
  BY GetFinds

\* The steps within a call: nobody sees them.
LEMMA StepsUnseen ==
  ASSUME StoreInv, StoreInv', UNCHANGED objects, ReadsKept
  PROVE  \A k \in Keys : Get(k)' = Get(k)
  <1>1. \A k \in Keys : objects[k] # 0 => objects[k] \in subtrees.live
    BY DEF StoreInv, IndInv, RootsLive, Roots
  <1> QED
    BY <1>1, GetKept DEF ReadsKept

\* The commit of an Upsert shows its object, and no other change.
LEMMA CommitShows ==
  ASSUME StoreInv, StoreInv', UpsertCommit
  PROVE  /\ call.key \in Keys /\ call.obj \in Objects
         /\ \A k \in Keys : Get(k)' = IF k = call.key THEN Normal[call.obj] ELSE Get(k)
  <1>1. /\ call.key \in Keys /\ call.obj \in Objects
        /\ call.obj \in DOMAIN memo
        /\ objects' = [objects EXCEPT ![call.key] = memo[call.obj]]
        /\ UNCHANGED <<values, subtrees>>
        /\ objects \in [Keys -> 0..Len(subtrees.slots)]
    BY DEF UpsertCommit, StoreInv, IndInv, TypeOK
  <1>2. Reconstruct' = Reconstruct
    BY <1>1, PoolsSame
  <1>3. Reconstruct[memo[call.obj]] = Normal[call.obj]
    BY <1>1 DEF StoreInv, ReadsBack
  <1>4. memo[call.obj] # 0
    <2>1. memo[call.obj] \in subtrees.live
      BY <1>1 DEF StoreInv, IndInv, RootsLive
    <2>2. 0 \notin subtrees.live
      BY LivePositions DEF StoreInv
    <2> QED
      BY <2>1, <2>2
  <1>5. ASSUME NEW k \in Keys, k = call.key PROVE Get(k)' = Normal[call.obj]
    <2>1. objects'[k] = memo[call.obj]
      BY <1>1, <1>5
    <2> QED
      BY <1>1, <1>2, <1>3, <1>4, <2>1, GetFinds
  <1>6. ASSUME NEW k \in Keys, k # call.key PROVE Get(k)' = Get(k)
    <2>1. objects'[k] = objects[k]
      BY <1>1, <1>6
    <2> QED
      BY <1>2, <2>1, GetKept
  <1>7. \A k \in Keys : Get(k)' = IF k = call.key THEN Normal[call.obj] ELSE Get(k)
    BY <1>5, <1>6
  <1> QED
    BY <1>1, <1>7

\* Delete shows an absent key, and no other change.
LEMMA DeleteShows ==
  ASSUME StoreInv, StoreInv', NEW d \in Keys, Delete(d)
  PROVE  \A k \in Keys : Get(k)' = IF k = d THEN Missing ELSE Get(k)
  <1>1. /\ objects' = [objects EXCEPT ![d] = 0]
        /\ UNCHANGED <<values, subtrees>>
        /\ objects \in [Keys -> 0..Len(subtrees.slots)]
    BY DEF Delete, StoreInv, IndInv, TypeOK
  <1>2. Reconstruct' = Reconstruct
    BY <1>1, PoolsSame
  <1>3. Get(d)' = Missing
    <2>1. objects'[d] = 0
      BY <1>1
    <2> QED
      BY <2>1 DEF Get
  <1>4. \A k \in Keys : k # d => Get(k)' = Get(k)
    BY <1>1, <1>2, GetKept
  <1> QED
    BY <1>3, <1>4

\* The other steps: Upsert until its commit, and GC.
LEMMA OthersUnseen ==
  ASSUME StoreInv, StoreInv', [Next]_vars, ~UpsertCommit, \A k \in Keys : ~Delete(k)
  PROVE  \A k \in Keys : Get(k)' = Get(k)
  <1>0. IndInv'
    BY DEF StoreInv
  <1>1. ASSUME NEW t \in Trees, Decompose(t) PROVE UNCHANGED objects /\ ReadsKept
    BY <1>0, <1>1, DecomposeReads
       DEF Decompose, DecomposeScalar, DecomposeMap, DecomposeSlice, InternNode
  <1>2. ASSUME NEW k \in MapKeys(Trees), InternKey(k) PROVE UNCHANGED objects /\ ReadsKept
    BY <1>0, <1>2, InternKeyReads DEF InternKey
  <1>3. ASSUME UNCHANGED <<values, subtrees, objects>> PROVE UNCHANGED objects /\ ReadsKept
    BY <1>3, PoolsSame DEF ReadsKept
  <1>4. CASE GCSweep
    <2>1. \A id \in marked : Reconstruct'[id] = Reconstruct[id]
      BY <1>0, <1>4, GCSweepReads
    <2>2. \A k \in Keys : objects[k] # 0 => objects[k] \in marked
      BY <1>4 DEF GCSweep, StoreInv, IndInv, RootsLive, Roots
    <2> QED
      BY <1>4, <2>1, <2>2, GetKept DEF GCSweep
  <1>5. CASE ~GCSweep
    <2>1. UNCHANGED objects /\ ReadsKept
      BY <1>1, <1>2, <1>3, <1>5 DEF Next, vars, UpsertBegin, GCBegin, GCWalk
    <2> QED
      BY <2>1, StepsUnseen
  <1> QED
    BY <1>4, <1>5

\* Deduplication: equal subtrees share one node, however they were stored and in
\* whatever order decompose (dedup_store.go:253) ran over a map's keys.
THEOREM Deduplicates == Spec => []FullyDeduplicated
  BY TreesDistinct, AlwaysReadable, PTL

\* An Upsert (dedup_store.go:43) reads back as the normalised object it was given
\* and changes no other key, whatever its nodes already shared with other objects.
THEOREM UpsertsReadBack == Spec => UpsertReadsBack
  <1>1. ASSUME StoreInv, StoreInv', [Next]_vars, mu = "upsert", mu' = "free"
        PROVE  \A k \in Keys : Get(k)' = IF k = call.key THEN Normal[call.obj] ELSE Get(k)
    <2>1. UpsertCommit
      BY <1>1 DEF Next, vars, Delete, UpsertBegin, Decompose, DecomposeScalar, DecomposeMap,
         DecomposeSlice, InternNode, InternKey, GCBegin, GCWalk, GCSweep
    <2> QED
      BY <1>1, <2>1, CommitShows
  <1>2. StoreInv /\ StoreInv' /\ [Next]_vars =>
          [mu = "upsert" /\ mu' = "free" =>
             \A k \in Keys : Get(k)' = IF k = call.key THEN Normal[call.obj] ELSE Get(k)]_vars
    BY <1>1
  <1> QED
    BY <1>2, AlwaysReadable, PTL DEF Spec, UpsertReadsBack

\* The deduplicated store is a map from keys to objects: Upsert takes effect at
\* its commit, Delete at once, and neither the interning before a commit nor any
\* step of GC is visible to Get (dedup_store.go:75).
THEOREM Refinement == Spec => ImplementsObjectStore
  <1>1. Init => Store!Init
    BY DEF Init, Store!Init, Shown, Get
  <1>2. StoreInv /\ StoreInv' /\ [Next]_vars => [Store!Next]_Shown
    <2> SUFFICES ASSUME StoreInv, StoreInv', [Next]_vars PROVE [Store!Next]_Shown
      OBVIOUS
    <2>1. CASE UpsertCommit
      <3>1. /\ call.key \in Keys /\ call.obj \in Objects
            /\ \A k \in Keys : Get(k)' = IF k = call.key THEN Normal[call.obj] ELSE Get(k)
        BY <2>1, CommitShows
      <3>2. Shown' = [Shown EXCEPT ![call.key] = Normal[call.obj]]
        BY <3>1 DEF Shown
      <3>3. Store!Upsert(call.key, Normal[call.obj])
        BY <3>2 DEF Store!Upsert
      <3> QED
        BY <3>1, <3>3 DEF Store!Next
    <2>2. ASSUME NEW d \in Keys, Delete(d) PROVE Store!Next
      <3>1. \A k \in Keys : Get(k)' = IF k = d THEN Missing ELSE Get(k)
        BY <2>2, DeleteShows
      <3>2. Shown' = [Shown EXCEPT ![d] = Missing]
        BY <3>1 DEF Shown
      <3>3. Store!Delete(d)
        BY <3>2 DEF Store!Delete
      <3> QED
        BY <3>3 DEF Store!Next
    <2>3. CASE ~UpsertCommit /\ \A k \in Keys : ~Delete(k)
      BY <2>3, OthersUnseen DEF Shown
    <2> QED
      BY <2>1, <2>2, <2>3
  <1> QED
    BY <1>1, <1>2, AlwaysReadable, PTL DEF Spec, ImplementsObjectStore, Store!Spec

-----------------------------------------------------------------------------
(* What GC leaves                                                          *)

\* What the walk has marked so far is reachable.
MarkedReachable == mu = "gc" => marked \subseteq Reachable

\* The roots are reachable, and so are the children of what is.
LEMMA ReachableClosed ==
  ASSUME IndInv
  PROVE  Roots \subseteq Reachable /\ \A i \in Reachable : Children(NodeAt(i)) \subseteq Reachable
  <1>1. Roots \subseteq Reachable
    BY DEF Reachable, IndInv, RootsLive
  <1>2. ASSUME NEW i \in Reachable, NEW c \in Children(NodeAt(i)) PROVE c \in Reachable
    <2>1. i \in subtrees.live
      BY DEF Reachable
    <2>2. c \in subtrees.live
      BY <1>2, <2>1 DEF IndInv, NoDangling
    <2>3. ASSUME NEW S \in SUBSET subtrees.live, Roots \subseteq S, \A j \in S : Children(NodeAt(j)) \subseteq S
          PROVE  c \in S
      <3>1. i \in S
        BY <2>3 DEF Reachable
      <3> QED
        BY <1>2, <2>3, <3>1
    <2> QED
      BY <2>2, <2>3 DEF Reachable
  <1> QED
    BY <1>1, <1>2

\* A step that leaves the nodes and the roots alone.
LEMMA ReachableSame == ASSUME UNCHANGED <<subtrees, objects>> PROVE Reachable' = Reachable
  BY DEF Reachable, Roots, Children, NodeAt

\* The walk starts at the roots and goes from parents to children.
LEMMA MarkedNext ==
  ASSUME IndInv, MarkedReachable, [Next]_vars PROVE MarkedReachable'
  <1> SUFFICES ASSUME mu' = "gc" PROVE marked' \subseteq Reachable'
    BY DEF MarkedReachable
  <1>1. \/ GCBegin \/ GCWalk \/ UNCHANGED vars
    BY DEF Next, vars, Delete, UpsertBegin, Decompose, DecomposeScalar, DecomposeMap, DecomposeSlice,
       InternNode, InternKey, UpsertCommit, GCSweep, Release, IndInv, TypeOK
  <1>2. Reachable' = Reachable
    BY <1>1, ReachableSame DEF GCBegin, GCWalk, vars
  <1>3. CASE GCBegin
    BY <1>2, <1>3, ReachableClosed DEF GCBegin
  <1>4. CASE GCWalk
    BY <1>2, <1>4, ReachableClosed DEF GCWalk, Reached, MarkedReachable
  <1>5. CASE UNCHANGED vars
    BY <1>2, <1>5 DEF vars, MarkedReachable
  <1> QED
    BY <1>1, <1>3, <1>4, <1>5

\* The sweep leaves what the walk has marked, and that is what is reachable.
LEMMA SweepLeaves ==
  ASSUME StoreInv, IndInv', MarkedReachable, GCSweep
  PROVE  /\ subtrees'.live = Reachable'
         /\ values'.live = (UNION {ValueIDs(NodeAt(id))' : id \in Reachable'}) \ {0}
  <1>1. /\ subtrees'.live = marked
        /\ \A id \in marked : NodeAt(id)' = NodeAt(id)
        /\ values'.live = (UNION {ValueIDs(NodeAt(id)) : id \in marked}) \ {0}
    BY GCSweepReads
  <1>2. /\ Roots' = Roots
        /\ Roots \subseteq marked /\ marked \subseteq subtrees.live
        /\ \A id \in marked : Children(NodeAt(id)) \subseteq marked
        /\ marked \subseteq Reachable
    BY DEF GCSweep, Roots, Reached, StoreInv, IndInv, RootsLive, MarkedReachable
  <1>3. Reachable' = marked
    <2>1. Reachable' \subseteq marked
      BY <1>1 DEF Reachable
    <2>2. ASSUME NEW i \in marked PROVE i \in Reachable'
      <3>1. ASSUME NEW S \in SUBSET marked, Roots \subseteq S, \A j \in S : Children(NodeAt(j)') \subseteq S
            PROVE  i \in S
        <4>1. S \in SUBSET subtrees.live /\ \A j \in S : Children(NodeAt(j)) \subseteq S
          BY <1>1, <1>2, <3>1
        <4> QED
          BY <1>2, <3>1, <4>1 DEF Reachable
      <3> QED
        BY <1>1, <1>2, <3>1 DEF Reachable
    <2> QED
      BY <2>1, <2>2
  <1>4. \A id \in marked : ValueIDs(NodeAt(id))' = ValueIDs(NodeAt(id))
    BY <1>1 DEF ValueIDs
  <1>5. {ValueIDs(NodeAt(id))' : id \in Reachable'} = {ValueIDs(NodeAt(id)) : id \in marked}
    BY <1>3, <1>4
  <1> QED
    BY <1>1, <1>3, <1>5

\* A GC (dedup_store.go:144) leaves the nodes that the roots lead to and the values
\* of those nodes, and clears the rest of both pools.
THEOREM GCExact == Spec => GCLeavesOnlyReachable
  <1>1. Init => MarkedReachable
    BY DEF Init, MarkedReachable
  <1>2. StoreInv /\ MarkedReachable /\ [Next]_vars => MarkedReachable'
    BY MarkedNext DEF StoreInv
  <1>3. ASSUME StoreInv, StoreInv', MarkedReachable, [Next]_vars, mu = "gc", mu' = "free"
        PROVE  /\ subtrees.live' = Reachable'
               /\ values.live' = (UNION {ValueIDs(NodeAt(id))' : id \in Reachable'}) \ {0}
    <2>1. GCSweep
      BY <1>3 DEF Next, vars, Delete, UpsertBegin, Decompose, DecomposeScalar, DecomposeMap,
         DecomposeSlice, InternNode, InternKey, UpsertCommit, GCBegin, GCWalk
    <2> QED
      BY <1>3, <2>1, SweepLeaves DEF StoreInv
  <1>4. StoreInv /\ StoreInv' /\ MarkedReachable /\ [Next]_vars =>
          [mu = "gc" /\ mu' = "free" =>
             /\ subtrees.live' = Reachable'
             /\ values.live' = (UNION {ValueIDs(NodeAt(id))' : id \in Reachable'}) \ {0}]_vars
    BY <1>3
  <1> QED
    BY <1>1, <1>2, <1>4, AlwaysReadable, PTL DEF Spec, GCLeavesOnlyReachable

-----------------------------------------------------------------------------
(* Sums                                                                    *)

\* Every non-empty family of subsets of a finite set has a smallest member.
LEMMA SmallestSet ==
  ASSUME NEW S, IsFiniteSet(S), NEW B \in SUBSET (SUBSET S), B # {}
  PROVE  \E T \in B : \A U \in B : U \subseteq T => U = T
  <1> DEFINE R == StrictSubsetOrdering(S)
  <1>1. IsWellFoundedOn(R, FiniteSubsetsOf(S))
    BY FS_StrictSubsetOrderingWellFounded
  <1>2. B \subseteq FiniteSubsetsOf(S)
    BY FS_Subset DEF FiniteSubsetsOf
  <1>3. PICK T \in B : \A U \in B : <<U, T>> \notin R
    <2> HIDE DEF R
    <2> QED
      BY <1>1, <1>2, WFMin
  <1>4. ASSUME NEW U \in B, U \subseteq T PROVE U = T
    BY <1>3, <1>4 DEF StrictSubsetOrdering
  <1> QED
    BY <1>4

\* Total is a recursion over subsets: a member, and the rest.
Some(T) == CHOOSE x \in T : TRUE
Rest(T) == T \ {Some(T)}
SumBody(f, T, g) == IF T = {} THEN 0 ELSE f[Some(T)] + g[Rest(T)]
SumIn(f, S) == CHOOSE g : g = [T \in SUBSET S |-> SumBody(f, T, g)]

\* Total is this recursion over its own domain.
LEMMA TotalIs == \A f : Total(f) = SumIn(f, DOMAIN f)[DOMAIN f]
  BY DEF Total, MapThenSumSet, MapThenFoldSet, SumIn, SumBody, Some, Rest

\* The member that a total adds, and the set it goes on with.
LEMMA SomeRest ==
  ASSUME NEW T, T # {}
  PROVE  Some(T) \in T /\ Rest(T) \subseteq T /\ Rest(T) # T
  BY DEF Some, Rest

\* g sums f over the sets of the family D, which has the rest of each of them.
SumsTo(f, S, D, g) ==
  /\ D \subseteq SUBSET S /\ \A T \in D : T # {} => Rest(T) \in D
  /\ g = [T \in D |-> g[T]]
  /\ \A T \in D : g[T] = SumBody(f, T, g)

\* Sums of functions that agree agree.
LEMMA SumsAgree ==
  ASSUME NEW S, IsFiniteSet(S), NEW R, NEW f, NEW e, NEW D, NEW g, SumsTo(f, S, D, g),
         NEW E, NEW h, SumsTo(e, R, E, h),
         NEW W, W \in D, W \in E, \A x \in W : f[x] = e[x]
  PROVE  g[W] = h[W]
  <1> DEFINE Bad == {T \in D \cap E : (\A x \in T : f[x] = e[x]) /\ g[T] # h[T]}
  <1>1. SUFFICES ASSUME Bad # {} PROVE FALSE
    OBVIOUS
  <1>2. Bad \in SUBSET (SUBSET S)
    BY DEF SumsTo
  <1>3. PICK T \in Bad : \A U \in Bad : U \subseteq T => U = T
    <2> HIDE DEF Bad
    <2> QED
      BY <1>1, <1>2, SmallestSet
  <1>4. T \in D /\ T \in E /\ (\A x \in T : f[x] = e[x]) /\ g[T] # h[T]
    OBVIOUS
  <1>5. T # {}
    BY <1>4 DEF SumsTo, SumBody
  <1>6. Rest(T) \in D /\ Rest(T) \in E /\ Rest(T) \notin Bad
    BY <1>3, <1>4, <1>5, SomeRest DEF SumsTo
  <1>7. g[Rest(T)] = h[Rest(T)] /\ f[Some(T)] = e[Some(T)]
    BY <1>4, <1>5, <1>6, SomeRest
  <1> QED
    BY <1>4, <1>5, <1>7 DEF SumsTo, SumBody

\* All subsets of a finite set have a sum.
LEMMA SumsExist ==
  ASSUME NEW S, IsFiniteSet(S), NEW f
  PROVE  \E g : SumsTo(f, S, SUBSET S, g)
  <1> DEFINE U == {T \in SUBSET S : \E D, g : T \in D /\ SumsTo(f, S, D, g)}
             F == [T \in U |-> CHOOSE x : \E D, g : T \in D /\ SumsTo(f, S, D, g) /\ x = g[T]]
  <1>1. ASSUME NEW D, NEW g, SumsTo(f, S, D, g) PROVE D \subseteq U /\ \A T \in D : F[T] = g[T]
    <2>1. D \subseteq U
      BY <1>1 DEF SumsTo
    <2>2. ASSUME NEW T \in D PROVE F[T] = g[T]
      <3> DEFINE x == CHOOSE x : \E E, h : T \in E /\ SumsTo(f, S, E, h) /\ x = h[T]
      <3>1. F[T] = x
        BY <2>1
      <3>2. \E E, h : T \in E /\ SumsTo(f, S, E, h) /\ g[T] = h[T]
        BY <1>1
      <3>3. \E E, h : T \in E /\ SumsTo(f, S, E, h) /\ x = h[T]
        BY <3>2
      <3> HIDE DEF x, F, U
      <3>4. x = g[T]
        BY <1>1, <3>3, SumsAgree
      <3> QED
        BY <3>1, <3>4
    <2> QED
      BY <2>1, <2>2
  <1>2. F = [T \in U |-> F[T]] /\ U \subseteq SUBSET S
    OBVIOUS
  <1>3. ASSUME NEW T \in U PROVE (T # {} => Rest(T) \in U) /\ F[T] = SumBody(f, T, F)
    <2>1. PICK D, g : T \in D /\ SumsTo(f, S, D, g)
      OBVIOUS
    <2> HIDE DEF F, U
    <2>2. (T # {} => Rest(T) \in D) /\ g[T] = SumBody(f, T, g)
      BY <2>1 DEF SumsTo
    <2>3. T # {} => Rest(T) \in U /\ F[Rest(T)] = g[Rest(T)]
      BY <1>1, <2>1, <2>2
    <2> QED
      BY <1>1, <2>1, <2>2, <2>3 DEF SumBody
  <1> HIDE DEF F
  <1>4. U = SUBSET S
    <2>1. SUFFICES ASSUME (SUBSET S) \ U # {} PROVE FALSE
      OBVIOUS
    <2>2. PICK T \in (SUBSET S) \ U : \A V \in (SUBSET S) \ U : V \subseteq T => V = T
      <3> DEFINE B == (SUBSET S) \ U
      <3>1. B \in SUBSET (SUBSET S) /\ B # {}
        BY <2>1
      <3> HIDE DEF B, U
      <3>2. \E T \in B : \A V \in B : V \subseteq T => V = T
        BY <3>1, SmallestSet
      <3> QED
        BY <3>2 DEF B
    <2> DEFINE D == U \cup {T}
               g == [V \in D |-> IF V = T THEN SumBody(f, T, F) ELSE F[V]]
    <2> HIDE DEF U
    <2>3. T # {} => Rest(T) \in U
      BY <2>2, SomeRest
    <2>4. \A V \in U : g[V] = F[V]
      BY <2>2
    <2>5. g[T] = SumBody(f, T, F) /\ g = [V \in D |-> g[V]]
      OBVIOUS
    <2>6. D \subseteq SUBSET S /\ \A V \in D : V # {} => Rest(V) \in D
      BY <1>2, <1>3, <2>2, <2>3
    <2> HIDE DEF g
    <2>7. ASSUME NEW V \in D PROVE g[V] = SumBody(f, V, g)
      <3>1. V # {} => Rest(V) \in U /\ g[Rest(V)] = F[Rest(V)]
        BY <1>3, <2>3, <2>4
      <3>2. SumBody(f, V, g) = SumBody(f, V, F)
        BY <3>1 DEF SumBody
      <3> QED
        BY <1>3, <2>4, <2>5, <3>2
    <2>8. SumsTo(f, S, D, g)
      BY <2>5, <2>6, <2>7 DEF SumsTo
    <2>9. T \in U
      BY <2>2, <2>8 DEF U
    <2> QED
      BY <2>2, <2>9
  <1> HIDE DEF U
  <1>5. SumsTo(f, S, SUBSET S, F)
    <2>1. \A T \in SUBSET S : T # {} => Rest(T) \in SUBSET S
      BY SomeRest
    <2> QED
      BY <1>2, <1>3, <1>4, <2>1 DEF SumsTo
  <1> QED
    BY <1>5

\* So SumIn is such a sum.
LEMMA SumInSums ==
  ASSUME NEW S, IsFiniteSet(S), NEW f
  PROVE  SumsTo(f, S, SUBSET S, SumIn(f, S))
  <1>1. PICK g : SumsTo(f, S, SUBSET S, g)
    BY SumsExist
  <1>2. g = [T \in SUBSET S |-> SumBody(f, T, g)]
    BY <1>1 DEF SumsTo
  <1> DEFINE r == SumIn(f, S)
  <1>3. r = [T \in SUBSET S |-> SumBody(f, T, r)]
    BY <1>2, Zenon DEF SumIn
  <1> HIDE DEF r
  <1>4. r = [T \in SUBSET S |-> r[T]] /\ \A T \in SUBSET S : r[T] = SumBody(f, T, r)
    BY <1>3
  <1>5. \A T \in SUBSET S : T # {} => Rest(T) \in SUBSET S
    BY SomeRest
  <1>6. SumsTo(f, S, SUBSET S, r)
    BY <1>4, <1>5 DEF SumsTo
  <1> QED
    BY <1>6 DEF r

\* The members may be added in any order.
LEMMA SumRemove ==
  ASSUME NEW S, IsFiniteSet(S), NEW f, \A x \in S : f[x] \in Nat, NEW g, SumsTo(f, S, SUBSET S, g),
         NEW W \in SUBSET S, NEW w
  PROVE  g[W] \in Nat /\ (w \in W => g[W] = f[w] + g[W \ {w}])
  <1>0. ASSUME NEW T \in SUBSET S, T # {}
        PROVE  /\ Rest(T) \in SUBSET S /\ g[T] = f[Some(T)] + g[Rest(T)] /\ f[Some(T)] \in Nat
               /\ Some(T) \in T /\ Rest(T) = T \ {Some(T)}
    BY <1>0, SomeRest DEF SumsTo, SumBody, Rest
  <1>1. ASSUME NEW T \in SUBSET S, g[T] \notin Nat PROVE FALSE
    <2> DEFINE B == {V \in SUBSET S : g[V] \notin Nat}
    <2>1. B \in SUBSET (SUBSET S) /\ B # {}
      BY <1>1
    <2>2. PICK V \in B : \A U \in B : U \subseteq V => U = V
      <3> HIDE DEF B
      <3> QED
        BY <2>1, SmallestSet
    <2>3. V \in SUBSET S /\ g[V] \notin Nat
      OBVIOUS
    <2>4. V # {}
      <3>1. V = {} => g[V] = 0
        BY <2>3 DEF SumsTo, SumBody
      <3> QED
        BY <2>3, <3>1
    <2>5. Rest(V) \in SUBSET S /\ Rest(V) \notin B
      BY <1>0, <2>2, <2>3, <2>4, SomeRest
    <2>6. g[Rest(V)] \in Nat
      BY <2>5
    <2>7. g[V] = f[Some(V)] + g[Rest(V)] /\ f[Some(V)] \in Nat
      BY <1>0, <2>3, <2>4
    <2> QED
      BY <2>3, <2>6, <2>7
  <1>2. ASSUME NEW T \in SUBSET S, NEW y \in T, g[T] # f[y] + g[T \ {y}] PROVE FALSE
    <2> DEFINE B == {V \in SUBSET S : \E x \in V : g[V] # f[x] + g[V \ {x}]}
    <2>1. B \in SUBSET (SUBSET S) /\ B # {}
      BY <1>2
    <2>2. PICK V \in B : \A U \in B : U \subseteq V => U = V
      <3> HIDE DEF B
      <3> QED
        BY <2>1, SmallestSet
    <2>3. PICK x \in V : g[V] # f[x] + g[V \ {x}]
      OBVIOUS
    <2> DEFINE c == Some(V)
    <2>4. /\ V \in SUBSET S /\ c \in V /\ Rest(V) = V \ {c} /\ g[V] = f[c] + g[V \ {c}]
      BY <1>0, <2>3
    <2> HIDE DEF c
    <2>5. c # x
      BY <2>3, <2>4
    <2>6. ASSUME NEW U \in SUBSET S, U \subseteq V, U # V, NEW z \in U PROVE g[U] = f[z] + g[U \ {z}]
      BY <2>2, <2>6
    <2> HIDE DEF B
    <2>7. g[V \ {c}] = f[x] + g[(V \ {c}) \ {x}]
      <3>1. V \ {c} \in SUBSET S /\ V \ {c} # V /\ x \in V \ {c} /\ V \ {c} \subseteq V
        BY <2>4, <2>5
      <3> QED
        BY <2>6, <3>1
    <2>8. g[V \ {x}] = f[c] + g[(V \ {x}) \ {c}]
      <3>1. V \ {x} \in SUBSET S /\ V \ {x} # V /\ c \in V \ {x} /\ V \ {x} \subseteq V
        BY <2>4, <2>5
      <3> QED
        BY <2>6, <3>1
    <2>9. (V \ {c}) \ {x} = (V \ {x}) \ {c}
      OBVIOUS
    <2>10. f[x] \in Nat /\ f[c] \in Nat /\ g[(V \ {x}) \ {c}] \in Nat
      <3>1. x \in S /\ c \in S /\ (V \ {x}) \ {c} \in SUBSET S
        BY <2>4
      <3> QED
        BY <1>1, <3>1
    <2>11. ASSUME NEW a, NEW b \in Nat, NEW d \in Nat, NEW e \in Nat, NEW m, NEW n,
                  a = b + m, m = d + e, n = b + e
           PROVE  a = d + n
      BY <2>11
    <2>12. g[V] = f[x] + g[V \ {x}]
      <3>1. g[V] = f[c] + g[V \ {c}] /\ g[V \ {c}] = f[x] + g[(V \ {x}) \ {c}]
        BY <2>4, <2>7, <2>9
      <3> QED
        BY <2>8, <2>10, <2>11, <3>1
    <2> QED
      BY <2>3, <2>12
  <1> QED
    BY <1>1, <1>2

\* e is f without its value at x.
LessOne(e, f, S, x) == DOMAIN e = S \ {x} /\ \A y \in S \ {x} : e[y] = f[y]

\* A total of natural numbers is one, and may be taken apart.
LEMMA TotalSplit ==
  ASSUME NEW S, IsFiniteSet(S), NEW f, DOMAIN f = S, \A x \in S : f[x] \in Nat
  PROVE  /\ Total(f) \in Nat
         /\ \A x \in S : \A e : LessOne(e, f, S, x) => Total(f) = f[x] + Total(e)
  <1> DEFINE g == SumIn(f, S)
  <1>1. SumsTo(f, S, SUBSET S, g)
    BY SumInSums
  <1>2. Total(f) = g[S]
    BY TotalIs
  <1> HIDE DEF g
  <1>3. g[S] \in Nat /\ \A x \in S : g[S] = f[x] + g[S \ {x}]
    <2>1. S \in SUBSET S
      OBVIOUS
    <2>2. g[S] \in Nat
      BY <1>1, <2>1, SumRemove
    <2>3. ASSUME NEW x \in S PROVE g[S] = f[x] + g[S \ {x}]
      BY <1>1, <2>1, SumRemove
    <2> QED
      BY <2>2, <2>3
  <1>4. ASSUME NEW x \in S, NEW e, LessOne(e, f, S, x)
        PROVE  Total(f) = f[x] + Total(e)
    <2> DEFINE R == S \ {x}
               h == SumIn(e, R)
    <2>1. IsFiniteSet(R)
      BY FS_Subset
    <2> HIDE DEF R
    <2>2. SumsTo(e, R, SUBSET R, h)
      BY <2>1, SumInSums
    <2>3. Total(e) = h[R]
      BY <1>4, TotalIs DEF R, LessOne
    <2> HIDE DEF h
    <2>4. R \in SUBSET S /\ R \in SUBSET R /\ \A y \in R : f[y] = e[y]
      BY <1>4 DEF R, LessOne
    <2>5. g[R] = h[R]
      <3> DEFINE D == SUBSET S
                 E == SUBSET R
      <3>1. SumsTo(f, S, D, g) /\ SumsTo(e, R, E, h) /\ R \in D /\ R \in E
        BY <1>1, <2>2, <2>4
      <3> HIDE DEF D, E
      <3> QED
        BY <2>4, <3>1, SumsAgree
    <2>6. g[S] = f[x] + g[R]
      BY <1>3 DEF R
    <2> QED
      BY <1>2, <2>3, <2>5, <2>6
  <1> QED
    BY <1>2, <1>3, <1>4

\* e on Z is f on S without some of its zeros.
LessZeros(e, Z, f, S) ==
  /\ IsFiniteSet(S) /\ DOMAIN f = S /\ \A x \in S : f[x] \in Nat
  /\ Z \subseteq S /\ DOMAIN e = Z /\ \A x \in Z : e[x] = f[x]
  /\ \A x \in S \ Z : f[x] = 0

\* Zeros may be left out of a total.
LEMMA TotalSame ==
  ASSUME NEW S, NEW f, NEW Z, NEW e, LessZeros(e, Z, f, S)
  PROVE  Total(e) = Total(f)
  <1>0. /\ IsFiniteSet(S) /\ DOMAIN f = S /\ \A x \in S : f[x] \in Nat
        /\ Z \subseteq S /\ DOMAIN e = Z /\ \A x \in Z : e[x] = f[x]
        /\ \A x \in S \ Z : f[x] = 0
    BY DEF LessZeros
  <1> DEFINE g == SumIn(f, S)
             h == SumIn(e, Z)
  <1>1. SumsTo(f, S, SUBSET S, g) /\ Total(f) = g[S]
    BY <1>0, SumInSums, TotalIs
  <1>2. IsFiniteSet(Z)
    BY <1>0, FS_Subset
  <1>3. SumsTo(e, Z, SUBSET Z, h) /\ Total(e) = h[Z]
    BY <1>0, <1>2, SumInSums, TotalIs
  <1> HIDE DEF g, h
  <1>4. ASSUME NEW T \in SUBSET S
        PROVE  g[T] \in Nat /\ \A x \in T : g[T] = f[x] + g[T \ {x}]
    <2>1. g[T] \in Nat
      BY <1>0, <1>1, SumRemove
    <2>2. ASSUME NEW x \in T PROVE g[T] = f[x] + g[T \ {x}]
      BY <1>0, <1>1, SumRemove
    <2> QED
      BY <2>1, <2>2
  <1>5. Z \in SUBSET S /\ Z \in SUBSET Z /\ \A x \in Z : f[x] = e[x]
    BY <1>0
  <1>6. g[Z] = h[Z]
    <2> DEFINE D == SUBSET S
               E == SUBSET Z
    <2>1. SumsTo(f, S, D, g) /\ SumsTo(e, Z, E, h) /\ Z \in D /\ Z \in E
      BY <1>0, <1>1, <1>3, <1>5
    <2> HIDE DEF D, E
    <2> QED
      BY <1>0, <1>5, <2>1, SumsAgree
  <1> DEFINE B == {T \in SUBSET S : Z \subseteq T /\ g[T] # g[Z]}
  <1>7. ASSUME B # {} PROVE FALSE
    <2>1. PICK T \in B : \A U \in B : U \subseteq T => U = T
      <3>1. B \in SUBSET (SUBSET S)
        OBVIOUS
      <3> HIDE DEF B
      <3> QED
        BY <1>0, <1>7, <3>1, SmallestSet
    <2>2. T \in SUBSET S /\ Z \subseteq T /\ g[T] # g[Z]
      OBVIOUS
    <2>3. PICK x \in T : x \notin Z
      BY <2>2
    <2>4. T \ {x} \in SUBSET S /\ Z \subseteq T \ {x} /\ T \ {x} \notin B
      BY <2>1, <2>2, <2>3
    <2>5. g[T \ {x}] = g[Z]
      BY <2>4
    <2>6. f[x] = 0 /\ g[T] = f[x] + g[T \ {x}] /\ g[Z] \in Nat
      BY <1>0, <1>4, <2>2, <2>3
    <2> HIDE DEF B
    <2>7. g[T] = g[Z]
      BY <2>5, <2>6
    <2> QED
      BY <2>2, <2>7
  <1>8. g[S] = g[Z]
    BY <1>0, <1>7
  <1> QED
    BY <1>1, <1>3, <1>6, <1>8

\* Nothing but zeros, or nothing at all, totals zero.
LEMMA TotalZero ==
  ASSUME NEW S, IsFiniteSet(S), NEW f, DOMAIN f = S, \A x \in S : f[x] = 0
  PROVE  Total(f) = 0
  <1> DEFINE e == [x \in {} |-> 0]
             h == SumIn(e, {})
  <1>1. SumsTo(e, {}, SUBSET {}, h)
    BY SumInSums, FS_EmptySet
  <1>2. Total(e) = h[{}]
    BY TotalIs
  <1> HIDE DEF h
  <1>3. h[{}] = 0
    BY <1>1 DEF SumsTo, SumBody
  <1>4. DOMAIN e = {}
    OBVIOUS
  <1> DEFINE Z == {}
  <1>5. LessZeros(e, Z, f, S)
    BY <1>4 DEF LessZeros
  <1> HIDE DEF e, Z
  <1>6. Total(e) = Total(f)
    BY <1>5, TotalSame
  <1> QED
    BY <1>2, <1>3, <1>6

-----------------------------------------------------------------------------
(* How often incRef visits a node                                          *)

ParentsIn(s, id, root) == {p \in id + 1 .. root : id \in Children(NodeIn(s, p))}

\* One level of Visits, in the slots s.
VisitBody(s, root, id, v) ==
  IF id = root THEN 1
  ELSE Total([p \in ParentsIn(s, id, root) |-> v[p] * Times(NodeIn(s, p), id)])

VisitsIn(s, root) == CHOOSE v : v = [id \in 1..root |-> VisitBody(s, root, id, v)]

\* The state's own, before and after a step.
LEMMA VisitsNow ==
  /\ \A root : Visits(root) = VisitsIn(subtrees.slots, root)
  /\ \A root : Visits(root)' = VisitsIn(subtrees'.slots, root)
  BY DEF Visits, VisitsIn, VisitBody, Parents, ParentsIn, NodeAt, NodeIn

\* Every non-empty set of positive IDs up to one has a largest.
LEMMA Largest ==
  ASSUME NEW b \in Nat, NEW S \in SUBSET (1..b), S # {}
  PROVE  \E x \in S : \A y \in S : y <= x
  <1> DEFINE R == {b - x : x \in S}
  <1>1. R \in SUBSET (0..b) /\ R # {}
    <2>1. \A x \in S : b - x \in 0..b
      OBVIOUS
    <2> QED
      BY <2>1
  <1>2. PICK r \in R : \A y \in R : r <= y
    <2> HIDE DEF R
    <2> QED
      BY <1>1, Smallest
  <1>3. PICK x \in S : r = b - x
    BY <1>2
  <1>4. ASSUME NEW y \in S PROVE y <= x
    <2>1. b - x <= b - y
      BY <1>2, <1>3
    <2>2. x \in Int /\ y \in Int
      OBVIOUS
    <2> HIDE DEF R
    <2> QED
      BY <2>1, <2>2
  <1> QED
    BY <1>4

\* How often a node is visited depends on its parents only.
LEMMA BodySame ==
  ASSUME NEW s, NEW root, NEW id, NEW f, NEW g, \A p \in id + 1 .. root : f[p] = g[p]
  PROVE  VisitBody(s, root, id, f) = VisitBody(s, root, id, g)
  <1>1. \A p \in ParentsIn(s, id, root) : f[p] = g[p]
    BY DEF ParentsIn
  <1>2. [p \in ParentsIn(s, id, root) |-> f[p] * Times(NodeIn(s, p), id)]
          = [p \in ParentsIn(s, id, root) |-> g[p] * Times(NodeIn(s, p), id)]
    BY <1>1
  <1> QED
    BY <1>2 DEF VisitBody

\* f counts the visits of the nodes from m on as the recursion asks.
VisitsFrom(s, root, m, f) ==
  /\ f = [id \in m..root |-> f[id]]
  /\ \A id \in m..root : f[id] = VisitBody(s, root, id, f)

\* Counting visits is well defined: parents are counted before their children.
LEMMA VisitsExist ==
  ASSUME NEW s, NEW root \in Nat
  PROVE  \A j \in 0..root : \E f : VisitsFrom(s, root, root + 1 - j, f)
  <1> DEFINE Bad == {j \in 0..root : ~\E f : VisitsFrom(s, root, root + 1 - j, f)}
  <1>1. SUFFICES ASSUME Bad # {} PROVE FALSE
    OBVIOUS
  <1>2. Bad \in SUBSET (0..root)
    OBVIOUS
  <1> HIDE DEF Bad
  <1>3. PICK j \in Bad : \A y \in Bad : j <= y
    BY <1>1, <1>2, Smallest
  <1>4. j # 0
    <2>1. (root + 1 - 0)..root = {}
      OBVIOUS
    <2>2. VisitsFrom(s, root, root + 1 - 0, [id \in {} |-> 0])
      BY <2>1 DEF VisitsFrom
    <2> QED
      BY <1>3, <2>2 DEF Bad
  <1> DEFINE m == root + 1 - j
  <1>5. j \in Nat /\ j - 1 \in 0..root /\ ~(j <= j - 1) /\ m \in 1..root /\ root + 1 - (j - 1) = m + 1
    BY <1>2, <1>3, <1>4
  <1>6. PICK f : VisitsFrom(s, root, m + 1, f)
    BY <1>3, <1>5 DEF Bad
  <1>7. m \in Int /\ m..root = (m + 1..root) \cup {m} /\ m \notin m + 1..root
    BY <1>5
  <1>8. ~\E g : VisitsFrom(s, root, m, g)
    BY <1>3 DEF Bad
  <1> HIDE DEF m
  <1> DEFINE g == [id \in m..root |-> IF id = m THEN VisitBody(s, root, m, f) ELSE f[id]]
  <1>9. /\ g = [id \in m..root |-> g[id]] /\ g[m] = VisitBody(s, root, m, f)
        /\ \A id \in m + 1..root : g[id] = f[id]
    BY <1>7
  <1> HIDE DEF g
  <1>10. ASSUME NEW id \in m..root PROVE g[id] = VisitBody(s, root, id, g)
    <2>1. \A p \in id + 1..root : f[p] = g[p]
      <3>1. \A p \in id + 1..root : p \in m + 1..root
        BY <1>5, <1>7
      <3> QED
        BY <1>9, <3>1
    <2>2. VisitBody(s, root, id, f) = VisitBody(s, root, id, g)
      BY <2>1, BodySame
    <2>3. g[id] = VisitBody(s, root, id, f)
      <3>1. CASE id = m
        BY <1>9, <3>1
      <3>2. CASE id # m
        BY <1>6, <1>7, <1>9, <3>2 DEF VisitsFrom
      <3> QED
        BY <3>1, <3>2
    <2> QED
      BY <2>2, <2>3
  <1>11. VisitsFrom(s, root, m, g)
    BY <1>9, <1>10 DEF VisitsFrom
  <1> QED
    BY <1>8, <1>11

\* So every node is visited as often as its own level says.
LEMMA VisitsUnfold ==
  ASSUME NEW s, NEW root \in Nat
  PROVE  \A id \in 1..root : VisitsIn(s, root)[id] = VisitBody(s, root, id, VisitsIn(s, root))
  <1>1. root \in 0..root /\ root + 1 - root = 1
    OBVIOUS
  <1>2. PICK f : VisitsFrom(s, root, 1, f)
    BY <1>1, VisitsExist
  <1>3. f = [id \in 1..root |-> VisitBody(s, root, id, f)]
    BY <1>2 DEF VisitsFrom
  <1> DEFINE v == VisitsIn(s, root)
  <1>4. v = [id \in 1..root |-> VisitBody(s, root, id, v)]
    BY <1>3, Zenon DEF VisitsIn
  <1> HIDE DEF v
  <1>5. \A id \in 1..root : v[id] = VisitBody(s, root, id, v)
    BY <1>4
  <1> QED
    BY <1>5 DEF v

\* A node lists a child a natural number of times.
LEMMA TimesNat == ASSUME NEW n \in Node, NEW c PROVE Times(n, c) \in Nat
  <1>1. CASE n.kind = "scalar"
    BY <1>1 DEF Times
  <1>2. CASE n.kind = "map"
    <2> DEFINE S == {i \in DOMAIN n.entries : n.entries[i].val = c}
    <2>1. n.entries \in Seq([key : Nat, val : Nat])
      BY <1>2 DEF Node
    <2>2. DOMAIN n.entries = 1..Len(n.entries) /\ Len(n.entries) \in Int
      BY <2>1
    <2>3. IsFiniteSet(S)
      <3>1. IsFiniteSet(DOMAIN n.entries)
        BY <2>2, FS_Interval
      <3> QED
        BY <3>1, FS_Subset
    <2> QED
      BY <1>2, <2>3, FS_CardinalityType DEF Times
  <1>3. CASE n.kind = "slice"
    <2> DEFINE S == {i \in DOMAIN n.items : n.items[i] = c}
    <2>1. n.items \in Seq(Nat)
      BY <1>3 DEF Node
    <2>2. DOMAIN n.items = 1..Len(n.items) /\ Len(n.items) \in Int
      BY <2>1
    <2>3. IsFiniteSet(S)
      <3>1. IsFiniteSet(DOMAIN n.items)
        BY <2>2, FS_Interval
      <3> QED
        BY <3>1, FS_Subset
    <2> QED
      BY <1>3, <2>3, FS_CardinalityType DEF Times
  <1> QED
    BY <1>1, <1>2, <1>3 DEF Node

\* Every slot holds a node, unknown IDs read as one, and there are few parents.
LEMMA NodesAndParents ==
  ASSUME NEW s \in Seq(Node), NEW root \in Nat, NEW id \in 1..root
  PROVE  /\ \A p : NodeIn(s, p) \in Node
         /\ IsFiniteSet(ParentsIn(s, id, root))
         /\ ParentsIn(s, id, root) \subseteq 1..root
         /\ \A p \in ParentsIn(s, id, root) : p > id
  <1>1. ZeroNode \in Node
    BY DEF ZeroNode, Node
  <1>2. \A p : NodeIn(s, p) \in Node
    BY <1>1 DEF NodeIn
  <1>3. IsFiniteSet(id + 1..root)
    BY FS_Interval
  <1>4. ParentsIn(s, id, root) \subseteq id + 1..root
    BY DEF ParentsIn
  <1>5. IsFiniteSet(ParentsIn(s, id, root))
    BY <1>3, <1>4, FS_Subset
  <1> QED
    BY <1>2, <1>4, <1>5

\* Visits are natural numbers.
LEMMA VisitsNat ==
  ASSUME NEW s \in Seq(Node), NEW root \in Nat
  PROVE  \A id \in 1..root : VisitsIn(s, root)[id] \in Nat
  <1> DEFINE v == VisitsIn(s, root)
             Bad == {id \in 1..root : v[id] \notin Nat}
  <1>1. SUFFICES ASSUME Bad # {} PROVE FALSE
    OBVIOUS
  <1>2. PICK id \in Bad : \A y \in Bad : y <= id
    <2>1. Bad \in SUBSET (1..root)
      OBVIOUS
    <2> HIDE DEF Bad
    <2> QED
      BY <1>1, <2>1, Largest
  <1>3. id \in 1..root /\ v[id] \notin Nat
    OBVIOUS
  <1>4. \A p \in 1..root : p > id => v[p] \in Nat
    BY <1>2, <1>3
  <1>5. v[id] = VisitBody(s, root, id, v)
    BY <1>3, VisitsUnfold
  <1> HIDE DEF v, Bad
  <1> DEFINE P == ParentsIn(s, id, root)
             f == [p \in P |-> v[p] * Times(NodeIn(s, p), id)]
  <1>6. /\ \A p : NodeIn(s, p) \in Node
        /\ IsFiniteSet(P) /\ P \subseteq 1..root /\ \A p \in P : p > id
    BY <1>3, NodesAndParents
  <1>7. \A p \in P : v[p] \in Nat /\ Times(NodeIn(s, p), id) \in Nat
    BY <1>4, <1>6, TimesNat
  <1>8. DOMAIN f = P /\ \A p \in P : f[p] \in Nat
    BY <1>7
  <1>9. v[id] = 1 \/ v[id] = Total(f)
    BY <1>5 DEF VisitBody
  <1> HIDE DEF f, P
  <1>10. Total(f) \in Nat
    BY <1>6, <1>8, TotalSplit
  <1> QED
    BY <1>3, <1>9, <1>10

\* M has the root and, with a node, its children (ID 0 is no node).
ClosedUnder(s, root, M) ==
  /\ M \subseteq 1..root
  /\ root \in M
  /\ \A id \in M : Children(NodeIn(s, id)) \subseteq M \cup {0}

\* Only what the root leads to is visited.
LEMMA VisitsOutside ==
  ASSUME NEW s \in Seq(Node), NEW root \in Nat, NEW M, ClosedUnder(s, root, M)
  PROVE  \A id \in (1..root) \ M : VisitsIn(s, root)[id] = 0
  <1> DEFINE v == VisitsIn(s, root)
             Bad == {id \in (1..root) \ M : v[id] # 0}
  <1>1. SUFFICES ASSUME Bad # {} PROVE FALSE
    OBVIOUS
  <1>2. PICK id \in Bad : \A y \in Bad : y <= id
    <2>1. Bad \in SUBSET (1..root)
      OBVIOUS
    <2> HIDE DEF Bad
    <2> QED
      BY <1>1, <2>1, Largest
  <1>3. id \in 1..root /\ id \notin M /\ v[id] # 0
    OBVIOUS
  <1>4. \A p \in 1..root : p > id /\ p \notin M => v[p] = 0
    BY <1>2, <1>3
  <1>5. v[id] = VisitBody(s, root, id, v)
    BY <1>3, VisitsUnfold
  <1> HIDE DEF v, Bad
  <1> DEFINE P == ParentsIn(s, id, root)
             f == [p \in P |-> v[p] * Times(NodeIn(s, p), id)]
  <1>6. /\ \A p : NodeIn(s, p) \in Node
        /\ IsFiniteSet(P) /\ P \subseteq 1..root /\ \A p \in P : p > id
    BY <1>3, NodesAndParents
  <1>7. \A p \in P : p \notin M
    <2>1. \A p \in P : id \in Children(NodeIn(s, p))
      BY DEF ParentsIn
    <2>2. \A p \in M : Children(NodeIn(s, p)) \subseteq M \cup {0}
      BY DEF ClosedUnder
    <2>3. id \notin M \cup {0}
      BY <1>3
    <2> QED
      BY <2>1, <2>2, <2>3
  <1>8. DOMAIN f = P /\ \A p \in P : f[p] = 0
    <2>1. \A p \in P : v[p] = 0 /\ Times(NodeIn(s, p), id) \in Nat
      BY <1>4, <1>6, <1>7, TimesNat
    <2>2. \A x \in Nat : 0 * x = 0
      OBVIOUS
    <2> QED
      BY <2>1, <2>2
  <1>9. v[id] = Total(f)
    BY <1>3, <1>5 DEF VisitBody, ClosedUnder
  <1> HIDE DEF f, P
  <1>10. Total(f) = 0
    BY <1>6, <1>8, TotalZero
  <1> QED
    BY <1>3, <1>9, <1>10

\* Slots that agree on a set closed under children visit the same.
LEMMA VisitsAgree ==
  ASSUME NEW s \in Seq(Node), NEW u \in Seq(Node), NEW root \in Nat, NEW M, ClosedUnder(s, root, M),
         \A id \in M : NodeIn(u, id) = NodeIn(s, id)
  PROVE  \A id \in 1..root : VisitsIn(u, root)[id] = VisitsIn(s, root)[id]
  <1> DEFINE v == VisitsIn(s, root)
             w == VisitsIn(u, root)
             Bad == {id \in 1..root : w[id] # v[id]}
  <1>1. SUFFICES ASSUME Bad # {} PROVE FALSE
    OBVIOUS
  <1>2. PICK id \in Bad : \A y \in Bad : y <= id
    <2>1. Bad \in SUBSET (1..root)
      OBVIOUS
    <2> HIDE DEF Bad
    <2> QED
      BY <1>1, <2>1, Largest
  <1>3. id \in 1..root /\ w[id] # v[id]
    OBVIOUS
  <1>4. \A p \in 1..root : p > id => w[p] = v[p]
    BY <1>2, <1>3
  <1>5. v[id] = VisitBody(s, root, id, v) /\ w[id] = VisitBody(u, root, id, w)
    BY <1>3, VisitsUnfold
  <1>6. \A p \in 1..root : v[p] \in Nat
    BY VisitsNat
  <1>7. \A p \in (1..root) \ M : v[p] = 0
    BY VisitsOutside
  <1> HIDE DEF v, w, Bad
  <1> DEFINE P == ParentsIn(s, id, root)
             Q == ParentsIn(u, id, root)
             f == [p \in P |-> v[p] * Times(NodeIn(s, p), id)]
             g == [p \in Q |-> w[p] * Times(NodeIn(u, p), id)]
             Z == P \cap M
             e == [p \in Z |-> f[p]]
  <1>8. /\ \A p : NodeIn(s, p) \in Node /\ NodeIn(u, p) \in Node
        /\ IsFiniteSet(P) /\ P \subseteq 1..root /\ \A p \in P : p > id
        /\ IsFiniteSet(Q) /\ Q \subseteq 1..root /\ \A p \in Q : p > id
    BY <1>3, NodesAndParents
  <1>9. Z = Q \cap M
    BY DEF ParentsIn
  <1>10. \A p \in P : v[p] \in Nat /\ Times(NodeIn(s, p), id) \in Nat /\ (p \notin M => v[p] = 0)
    BY <1>6, <1>7, <1>8, TimesNat
  <1>11. \A p \in Q : w[p] = v[p] /\ v[p] \in Nat /\ Times(NodeIn(u, p), id) \in Nat /\ (p \notin M => v[p] = 0)
    BY <1>4, <1>6, <1>7, <1>8, TimesNat
  <1>12. \A x, y \in Nat : x * y \in Nat /\ 0 * y = 0
    OBVIOUS
  <1>13. LessZeros(e, Z, f, P)
    <2>1. DOMAIN f = P /\ \A p \in P : f[p] \in Nat
      BY <1>10, <1>12
    <2>2. \A p \in P \ Z : f[p] = 0
      BY <1>10, <1>12
    <2>3. Z \subseteq P /\ DOMAIN e = Z /\ \A p \in Z : e[p] = f[p]
      OBVIOUS
    <2> HIDE DEF f, e, P, Z
    <2> QED
      BY <1>8, <2>1, <2>2, <2>3 DEF LessZeros
  <1>14. LessZeros(e, Z, g, Q)
    <2>1. DOMAIN g = Q /\ \A p \in Q : g[p] \in Nat
      BY <1>11, <1>12
    <2>2. \A p \in Q \ Z : g[p] = 0
      BY <1>9, <1>11, <1>12
    <2>3. Z \subseteq Q /\ DOMAIN e = Z /\ \A p \in Z : e[p] = g[p]
      BY <1>9, <1>11
    <2> HIDE DEF g, e, Q, Z
    <2> QED
      BY <1>8, <2>1, <2>2, <2>3 DEF LessZeros
  <1>15. (v[id] = 1 /\ w[id] = 1) \/ (v[id] = Total(f) /\ w[id] = Total(g))
    BY <1>5 DEF VisitBody
  <1> HIDE DEF f, g, e, P, Q, Z
  <1>16. Total(e) = Total(f) /\ Total(e) = Total(g)
    BY <1>13, <1>14, TotalSame
  <1> QED
    BY <1>3, <1>15, <1>16

-----------------------------------------------------------------------------
(* Reference counts                                                        *)

CountOf(refs, id) == IF id \in DOMAIN refs THEN refs[id] ELSE 0
Share(s, root, id) == IF id \in 1..root THEN VisitsIn(s, root)[id] ELSE 0
StoredIn(o) == {k \in Keys : o[k] # 0}

\* PathsTo, in the slots s and for the objects o.
PathsIn(s, o, id) == Total([k \in StoredIn(o) |-> Share(s, o[k], id)])

\* What RefcountsArePaths says of the slots s, the objects o and the counts refs.
Counted(s, o, refs) == \A id \in DOMAIN s : CountOf(refs, id) = PathsIn(s, o, id)

\* The state's own, before and after a step.
LEMMA CountsNow ==
  /\ \A id : PathsTo(id) = PathsIn(subtrees.slots, objects, id)
  /\ \A id : PathsTo(id)' = PathsIn(subtrees'.slots, objects', id)
  /\ Stored = StoredIn(objects) /\ Stored' = StoredIn(objects')
  /\ RefcountsArePaths <=> /\ Counted(subtrees.slots, objects, refcounts)
                           /\ mu = "gc" => \A id \in DOMAIN refcounts : refcounts[id] # 0
  /\ RefcountsArePaths' <=> /\ Counted(subtrees'.slots, objects', refcounts')
                            /\ mu' = "gc" => \A id \in DOMAIN refcounts' : refcounts'[id] # 0
  <1>1. /\ \A root : Visits(root) = VisitsIn(subtrees.slots, root)
        /\ \A root : Visits(root)' = VisitsIn(subtrees'.slots, root)
    BY VisitsNow
  <1>2. Stored = StoredIn(objects) /\ Stored' = StoredIn(objects')
    BY DEF Stored, StoredIn
  <1>3. \A id : PathsTo(id) = PathsIn(subtrees.slots, objects, id)
    <2>1. ASSUME NEW id PROVE PathsTo(id) = PathsIn(subtrees.slots, objects, id)
      <3>1. \A k \in Stored : (IF id \in 1..objects[k] THEN Visits(objects[k])[id] ELSE 0)
                                = Share(subtrees.slots, objects[k], id)
        BY <1>1 DEF Share
      <3> QED
        BY <1>2, <3>1 DEF PathsTo, PathsIn
    <2> QED
      BY <2>1
  <1>4. \A id : PathsTo(id)' = PathsIn(subtrees'.slots, objects', id)
    <2>1. ASSUME NEW CONSTANT id PROVE PathsTo(id)' = PathsIn(subtrees'.slots, objects', id)
      <3>1. \A k \in Stored' : (IF id \in 1..objects'[k] THEN Visits(objects[k])'[id] ELSE 0)
                                = Share(subtrees'.slots, objects'[k], id)
        BY <1>1 DEF Share
      <3> QED
        BY <1>2, <3>1 DEF PathsTo, PathsIn
    <2> QED
      BY <2>1
  <1> QED
    BY <1>2, <1>3, <1>4 DEF RefcountsArePaths, Counted, CountOf

\* A share is a natural number.
LEMMA ShareNat ==
  ASSUME NEW s \in Seq(Node), NEW root \in Nat
  PROVE  \A id : Share(s, root, id) \in Nat
  BY VisitsNat DEF Share

Without(o, k) == [o EXCEPT ![k] = 0]

\* The paths to a node are those from one stored object, and those without it.
LEMMA PathsSplit ==
  ASSUME NEW s \in Seq(Node), NEW o \in [Keys -> Nat], IsFiniteSet(StoredIn(o)), NEW id, NEW i
  PROVE  /\ PathsIn(s, o, id) \in Nat
         /\ i \in StoredIn(o) =>
              PathsIn(s, o, id) = Share(s, o[i], id) + PathsIn(s, Without(o, i), id)
  <1> DEFINE S == StoredIn(o)
             f == [k \in S |-> Share(s, o[k], id)]
  <1>1. PathsIn(s, o, id) = Total(f)
    BY DEF PathsIn
  <1>2. DOMAIN f = S /\ (\A k \in S : f[k] = Share(s, o[k], id)) /\ \A k \in S : f[k] \in Nat
    BY ShareNat DEF StoredIn
  <1> HIDE DEF f
  <1>3. ASSUME NEW k \in S
        PROVE  Total(f) = Share(s, o[k], id) + PathsIn(s, Without(o, k), id)
    <2> DEFINE u == Without(o, k)
               e == [j \in StoredIn(u) |-> Share(s, u[j], id)]
    <2>1. k \in Keys /\ StoredIn(u) = S \ {k} /\ \A j \in S \ {k} : u[j] = o[j]
      BY DEF StoredIn, Without
    <2>2. LessOne(e, f, S, k)
      BY <1>2, <2>1 DEF LessOne
    <2>3. PathsIn(s, u, id) = Total(e)
      BY DEF PathsIn
    <2> HIDE DEF u, e, S
    <2>4. IsFiniteSet(S)
      BY DEF S
    <2>5. Total(f) = f[k] + Total(e)
      BY <1>2, <2>2, <2>4, TotalSplit
    <2> QED
      BY <1>2, <2>3, <2>5 DEF u
  <1>4. Total(f) \in Nat
    <2> HIDE DEF S
    <2>1. IsFiniteSet(S)
      BY DEF S
    <2> QED
      BY <1>2, <2>1, TotalSplit
  <1> QED
    BY <1>1, <1>3, <1>4

\* Setting the root of a key replaces its share.
LEMMA PathsSet ==
  ASSUME NEW s \in Seq(Node), NEW o \in [Keys -> Nat], IsFiniteSet(StoredIn(o)), NEW id,
         NEW k \in Keys, NEW r \in Nat
  PROVE  LET u == [o EXCEPT ![k] = r]
             old == IF o[k] = 0 THEN 0 ELSE Share(s, o[k], id)
             new == IF r = 0 THEN 0 ELSE Share(s, r, id)
         IN  /\ IsFiniteSet(StoredIn(u))
             /\ PathsIn(s, o, id) \in Nat /\ PathsIn(s, u, id) \in Nat /\ old \in Nat /\ new \in Nat
             /\ PathsIn(s, o, id) >= old
             /\ PathsIn(s, u, id) = (PathsIn(s, o, id) - old) + new
  <1> DEFINE u == [o EXCEPT ![k] = r]
             z == Without(o, k)
             old == IF o[k] = 0 THEN 0 ELSE Share(s, o[k], id)
             new == IF r = 0 THEN 0 ELSE Share(s, r, id)
  <1>1. /\ u \in [Keys -> Nat] /\ z \in [Keys -> Nat] /\ u[k] = r
        /\ Without(u, k) = z
        /\ StoredIn(u) \subseteq StoredIn(o) \cup {k}
        /\ StoredIn(z) \subseteq StoredIn(o)
        /\ (o[k] = 0 => z = o) /\ (r = 0 => z = u)
        /\ (o[k] # 0 => k \in StoredIn(o)) /\ (r # 0 => k \in StoredIn(u))
    BY DEF StoredIn, Without
  <1>2. IsFiniteSet(StoredIn(u)) /\ IsFiniteSet(StoredIn(z))
    <2>1. IsFiniteSet(StoredIn(o) \cup {k})
      BY FS_AddElement
    <2> HIDE DEF u, z
    <2> QED
      BY <1>1, <2>1, FS_Subset
  <1>3. old \in Nat /\ new \in Nat
    BY ShareNat
  <1> HIDE DEF u
  <1>4. PathsIn(s, o, id) \in Nat /\ PathsIn(s, o, id) = old + PathsIn(s, z, id)
    <2>1. PathsIn(s, o, id) \in Nat
      BY PathsSplit
    <2>2. ASSUME o[k] # 0 PROVE PathsIn(s, o, id) = Share(s, o[k], id) + PathsIn(s, z, id)
      <3>1. k \in StoredIn(o)
        BY <1>1, <2>2
      <3> QED
        BY <3>1, PathsSplit
    <2> HIDE DEF z
    <2> QED
      BY <1>1, <2>1, <2>2
  <1> HIDE DEF z
  <1>5. PathsIn(s, z, id) \in Nat
    BY <1>1, <1>2, PathsSplit
  <1>6. PathsIn(s, u, id) \in Nat /\ PathsIn(s, u, id) = new + PathsIn(s, z, id)
    <2>1. PathsIn(s, u, id) \in Nat
      BY <1>1, <1>2, PathsSplit
    <2>2. ASSUME r # 0 PROVE PathsIn(s, u, id) = Share(s, r, id) + PathsIn(s, z, id)
      <3>1. k \in StoredIn(u)
        BY <1>1, <2>2
      <3>2. PathsIn(s, u, id) = Share(s, u[k], id) + PathsIn(s, Without(u, k), id)
        BY <1>1, <1>2, <3>1, PathsSplit
      <3> QED
        BY <1>1, <3>2
    <2> QED
      BY <1>1, <1>5, <2>1, <2>2
  <1> HIDE DEF old, new
  <1>7. PathsIn(s, o, id) >= old /\ PathsIn(s, u, id) = (PathsIn(s, o, id) - old) + new
    BY <1>3, <1>4, <1>5, <1>6
  <1> QED
    BY <1>2, <1>3, <1>4, <1>6, <1>7 DEF u, old, new

\* Counts stay right when the slots change elsewhere than below stored objects.
LEMMA SlotsChange ==
  ASSUME NEW s \in Seq(Node), NEW u \in Seq(Node), Len(s) <= Len(u),
         NEW o \in [Keys -> 0..Len(s)], IsFiniteSet(StoredIn(o)),
         NEW refs, DOMAIN refs \subseteq DOMAIN s, Counted(s, o, refs),
         \A k \in StoredIn(o) : \E M : /\ ClosedUnder(s, o[k], M)
                                     /\ \A id \in M : NodeIn(u, id) = NodeIn(s, id)
  PROVE  Counted(u, o, refs)
  <1>1. ASSUME NEW k \in StoredIn(o), NEW id PROVE Share(u, o[k], id) = Share(s, o[k], id)
    <2>1. o[k] \in Nat
      BY DEF StoredIn
    <2>2. PICK M : ClosedUnder(s, o[k], M) /\ \A i \in M : NodeIn(u, i) = NodeIn(s, i)
      OBVIOUS
    <2>3. \A i \in 1..o[k] : VisitsIn(u, o[k])[i] = VisitsIn(s, o[k])[i]
      BY <2>1, <2>2, VisitsAgree
    <2> QED
      BY <2>3 DEF Share
  <1>2. ASSUME NEW id PROVE PathsIn(u, o, id) = PathsIn(s, o, id)
    <2>1. [k \in StoredIn(o) |-> Share(u, o[k], id)] = [k \in StoredIn(o) |-> Share(s, o[k], id)]
      BY <1>1
    <2> QED
      BY <2>1 DEF PathsIn
  <1>3. ASSUME NEW id \in DOMAIN u, id \notin DOMAIN s PROVE CountOf(refs, id) = PathsIn(s, o, id)
    <2> DEFINE f == [k \in StoredIn(o) |-> Share(s, o[k], id)]
    <2>1. DOMAIN f = StoredIn(o)
      OBVIOUS
    <2>2. \A k \in StoredIn(o) : f[k] = 0
      <3>1. id > Len(s) /\ id \in Nat /\ Len(s) \in Nat
        BY <1>3
      <3>2. \A k \in StoredIn(o) : id \notin 1..o[k]
        BY <3>1 DEF StoredIn
      <3> QED
        BY <3>2 DEF Share
    <2>3. PathsIn(s, o, id) = Total(f)
      BY DEF PathsIn
    <2> HIDE DEF f
    <2>4. Total(f) = 0
      BY <2>1, <2>2, TotalZero
    <2>5. CountOf(refs, id) = 0
      BY <1>3 DEF CountOf
    <2> QED
      BY <2>3, <2>4, <2>5
  <1> QED
    BY <1>2, <1>3 DEF Counted

\* decRef takes as many references as it makes visits, but stops at zero.
LEMMA DecRefCounts ==
  ASSUME subtrees.slots \in Seq(Node), NEW root \in Nat,
         NEW refs, \A id \in DOMAIN refs : refs[id] \in Nat, NEW id
  PROVE  LET c == CountOf(refs, id)
             n == Share(subtrees.slots, root, id)
         IN  CountOf(DecRef(refs, root), id) = IF c > n THEN c - n ELSE 0
  <1> DEFINE n == Visits(root)
             d == [i \in DOMAIN refs |-> IF i \notin 1..root THEN refs[i]
                                          ELSE IF refs[i] > n[i] THEN refs[i] - n[i] ELSE 0]
  <1>1. DecRef(refs, root) = d
    BY DEF DecRef
  <1>2. n = VisitsIn(subtrees.slots, root) /\ Share(subtrees.slots, root, id) \in Nat
    BY VisitsNow, ShareNat
  <1> HIDE DEF n
  <1>3. DOMAIN d = DOMAIN refs
    OBVIOUS
  <1>4. CASE id \notin DOMAIN refs
    BY <1>1, <1>2, <1>3, <1>4 DEF CountOf
  <1>5. CASE id \in DOMAIN refs /\ id \notin 1..root
    BY <1>1, <1>2, <1>3, <1>5 DEF CountOf, Share
  <1>6. CASE id \in DOMAIN refs /\ id \in 1..root
    BY <1>1, <1>2, <1>3, <1>6 DEF CountOf, Share
  <1> QED
    BY <1>4, <1>5, <1>6

\* incRef adds one reference for each visit, modulo the width of a count.
LEMMA IncRefCounts ==
  ASSUME subtrees.slots \in Seq(Node), NEW root \in Nat,
         NEW refs, \A id \in DOMAIN refs : refs[id] \in Nat, NEW id
  PROVE  CountOf(IncRef(refs, root), id)
           = (CountOf(refs, id) + Share(subtrees.slots, root, id)) % RefMod
  <1> DEFINE n == Visits(root)
             d == [i \in DOMAIN refs \cup {j \in 1..root : n[j] > 0} |->
                     ((IF i \in DOMAIN refs THEN refs[i] ELSE 0)
                        + (IF i \in 1..root THEN n[i] ELSE 0)) % RefMod]
  <1>1. IncRef(refs, root) = d
    BY DEF IncRef
  <1>2. n = VisitsIn(subtrees.slots, root) /\ Share(subtrees.slots, root, id) \in Nat
    BY VisitsNow, ShareNat
  <1> HIDE DEF n
  <1>3. DOMAIN d = DOMAIN refs \cup {j \in 1..root : n[j] > 0}
    OBVIOUS
  <1>4. CASE id \in DOMAIN d
    BY <1>1, <1>2, <1>4 DEF CountOf, Share
  <1>5. CASE id \notin DOMAIN d
    <2>1. CountOf(refs, id) = 0 /\ Share(subtrees.slots, root, id) = 0
      BY <1>2, <1>3, <1>5 DEF CountOf, Share
    <2>2. CountOf(d, id) = 0
      BY <1>5 DEF CountOf
    <2>3. (0 + 0) % RefMod = 0
      BY RefModAssumption
    <2> HIDE DEF d
    <2> QED
      BY <1>1, <2>1, <2>2, <2>3
  <1> QED
    BY <1>4, <1>5

\* A count below the modulus does not wrap.
LEMMA ModSmall == \A x \in Nat : x < RefMod => x % RefMod = x
  BY RefModAssumption

\* No node is reached by RefMod paths or more: uint32 does not wrap.
NoOverflow == \A id \in DOMAIN subtrees.slots : PathsTo(id) < RefMod

\* RefcountsArePaths rests on what is stored being readable and finite.
CountInv == StoreInv /\ IsFiniteSet(Stored) /\ RefcountsArePaths

\* What the proofs use of it.
LEMMA CountFacts ==
  ASSUME CountInv
  PROVE  /\ subtrees.slots \in Seq(Node) /\ Len(subtrees.slots) \in Nat
         /\ DOMAIN subtrees.slots = 1..Len(subtrees.slots)
         /\ objects \in [Keys -> 0..Len(subtrees.slots)] /\ objects \in [Keys -> Nat]
         /\ IsFiniteSet(StoredIn(objects))
         /\ DOMAIN refcounts \subseteq DOMAIN subtrees.slots
         /\ Counted(subtrees.slots, objects, refcounts)
         /\ \A id \in DOMAIN refcounts : refcounts[id] \in Nat
  <1>1. /\ subtrees.slots \in Seq(Node) /\ Len(subtrees.slots) \in Nat
        /\ DOMAIN subtrees.slots = 1..Len(subtrees.slots)
        /\ objects \in [Keys -> 0..Len(subtrees.slots)]
        /\ DOMAIN refcounts \subseteq DOMAIN subtrees.slots
    BY LivePositions DEF CountInv, StoreInv, IndInv, TypeOK
  <1>2. objects \in [Keys -> Nat]
    BY <1>1
  <1>3. IsFiniteSet(StoredIn(objects)) /\ Counted(subtrees.slots, objects, refcounts)
    BY CountsNow DEF CountInv
  <1>4. ASSUME NEW id \in DOMAIN refcounts PROVE refcounts[id] \in Nat
    <2>1. refcounts[id] = PathsIn(subtrees.slots, objects, id)
      BY <1>1, <1>3 DEF Counted, CountOf
    <2> QED
      BY <1>1, <1>2, <1>3, <2>1, PathsSplit
  <1> QED
    BY <1>1, <1>2, <1>3, <1>4

\* A step that leaves the objects and the counts alone, and every stored
\* object's nodes, keeps the invariant.
LEMMA SlotsChangeKeeps ==
  ASSUME CountInv, StoreInv', UNCHANGED <<objects, refcounts>>,
         Len(subtrees.slots) <= Len(subtrees'.slots), mu' = "gc" => mu = "gc",
         \A k \in StoredIn(objects) :
           \E M : /\ ClosedUnder(subtrees.slots, objects[k], M)
                  /\ \A id \in M : NodeIn(subtrees'.slots, id) = NodeIn(subtrees.slots, id)
  PROVE  CountInv'
  <1>1. subtrees'.slots \in Seq(Node)
    BY DEF StoreInv, Readable
  <1>2. Counted(subtrees'.slots, objects, refcounts)
    BY <1>1, CountFacts, SlotsChange
  <1>3. RefcountsArePaths'
    BY <1>2, CountsNow DEF CountInv
  <1>4. Stored' = Stored
    BY DEF Stored
  <1> QED
    BY <1>3, <1>4 DEF CountInv

\* An Upsert's interning only appends nodes.
LEMMA AppendKeeps ==
  ASSUME CountInv, StoreInv', UNCHANGED <<objects, refcounts>>, mu' = "gc" => mu = "gc",
         subtrees' = subtrees \/ \E n : subtrees' = Intern(subtrees, n)
  PROVE  CountInv'
  <1> DEFINE s == subtrees.slots
             u == subtrees'.slots
  <1>1. /\ s \in Seq(Node) /\ Len(s) \in Nat /\ DOMAIN s = 1..Len(s)
        /\ objects \in [Keys -> 0..Len(s)]
    BY CountFacts
  <1>2. u \in Seq(Node)
    BY DEF StoreInv, Readable
  <1>3. u = s \/ \E n : u = Append(s, n)
    <2>1. ASSUME NEW n, subtrees' = Intern(subtrees, n) PROVE u = s \/ u = Append(s, n)
      <3>1. CASE Has(subtrees, n)
        BY <2>1, <3>1 DEF Intern
      <3>2. CASE ~Has(subtrees, n)
        BY <2>1, <3>2 DEF Intern
      <3> QED
        BY <3>1, <3>2
    <2> QED
      BY <2>1
  <1>4. Len(s) <= Len(u) /\ DOMAIN s \subseteq DOMAIN u /\ \A id \in DOMAIN s : u[id] = s[id]
    BY <1>1, <1>2, <1>3
  <1>5. ASSUME NEW k \in StoredIn(objects)
        PROVE  \E M : /\ ClosedUnder(s, objects[k], M)
                      /\ \A id \in M : NodeIn(u, id) = NodeIn(s, id)
    <2> DEFINE r == objects[k]
    <2>1. r \in 1..Len(s)
      BY <1>1 DEF StoredIn
    <2> HIDE DEF r
    <2>2. \A id \in 1..r : NodeIn(u, id) = NodeIn(s, id)
      BY <1>1, <1>4, <2>1 DEF NodeIn
    <2>3. \A id \in 1..r : Children(NodeIn(s, id)) \subseteq (1..r) \cup {0}
      <3> SUFFICES ASSUME NEW id \in 1..r PROVE Children(NodeIn(s, id)) \subseteq (1..r) \cup {0}
        OBVIOUS
      <3>1. Children(NodeIn(s, id)) \subseteq 0..id - 1
        <4>1. id \in 0..Len(s)
          BY <1>1, <2>1
        <4> QED
          BY <4>1, NodesReadable DEF CountInv, StoreInv
      <3>2. 0..id - 1 \subseteq (1..r) \cup {0}
        BY <2>1
      <3> QED
        BY <3>1, <3>2
    <2>4. ClosedUnder(s, r, 1..r)
      BY <2>1, <2>3 DEF ClosedUnder
    <2> QED
      BY <2>2, <2>4 DEF r
  <1> QED
    BY <1>4, <1>5, SlotsChangeKeeps

\* The sweep of a GC leaves the nodes of stored objects alone.
LEMMA SweepCounts == ASSUME CountInv, StoreInv', GCSweep PROVE CountInv'
  <1> DEFINE s == subtrees.slots
             u == subtrees'.slots
  <1>1. /\ s \in Seq(Node) /\ Len(s) \in Nat /\ DOMAIN s = 1..Len(s)
        /\ objects \in [Keys -> 0..Len(s)]
    BY CountFacts
  <1>2. /\ mu = "gc" /\ mu' = "free" /\ Reached = marked /\ UNCHANGED <<objects, refcounts>>
        /\ subtrees' = Sweep(subtrees, marked, ZeroNode)
    BY DEF GCSweep, Release
  <1>3. u = [i \in DOMAIN s |-> IF i \in subtrees.live \ marked THEN ZeroNode ELSE s[i]]
    BY <1>2 DEF Sweep
  <1>4. u \in Seq(Node)
    BY DEF StoreInv, Readable
  <1>5. Len(u) = Len(s) /\ DOMAIN u = DOMAIN s /\ \A id \in marked \cap DOMAIN s : u[id] = s[id]
    <2> HIDE DEF s
    <2>1. DOMAIN u = DOMAIN s /\ \A id \in marked \cap DOMAIN s : u[id] = s[id]
      BY <1>3
    <2> HIDE DEF u
    <2> QED
      BY <1>1, <1>4, <2>1
  <1>6. /\ marked \subseteq DOMAIN s /\ Roots \subseteq marked
        /\ \A id \in marked : Children(NodeIn(s, id)) \subseteq marked
    <2>1. marked \subseteq DOMAIN s /\ Roots \subseteq marked
      BY <1>2 DEF CountInv, StoreInv, IndInv, RootsLive, TypeOK
    <2>2. \A id \in marked : Children(NodeAt(id)) \subseteq marked
      BY <1>2 DEF Reached
    <2> QED
      BY <2>1, <2>2, NodeNow
  <1>7. ASSUME NEW k \in StoredIn(objects)
        PROVE  \E M : /\ ClosedUnder(s, objects[k], M)
                      /\ \A id \in M : NodeIn(u, id) = NodeIn(s, id)
    <2> DEFINE r == objects[k]
               M == marked \cap (1..r)
    <2>1. r \in 1..Len(s) /\ r \in marked
      BY <1>1, <1>6 DEF StoredIn, Roots
    <2> HIDE DEF r
    <2>2. \A id \in M : NodeIn(u, id) = NodeIn(s, id)
      BY <1>5, <1>6 DEF NodeIn
    <2>3. ASSUME NEW id \in M PROVE Children(NodeIn(s, id)) \subseteq M
      <3>1. Children(NodeIn(s, id)) \subseteq 0..id - 1
        BY <1>6 DEF CountInv, StoreInv, Readable, NodeIn
      <3>2. Children(NodeIn(s, id)) \subseteq marked /\ marked \subseteq 1..Len(s)
        BY <1>1, <1>6
      <3>3. (0..id - 1) \cap (1..Len(s)) \subseteq 1..r
        BY <2>1
      <3> QED
        BY <3>1, <3>2, <3>3
    <2>4. ClosedUnder(s, r, M)
      BY <2>1, <2>3 DEF ClosedUnder
    <2> HIDE DEF M
    <2> QED
      BY <2>2, <2>4 DEF r
  <1>8. Len(s) <= Len(u)
    BY <1>1, <1>5
  <1> QED
    BY <1>2, <1>7, <1>8, SlotsChangeKeeps

\* Setting one root, with the counts that the old one gives back and the new one
\* takes, keeps the invariant.
LEMMA RootChangeKeeps ==
  ASSUME CountInv, StoreInv', NoOverflow', UNCHANGED subtrees, mu' # "gc",
         NEW k \in Keys, NEW r \in Nat, objects' = [objects EXCEPT ![k] = r],
         \A id :
           LET old == IF objects[k] = 0 THEN 0 ELSE Share(subtrees.slots, objects[k], id)
               new == IF r = 0 THEN 0 ELSE Share(subtrees.slots, r, id)
               c == CountOf(refcounts, id)
               sum == (IF c > old THEN c - old ELSE 0) + new
           IN  CountOf(refcounts', id) \in {sum, sum % RefMod}
  PROVE  CountInv'
  <1> DEFINE s == subtrees.slots
  <1>1. /\ s \in Seq(Node) /\ objects \in [Keys -> Nat]
        /\ IsFiniteSet(StoredIn(objects)) /\ Counted(s, objects, refcounts)
    BY CountFacts
  <1>2. IsFiniteSet(StoredIn(objects'))
    BY <1>1, PathsSet
  <1>3. ASSUME NEW CONSTANT id \in DOMAIN s PROVE CountOf(refcounts', id) = PathsIn(s, objects', id)
    <2> DEFINE old == IF objects[k] = 0 THEN 0 ELSE Share(s, objects[k], id)
               new == IF r = 0 THEN 0 ELSE Share(s, r, id)
               c == CountOf(refcounts, id)
               sum == (IF c > old THEN c - old ELSE 0) + new
               p == PathsIn(s, objects', id)
    <2>1. /\ c = PathsIn(s, objects, id) /\ c \in Nat /\ p \in Nat /\ old \in Nat /\ new \in Nat
          /\ c >= old /\ p = (c - old) + new
      <3>1. c = PathsIn(s, objects, id)
        BY <1>1 DEF Counted
      <3>2. /\ PathsIn(s, objects, id) \in Nat /\ p \in Nat /\ old \in Nat /\ new \in Nat
            /\ PathsIn(s, objects, id) >= old /\ p = (PathsIn(s, objects, id) - old) + new
        BY <1>1, PathsSet
      <3> QED
        BY <3>1, <3>2
    <2>2. CountOf(refcounts', id) \in {sum, sum % RefMod}
      OBVIOUS
    <2>3. p < RefMod
      BY CountsNow DEF NoOverflow
    <2> HIDE DEF old, new, c, p
    <2>4. sum = p
      BY <2>1
    <2> HIDE DEF sum
    <2>5. p % RefMod = p
      BY <2>1, <2>3, ModSmall
    <2> QED
      BY <2>2, <2>4, <2>5 DEF p
  <1>4. RefcountsArePaths'
    BY <1>3, CountsNow DEF Counted
  <1>5. IsFiniteSet(Stored')
    BY <1>2, CountsNow
  <1> QED
    BY <1>4, <1>5 DEF CountInv

\* An Upsert gives back the references of the object it replaces and takes its own.
LEMMA CommitCounts == ASSUME CountInv, StoreInv', NoOverflow', UpsertCommit PROVE CountInv'
  <1> DEFINE k == call.key
             q == objects[k]
             r == memo[call.obj]
             s == subtrees.slots
             refs == IF q = 0 THEN refcounts ELSE DecRef(refcounts, q)
  <1>1. /\ mu = "upsert" /\ mu' = "free" /\ call.obj \in DOMAIN memo /\ UNCHANGED subtrees
        /\ objects' = [objects EXCEPT ![k] = r]
        /\ refcounts' = IncRef(refs, r)
    BY DEF UpsertCommit, Release
  <1>2. /\ s \in Seq(Node) /\ Len(s) \in Nat /\ DOMAIN s = 1..Len(s) /\ objects \in [Keys -> Nat]
        /\ \A id \in DOMAIN refcounts : refcounts[id] \in Nat
    BY CountFacts
  <1>3. k \in Keys /\ r \in Nat /\ r # 0 /\ q \in Nat
    <2>1. k \in Keys
      BY <1>1 DEF CountInv, StoreInv, IndInv, TypeOK
    <2>2. r \in DOMAIN s
      BY <1>1 DEF CountInv, StoreInv, IndInv, RootsLive, WellFormed
    <2> QED
      BY <1>2, <2>1, <2>2
  <1> HIDE DEF k, r, q, s
  <1>4. ASSUME NEW id
        PROVE  CountOf(refs, id) =
                 LET old == IF q = 0 THEN 0 ELSE Share(s, q, id)
                     c == CountOf(refcounts, id)
                 IN  IF c > old THEN c - old ELSE 0
    <2>1. CASE q = 0
      BY <1>2, <2>1 DEF CountOf
    <2>2. CASE q # 0
      BY <1>2, <1>3, <2>2, DecRefCounts DEF s
    <2> QED
      BY <2>1, <2>2
  <1>5. \A id \in DOMAIN refs : refs[id] \in Nat
    <2>1. ASSUME NEW id \in DOMAIN refs PROVE refs[id] \in Nat
      <3>1. CountOf(refcounts, id) \in Nat /\ Share(s, q, id) \in Nat
        BY <1>2, <1>3, ShareNat DEF CountOf
      <3>2. refs[id] = CountOf(refs, id)
        BY <2>1 DEF CountOf
      <3> HIDE DEF refs
      <3> QED
        BY <1>4, <3>1, <3>2
    <2> QED
      BY <2>1
  <1> HIDE DEF refs
  <1>6. \A id : CountOf(refcounts', id) = (CountOf(refs, id) + Share(s, r, id)) % RefMod
    BY <1>1, <1>2, <1>3, <1>5, IncRefCounts DEF s
  <1> QED
    BY <1>1, <1>3, <1>4, <1>6, RootChangeKeeps DEF k, q, s

\* A Delete gives back the references of the object.
LEMMA DeleteCounts ==
  ASSUME CountInv, StoreInv', NoOverflow', NEW k \in Keys, Delete(k) PROVE CountInv'
  <1> DEFINE q == objects[k]
             s == subtrees.slots
  <1>1. /\ mu = "free" /\ q # 0 /\ UNCHANGED <<subtrees, mu>>
        /\ objects' = [objects EXCEPT ![k] = 0]
        /\ refcounts' = DecRef(refcounts, q)
    BY DEF Delete
  <1>2. /\ s \in Seq(Node) /\ q \in Nat
        /\ \A id \in DOMAIN refcounts : refcounts[id] \in Nat
    BY CountFacts
  <1>3. ASSUME NEW id
        PROVE  CountOf(refcounts', id) =
                 LET old == IF q = 0 THEN 0 ELSE Share(s, q, id)
                     c == CountOf(refcounts, id)
                 IN  IF c > old THEN c - old ELSE 0
    BY <1>1, <1>2, DecRefCounts
  <1>4. ASSUME NEW id
        PROVE  CountOf(refcounts', id) =
                 LET old == IF q = 0 THEN 0 ELSE Share(s, q, id)
                     c == CountOf(refcounts, id)
                 IN  (IF c > old THEN c - old ELSE 0) + 0
    <2>1. CountOf(refcounts, id) \in Nat /\ Share(s, q, id) \in Nat
      BY <1>2, ShareNat DEF CountOf
    <2> QED
      BY <1>3, <2>1
  <1> QED
    BY <1>1, <1>4, RootChangeKeeps

\* A GC that begins drops the zero counts only.
LEMMA GCBeginCounts == ASSUME CountInv, StoreInv', GCBegin PROVE CountInv'
  <1>1. /\ UNCHANGED <<subtrees, objects>>
        /\ refcounts' = [id \in {i \in DOMAIN refcounts : refcounts[i] # 0} |-> refcounts[id]]
    BY DEF GCBegin
  <1>2. \A id \in DOMAIN refcounts' : refcounts'[id] # 0
    BY <1>1
  <1>3. \A id : CountOf(refcounts', id) = CountOf(refcounts, id)
    BY <1>1 DEF CountOf
  <1>4. Counted(subtrees'.slots, objects', refcounts')
    BY <1>1, <1>3, CountFacts DEF Counted
  <1>5. RefcountsArePaths'
    BY <1>2, <1>4, CountsNow
  <1>6. Stored' = Stored
    BY <1>1 DEF Stored
  <1> QED
    BY <1>5, <1>6 DEF CountInv

\* The store starts without objects and without counts.
LEMMA CountInvInit == Init => CountInv
  <1> SUFFICES ASSUME Init PROVE CountInv
    OBVIOUS
  <1>1. subtrees.slots = <<>> /\ Stored = {} /\ mu = "free"
    BY DEF Init, EmptyPool, Stored
  <1>2. RefcountsArePaths
    BY <1>1 DEF RefcountsArePaths
  <1> QED
    BY <1>1, <1>2, StoreInvInit, FS_EmptySet DEF CountInv

\* Every step that does not overflow a count keeps the invariant.
LEMMA CountInvNext == CountInv /\ NoOverflow' /\ [Next]_vars => CountInv'
  <1> SUFFICES ASSUME CountInv, NoOverflow', [Next]_vars PROVE CountInv'
    OBVIOUS
  <1>0. StoreInv'
    BY StoreInvNext DEF CountInv
  <1>1. ASSUME NEW k \in Keys, Delete(k) PROVE CountInv'
    BY <1>0, <1>1, DeleteCounts
  <1>2. ASSUME NEW k \in Keys, NEW o \in Objects, UpsertBegin(k, o) PROVE CountInv'
    BY <1>0, <1>2, AppendKeeps DEF UpsertBegin
  <1>3. ASSUME NEW t \in Trees, Decompose(t) PROVE CountInv'
    <2>1. /\ UNCHANGED <<objects, refcounts, mu>> /\ mu = "upsert"
          /\ \E n : subtrees' = Intern(subtrees, n)
      BY <1>3 DEF Decompose, DecomposeScalar, DecomposeMap, DecomposeSlice, InternNode
    <2> QED
      BY <1>0, <2>1, AppendKeeps
  <1>4. ASSUME NEW k \in MapKeys(Trees), InternKey(k) PROVE CountInv'
    BY <1>0, <1>4, AppendKeeps DEF InternKey
  <1>5. CASE UpsertCommit
    BY <1>0, <1>5, CommitCounts
  <1>6. CASE GCBegin
    BY <1>0, <1>6, GCBeginCounts
  <1>7. CASE GCWalk
    BY <1>0, <1>7, AppendKeeps DEF GCWalk
  <1>8. CASE GCSweep
    BY <1>0, <1>8, SweepCounts
  <1>9. CASE UNCHANGED vars
    BY <1>0, <1>9, AppendKeeps DEF vars
  <1> QED
    BY <1>1, <1>2, <1>3, <1>4, <1>5, <1>6, <1>7, <1>8, <1>9 DEF Next

\* Through any Upserts, Deletes and GCs the counts that incRef and decRef
\* (dedup_store.go:309, 329) keep are the numbers of paths from the stored
\* objects, as long as no node is reached by RefMod (2^32) of them.
THEOREM CountsArePaths == Spec /\ []NoOverflow => []RefcountsArePaths
  <1>1. CountInv => RefcountsArePaths
    BY DEF CountInv
  <1> QED
    BY <1>1, CountInvInit, CountInvNext, PTL DEF Spec
=============================================================================
