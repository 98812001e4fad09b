----------------------------- MODULE DedupStore -----------------------------
(***************************************************************************)
(* store/dedup_store.go: the deduplicated object store.                    *)
(*                                                                         *)
(* An Unstructured object is a tree of scalars, maps and slices.  Upsert   *)
(* decomposes it into nodes interned in subtrees, whose scalars and map    *)
(* keys are interned in values; Get rebuilds it; GC marks what the object  *)
(* roots reach and sweeps the rest from both pools.                        *)
(*                                                                         *)
(* Upsert, Delete and GC hold s.mu.  mu names the holder of a call that    *)
(* takes several steps here: Upsert runs one step per key or subtree it    *)
(* interns (so the recursion of decompose is the order of the steps), GC   *)
(* one step per layer of walk.  Nothing else is enabled in between.        *)
(***************************************************************************)
EXTENDS Scalars, PoolOps, FiniteSets, FiniteSetsExt

CONSTANTS
  Keys,      \* ObjectKeys
  Trees,     \* every tree and subtree callers may store
  Objects,   \* the trees that are whole objects
  RefMod,    \* refcounts are uint32: 2^32 in Go
  MaxSlots   \* bound: no Upsert starts once this many nodes were allocated

Missing == [kind |-> "missing"]

\* The subtrees a tree is directly made of.
Kids(t) == CASE t.kind = "scalar" -> {}
             [] t.kind = "map"    -> {t.entries[k] : k \in DOMAIN t.entries}
             [] t.kind = "slice"  -> {t.items[i] : i \in DOMAIN t.items}

IsTree(t) ==
  \/ /\ t.kind = "scalar"
     /\ t = [kind |-> "scalar", val |-> t.val]
  \/ /\ t.kind = "map"
     /\ t = [kind |-> "map", entries |-> t.entries]
     /\ t.entries = [k \in DOMAIN t.entries |-> t.entries[k]]
     /\ IsFiniteSet(DOMAIN t.entries)
  \/ /\ t.kind = "slice"
     /\ t = [kind |-> "slice", items |-> t.items]
     /\ t.items \in Seq(Trees)

ASSUME TreesAssumption ==
  /\ \A t \in Trees : IsTree(t) /\ Kids(t) \subseteq Trees
  /\ Objects \subseteq {t \in Trees : t.kind = "map"}

\* No tree contains itself: on one that does, decompose would not return.
ASSUME NoCycles == \A T \in SUBSET Trees : T # {} => \E t \in T : Kids(t) \cap T = {}

ASSUME RefModAssumption == RefMod \in Nat \ {0} /\ MaxSlots \in Nat

VARIABLES
  values,     \* ValueInternPool: scalars and map keys
  subtrees,   \* SubtreeInternPool: nodes
  objects,    \* key -> root NodeID; 0, the reserved ID, means absent
  refcounts,  \* NodeID -> reference count, entries created on demand
  mu,         \* "free", or the call that holds s.mu between steps
  call,       \* the arguments of the Upsert that holds mu
  memo,       \* that Upsert: subtree -> NodeID, for the subtrees decomposed so far
  marked      \* that GC: the NodeIDs walk has visited

vars == <<values, subtrees, objects, refcounts, mu, call, memo, marked>>

NoCall == [key |-> "none", obj |-> Missing]

Init ==
  /\ values = EmptyPool
  /\ subtrees = EmptyPool
  /\ objects = [k \in Keys |-> 0]
  /\ refcounts = [id \in {} |-> 0]
  /\ mu = "free"
  /\ call = NoCall
  /\ memo = [t \in {} |-> 0]
  /\ marked = {}

-----------------------------------------------------------------------------
(* Nodes                                                                   *)

ZeroNode == [kind |-> "scalar", vid |-> 0]

ScalarNode(vid) == [kind |-> "scalar", vid |-> vid]
MapNode(es)     == [kind |-> "map", entries |-> es]
SliceNode(ids)  == [kind |-> "slice", items |-> ids]

\* The child NodeIDs of a node.
Children(n) == CASE n.kind = "scalar" -> {}
                 [] n.kind = "map"    -> {n.entries[i].val : i \in DOMAIN n.entries}
                 [] n.kind = "slice"  -> {n.items[i] : i \in DOMAIN n.items}

\* Mutated form: walk forgets that map keys live in the value pool too.
ValueIDsScalarOnly(n) == IF n.kind = "scalar" THEN {n.vid} ELSE {}

\* The ValueIDs a node refers to: its scalar, or its map keys.
ValueIDs(n) == CASE n.kind = "scalar" -> {n.vid}
                 [] n.kind = "map"    -> {n.entries[i].key : i \in DOMAIN n.entries}
                 [] n.kind = "slice"  -> {}

NodeAt(id)  == IF id \in DOMAIN subtrees.slots THEN subtrees.slots[id] ELSE ZeroNode
ValueAt(id) == IF id \in DOMAIN values.slots THEN values.slots[id] ELSE Nil

\* Mutated form: entries stay in the order Go's map iteration produced.
Unsorted(es) == es

\* sort.Slice by Key: keys are distinct, so an entry's place is its rank.
SortEntries(es) ==
  LET E == {es[i] : i \in DOMAIN es} IN
  [i \in 1..Cardinality(E) |->
     CHOOSE e \in E : Cardinality({f \in E : f.key < e.key}) = i - 1]

-----------------------------------------------------------------------------
(* Upsert                                                                  *)

StringValue(k) == <<"string", k>>

\* Every subtree of a tree, and the map keys that occur in a set of trees.
Parts[t \in Trees] == {t} \cup UNION {Parts[c] : c \in Kids(t)}
MapKeys(T) == UNION {DOMAIN t.entries : t \in {u \in T : u.kind = "map"}}

UpsertBegin(k, o) ==
  /\ mu = "free"
  /\ Len(subtrees.slots) < MaxSlots
  /\ mu' = "upsert"
  /\ call' = [key |-> k, obj |-> o]
  /\ UNCHANGED <<values, subtrees, objects, refcounts, memo, marked>>

\* s.values.Intern(k) for a map key that the pool does not have.
InternKey(k) ==
  /\ mu = "upsert"
  /\ k \in MapKeys(Parts[call.obj])
  /\ ~Has(values, StringValue(k))
  /\ values' = Intern(values, StringValue(k))
  /\ UNCHANGED <<subtrees, objects, refcounts, mu, call, memo, marked>>

\* s.subtrees.Intern(n) as the result of decomposing t.
InternNode(t, n) ==
  /\ subtrees' = Intern(subtrees, n)
  /\ memo' = [u \in DOMAIN memo \cup {t} |->
                IF u = t THEN IdOf(subtrees', n) ELSE memo[u]]
  /\ UNCHANGED <<objects, refcounts, mu, call, marked>>

\* Mutated form: an integer is interned in the Go type it arrived in.
DecomposeScalarRaw(t) ==
  /\ t.kind = "scalar"
  /\ values' = IF t.val = Nil THEN values ELSE Intern(values, t.val)
  /\ InternNode(t, ScalarNode(IF t.val = Nil THEN 0 ELSE IdOf(values', t.val)))

DecomposeScalar(t) ==
  /\ t.kind = "scalar"
  /\ \/ /\ t.val = Nil
        /\ InternNode(t, ScalarNode(0))
        /\ UNCHANGED values
     \/ /\ t.val # Nil
        /\ values' = Intern(values, Normalise(t.val))
        /\ InternNode(t, ScalarNode(IdOf(values', Normalise(t.val))))

\* The orders in which Go may iterate over a map with keys K.
Iterations(K) ==
  {f \in [1..Cardinality(K) -> K] : \A i, j \in DOMAIN f : f[i] = f[j] => i = j}

DecomposeMap(t) ==
  /\ t.kind = "map"
  /\ \A k \in DOMAIN t.entries : Has(values, StringValue(k))
  /\ \E iter \in Iterations(DOMAIN t.entries) :
       InternNode(t, MapNode(SortEntries(
         [i \in DOMAIN iter |-> [key |-> IdOf(values, StringValue(iter[i])),
                                 val |-> memo[t.entries[iter[i]]]]])))
  /\ UNCHANGED values

DecomposeSlice(t) ==
  /\ t.kind = "slice"
  /\ InternNode(t, SliceNode([i \in DOMAIN t.items |-> memo[t.items[i]]]))
  /\ UNCHANGED values

\* decompose(t) returns: its children have been decomposed before.
Decompose(t) ==
  /\ mu = "upsert"
  /\ t \in Parts[call.obj] \ DOMAIN memo
  /\ Kids(t) \subseteq DOMAIN memo
  /\ DecomposeScalar(t) \/ DecomposeMap(t) \/ DecomposeSlice(t)

\* How often node n lists child c, and how often incRef or decRef, started at
\* root, visit each node.  Children have smaller IDs than their parents.
Times(n, c) == CASE n.kind = "scalar" -> 0
                 [] n.kind = "map"    -> Cardinality({i \in DOMAIN n.entries : n.entries[i].val = c})
                 [] n.kind = "slice"  -> Cardinality({i \in DOMAIN n.items : n.items[i] = c})

Total(f) == MapThenSumSet(LAMBDA x : f[x], DOMAIN f)

Parents(id, root) == {p \in id + 1 .. root : id \in Children(NodeAt(p))}

Visits(root) ==
  LET v[id \in 1..root] ==
        IF id = root THEN 1
        ELSE Total([p \in Parents(id, root) |-> v[p] * Times(NodeAt(p), id)])
  IN  v

\* Mutated form: incRef counts the root only.
IncRefRootOnly(refs, root) ==
  [id \in DOMAIN refs \cup {root} |->
     ((IF id \in DOMAIN refs THEN refs[id] ELSE 0) + (IF id = root THEN 1 ELSE 0)) % RefMod]

IncRef(refs, root) ==
  LET n == Visits(root) IN
  [id \in DOMAIN refs \cup {i \in 1..root : n[i] > 0} |->
     ((IF id \in DOMAIN refs THEN refs[id] ELSE 0)
        + (IF id \in 1..root THEN n[id] ELSE 0)) % RefMod]

\* decRef stops at zero, one visit at a time.
DecRef(refs, root) ==
  LET n == Visits(root) IN
  [id \in DOMAIN refs |->
     IF id \notin 1..root THEN refs[id]
     ELSE IF refs[id] > n[id] THEN refs[id] - n[id] ELSE 0]

\* Mutated form: what decompose returned is remembered across calls.
ReleaseKeepsMemo ==
  /\ mu' = "free"
  /\ call' = NoCall
  /\ marked' = {}
  /\ UNCHANGED memo

\* The call returns and gives s.mu back.
Release ==
  /\ mu' = "free"
  /\ call' = NoCall
  /\ memo' = [t \in {} |-> 0]
  /\ marked' = {}

\* decompose has returned the root: swap the object's references.
UpsertCommit ==
  /\ mu = "upsert"
  /\ call.obj \in DOMAIN memo
  /\ objects' = [objects EXCEPT ![call.key] = memo[call.obj]]
  /\ refcounts' = IncRef(IF objects[call.key] = 0 THEN refcounts
                         ELSE DecRef(refcounts, objects[call.key]),
                         memo[call.obj])
  /\ Release
  /\ UNCHANGED <<values, subtrees>>

-----------------------------------------------------------------------------
(* Delete and GC                                                           *)

\* Deleting an absent key changes nothing.
Delete(k) ==
  /\ mu = "free"
  /\ objects[k] # 0
  /\ refcounts' = DecRef(refcounts, objects[k])
  /\ objects' = [objects EXCEPT ![k] = 0]
  /\ UNCHANGED <<values, subtrees, mu, call, memo, marked>>

Roots == {objects[k] : k \in Keys} \ {0}

\* Step 1 drops the zero counts, step 2 starts the walk at the roots.
GCBegin ==
  /\ mu = "free"
  /\ mu' = "gc"
  /\ refcounts' = [id \in {i \in DOMAIN refcounts : refcounts[i] # 0} |-> refcounts[id]]
  /\ marked' = Roots
  /\ UNCHANGED <<values, subtrees, objects, call, memo>>

Reached == marked \cup UNION {Children(NodeAt(id)) : id \in marked}

\* walk visits the children of what it has seen.
GCWalk ==
  /\ mu = "gc"
  /\ Reached # marked
  /\ marked' = Reached
  /\ UNCHANGED <<values, subtrees, objects, refcounts, mu, call, memo>>

\* Mutated form: the sweep does not wait for the walk to finish.
GCSweepEarly ==
  /\ mu = "gc"
  /\ subtrees' = Sweep(subtrees, marked, ZeroNode)
  /\ values' = Sweep(values, UNION {ValueIDs(NodeAt(id)) : id \in marked}, Nil)
  /\ Release
  /\ UNCHANGED <<objects, refcounts>>

\* Mutated form: the values of nodes about to be cleared are kept once more.
GCSweepKeepsValues ==
  /\ mu = "gc"
  /\ Reached = marked
  /\ subtrees' = Sweep(subtrees, marked, ZeroNode)
  /\ values' = Sweep(values, UNION {ValueIDs(NodeAt(id)) : id \in subtrees.live}, Nil)
  /\ Release
  /\ UNCHANGED <<objects, refcounts>>

\* Steps 3 and 4, once the walk has visited everything it can.
GCSweep ==
  /\ mu = "gc"
  /\ Reached = marked
  /\ subtrees' = Sweep(subtrees, marked, ZeroNode)
  /\ values' = Sweep(values, UNION {ValueIDs(NodeAt(id)) : id \in marked}, Nil)
  /\ Release
  /\ UNCHANGED <<objects, refcounts>>

Next ==
  \/ \E k \in Keys : Delete(k) \/ \E o \in Objects : UpsertBegin(k, o)
  \/ \E t \in Trees : Decompose(t)
  \/ \E k \in MapKeys(Trees) : InternKey(k)
  \/ UpsertCommit
  \/ GCBegin \/ GCWalk \/ GCSweep

Spec == Init /\ [][Next]_vars

-----------------------------------------------------------------------------
(* Get                                                                     *)

\* The string a map key's ValueID resolves to; a value that is no string is "".
KeyString(id) == IF ValueAt(id)[1] = "string" THEN ValueAt(id)[2] ELSE ""

\* The tree of a node, from the trees of the nodes below it.  Of a map's entries
\* with one key the last wins.
Rebuild(n, tree) ==
  CASE n.kind = "scalar" -> [kind |-> "scalar", val |-> ValueAt(n.vid)]
    [] n.kind = "map"    ->
         [kind |-> "map",
          entries |-> [k \in {KeyString(n.entries[i].key) : i \in DOMAIN n.entries} |->
            tree[n.entries[Max({i \in DOMAIN n.entries : KeyString(n.entries[i].key) = k})].val]]]
    [] n.kind = "slice"  -> [kind |-> "slice", items |-> [i \in DOMAIN n.items |-> tree[n.items[i]]]]

\* reconstruct, of every node.
Reconstruct ==
  LET tree[id \in 0..Len(subtrees.slots)] == Rebuild(NodeAt(id), tree)
  IN  tree

\* Get: not found for an absent key, or if the root is no longer a map.
Get(k) ==
  IF objects[k] = 0 \/ NodeAt(objects[k]).kind # "map" THEN Missing
  ELSE Reconstruct[objects[k]]

\* What a stored tree reads back as: scalars are normalised on the way in.
Normalised(t, normal) ==
  CASE t.kind = "scalar" -> [kind |-> "scalar", val |-> Normalise(t.val)]
    [] t.kind = "map"    -> [kind |-> "map",
                             entries |-> [k \in DOMAIN t.entries |-> normal[t.entries[k]]]]
    [] t.kind = "slice"  -> [kind |-> "slice",
                             items |-> [i \in DOMAIN t.items |-> normal[t.items[i]]]]

Normal[t \in Trees] == Normalised(t, Normal)

-----------------------------------------------------------------------------
(* Properties                                                              *)

Contents ==
  {Normalise(t.val) : t \in {u \in Trees : u.kind = "scalar"}}
    \cup {StringValue(k) : k \in MapKeys(Trees)}

Node == [kind : {"scalar"}, vid : Nat]
          \cup [kind : {"map"}, entries : Seq([key : Nat, val : Nat])]
          \cup [kind : {"slice"}, items : Seq(Nat)]

TypeOK ==
  /\ values \in [slots : Seq(Contents \cup {Nil}), live : SUBSET Nat]
  /\ subtrees \in [slots : Seq(Node), live : SUBSET Nat]
  /\ objects \in [Keys -> 0..Len(subtrees.slots)]
  /\ DOMAIN refcounts \subseteq DOMAIN subtrees.slots
  /\ mu \in {"free", "upsert", "gc"}
  /\ call \in [key : Keys, obj : Objects] \cup {NoCall}
  /\ mu = "upsert" => call \in [key : Keys, obj : Objects]
  /\ DOMAIN memo \subseteq Trees
  /\ marked \subseteq DOMAIN subtrees.slots

\* What a reader sees of the store.
Shown == [k \in Keys |-> Get(k)]

Store == INSTANCE ObjectStore WITH
  Objects <- {Normal[o] : o \in Objects}, contents <- Shown

\* The Store interface: through any sequence of Upsert, Delete and GC the
\* store is a map from keys to (normalised) objects, each call takes effect
\* at one instant, and GC is never visible to a reader.
ImplementsObjectStore == Store!Spec

\* An Upsert reads back as the object it was given, whatever the pools already
\* shared with it, and leaves every other key as it was.
UpsertReadsBack ==
  [][mu = "upsert" /\ mu' = "free" =>
       \A k \in Keys : Get(k)' = IF k = call.key THEN Normal[call.obj] ELSE Get(k)]_vars

\* Nothing live refers to a cleared slot, in either pool.
NoDangling ==
  \A id \in subtrees.live :
    /\ Children(NodeAt(id)) \subseteq subtrees.live
    /\ ValueIDs(NodeAt(id)) \subseteq values.live \cup {0}

\* No stored object has lost its root, nor any call in progress its subtrees:
\* what objects, memo and the walk of GC refer to is live.
RootsLive ==
  /\ Roots \subseteq subtrees.live
  /\ \A t \in DOMAIN memo : memo[t] \in subtrees.live
  /\ marked \subseteq subtrees.live
  /\ mu = "gc" => Roots \subseteq marked

\* Deduplication: no two live nodes stand for the same tree.  The hash and the
\* comparison see only IDs, so this rests on both pools being canonical and on
\* map entries being sorted.
FullyDeduplicated ==
  \A i, j \in subtrees.live : Reconstruct[i] = Reconstruct[j] => i = j

\* The live nodes that the object roots lead to: those in every set that has
\* the roots and the children of all its members.
Reachable ==
  {id \in subtrees.live :
     \A S \in SUBSET subtrees.live :
       Roots \subseteq S /\ (\A i \in S : Children(NodeAt(i)) \subseteq S) => id \in S}

\* How often incRef, started at the roots of all stored objects, visits a node.
Stored == {k \in Keys : objects[k] # 0}

PathsTo(id) ==
  Total([k \in Stored |-> IF id \in 1..objects[k] THEN Visits(objects[k])[id] ELSE 0])

\* The reference counts are always the numbers of paths from object roots: what
\* the increments and decrements of all Upserts and Deletes so far add up to
\* (RefMod permitting).  A GC leaves only the entries that count something.
RefcountsArePaths ==
  /\ \A id \in DOMAIN subtrees.slots :
       (IF id \in DOMAIN refcounts THEN refcounts[id] ELSE 0) = PathsTo(id)
  /\ mu = "gc" => \A id \in DOMAIN refcounts : refcounts[id] # 0

\* After a GC nothing is left but what the stored objects use: the nodes are the
\* reachable ones and the values are those of the reachable nodes.
GCLeavesOnlyReachable ==
  [][mu = "gc" /\ mu' = "free" =>
       /\ subtrees.live' = Reachable'
       /\ values.live' = (UNION {ValueIDs(NodeAt(id))' : id \in Reachable'}) \ {0}]_vars
=============================================================================
