------------------------- MODULE SubtreeInternPool -------------------------
(***************************************************************************)
(* store/subtree.go: the pool of unique nodes.  Same two-phase locking as  *)
(* ValueInternPool, but the index maps a 64-bit hash to the candidates     *)
(* with that hash, so lookups compare contents.  A bucket is the set of    *)
(* its candidates: the first equal one is the only equal one.              *)
(***************************************************************************)
EXTENDS Integers, Sequences

CONSTANTS Threads,    \* goroutines calling Intern
          Nodes,      \* the node contents they intern
          ZeroNode,   \* Node{}: what a cleared slot holds, and a legal content
          Hashes,
          Hash,       \* the FNV-1a hash of each content; collisions happen
          MaxSlots    \* bound: number of slots ever allocated

ASSUME HashAssumption == Hash \in [Nodes -> Hashes] /\ MaxSlots \in Nat

VARIABLES
  nodes,    \* NodeID -> Node, from ID 1 on (ID 0 is the sentinel)
  index,    \* hash -> candidate NodeIDs
  pc,       \* where each goroutine is in Intern
  arg,      \* the node it is interning
  held      \* [content, id] pairs Intern has returned and nobody has revoked

vars == <<nodes, index, pc, arg, held>>

Init ==
  /\ nodes = <<>>
  /\ index = [h \in Hashes |-> {}]
  /\ pc = [t \in Threads |-> "idle"]
  /\ arg = [t \in Threads |-> ZeroNode]
  /\ held = {}

\* Resolve: the zero node for an ID out of range and for a cleared slot.
Resolve(id) == IF id \in DOMAIN nodes THEN nodes[id] ELSE ZeroNode

\* Mutated form: the hash alone decides, contents are not compared.
SameHash(n) == index[Hash[n]]

\* Mutated form: every slot is searched, cleared ones too.
AnySlot(n) == {id \in DOMAIN nodes : nodes[id] = n}

\* The candidates in n's bucket that equal n: kind, value and children agree.
Candidates(n) == {id \in index[Hash[n]] : nodes[id] = n}

-----------------------------------------------------------------------------
Call(t, n) ==
  /\ pc[t] = "idle"
  /\ pc' = [pc EXCEPT ![t] = "fast"]
  /\ arg' = [arg EXCEPT ![t] = n]
  /\ UNCHANGED <<nodes, index, held>>

Return(t, id) ==
  /\ pc' = [pc EXCEPT ![t] = "idle"]
  /\ held' = held \cup {[content |-> arg[t], id |-> id]}
  /\ UNCHANGED arg

\* Lookup under the read lock.
FastPath(t) ==
  /\ pc[t] = "fast"
  /\ UNCHANGED <<nodes, index>>
  /\ \/ \E id \in Candidates(arg[t]) : Return(t, id)
     \/ Candidates(arg[t]) = {} /\ pc' = [pc EXCEPT ![t] = "slow"]
                                /\ UNCHANGED <<arg, held>>

Add(t, n) ==
  /\ Len(nodes) < MaxSlots
  /\ nodes' = Append(nodes, n)
  /\ index' = [index EXCEPT ![Hash[n]] = @ \cup {Len(nodes) + 1}]
  /\ Return(t, Len(nodes) + 1)

\* Mutated form: no second lookup after the write lock is taken.
SlowPathUnchecked(t) == pc[t] = "slow" /\ Add(t, arg[t])

\* Double-check under the write lock, then append.
SlowPath(t) ==
  /\ pc[t] = "slow"
  /\ \/ \E id \in Candidates(arg[t]) : Return(t, id) /\ UNCHANGED <<nodes, index>>
     \/ Candidates(arg[t]) = {} /\ Add(t, arg[t])

\* Mutated form: slots are zeroed but stay in their buckets.
DeleteUnreachableKeepsIndex(live) ==
  /\ nodes' = [i \in DOMAIN nodes |->
                 IF \E h \in Hashes : i \in index[h] \ live
                 THEN ZeroNode ELSE nodes[i]]
  /\ held' = {g \in held : g.id \in live}
  /\ UNCHANGED <<index, pc, arg>>

\* The index is rebuilt from the live candidates; the others' slots are zeroed.
DeleteUnreachable(live) ==
  /\ nodes' = [i \in DOMAIN nodes |->
                 IF \E h \in Hashes : i \in index[h] \ live
                 THEN ZeroNode ELSE nodes[i]]
  /\ index' = [h \in Hashes |-> index[h] \cap live]
  /\ held' = {g \in held : g.id \in live}
  /\ UNCHANGED <<pc, arg>>

Next ==
  \/ \E t \in Threads :
       \/ \E n \in Nodes : Call(t, n)
       \/ FastPath(t)
       \/ SlowPath(t)
  \/ \E live \in SUBSET DOMAIN nodes : DeleteUnreachable(live)

Spec == Init /\ [][Next]_vars

-----------------------------------------------------------------------------
TypeOK ==
  /\ nodes \in Seq(Nodes \cup {ZeroNode})
  /\ index \in [Hashes -> SUBSET DOMAIN nodes]
  /\ pc \in [Threads -> {"idle", "fast", "slow"}]
  /\ arg \in [Threads -> Nodes \cup {ZeroNode}]
  /\ \A t \in Threads : pc[t] # "idle" => arg[t] \in Nodes
  /\ held \subseteq [content : Nodes, id : DOMAIN nodes]

\* Every candidate sits in the bucket of its own content's hash.
BucketsByHash ==
  \A h \in Hashes : \A id \in index[h] : nodes[id] \in Nodes /\ Hash[nodes[id]] = h

\* No bucket holds two candidates with the same content.
BucketsDistinct ==
  \A h \in Hashes : \A i, j \in index[h] : nodes[i] = nodes[j] => i = j

\* Every ID that was handed out and not revoked is still a candidate.
HeldIndexed == \A g \in held : g.id \in Candidates(g.content)

\* "Identical nodes (same Kind, same content) always get the same NodeID"
\* (subtree.go:13) for the IDs callers may still rely on, whatever the hash
\* collisions and the interleaving; different nodes never share an ID.
HandlesCanonical ==
  /\ \A g \in held : Resolve(g.id) = g.content
  /\ \A g, h \in held : g.content = h.content <=> g.id = h.id

\* A cleared slot is never handed out again, although it holds ZeroNode, which
\* is also the content of a stored nil: every ID returned is newer than the
\* slots already dead, or live.
NoResurrection ==
  [][\A g \in held' \ held : g.id \in DOMAIN nodes =>
       \E h \in Hashes : g.id \in index[h]]_vars

\* The pool is an atomic intern table.
Abstract == INSTANCE InternPool WITH
  Contents <- Nodes, Cleared <- ZeroNode,
  pool <- [slots |-> nodes, live |-> UNION {index[h] : h \in Hashes}]

\* The hashed, interleaved pool implements the atomic table of InternPool.
ImplementsInternPool == Abstract!Spec
=============================================================================
