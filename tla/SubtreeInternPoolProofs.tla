---------------------- MODULE SubtreeInternPoolProofs ----------------------
(***************************************************************************)
(* For every set of goroutines, every set of nodes and every hash: the IDs *)
(* SubtreeInternPool hands out stay canonical however Intern and           *)
(* DeleteUnreachable interleave, and the pool implements the atomic table  *)
(* of InternPool.                                                          *)
(***************************************************************************)
EXTENDS SubtreeInternPool, TLAPS

\* The inductive invariant: candidates are filed by their own hash, once per
\* content, and what callers hold is a candidate.
IndInv == TypeOK /\ BucketsByHash /\ BucketsDistinct /\ HeldIndexed

\* The invariant holds before the first call of Intern.
LEMMA InitInv == Init => IndInv
  BY HashAssumption
  DEF Init, IndInv, TypeOK, BucketsByHash, BucketsDistinct, HeldIndexed, Candidates

\* Handing out a candidate keeps the invariant.
LEMMA ReturnCandidate ==
  ASSUME IndInv, NEW t \in Threads, pc[t] # "idle",
         NEW id \in Candidates(arg[t]),
         Return(t, id), UNCHANGED <<nodes, index>>
  PROVE  IndInv'
  <1>1. Hash[arg[t]] \in Hashes /\ arg[t] \in Nodes
    BY HashAssumption DEF IndInv, TypeOK
  <1>2. id \in DOMAIN nodes
    BY <1>1 DEF IndInv, TypeOK, Candidates
  <1>3. TypeOK'
    BY <1>1, <1>2 DEF IndInv, TypeOK, Return
  <1>4. BucketsByHash' /\ BucketsDistinct'
    BY DEF IndInv, BucketsByHash, BucketsDistinct
  <1>5. HeldIndexed'
    BY DEF IndInv, HeldIndexed, Candidates, Return
  <1> QED
    BY <1>3, <1>4, <1>5 DEF IndInv

\* Appending a node that is no candidate keeps the invariant.
LEMMA AddPreserves ==
  ASSUME IndInv, NEW t \in Threads, pc[t] # "idle",
         Candidates(arg[t]) = {}, Add(t, arg[t])
  PROVE  IndInv'
  <1> DEFINE n == arg[t]
             new == Len(nodes) + 1
  <1>1. /\ nodes \in Seq(Nodes \cup {ZeroNode})
        /\ n \in Nodes
        /\ Hash[n] \in Hashes
        /\ nodes' = Append(nodes, n)
        /\ index \in [Hashes -> SUBSET DOMAIN nodes]
        /\ index' = [index EXCEPT ![Hash[n]] = index[Hash[n]] \cup {new}]
    BY HashAssumption DEF IndInv, TypeOK, Add
  <1>2. /\ nodes' \in Seq(Nodes \cup {ZeroNode})
        /\ DOMAIN nodes' = DOMAIN nodes \cup {new}
        /\ \A i \in DOMAIN nodes : nodes'[i] = nodes[i]
        /\ nodes'[new] = n
        /\ new \notin DOMAIN nodes
    BY <1>1
  <1>3. /\ index' \in [Hashes -> SUBSET DOMAIN nodes']
        /\ \A h \in Hashes : index[h] \subseteq index'[h]
        /\ \A h \in Hashes : index'[h] \subseteq index[h] \cup {new}
        /\ \A h \in Hashes : new \in index'[h] => h = Hash[n]
        /\ new \in index'[Hash[n]]
    BY <1>1, <1>2
  <1> HIDE DEF n, new
  <1>4. TypeOK'
    BY <1>1, <1>2, <1>3 DEF IndInv, TypeOK, Add, Return, n, new
  <1>5. BucketsByHash'
    BY <1>1, <1>2, <1>3 DEF IndInv, BucketsByHash
  <1>6. BucketsDistinct'
    <2>1. \A i \in index[Hash[n]] : nodes[i] # n
      BY DEF Candidates, n
    <2> QED
      BY <1>1, <1>2, <1>3, <2>1 DEF IndInv, BucketsDistinct
  <1>7. HeldIndexed'
    <2> SUFFICES ASSUME NEW g \in held' PROVE g.id \in Candidates(g.content)'
      BY DEF HeldIndexed
    <2>1. CASE g \in held
      <3>1. g.content \in Nodes /\ g.id \in DOMAIN nodes /\ g.id \in Candidates(g.content)
        BY <2>1 DEF IndInv, TypeOK, HeldIndexed
      <3> QED
        BY <3>1, <1>2, <1>3, HashAssumption DEF Candidates
    <2>2. CASE g = [content |-> n, id |-> new]
      BY <2>2, <1>2, <1>3 DEF Candidates
    <2> QED
      BY <2>1, <2>2 DEF Add, Return, n, new
  <1> QED
    BY <1>4, <1>5, <1>6, <1>7 DEF IndInv

\* Sweeping keeps the invariant for whatever live set it is given.
LEMMA DeletePreserves ==
  ASSUME IndInv, NEW live \in SUBSET DOMAIN nodes, DeleteUnreachable(live)
  PROVE  IndInv'
  <1>1. /\ nodes \in Seq(Nodes \cup {ZeroNode})
        /\ DOMAIN nodes' = DOMAIN nodes
        /\ nodes' \in Seq(Nodes \cup {ZeroNode})
    BY DEF IndInv, TypeOK, DeleteUnreachable
  <1>2. \A h \in Hashes : index'[h] = index[h] \cap live /\ index[h] \subseteq DOMAIN nodes
    BY DEF IndInv, TypeOK, DeleteUnreachable
  <1>3. \A i \in live : nodes'[i] = nodes[i]
    BY DEF DeleteUnreachable
  <1>4. TypeOK'
    BY <1>1, <1>2 DEF IndInv, TypeOK, DeleteUnreachable
  <1>5. BucketsByHash' /\ BucketsDistinct'
    BY <1>2, <1>3 DEF IndInv, BucketsByHash, BucketsDistinct
  <1>6. HeldIndexed'
    <2> SUFFICES ASSUME NEW g \in held' PROVE g.id \in Candidates(g.content)'
      BY DEF HeldIndexed
    <2>1. g \in held /\ g.id \in live
      BY DEF DeleteUnreachable
    <2>2. Hash[g.content] \in Hashes
      BY <2>1, HashAssumption DEF IndInv, TypeOK
    <2> QED
      BY <1>2, <1>3, <2>1, <2>2 DEF IndInv, HeldIndexed, Candidates
  <1> QED
    BY <1>4, <1>5, <1>6 DEF IndInv

\* Every step keeps the invariant.
LEMMA NextInv == IndInv /\ [Next]_vars => IndInv'
  <1> SUFFICES ASSUME IndInv, [Next]_vars PROVE IndInv'
    OBVIOUS
  <1>1. ASSUME NEW t \in Threads, NEW n \in Nodes, Call(t, n) PROVE IndInv'
    BY <1>1 DEF IndInv, TypeOK, BucketsByHash, BucketsDistinct, HeldIndexed, Candidates, Call
  <1>2. ASSUME NEW t \in Threads, FastPath(t) PROVE IndInv'
    <2>1. ASSUME NEW id \in Candidates(arg[t]), Return(t, id) PROVE IndInv'
      BY <1>2, <2>1, ReturnCandidate DEF FastPath
    <2>2. ASSUME pc' = [pc EXCEPT ![t] = "slow"], UNCHANGED <<arg, held>> PROVE IndInv'
      BY <1>2, <2>2
      DEF FastPath, IndInv, TypeOK, BucketsByHash, BucketsDistinct, HeldIndexed, Candidates
    <2> QED
      BY <1>2, <2>1, <2>2 DEF FastPath
  <1>3. ASSUME NEW t \in Threads, SlowPath(t) PROVE IndInv'
    <2>1. ASSUME NEW id \in Candidates(arg[t]), Return(t, id), UNCHANGED <<nodes, index>>
          PROVE  IndInv'
      BY <1>3, <2>1, ReturnCandidate DEF SlowPath
    <2>2. ASSUME Candidates(arg[t]) = {}, Add(t, arg[t]) PROVE IndInv'
      BY <1>3, <2>2, AddPreserves DEF SlowPath
    <2> QED
      BY <1>3, <2>1, <2>2 DEF SlowPath
  <1>4. ASSUME NEW live \in SUBSET DOMAIN nodes, DeleteUnreachable(live) PROVE IndInv'
    BY <1>4, DeletePreserves
  <1>5. CASE UNCHANGED vars
    BY <1>5 DEF vars, IndInv, TypeOK, BucketsByHash, BucketsDistinct, HeldIndexed, Candidates
  <1> QED
    BY <1>1, <1>2, <1>3, <1>4, <1>5 DEF Next

\* In every reachable state buckets are filed by hash without duplicates, and
\* every handle a caller holds is a candidate.
THEOREM Invariance == Spec => []IndInv
  BY InitInv, NextInv, PTL DEF Spec

\* Slots and buckets keep their types: no bucket names a slot that does not
\* exist, and clearing does not shorten the slots (subtree.go:84).
THEOREM TypeCorrect == Spec => []TypeOK
  <1>1. IndInv => TypeOK
    BY DEF IndInv
  <1> QED
    BY <1>1, Invariance, PTL

\* "Identical nodes (same Kind, same content) always get the same NodeID"
\* (subtree.go:13), whatever the hash function and the interleaving.
THEOREM HandlesAlwaysCanonical == Spec => []HandlesCanonical
  <1>1. IndInv => HandlesCanonical
    <2> SUFFICES ASSUME IndInv PROVE HandlesCanonical
      OBVIOUS
    <2>1. \A g \in held : /\ g.id \in DOMAIN nodes
                          /\ nodes[g.id] = g.content
                          /\ g.id \in index[Hash[g.content]]
                          /\ Hash[g.content] \in Hashes
      BY HashAssumption DEF IndInv, TypeOK, HeldIndexed, Candidates
    <2> QED
      BY <2>1 DEF IndInv, BucketsDistinct, HandlesCanonical, Resolve
  <1> QED
    BY <1>1, Invariance, PTL

\* A cleared slot is never handed out again, although its content is that of a
\* stored nil (subtree.go:105).
THEOREM NeverResurrected == Spec => NoResurrection
  <1>1. IndInv /\ [Next]_vars =>
          [\A g \in held' \ held : g.id \in DOMAIN nodes =>
             \E h \in Hashes : g.id \in index[h]]_vars
    <2> SUFFICES ASSUME IndInv, Next, NEW g \in held' \ held, g.id \in DOMAIN nodes
                 PROVE  \E h \in Hashes : g.id \in index[h]
      BY DEF vars
    <2>1. ASSUME NEW t \in Threads, NEW id \in Candidates(arg[t]), Return(t, id), pc[t] # "idle"
          PROVE  \E h \in Hashes : g.id \in index[h]
      <3>1. g.id = id /\ Hash[arg[t]] \in Hashes
        BY <2>1, HashAssumption DEF Return, IndInv, TypeOK
      <3> QED
        BY <3>1 DEF Candidates
    <2>2. ASSUME NEW t \in Threads, Add(t, arg[t]) PROVE FALSE
      BY <2>2 DEF Add, Return, IndInv, TypeOK
    <2> QED
      BY <2>1, <2>2 DEF Next, Call, FastPath, SlowPath, DeleteUnreachable
  <1> QED
    BY <1>1, Invariance, PTL DEF Spec, NoResurrection

-----------------------------------------------------------------------------
(* Refinement                                                              *)

Live == UNION {index[h] : h \in Hashes}
Pool == [slots |-> nodes, live |-> Live]

\* Within the live candidates the content determines the ID.
LEMMA LiveDistinct ==
  ASSUME IndInv, NEW i \in Live, NEW j \in Live, nodes[i] = nodes[j] PROVE i = j
  BY DEF IndInv, BucketsByHash, BucketsDistinct, Live

\* A lock region that returns a known candidate is one InternContent.
LEMMA ReturnRefines ==
  ASSUME IndInv, NEW t \in Threads, pc[t] # "idle",
         NEW id \in Candidates(arg[t]),
         Return(t, id), UNCHANGED <<nodes, index>>
  PROVE  Abstract!InternContent(arg[t])
  <1>1. id \in Live /\ nodes[id] = arg[t]
    BY HashAssumption DEF Live, Candidates, IndInv, TypeOK
  <1>2. Live' = Live /\ Pool' = Pool
    BY DEF Live, Pool
  <1>3. Abstract!Has(Pool, arg[t])
    BY <1>1 DEF Abstract!Has, Pool
  <1>4. Abstract!IdOf(Pool, arg[t]) = id
    BY <1>1, LiveDistinct DEF Abstract!IdOf, Pool
  <1> QED
    BY <1>2, <1>3, <1>4 DEF Abstract!InternContent, Abstract!Intern, Return, Pool, Live

\* The lock region that appends a node is one InternContent.
LEMMA AddRefines ==
  ASSUME IndInv, NEW t \in Threads, pc[t] # "idle",
         Candidates(arg[t]) = {}, Add(t, arg[t])
  PROVE  Abstract!InternContent(arg[t])
  <1> DEFINE c == arg[t]
             new == Len(nodes) + 1
  <1>1. /\ nodes \in Seq(Nodes \cup {ZeroNode}) /\ c \in Nodes /\ Hash[c] \in Hashes
        /\ nodes' = Append(nodes, c)
        /\ index \in [Hashes -> SUBSET DOMAIN nodes]
        /\ index' = [index EXCEPT ![Hash[c]] = index[Hash[c]] \cup {new}]
        /\ held' = held \cup {[content |-> c, id |-> new]}
    BY HashAssumption DEF IndInv, TypeOK, Add, Return
  <1>2. Live' = Live \cup {new}
    BY <1>1 DEF Live
  <1>3. ~Abstract!Has(Pool, c)
    <2>1. \A i \in Live : nodes[i] # c
      BY DEF Live, IndInv, BucketsByHash, Candidates
    <2> QED
      BY <2>1 DEF Abstract!Has, Pool
  <1>4. Pool' = Abstract!Intern(Pool, c)
    BY <1>1, <1>2, <1>3 DEF Abstract!Intern, Pool
  <1>5. Abstract!IdOf(Pool', c) = new
    <2>1. IndInv'
      BY AddPreserves
    <2>2. \A i, j \in Live' : nodes'[i] = nodes'[j] => i = j
      BY <2>1 DEF IndInv, BucketsByHash, BucketsDistinct, Live
    <2>3. new \in Live' /\ nodes'[new] = c
      BY <1>1, <1>2
    <2> QED
      BY <2>2, <2>3 DEF Abstract!IdOf, Pool
  <1> HIDE DEF new
  <1> QED
    BY <1>1, <1>4, <1>5 DEF Abstract!InternContent, Pool, Live

\* A sweep is one Revoke.
LEMMA DeleteRefines ==
  ASSUME IndInv, NEW live \in SUBSET DOMAIN nodes, DeleteUnreachable(live)
  PROVE  Abstract!Revoke(live)
  <1>1. Live' = Live \cap live
    BY DEF IndInv, TypeOK, DeleteUnreachable, Live
  <1>2. \A i : (\E h \in Hashes : i \in index[h] \ live) <=> i \in Live \ live
    BY DEF Live
  <1>3. nodes' = [i \in DOMAIN nodes |-> IF i \in Live \ live THEN ZeroNode ELSE nodes[i]]
    BY <1>2 DEF DeleteUnreachable
  <1>4. Pool' = Abstract!Sweep(Pool, live, ZeroNode)
    BY <1>1, <1>3 DEF Abstract!Sweep, Pool
  <1> QED
    BY <1>4 DEF Abstract!Revoke, DeleteUnreachable, Pool, Live

\* The hashed pool with two-phase locking implements the atomic intern table:
\* every lock region is one step of InternPool or invisible to it.
THEOREM Refinement == Spec => ImplementsInternPool
  <1>1. Init => Abstract!Init
    <2>1. Init => Live = {}
      BY DEF Init, Live
    <2> QED
      BY <2>1 DEF Init, Abstract!Init, Abstract!EmptyPool, Live
  <1>2. IndInv /\ [Next]_vars => [Abstract!Next]_<<Pool, held>>
    <2> SUFFICES ASSUME IndInv, [Next]_vars PROVE [Abstract!Next]_<<Pool, held>>
      OBVIOUS
    <2>1. CASE UNCHANGED <<nodes, index, held>>
      BY <2>1 DEF Pool, Live
    <2>2. ASSUME NEW t \in Threads, pc[t] # "idle", Abstract!InternContent(arg[t])
          PROVE  Abstract!Next
      <3>1. arg[t] \in Nodes
        BY <2>2 DEF IndInv, TypeOK
      <3> QED
        BY <2>2, <3>1 DEF Abstract!Next, Abstract!InternContent
    <2>3. ASSUME NEW t \in Threads, FastPath(t) PROVE [Abstract!Next]_<<Pool, held>>
      <3>1. CASE \E id \in Candidates(arg[t]) : Return(t, id)
        BY <2>2, <2>3, <3>1, ReturnRefines DEF FastPath
      <3>2. CASE UNCHANGED held
        BY <2>1, <2>3, <3>2 DEF FastPath
      <3> QED
        BY <2>3, <3>1, <3>2 DEF FastPath
    <2>4. ASSUME NEW t \in Threads, SlowPath(t) PROVE [Abstract!Next]_<<Pool, held>>
      <3>1. CASE \E id \in Candidates(arg[t]) : Return(t, id) /\ UNCHANGED <<nodes, index>>
        BY <2>2, <2>4, <3>1, ReturnRefines DEF SlowPath
      <3>2. CASE Candidates(arg[t]) = {} /\ Add(t, arg[t])
        BY <2>2, <2>4, <3>2, AddRefines DEF SlowPath
      <3> QED
        BY <2>4, <3>1, <3>2 DEF SlowPath
    <2>5. ASSUME NEW live \in SUBSET DOMAIN nodes, DeleteUnreachable(live)
          PROVE  Abstract!Next
      <3>1. Abstract!Revoke(live)
        BY <2>5, DeleteRefines
      <3> QED
        BY <3>1 DEF Abstract!Next, Pool
    <2>6. CASE UNCHANGED vars
      BY <2>1, <2>6 DEF vars
    <2>7. ASSUME NEW t \in Threads, NEW n \in Nodes, Call(t, n)
          PROVE  [Abstract!Next]_<<Pool, held>>
      BY <2>1, <2>7 DEF Call
    <2> QED
      BY <2>3, <2>4, <2>5, <2>6, <2>7 DEF Next
  <1> QED
    BY <1>1, <1>2, Invariance, PTL DEF Spec, ImplementsInternPool, Abstract!Spec, Pool, Live
=============================================================================
