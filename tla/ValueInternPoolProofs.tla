----------------------- MODULE ValueInternPoolProofs -----------------------
(***************************************************************************)
(* For every set of goroutines and values: the IDs ValueInternPool hands   *)
(* out stay canonical however Intern and DeleteUnreachable interleave, and *)
(* the pool implements the atomic table of InternPool.                     *)
(***************************************************************************)
EXTENDS ValueInternPool, TLAPS

\* The inductive invariant: the slice and the index are inverse on what is
\* interned, and what callers hold is interned.
IndInv == TypeOK /\ IndexMatchesValues /\ HeldIndexed

\* The invariant holds before the first call of Intern.
LEMMA InitInv == Init => IndInv
  BY DEF Init, IndInv, TypeOK, IndexMatchesValues, HeldIndexed

\* Handing out an ID the index already has keeps the invariant.
LEMMA ReturnIndexed ==
  ASSUME IndInv, NEW t \in Threads, pc[t] # "idle",
         Normalise(arg[t]) \in DOMAIN index,
         Return(t, index[Normalise(arg[t])]), UNCHANGED <<values, index>>
  PROVE  IndInv'
  BY DEF IndInv, TypeOK, IndexMatchesValues, HeldIndexed, Return

\* Appending a value the index does not have keeps the invariant.
LEMMA AddPreserves ==
  ASSUME IndInv, NEW t \in Threads, pc[t] # "idle",
         Normalise(arg[t]) \notin DOMAIN index,
         Add(t, Normalise(arg[t]))
  PROVE  IndInv'
  <1> DEFINE v == Normalise(arg[t])
  <1>1. /\ values \in Seq(Values \cup {Nil})
        /\ v \in Values
        /\ values' = Append(values, v)
        /\ index' = [w \in DOMAIN index \cup {v} |->
                       IF w = v THEN Len(values) + 1 ELSE index[w]]
    BY DEF IndInv, TypeOK, Add, Values
  <1>2. /\ values' \in Seq(Values \cup {Nil})
        /\ DOMAIN values' = DOMAIN values \cup {Len(values) + 1}
        /\ \A i \in DOMAIN values : values'[i] = values[i]
        /\ values'[Len(values) + 1] = v
    BY <1>1
  <1>3. Len(values) + 1 \notin DOMAIN values
    BY <1>1
  <1>4. TypeOK'
    BY <1>1, <1>2 DEF IndInv, TypeOK, Add, Return
  <1>5. IndexMatchesValues'
    BY <1>1, <1>2, <1>3 DEF IndInv, TypeOK, IndexMatchesValues
  <1>6. HeldIndexed'
    BY <1>1, <1>2, <1>3 DEF IndInv, TypeOK, HeldIndexed, Add, Return
  <1> QED
    BY <1>4, <1>5, <1>6 DEF IndInv

\* Sweeping keeps the invariant for whatever live set it is given.
LEMMA DeletePreserves ==
  ASSUME IndInv, NEW live \in SUBSET DOMAIN values, DeleteUnreachable(live)
  PROVE  IndInv'
  <1>1. DOMAIN values' = DOMAIN values /\ values' \in Seq(Values \cup {Nil})
    BY DEF IndInv, TypeOK, DeleteUnreachable
  <1>2. \A w \in DOMAIN index' :
          w \in DOMAIN index /\ index[w] \in live /\ index'[w] = index[w]
    BY DEF DeleteUnreachable
  <1>3. \A w \in DOMAIN index' : values'[index'[w]] = w
    BY <1>2 DEF IndInv, TypeOK, IndexMatchesValues, DeleteUnreachable
  <1>4. TypeOK'
    BY <1>1, <1>2 DEF IndInv, TypeOK, DeleteUnreachable
  <1>5. HeldIndexed'
    BY DEF IndInv, TypeOK, HeldIndexed, DeleteUnreachable
  <1> QED
    BY <1>3, <1>4, <1>5 DEF IndInv, IndexMatchesValues

\* Every step keeps the invariant.
LEMMA NextInv == IndInv /\ [Next]_vars => IndInv'
  <1> SUFFICES ASSUME IndInv, [Next]_vars PROVE IndInv'
    OBVIOUS
  <1>1. ASSUME NEW t \in Threads, NEW r \in RawValues, Call(t, r) PROVE IndInv'
    BY <1>1 DEF IndInv, TypeOK, IndexMatchesValues, HeldIndexed, Call
  <1>2. ASSUME NEW t \in Threads, FastPath(t) PROVE IndInv'
    <2>1. CASE Normalise(arg[t]) \in DOMAIN index
      BY <1>2, <2>1, ReturnIndexed DEF FastPath
    <2>2. CASE Normalise(arg[t]) \notin DOMAIN index
      BY <1>2, <2>2 DEF FastPath, IndInv, TypeOK, IndexMatchesValues, HeldIndexed
    <2> QED BY <2>1, <2>2
  <1>3. ASSUME NEW t \in Threads, SlowPath(t) PROVE IndInv'
    <2>1. CASE Normalise(arg[t]) \in DOMAIN index
      BY <1>3, <2>1, ReturnIndexed DEF SlowPath
    <2>2. CASE Normalise(arg[t]) \notin DOMAIN index
      BY <1>3, <2>2, AddPreserves DEF SlowPath
    <2> QED BY <2>1, <2>2
  <1>4. ASSUME NEW live \in SUBSET DOMAIN values, DeleteUnreachable(live)
        PROVE  IndInv'
    BY <1>4, DeletePreserves
  <1>5. CASE UNCHANGED vars
    BY <1>5 DEF vars, IndInv, TypeOK, IndexMatchesValues, HeldIndexed
  <1> QED
    BY <1>1, <1>2, <1>3, <1>4, <1>5 DEF Next

\* In every reachable state of the pool the index and the slice agree, and
\* every handle a caller holds is indexed.
THEOREM Invariance == Spec => []IndInv
  BY InitInv, NextInv, PTL DEF Spec

\* Slots and index keep their types: an ID once given out is never beyond the
\* slots, and clearing does not shorten them (intern.go:97).
THEOREM TypeCorrect == Spec => []TypeOK
  <1>1. IndInv => TypeOK
    BY DEF IndInv
  <1> QED
    BY <1>1, Invariance, PTL

\* "Identical values always map to the same ValueID" (intern.go:12), for any
\* number of goroutines interleaving Intern with DeleteUnreachable.
THEOREM HandlesAlwaysCanonical == Spec => []HandlesCanonical
  <1>1. IndInv => HandlesCanonical
    BY DEF IndInv, TypeOK, IndexMatchesValues, HeldIndexed, HandlesCanonical, Resolve
  <1> QED
    BY <1>1, Invariance, PTL

\* An ID that was issued never comes to mean another value: slots are only
\* appended to and cleared.
THEOREM NeverReused == Spec => IdsNeverReused
  <1>1. IndInv /\ [Next]_vars =>
          [\A i \in DOMAIN values : /\ i \in DOMAIN values'
                                    /\ values'[i] \in {values[i], Nil}]_vars
    <2> SUFFICES ASSUME IndInv, Next
                 PROVE  \A i \in DOMAIN values : /\ i \in DOMAIN values'
                                                 /\ values'[i] \in {values[i], Nil}
      BY DEF vars
    <2>1. CASE UNCHANGED values
      BY <2>1
    <2>2. ASSUME NEW t \in Threads, NEW v, Add(t, v)
          PROVE  \A i \in DOMAIN values : i \in DOMAIN values' /\ values'[i] = values[i]
      BY <2>2 DEF IndInv, TypeOK, Add
    <2>3. ASSUME NEW live \in SUBSET DOMAIN values, DeleteUnreachable(live)
          PROVE  \A i \in DOMAIN values : /\ i \in DOMAIN values'
                                          /\ values'[i] \in {values[i], Nil}
      BY <2>3 DEF DeleteUnreachable
    <2> QED
      BY <2>1, <2>2, <2>3 DEF Next, Call, FastPath, SlowPath
  <1> QED
    BY <1>1, Invariance, PTL DEF Spec, IdsNeverReused

-----------------------------------------------------------------------------
(* Refinement                                                              *)

Live == {index[v] : v \in DOMAIN index}
Pool == [slots |-> values, live |-> Live]
Told == {[content |-> Normalise(h.raw), id |-> h.id] : h \in held}

\* What a caller is told when Intern returns.
LEMMA ToldGrows ==
  ASSUME NEW t \in Threads, NEW id, Return(t, id)
  PROVE  Told' = Told \cup {[content |-> Normalise(arg[t]), id |-> id]}
  <1> DEFINE r == [raw |-> arg[t], id |-> id]
             tell(h) == [content |-> Normalise(h.raw), id |-> h.id]
  <1>1. held' = held \cup {r}
    BY DEF Return
  <1>2. tell(r) = [content |-> Normalise(arg[t]), id |-> id]
    OBVIOUS
  <1> HIDE DEF r
  <1>3. {tell(h) : h \in held'} = {tell(h) : h \in held} \cup {tell(r)}
    <2> HIDE DEF tell
    <2> QED BY <1>1
  <1> QED
    BY <1>2, <1>3 DEF Told

\* A lock region that finds the value indexed is one InternContent.
LEMMA ReturnRefines ==
  ASSUME IndInv, NEW t \in Threads,
         Normalise(arg[t]) \in DOMAIN index,
         Return(t, index[Normalise(arg[t])]), UNCHANGED <<values, index>>
  PROVE  Abstract!InternContent(Normalise(arg[t]))
  <1> DEFINE v == Normalise(arg[t])
  <1>1. Pool' = Pool
    BY DEF Live, Pool
  <1>2. index[v] \in Live /\ values[index[v]] = v
    BY DEF Live, IndInv, IndexMatchesValues
  <1>3. \A i \in Live : values[i] = v => i = index[v]
    BY DEF Live, IndInv, IndexMatchesValues
  <1>4. Abstract!Has(Pool, v)
    BY <1>2 DEF Abstract!Has, Pool
  <1>5. Abstract!IdOf(Pool, v) = index[v]
    BY <1>2, <1>3 DEF Abstract!IdOf, Pool
  <1>6. Told' = Told \cup {[content |-> v, id |-> index[v]]}
    BY ToldGrows
  <1> QED
    BY <1>1, <1>4, <1>5, <1>6 DEF Abstract!InternContent, Abstract!Intern, Pool, Live, Told

\* The lock region that appends a value is one InternContent.
LEMMA AddRefines ==
  ASSUME IndInv, NEW t \in Threads, pc[t] # "idle",
         Normalise(arg[t]) \notin DOMAIN index, Add(t, Normalise(arg[t]))
  PROVE  Abstract!InternContent(Normalise(arg[t]))
  <1> DEFINE v == Normalise(arg[t])
             new == Len(values) + 1
  <1>1. /\ values \in Seq(Values \cup {Nil})
        /\ values' = Append(values, v)
        /\ index' = [w \in DOMAIN index \cup {v} |-> IF w = v THEN new ELSE index[w]]
    BY DEF IndInv, TypeOK, Add
  <1>2. Live' = Live \cup {new}
    BY <1>1 DEF Live
  <1>3. \A i \in Live : values[i] # v
    BY DEF Live, IndInv, IndexMatchesValues
  <1>4. ~Abstract!Has(Pool, v)
    BY <1>3 DEF Abstract!Has, Pool
  <1>5. Pool' = Abstract!Intern(Pool, v)
    BY <1>1, <1>2, <1>4 DEF Abstract!Intern, Pool
  <1>6. Abstract!IdOf(Pool', v) = new
    <2>1. IndInv'
      BY AddPreserves
    <2>2. ASSUME NEW i \in Live', values'[i] = v PROVE i = new
      <3>1. PICK w \in DOMAIN index' : i = index'[w]
        BY DEF Live
      <3>2. w = v
        BY <2>1, <2>2, <3>1 DEF IndInv, IndexMatchesValues
      <3> QED
        BY <1>1, <3>1, <3>2
    <2>3. new \in Live' /\ values'[new] = v
      BY <1>1, <1>2
    <2> QED
      BY <2>2, <2>3 DEF Abstract!IdOf, Pool
  <1>7. Told' = Told \cup {[content |-> v, id |-> new]}
    BY ToldGrows DEF Add
  <1> HIDE DEF new
  <1> QED
    BY <1>5, <1>6, <1>7 DEF Abstract!InternContent, Pool, Live, Told

\* A sweep is one Revoke.
LEMMA DeleteRefines ==
  ASSUME IndInv, NEW live \in SUBSET DOMAIN values, DeleteUnreachable(live)
  PROVE  Abstract!Revoke(live)
  <1>1. Live' = Live \cap live
    BY DEF DeleteUnreachable, Live
  <1>2. \A i : (\E v \in DOMAIN index : index[v] = i /\ i \notin live) <=> i \in Live \ live
    BY DEF Live
  <1>3. values' = [i \in DOMAIN values |-> IF i \in Live \ live THEN Nil ELSE values[i]]
    BY <1>2 DEF DeleteUnreachable
  <1>4. Pool' = Abstract!Sweep(Pool, live, Nil)
    BY <1>1, <1>3 DEF Abstract!Sweep, Pool
  <1>5. Told' = {h \in Told : h.id \in live}
    BY DEF Told, DeleteUnreachable
  <1> QED
    BY <1>4, <1>5 DEF Abstract!Revoke, Pool, Live, Told

\* The pool with two-phase locking implements the atomic intern table: every
\* lock region is one step of InternPool or invisible to it.
THEOREM Refinement == Spec => ImplementsInternPool
  <1>1. Init => Abstract!Init
    <2>1. Init => Live = {} /\ Told = {}
      BY DEF Init, Live, Told
    <2> QED
      BY <2>1 DEF Init, Abstract!Init, Abstract!EmptyPool, Live, Told
  <1>2. IndInv /\ [Next]_vars => [Abstract!Next]_<<Pool, Told>>
    <2> SUFFICES ASSUME IndInv, [Next]_vars PROVE [Abstract!Next]_<<Pool, Told>>
      OBVIOUS
    <2>1. CASE UNCHANGED <<values, index, held>>
      BY <2>1 DEF Pool, Live, Told
    <2>2. ASSUME NEW t \in Threads, pc[t] # "idle",
                 Abstract!InternContent(Normalise(arg[t]))
          PROVE  Abstract!Next
      <3>1. Normalise(arg[t]) \in Values
        BY <2>2 DEF IndInv, TypeOK, Values
      <3> QED
        BY <2>2, <3>1 DEF Abstract!Next, Abstract!InternContent
    <2>3. ASSUME NEW t \in Threads, FastPath(t) PROVE [Abstract!Next]_<<Pool, Told>>
      <3>1. CASE Normalise(arg[t]) \in DOMAIN index
        BY <2>2, <2>3, <3>1, ReturnRefines DEF FastPath
      <3>2. CASE Normalise(arg[t]) \notin DOMAIN index
        BY <2>1, <2>3, <3>2 DEF FastPath
      <3> QED
        BY <3>1, <3>2
    <2>4. ASSUME NEW t \in Threads, SlowPath(t) PROVE [Abstract!Next]_<<Pool, Told>>
      <3>1. CASE Normalise(arg[t]) \in DOMAIN index
        BY <2>2, <2>4, <3>1, ReturnRefines DEF SlowPath
      <3>2. CASE Normalise(arg[t]) \notin DOMAIN index
        BY <2>2, <2>4, <3>2, AddRefines DEF SlowPath
      <3> QED
        BY <3>1, <3>2
    <2>5. ASSUME NEW live \in SUBSET DOMAIN values, DeleteUnreachable(live)
          PROVE  Abstract!Next
      <3>1. Abstract!Revoke(live)
        BY <2>5, DeleteRefines
      <3> QED
        BY <3>1 DEF Abstract!Next
    <2>6. ASSUME NEW t \in Threads, NEW r \in RawValues, Call(t, r)
          PROVE  [Abstract!Next]_<<Pool, Told>>
      BY <2>1, <2>6 DEF Call
    <2>7. CASE UNCHANGED vars
      BY <2>1, <2>7 DEF vars
    <2> QED
      BY <2>3, <2>4, <2>5, <2>6, <2>7 DEF Next
  <1> QED
    BY <1>1, <1>2, Invariance, PTL
    DEF Spec, ImplementsInternPool, Abstract!Spec, Pool, Live, Told
=============================================================================
