-------------------------- MODULE ValueInternPool --------------------------
(***************************************************************************)
(* store/intern.go: the pool of unique scalar values, with the two-phase   *)
(* locking of Intern.  A lock region is one action: the read-locked lookup *)
(* (FastPath), the write-locked re-check and append (SlowPath), and        *)
(* DeleteUnreachable.  Any number of goroutines interleave between them.   *)
(***************************************************************************)
EXTENDS Scalars, Sequences

CONSTANTS Threads,     \* goroutines calling Intern
          RawValues,   \* the non-nil Go values they intern
          MaxSlots     \* bound: number of slots ever allocated

ASSUME MaxSlotsAssumption == MaxSlots \in Nat

Values == {Normalise(r) : r \in RawValues}

ASSUME NilAssumption == Nil \notin Values

VARIABLES
  values,   \* ValueID -> value, from ID 1 on (ID 0 is the nil sentinel)
  index,    \* value -> ValueID
  pc,       \* where each goroutine is in Intern
  arg,      \* the raw value it is interning
  held      \* [raw, id] pairs Intern has returned and nobody has revoked

vars == <<values, index, pc, arg, held>>

Init ==
  /\ values = <<>>
  /\ index = [v \in {} |-> 0]
  /\ pc = [t \in Threads |-> "idle"]
  /\ arg = [t \in Threads |-> Nil]
  /\ held = {}

\* Resolve: nil for the sentinel, for an ID out of range and for a cleared slot.
Resolve(id) == IF id \in DOMAIN values THEN values[id] ELSE Nil

-----------------------------------------------------------------------------
\* A call of Intern with a non-nil value (nil returns 0 and touches nothing).
Call(t, r) ==
  /\ pc[t] = "idle"
  /\ pc' = [pc EXCEPT ![t] = "fast"]
  /\ arg' = [arg EXCEPT ![t] = r]
  /\ UNCHANGED <<values, index, held>>

\* Intern returns id to goroutine t.
Return(t, id) ==
  /\ pc' = [pc EXCEPT ![t] = "idle"]
  /\ held' = held \cup {[raw |-> arg[t], id |-> id]}
  /\ UNCHANGED arg

\* Lookup under the read lock.
FastPath(t) ==
  LET v == Normalise(arg[t]) IN
  /\ pc[t] = "fast"
  /\ UNCHANGED <<values, index>>
  /\ \/ v \in DOMAIN index /\ Return(t, index[v])
     \/ v \notin DOMAIN index /\ pc' = [pc EXCEPT ![t] = "slow"]
                              /\ UNCHANGED <<arg, held>>

Add(t, v) ==
  /\ Len(values) < MaxSlots
  /\ values' = Append(values, v)
  /\ index' = [w \in DOMAIN index \cup {v} |->
                 IF w = v THEN Len(values) + 1 ELSE index[w]]
  /\ Return(t, Len(values) + 1)

\* Mutated form: no second lookup after the write lock is taken.
SlowPathUnchecked(t) == pc[t] = "slow" /\ Add(t, Normalise(arg[t]))

\* Double-check under the write lock, then append.
SlowPath(t) ==
  LET v == Normalise(arg[t]) IN
  /\ pc[t] = "slow"
  /\ \/ v \in DOMAIN index /\ Return(t, index[v]) /\ UNCHANGED <<values, index>>
     \/ v \notin DOMAIN index /\ Add(t, v)

\* Mutated form: the slot is cleared, its index entry survives.
DeleteUnreachableKeepsIndex(live) ==
  /\ values' = [i \in DOMAIN values |->
                  IF \E v \in DOMAIN index : index[v] = i /\ i \notin live
                  THEN Nil ELSE values[i]]
  /\ held' = {h \in held : h.id \in live}
  /\ UNCHANGED <<index, pc, arg>>

\* Mutated form: dead slots are moved out of the way, so live IDs shift.
DeleteUnreachableCompacts(live) ==
  LET isLive(v) == v \in DOMAIN index /\ index[v] \in live IN
  /\ values' = SelectSeq(values, isLive)
  /\ index' = [v \in {w \in DOMAIN index : index[w] \in live} |->
                 CHOOSE i \in DOMAIN values' : values'[i] = v]
  /\ held' = {h \in held : h.id \in live}
  /\ UNCHANGED <<pc, arg>>

\* Every index entry outside live is deleted and its slot set to nil.
DeleteUnreachable(live) ==
  /\ values' = [i \in DOMAIN values |->
                  IF \E v \in DOMAIN index : index[v] = i /\ i \notin live
                  THEN Nil ELSE values[i]]
  /\ index' = [v \in {w \in DOMAIN index : index[w] \in live} |-> index[v]]
  /\ held' = {h \in held : h.id \in live}
  /\ UNCHANGED <<pc, arg>>

Next ==
  \/ \E t \in Threads :
       \/ \E r \in RawValues : Call(t, r)
       \/ FastPath(t)
       \/ SlowPath(t)
  \/ \E live \in SUBSET DOMAIN values : DeleteUnreachable(live)

Spec == Init /\ [][Next]_vars

-----------------------------------------------------------------------------
TypeOK ==
  /\ values \in Seq(Values \cup {Nil})
  /\ DOMAIN index \subseteq Values
  /\ \A v \in DOMAIN index : index[v] \in DOMAIN values
  /\ pc \in [Threads -> {"idle", "fast", "slow"}]
  /\ arg \in [Threads -> RawValues \cup {Nil}]
  /\ \A t \in Threads : pc[t] # "idle" => arg[t] \in RawValues
  /\ held \subseteq [raw : RawValues, id : DOMAIN values]

\* Index and slice are inverse on what is interned.
IndexMatchesValues == \A v \in DOMAIN index : values[index[v]] = v

\* Every ID that was handed out and not revoked is still indexed for its value.
HeldIndexed ==
  \A h \in held :
    /\ Normalise(h.raw) \in DOMAIN index
    /\ index[Normalise(h.raw)] = h.id

\* "Identical values always map to the same ValueID" (intern.go:12), however
\* the goroutines and DeleteUnreachable interleave: among the IDs callers may
\* still rely on, equal values have equal IDs, different values different ones,
\* and each ID resolves to its value.
HandlesCanonical ==
  /\ \A h \in held : Resolve(h.id) = Normalise(h.raw)
  /\ \A g, h \in held : Normalise(g.raw) = Normalise(h.raw) <=> g.id = h.id

\* An ID is never given to a second value: a stale ID resolves to the value it
\* was issued for or to nil, whatever DeleteUnreachable and Intern do later.
IdsNeverReused ==
  [][\A i \in DOMAIN values : /\ i \in DOMAIN values'
                              /\ values'[i] \in {values[i], Nil}]_vars

\* The pool is an atomic intern table: each call takes effect inside the lock
\* region that returns its ID.
Abstract == INSTANCE InternPool WITH
  Contents <- Values, Cleared <- Nil,
  pool <- [slots |-> values, live |-> {index[v] : v \in DOMAIN index}],
  held <- {[content |-> Normalise(h.raw), id |-> h.id] : h \in held}

\* The interleaved pool implements the atomic table of InternPool.
ImplementsInternPool == Abstract!Spec
=============================================================================
