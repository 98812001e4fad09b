------------------------------ MODULE Indexer ------------------------------
(***************************************************************************)
(* cache/index.go: the field indexes.  data answers lookups; reverse       *)
(* remembers where an object is filed, so that UpdateIndex and RemoveIndex *)
(* can take it out again without knowing its old content.  Every method    *)
(* holds idx.mu, so each is one action.                                    *)
(*                                                                         *)
(* Go's nested maps are flat here: data is keyed by <<gvk, field, value>>  *)
(* and reverse holds <<field, value>> pairs.  Keys without an entry are    *)
(* outside the domain, as in Go.                                           *)
(***************************************************************************)
EXTENDS Naturals

CONSTANTS Keys,      \* ObjectKeys
          GvkOf,     \* the GVK of each
          Fields,
          Values,    \* index values
          Funcs,     \* IndexerFuncs
          Objs,      \* objects
          Extract    \* the values each function extracts from each object

ASSUME ExtractAssumption == Extract \in [Funcs -> [Objs -> SUBSET Values]]

GVKs    == {GvkOf[k] : k \in Keys}
Lookups == GVKs \X Fields \X Values

VARIABLES
  funcs,     \* <<gvk, field>> -> IndexerFunc
  data,      \* <<gvk, field, value>> -> set of ObjectKeys
  reverse    \* ObjectKey -> set of <<field, value>>

vars == <<funcs, data, reverse>>

Init ==
  /\ funcs = [x \in {} |-> 0]
  /\ data = [x \in {} |-> {}]
  /\ reverse = [k \in {} |-> {}]

Lookup(g, f, v) == IF <<g, f, v>> \in DOMAIN data THEN data[<<g, f, v>>] ELSE {}

-----------------------------------------------------------------------------
\* A second registration for the same GVK and field is refused.
AddIndex(g, f, fn) ==
  /\ <<g, f>> \notin DOMAIN funcs
  /\ funcs' = [x \in DOMAIN funcs \cup {<<g, f>>} |-> IF x = <<g, f>> THEN fn ELSE funcs[x]]
  /\ UNCHANGED <<data, reverse>>

Filed(k) == IF k \in DOMAIN reverse THEN reverse[k] ELSE {}

\* data with k taken out of the places reverse names; empty sets are dropped.
Unfile(k) ==
  LET taken == {x \in DOMAIN data : x[1] = GvkOf[k] /\ <<x[2], x[3]>> \in Filed(k)}
      left(x) == IF x \in taken THEN data[x] \ {k} ELSE data[x]
  IN  [x \in {y \in DOMAIN data : y \in taken => left(y) # {}} |-> left(x)]

\* The pairs the registered functions extract from an object.
Pairs(k, o) ==
  {p \in Fields \X Values : /\ <<GvkOf[k], p[1]>> \in DOMAIN funcs
                            /\ p[2] \in Extract[funcs[<<GvkOf[k], p[1]>>]][o]}

\* d with k added under the given pairs.
File(d, k, pairs) ==
  LET new == {<<GvkOf[k], p[1], p[2]>> : p \in pairs} IN
  [x \in DOMAIN d \cup new |->
     (IF x \in DOMAIN d THEN d[x] ELSE {}) \cup (IF x \in new THEN {k} ELSE {})]

\* Mutated form: the old entries are not taken out first.
UpdateIndexNoRemove(k, o) ==
  /\ data' = File(data, k, Pairs(k, o))
  /\ reverse' = [x \in DOMAIN reverse \cup {k} |-> IF x = k THEN Pairs(k, o) ELSE reverse[x]]
  /\ UNCHANGED funcs

\* Take the object out, then file it under what the functions extract now.  An
\* object nothing is extracted from has no entry in reverse.
UpdateIndex(k, o) ==
  LET pairs == Pairs(k, o) IN
  /\ data' = File(Unfile(k), k, pairs)
  /\ reverse' = [x \in (DOMAIN reverse \ {k}) \cup {y \in {k} : pairs # {}} |->
                   IF x = k THEN pairs ELSE reverse[x]]
  /\ UNCHANGED funcs

\* Mutated form: reverse forgets the object, data does not.
RemoveIndexKeepsData(k) ==
  /\ k \in DOMAIN reverse
  /\ reverse' = [x \in DOMAIN reverse \ {k} |-> reverse[x]]
  /\ UNCHANGED <<funcs, data>>

\* Removing an object that is not filed changes nothing.
RemoveIndex(k) ==
  /\ k \in DOMAIN reverse
  /\ data' = Unfile(k)
  /\ reverse' = [x \in DOMAIN reverse \ {k} |-> reverse[x]]
  /\ UNCHANGED funcs

Next ==
  \/ \E g \in GVKs, f \in Fields, fn \in Funcs : AddIndex(g, f, fn)
  \/ \E k \in Keys : RemoveIndex(k) \/ \E o \in Objs : UpdateIndex(k, o)

Spec == Init /\ [][Next]_vars

-----------------------------------------------------------------------------
TypeOK ==
  /\ DOMAIN funcs \subseteq GVKs \X Fields
  /\ \A x \in DOMAIN funcs : funcs[x] \in Funcs
  /\ DOMAIN data \subseteq Lookups
  /\ \A x \in DOMAIN data : data[x] \in (SUBSET Keys) \ {{}}
  /\ DOMAIN reverse \subseteq Keys
  /\ \A k \in DOMAIN reverse : reverse[k] \in (SUBSET (Fields \X Values)) \ {{}}

\* data and reverse are mirror images: an object is found by exactly the
\* lookups reverse remembers for it, so a later update or removal takes it out
\* of every place it was put, and of no other.
Mirror ==
  \A k \in Keys : \A x \in Lookups :
    k \in Lookup(x[1], x[2], x[3]) <=> x[1] = GvkOf[k] /\ <<x[2], x[3]>> \in Filed(k)

Abstract == INSTANCE FieldIndex WITH
  found <- [x \in Lookups |-> Lookup(x[1], x[2], x[3])]

\* Lookup answers from the last UpdateIndex or RemoveIndex of every object.
ImplementsFieldIndex == Abstract!Spec
=============================================================================
