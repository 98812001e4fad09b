--------------------------- MODULE IndexerProofs ---------------------------
(***************************************************************************)
(* For every set of objects, fields and index functions: data and reverse  *)
(* stay mirror images, and Lookup answers from what was indexed last.  And  *)
(* for all selectors and objects: what Cache.List returns, beside what was  *)
(* meant and beside the index.                                             *)
(***************************************************************************)
EXTENDS Queries, FiniteSetTheorems, TLAPS

IndInv == TypeOK /\ Mirror

\* A lookup is a triple.
LEMMA LookupTriple ==
  ASSUME NEW x \in Lookups
  PROVE  /\ x = <<x[1], x[2], x[3]>>
         /\ x[1] \in GVKs /\ x[2] \in Fields /\ x[3] \in Values
         /\ <<x[2], x[3]>> \in Fields \X Values
  BY DEF Lookups

\* After Unfile an object is found by no lookup, all others as before.
LEMMA UnfileCorrect ==
  ASSUME IndInv, NEW k \in Keys
  PROVE  LET d == Unfile(k) IN
         /\ DOMAIN d \subseteq Lookups
         /\ \A x \in DOMAIN d : d[x] \in (SUBSET Keys) \ {{}}
         /\ \A x \in Lookups :
              (IF x \in DOMAIN d THEN d[x] ELSE {}) = Lookup(x[1], x[2], x[3]) \ {k}
  <1> DEFINE taken == {x \in DOMAIN data : x[1] = GvkOf[k] /\ <<x[2], x[3]>> \in Filed(k)}
             left(x) == IF x \in taken THEN data[x] \ {k} ELSE data[x]
             d == [x \in {y \in DOMAIN data : y \in taken => left(y) # {}} |-> left(x)]
  <1>1. Unfile(k) = d
    BY DEF Unfile
  <1>2. DOMAIN data \subseteq Lookups /\ \A x \in DOMAIN data : data[x] \in (SUBSET Keys) \ {{}}
    BY DEF IndInv, TypeOK
  <1>3. \A x \in DOMAIN data : left(x) = data[x] \ {k}
    <2> SUFFICES ASSUME NEW x \in DOMAIN data PROVE left(x) = data[x] \ {k}
      OBVIOUS
    <2>1. x = <<x[1], x[2], x[3]>> /\ x \in Lookups
      BY <1>2, LookupTriple
    <2>2. k \in data[x] <=> x \in taken
      BY <2>1 DEF IndInv, Mirror, Lookup
    <2> QED
      BY <2>2
  <1>4. \A x \in DOMAIN data : x \notin DOMAIN d => data[x] \ {k} = {}
    BY <1>3
  <1>5. ASSUME NEW x \in DOMAIN d
        PROVE  x \in DOMAIN data /\ d[x] = data[x] \ {k} /\ d[x] # {}
    <2>1. x \in DOMAIN data /\ d[x] = left(x) /\ (x \in taken => left(x) # {})
      OBVIOUS
    <2>2. x \notin taken => left(x) = data[x]
      OBVIOUS
    <2> QED
      BY <1>2, <1>3, <2>1, <2>2
  <1> HIDE DEF d
  <1>6. ASSUME NEW x \in Lookups
        PROVE  (IF x \in DOMAIN d THEN d[x] ELSE {}) = Lookup(x[1], x[2], x[3]) \ {k}
    <2>1. Lookup(x[1], x[2], x[3]) = IF x \in DOMAIN data THEN data[x] ELSE {}
      BY LookupTriple DEF Lookup
    <2> QED
      BY <1>4, <1>5, <2>1
  <1> QED
    BY <1>1, <1>2, <1>5, <1>6

\* What the functions extract is made of fields and values.
LEMMA PairsType ==
  ASSUME NEW k \in Keys, NEW o \in Objs PROVE Pairs(k, o) \subseteq Fields \X Values
  BY DEF Pairs

\* The place of a pair among the lookups of k's GVK.
LEMMA PlaceOfPair ==
  ASSUME NEW k \in Keys, NEW pairs \in SUBSET (Fields \X Values), NEW x \in Lookups
  PROVE  x \in {<<GvkOf[k], p[1], p[2]>> : p \in pairs}
           <=> x[1] = GvkOf[k] /\ <<x[2], x[3]>> \in pairs
  <1>1. \A p \in pairs : p = <<p[1], p[2]>>
    OBVIOUS
  <1> QED
    BY <1>1, LookupTriple

\* UpdateIndex files an object under exactly its pairs.
LEMMA UpdateCorrect ==
  ASSUME IndInv, NEW k \in Keys, NEW o \in Objs, UpdateIndex(k, o)
  PROVE  /\ DOMAIN data' \subseteq Lookups
         /\ \A x \in DOMAIN data' : data'[x] \in (SUBSET Keys) \ {{}}
         /\ \A x \in Lookups :
              Lookup(x[1], x[2], x[3])' =
                (Lookup(x[1], x[2], x[3]) \ {k})
                  \cup (IF x[1] = GvkOf[k] /\ <<x[2], x[3]>> \in Pairs(k, o) THEN {k} ELSE {})
  <1> DEFINE d == Unfile(k)
             pairs == Pairs(k, o)
             new == {<<GvkOf[k], p[1], p[2]>> : p \in pairs}
             at(x) == IF x \in DOMAIN d THEN d[x] ELSE {}
  <1>1. /\ DOMAIN d \subseteq Lookups
        /\ \A x \in DOMAIN d : d[x] \in (SUBSET Keys) \ {{}}
        /\ \A x \in Lookups : at(x) = Lookup(x[1], x[2], x[3]) \ {k}
    BY UnfileCorrect
  <1>2. pairs \in SUBSET (Fields \X Values)
    BY PairsType
  <1>3. data' = [x \in DOMAIN d \cup new |-> at(x) \cup (IF x \in new THEN {k} ELSE {})]
    BY DEF UpdateIndex, File
  <1>4. new \subseteq Lookups
    BY <1>2 DEF Lookups, GVKs
  <1>5. \A x \in Lookups : x \in new <=> x[1] = GvkOf[k] /\ <<x[2], x[3]>> \in pairs
    BY <1>2, PlaceOfPair
  <1> HIDE DEF d, pairs, new
  <1>6. ASSUME NEW x \in DOMAIN data' PROVE data'[x] \in (SUBSET Keys) \ {{}}
    BY <1>1, <1>3
  <1>7. ASSUME NEW x \in Lookups
        PROVE  Lookup(x[1], x[2], x[3])' = at(x) \cup (IF x \in new THEN {k} ELSE {})
    <2>1. Lookup(x[1], x[2], x[3])' = IF x \in DOMAIN data' THEN data'[x] ELSE {}
      BY LookupTriple DEF Lookup
    <2> QED
      BY <1>3, <2>1
  <1> QED
    BY <1>1, <1>3, <1>4, <1>5, <1>6, <1>7 DEF pairs

\* RemoveIndex takes an object out of every lookup and touches no other.
LEMMA RemoveCorrect ==
  ASSUME IndInv, NEW k \in Keys, RemoveIndex(k)
  PROVE  /\ DOMAIN data' \subseteq Lookups
         /\ \A x \in DOMAIN data' : data'[x] \in (SUBSET Keys) \ {{}}
         /\ \A x \in Lookups : Lookup(x[1], x[2], x[3])' = Lookup(x[1], x[2], x[3]) \ {k}
  <1>1. data' = Unfile(k)
    BY DEF RemoveIndex
  <1>2. ASSUME NEW x \in Lookups
        PROVE  Lookup(x[1], x[2], x[3])' = IF x \in DOMAIN data' THEN data'[x] ELSE {}
    BY LookupTriple DEF Lookup
  <1> QED
    BY <1>1, <1>2, UnfileCorrect

\* No object is filed before the first UpdateIndex.
LEMMA InitInv == Init => IndInv
  BY DEF Init, IndInv, TypeOK, Mirror, Lookup, Filed

\* Every step keeps data and reverse mirror images.
LEMMA NextInv == IndInv /\ [Next]_vars => IndInv'
  <1> SUFFICES ASSUME IndInv, [Next]_vars PROVE IndInv'
    OBVIOUS
  <1>1. ASSUME NEW g \in GVKs, NEW f \in Fields, NEW fn \in Funcs, AddIndex(g, f, fn)
        PROVE  IndInv'
    <2>1. TypeOK'
      BY <1>1 DEF AddIndex, IndInv, TypeOK
    <2>2. Mirror'
      BY <1>1 DEF AddIndex, IndInv, Mirror, Lookup, Filed
    <2> QED
      BY <2>1, <2>2 DEF IndInv
  <1>2. ASSUME NEW k \in Keys, NEW o \in Objs, UpdateIndex(k, o) PROVE IndInv'
    <2>1. \A j \in Keys : Filed(j)' = IF j = k THEN Pairs(k, o) ELSE Filed(j)
      BY <1>2 DEF UpdateIndex, Filed
    <2>2. TypeOK'
      BY <1>2, UpdateCorrect, PairsType DEF UpdateIndex, IndInv, TypeOK
    <2>3. Mirror'
      <3> SUFFICES ASSUME NEW j \in Keys, NEW x \in Lookups
                   PROVE  j \in Lookup(x[1], x[2], x[3])' <=>
                            x[1] = GvkOf[j] /\ <<x[2], x[3]>> \in Filed(j)'
        BY DEF Mirror
      <3>1. j \in Lookup(x[1], x[2], x[3]) <=>
              x[1] = GvkOf[j] /\ <<x[2], x[3]>> \in Filed(j)
        BY DEF IndInv, Mirror
      <3> QED
        BY <1>2, <2>1, <3>1, UpdateCorrect
    <2> QED
      BY <2>2, <2>3 DEF IndInv
  <1>3. ASSUME NEW k \in Keys, RemoveIndex(k) PROVE IndInv'
    <2>1. \A j \in Keys : Filed(j)' = IF j = k THEN {} ELSE Filed(j)
      BY <1>3 DEF RemoveIndex, Filed
    <2>2. TypeOK'
      BY <1>3, RemoveCorrect DEF RemoveIndex, IndInv, TypeOK
    <2>3. Mirror'
      <3> SUFFICES ASSUME NEW j \in Keys, NEW x \in Lookups
                   PROVE  j \in Lookup(x[1], x[2], x[3])' <=>
                            x[1] = GvkOf[j] /\ <<x[2], x[3]>> \in Filed(j)'
        BY DEF Mirror
      <3>1. j \in Lookup(x[1], x[2], x[3]) <=>
              x[1] = GvkOf[j] /\ <<x[2], x[3]>> \in Filed(j)
        BY DEF IndInv, Mirror
      <3> QED
        BY <1>3, <2>1, <3>1, RemoveCorrect
    <2> QED
      BY <2>2, <2>3 DEF IndInv
  <1>4. CASE UNCHANGED vars
    BY <1>4 DEF vars, IndInv, TypeOK, Mirror, Lookup, Filed
  <1> QED
    BY <1>1, <1>2, <1>3, <1>4 DEF Next

\* The invariant holds in every reachable state of the indexer.
THEOREM Invariance == Spec => []IndInv
  BY InitInv, NextInv, PTL DEF Spec

\* The maps keep their types: no emptied set of keys stays behind under a value
\* or in reverse (index.go:99).
THEOREM TypeCorrect == Spec => []TypeOK
  <1>1. IndInv => TypeOK
    BY DEF IndInv
  <1> QED
    BY <1>1, Invariance, PTL

\* An object is found by exactly the lookups reverse remembers (index.go:31),
\* after any sequence of AddIndex, UpdateIndex and RemoveIndex.
THEOREM AlwaysMirror == Spec => []Mirror
  <1>1. IndInv => Mirror
    BY DEF IndInv
  <1> QED
    BY <1>1, Invariance, PTL

Found == [x \in Lookups |-> Lookup(x[1], x[2], x[3])]

\* Lookup (index.go:62) answers from the last UpdateIndex or RemoveIndex of
\* every object: the indexer with its reverse map implements FieldIndex.
THEOREM Refinement == Spec => ImplementsFieldIndex
  <1>1. Init => Abstract!Init
    BY DEF Init, Abstract!Init, Abstract!Lookups, Abstract!GVKs, Lookups, GVKs, Lookup
  <1>2. IndInv /\ [Next]_vars => [Abstract!Next]_<<funcs, Found>>
    <2> SUFFICES ASSUME IndInv, [Next]_vars PROVE [Abstract!Next]_<<funcs, Found>>
      OBVIOUS
    <2>0. Abstract!Lookups = Lookups /\ Abstract!GVKs = GVKs
      BY DEF Abstract!Lookups, Abstract!GVKs, Lookups, GVKs
    <2>1. ASSUME NEW g \in GVKs, NEW f \in Fields, NEW fn \in Funcs, AddIndex(g, f, fn)
          PROVE  Abstract!Next
      <3>1. Abstract!Register(g, f, fn)
        BY <2>1 DEF AddIndex, Abstract!Register, Lookup
      <3> QED
        BY <2>0, <3>1 DEF Abstract!Next
    <2>2. ASSUME NEW k \in Keys, NEW o \in Objs, UpdateIndex(k, o) PROVE Abstract!Next
      <3>1. \A x \in Lookups : x \in Abstract!Entries(k, o) <=>
              x[1] = GvkOf[k] /\ <<x[2], x[3]>> \in Pairs(k, o)
        BY <2>0, LookupTriple DEF Abstract!Entries, Pairs
      <3>2. Found' = [x \in Lookups |->
              (Found[x] \ {k}) \cup (IF x \in Abstract!Entries(k, o) THEN {k} ELSE {})]
        BY <2>2, <3>1, UpdateCorrect DEF Found
      <3>3. Abstract!Reindex(k, Abstract!Entries(k, o))
        BY <2>0, <2>2, <3>2 DEF Abstract!Reindex, Found, UpdateIndex
      <3> QED
        BY <3>3 DEF Abstract!Next, Abstract!Reindex
    <2>3. ASSUME NEW k \in Keys, RemoveIndex(k) PROVE Abstract!Next
      <3>1. Found' = [x \in Lookups |-> (Found[x] \ {k}) \cup (IF x \in {} THEN {k} ELSE {})]
        BY <2>3, RemoveCorrect DEF Found
      <3>2. Abstract!Reindex(k, {})
        BY <2>0, <2>3, <3>1 DEF Abstract!Reindex, Found, RemoveIndex
      <3> QED
        BY <3>2 DEF Abstract!Next, Abstract!Reindex
    <2>4. CASE UNCHANGED vars
      BY <2>4 DEF vars, Found, Lookup
    <2> QED
      BY <2>1, <2>2, <2>3, <2>4 DEF Next
  <1> QED
    BY <1>1, <1>2, Invariance, PTL DEF Spec, ImplementsFieldIndex, Abstract!Spec, Found

-----------------------------------------------------------------------------
(* What Cache.List makes of selectors                                      *)

\* A set of positions has a largest one.
LEMMA LastOf ==
  ASSUME NEW n \in Nat, NEW S \in SUBSET (1..n), S # {}
  PROVE  Max(S) \in S
<1> DEFINE R == StrictSubsetOrdering(1..n)
           F == {(x..n) : x \in S}
<1>1. IsWellFoundedOn(R, FiniteSubsetsOf(1..n))
  BY FS_StrictSubsetOrderingWellFounded
<1>2. F \subseteq FiniteSubsetsOf(1..n)
  <2>1. SUFFICES ASSUME NEW x \in S PROVE (x..n) \in FiniteSubsetsOf(1..n)
    OBVIOUS
  <2>2. x \in Int /\ (x..n) \subseteq (1..n) /\ IsFiniteSet(x..n)
    BY FS_Interval
  <2> QED BY <2>2 DEF FiniteSubsetsOf
<1>3. F # {}
  OBVIOUS
<1>4. PICK U \in F : \A V \in F : <<V, U>> \notin R
  <2> HIDE DEF R, F
  <2> QED BY <1>1, <1>2, <1>3, WFMin
<1>5. PICK x \in S : U = (x..n)
  OBVIOUS
<1>6. \A y \in S : x >= y
  <2>1. SUFFICES ASSUME NEW y \in S, y > x PROVE FALSE
    OBVIOUS
  <2>2. (y..n) \subseteq (x..n) /\ (x..n) \subseteq (1..n) /\ (y..n) \subseteq (1..n)
        /\ x \in (x..n) /\ x \notin (y..n)
    BY <2>1
  <2>3. <<(y..n), (x..n)>> \in R
    BY <2>2 DEF StrictSubsetOrdering
  <2> QED BY <1>4, <1>5, <2>3
<1> QED BY <1>6 DEF Max

\* Every label that is filtered by has the only value of a requirement on it.
LEMMA LabelFromReq ==
  ASSUME NEW ls \in LabelSelectors, NEW l \in DOMAIN LabelMap(ls)
  PROVE  \E i \in DOMAIN ls.reqs : /\ ls.selectable /\ ls.reqs[i].key = l /\ ls.reqs[i].op \in {"=", "==", "in"}
                                   /\ ls.reqs[i].values = {LabelMap(ls)[l]}
<1> DEFINE kept == IF ls.selectable THEN Kept(ls.reqs) ELSE {}
           about == {i \in kept : ls.reqs[i].key = l}
           i == Max(about)
<1>1. LabelMap(ls) = [m \in {ls.reqs[j].key : j \in kept} |->
                        CHOOSE v \in ls.reqs[Max({j \in kept : ls.reqs[j].key = m})].values : TRUE]
  BY DEF LabelMap
<1>2. l \in {ls.reqs[j].key : j \in kept} /\ LabelMap(ls)[l] = CHOOSE v \in ls.reqs[i].values : TRUE
  BY <1>1
<1>3. kept \subseteq DOMAIN ls.reqs /\ about # {} /\ about \in SUBSET (1..Len(ls.reqs)) /\ Len(ls.reqs) \in Nat
  BY <1>2, SelectorsAssumption DEF Kept
<1>4. i \in about
  <2> HIDE DEF about
  <2> QED BY <1>3, LastOf
<1>5. i \in DOMAIN ls.reqs /\ ls.selectable /\ ls.reqs[i].key = l /\ ls.reqs[i].op \in {"=", "==", "in"}
      /\ Cardinality(ls.reqs[i].values) = 1
  BY <1>4 DEF Kept
<1>6. PICK v : ls.reqs[i].values = {v}
  BY <1>5, SelectorsAssumption, FS_Singleton
<1>7. LabelMap(ls)[l] = v
  BY <1>2, <1>6
<1> QED BY <1>5, <1>6, <1>7

(* A field in the map form of a selector comes from a requirement that asks for that value. *)
LEMMA FieldFromReq ==
  ASSUME NEW fs \in FieldSelectors, NEW f \in DOMAIN FieldMap(fs)
  PROVE  \E i \in DOMAIN fs : fs[i].field = f /\ fs[i].op \in {"=", "=="} /\ fs[i].value = FieldMap(fs)[f]
<1> DEFINE kept == {i \in DOMAIN fs : fs[i].op \in {"=", "=="}}
           about == {i \in kept : fs[i].field = f}
           i == Max(about)
<1>1. FieldMap(fs) = [m \in {fs[j].field : j \in kept} |-> fs[Max({j \in kept : fs[j].field = m})].value]
  BY DEF FieldMap
<1>2. f \in {fs[j].field : j \in kept} /\ FieldMap(fs)[f] = fs[i].value
  BY <1>1
<1>3. kept \subseteq DOMAIN fs /\ about # {} /\ about \in SUBSET (1..Len(fs)) /\ Len(fs) \in Nat
  BY <1>2, SelectorsAssumption
<1>4. i \in about
  <2> HIDE DEF about
  <2> QED BY <1>3, LastOf
<1> QED BY <1>2, <1>4

\* A field is filtered by only where its path leads somewhere, so a requirement
\* of the empty value, which objects without the field meet, must not be given.
LEMMA MeantIsListed ==
  ASSUME NEW g, NEW ns, NEW ls \in LabelSelectors, NEW fs \in FieldSelectors,
         \A i \in DOMAIN fs : fs[i].value # "", NEW k \in Meant(g, ns, ls, fs)
  PROVE  k \in List(g, ns, ls, fs)
<1>1. /\ k \in DOMAIN objects /\ GvkOf[k] = g /\ (ns # "" => NsOf[k] = ns)
      /\ \A i \in DOMAIN ls.reqs : MeetsLabel(objects[k].labels, ls.reqs[i])
      /\ \A i \in DOMAIN fs : MeetsField(objects[k].fields, fs[i])
  BY DEF Meant
<1>2. ASSUME NEW l \in DOMAIN LabelMap(ls) PROVE TextAt(objects[k].labels, l) = LabelMap(ls)[l]
  <2>1. PICK i \in DOMAIN ls.reqs :
          /\ ls.selectable /\ ls.reqs[i].key = l /\ ls.reqs[i].op \in {"=", "==", "in"}
          /\ ls.reqs[i].values = {LabelMap(ls)[l]}
    BY LabelFromReq
  <2>2. MeetsLabel(objects[k].labels, ls.reqs[i])
    BY <1>1
  <2> QED BY <2>1, <2>2 DEF MeetsLabel, TextAt
<1>3. ASSUME NEW f \in DOMAIN FieldMap(fs) PROVE fieldMatches(objects[k], f, FieldMap(fs)[f])
  <2>1. PICK i \in DOMAIN fs : fs[i].field = f /\ fs[i].op \in {"=", "=="} /\ fs[i].value = FieldMap(fs)[f]
    BY FieldFromReq
  <2>2. MeetsField(objects[k].fields, fs[i]) /\ fs[i].value # ""
    BY <1>1
  <2> QED BY <2>1, <2>2 DEF MeetsField, TextAt, fieldMatches
<1> QED BY <1>1, <1>2, <1>3 DEF List, StoreList, labelsMatch

\* Where all requirements can be expressed, each of them filters.
LEMMA ListedIsMeant ==
  ASSUME NEW g, NEW ns, NEW ls \in LabelSelectors, NEW fs \in FieldSelectors,
         Expressible(ls, fs), NEW k \in List(g, ns, ls, fs)
  PROVE  k \in Meant(g, ns, ls, fs)
<1>1. /\ k \in DOMAIN objects /\ GvkOf[k] = g /\ (ns # "" => NsOf[k] = ns)
      /\ \A l \in DOMAIN LabelMap(ls) : TextAt(objects[k].labels, l) = LabelMap(ls)[l]
      /\ \A f \in DOMAIN FieldMap(fs) : fieldMatches(objects[k], f, FieldMap(fs)[f])
  BY DEF List, StoreList, labelsMatch
<1>2. ls.selectable
  BY DEF Expressible
<1>3. ASSUME NEW i \in DOMAIN ls.reqs PROVE MeetsLabel(objects[k].labels, ls.reqs[i])
  <2>1. PICK v \in ls.reqs[i].values : v # "" /\ ls.reqs[i].values = {v}
    BY DEF Expressible
  <2>2. /\ ls.reqs[i].op \in {"=", "==", "in"}
        /\ \A j \in DOMAIN ls.reqs : ls.reqs[j].key = ls.reqs[i].key => j = i
    BY DEF Expressible
  <2>3. i \in Kept(ls.reqs)
    BY <2>1, <2>2, FS_Singleton DEF Kept
  <2>4. ls.reqs[i].key \in DOMAIN LabelMap(ls)
    BY <1>2, <2>3 DEF LabelMap
  <2>5. LabelMap(ls)[ls.reqs[i].key] = v
    <3>1. PICK j \in DOMAIN ls.reqs : /\ ls.reqs[j].key = ls.reqs[i].key
                                      /\ ls.reqs[j].values = {LabelMap(ls)[ls.reqs[i].key]}
      BY <2>4, LabelFromReq
    <3> QED BY <2>1, <2>2, <3>1
  <2>6. TextAt(objects[k].labels, ls.reqs[i].key) = v
    BY <1>1, <2>4, <2>5
  <2> QED BY <2>1, <2>2, <2>6 DEF MeetsLabel, TextAt
<1>4. ASSUME NEW i \in DOMAIN fs PROVE MeetsField(objects[k].fields, fs[i])
  <2>1. /\ fs[i].op \in {"=", "=="} /\ \A j \in DOMAIN fs : fs[j].field = fs[i].field => j = i
    BY DEF Expressible
  <2>2. fs[i].field \in DOMAIN FieldMap(fs)
    BY <2>1 DEF FieldMap
  <2>3. FieldMap(fs)[fs[i].field] = fs[i].value
    <3>1. PICK j \in DOMAIN fs : fs[j].field = fs[i].field /\ fs[j].value = FieldMap(fs)[fs[i].field]
      BY <2>2, FieldFromReq
    <3> QED BY <2>1, <3>1
  <2>4. fieldMatches(objects[k], fs[i].field, fs[i].value)
    BY <1>1, <2>2, <2>3
  <2> QED BY <2>1, <2>4 DEF MeetsField, TextAt, fieldMatches
<1> QED BY <1>1, <1>2, <1>3, <1>4 DEF Meant

-----------------------------------------------------------------------------
(* The index beside the store                                              *)

\* What a store s has of k: one object or none.
Stored(s, k) == {s[j] : j \in DOMAIN s \cap {k}}

StoreTypes ==
  /\ DOMAIN objects \subseteq Keys /\ \A k \in DOMAIN objects : objects[k] \in Objs
  /\ \A r \in DOMAIN inHand :
       inHand[r].key \in Keys /\ (inHand[r].content = {} \/ \E o \in Objs : inHand[r].content = {o})

\* A Run whose key nobody has written since has in hand what the store has.
HandsCurrent == \A r \in DOMAIN inHand \ crossed : inHand[r].content = Stored(objects, inHand[r].key)

\* k is filed under what the functions extract from the stored object, except by
\* those that were registered too late for it.
FiledAsStored(k) ==
  \A p \in Fields \X Values :
    p \in Filed(k) <=> /\ k \in DOMAIN objects /\ p \in Pairs(k, objects[k])
                       /\ <<k, p[1]>> \notin late

InStep == \A k \in Keys \ apart : FiledAsStored(k)

QueryInv == IndInv /\ StoreTypes /\ HandsCurrent /\ InStep

\* For the Indexer, what Cache does to it is a sequence of its own operations.
LEMMA QueryNextIsNext == ASSUME QueryInv, QueryNext PROVE Next \/ UNCHANGED vars
<1>1. ASSUME NEW r \in Runs, RunUpdatesIndex(r) \/ RunRemovesIndex(r) PROVE Next \/ UNCHANGED vars
  <2>1. inHand[r].key \in Keys /\ inHand[r].content \subseteq Objs
    BY <1>1 DEF RunUpdatesIndex, RunRemovesIndex, QueryInv, StoreTypes
  <2> QED BY <1>1, <2>1 DEF RunUpdatesIndex, RunRemovesIndex, Next
<1> QED BY <1>1 DEF QueryNext, RunNext, IndexField, RunUpserts, RunDeletes, ClientUpserts,
                    ClientDeletes, Put, Drop, Next

\* A registration adds pairs of its own field only.
LEMMA PairsGrow ==
  ASSUME NEW g, NEW f, NEW fn, AddIndex(g, f, fn), NEW k, NEW o
  PROVE  /\ Pairs(k, o) \subseteq Pairs(k, o)'
         /\ \A p \in Pairs(k, o)' : p \in Pairs(k, o) \/ <<GvkOf[k], p[1]>> = <<g, f>>
         /\ \A p \in Pairs(k, o) : <<GvkOf[k], p[1]>> # <<g, f>>
<1>1. /\ <<g, f>> \notin DOMAIN funcs /\ DOMAIN funcs' = DOMAIN funcs \cup {<<g, f>>}
      /\ \A x \in DOMAIN funcs : funcs'[x] = funcs[x]
  BY DEF AddIndex
<1> QED BY <1>1 DEF Pairs

(* A field registered now files nothing, and everything stored is late for it. *)
LEMMA RegistrationStep ==
  ASSUME QueryInv, NEW g \in GVKs, NEW f \in Fields, NEW fn \in Funcs, IndexField(g, f, fn)
  PROVE  StoreTypes' /\ HandsCurrent' /\ InStep'
<1>1. /\ AddIndex(g, f, fn) /\ objects' = objects /\ reverse' = reverse
      /\ inHand' = inHand /\ crossed' = crossed /\ apart' = apart
      /\ late' = late \cup {<<k, f>> : k \in {j \in DOMAIN objects : GvkOf[j] = g}}
  BY DEF IndexField, AddIndex
<1>2. StoreTypes' /\ HandsCurrent'
  BY <1>1 DEF QueryInv, StoreTypes, HandsCurrent, Stored
<1>3. ASSUME NEW k \in Keys \ apart, NEW p \in Fields \X Values
      PROVE  p \in Filed(k)' <=> k \in DOMAIN objects /\ p \in Pairs(k, objects[k])' /\ <<k, p[1]>> \notin late'
  <2>1. Filed(k)' = Filed(k)
    BY <1>1 DEF Filed
  <2>2. p \in Filed(k) <=> k \in DOMAIN objects /\ p \in Pairs(k, objects[k]) /\ <<k, p[1]>> \notin late
    BY DEF QueryInv, InStep, FiledAsStored
  <2>3. CASE k \notin DOMAIN objects
    BY <2>1, <2>2, <2>3
  <2>4. CASE k \in DOMAIN objects /\ <<GvkOf[k], p[1]>> = <<g, f>>
    <3>1. p \notin Pairs(k, objects[k]) /\ <<k, p[1]>> \in late'
      BY <1>1, <2>4, PairsGrow
    <3> QED BY <2>1, <2>2, <3>1
  <2>5. CASE k \in DOMAIN objects /\ <<GvkOf[k], p[1]>> # <<g, f>>
    <3>1. <<k, p[1]>> \in late' <=> <<k, p[1]>> \in late
      BY <1>1, <2>5
    <3>2. p \in Pairs(k, objects[k])' <=> p \in Pairs(k, objects[k])
      BY <1>1, <2>5 DEF AddIndex, Pairs
    <3> QED BY <2>1, <2>2, <2>5, <3>1, <3>2
  <2> QED BY <2>3, <2>4, <2>5
<1>4. InStep'
  BY <1>1, <1>3 DEF InStep, FiledAsStored
<1> QED BY <1>2, <1>4

\* The store has o for k or, if there is no o in content, nothing; the rest stays.
Writes(k, content) ==
  /\ DOMAIN objects' = (DOMAIN objects \ {k}) \cup {j \in {k} : content # {}}
  /\ \A j \in DOMAIN objects \ {k} : objects'[j] = objects[j]
  /\ \A o \in content : objects'[k] = o

\* Nobody takes k in hand, or a Run that had nothing.
Carried(k, content) == inHand' = inHand \/ \E r : Takes(r, k, content)

(* A write sets its key apart and leaves all others as they were. *)
LEMMA WriteStep ==
  ASSUME QueryInv, NEW k \in Keys, Written(k), UNCHANGED <<vars, late>>,
         NEW content, content = {} \/ \E o \in Objs : content = {o},
         Writes(k, content), Carried(k, content)
  PROVE  StoreTypes' /\ HandsCurrent' /\ InStep'
<1>1. apart' = apart \cup {k} /\ crossed' = crossed \cup {r \in DOMAIN inHand : inHand[r].key = k}
  BY DEF Written
<1>2. /\ Stored(objects', k) = content /\ DOMAIN objects' \subseteq Keys
      /\ \A j \in DOMAIN objects' : objects'[j] \in Objs
      /\ \A j \in Keys \ {k} : Stored(objects', j) = Stored(objects, j)
  BY DEF Writes, Stored, QueryInv, StoreTypes
<1>3. ASSUME NEW q \in DOMAIN inHand'
      PROVE  \/ q \in DOMAIN inHand /\ inHand'[q] = inHand[q]
             \/ inHand'[q].key = k /\ inHand'[q].content = content
  <2>1. CASE inHand' = inHand
    BY <1>3, <2>1
  <2>2. ASSUME NEW r, Takes(r, k, content)
        PROVE  \/ q \in DOMAIN inHand /\ inHand'[q] = inHand[q]
               \/ inHand'[q].key = k /\ inHand'[q].content = content
    BY <1>3, <2>2 DEF Takes
  <2> QED BY <2>1, <2>2 DEF Carried
<1>4. StoreTypes'
  <2>1. ASSUME NEW q \in DOMAIN inHand'
        PROVE  inHand'[q].key \in Keys /\ (inHand'[q].content = {} \/ \E o \in Objs : inHand'[q].content = {o})
    BY <1>3, <2>1 DEF QueryInv, StoreTypes
  <2> QED BY <1>2, <2>1 DEF StoreTypes
<1>5. HandsCurrent'
  <2>1. ASSUME NEW q \in DOMAIN inHand', q \notin crossed'
        PROVE  inHand'[q].content = Stored(objects', inHand'[q].key)
    <3>1. CASE q \in DOMAIN inHand /\ inHand'[q] = inHand[q]
      <4>1. inHand[q].key \in Keys \ {k} /\ q \notin crossed
        BY <1>1, <2>1, <3>1 DEF QueryInv, StoreTypes
      <4>2. inHand[q].content = Stored(objects, inHand[q].key)
        BY <3>1, <4>1 DEF QueryInv, HandsCurrent
      <4> QED BY <1>2, <3>1, <4>1, <4>2
    <3>2. CASE inHand'[q].key = k /\ inHand'[q].content = content
      BY <1>2, <3>2
    <3> QED BY <1>3, <2>1, <3>1, <3>2
  <2> QED BY <2>1 DEF HandsCurrent, Stored
<1>6. InStep'
  <2>1. \A j : Filed(j)' = Filed(j)
    BY DEF vars, Filed
  <2>2. ASSUME NEW j \in Keys \ apart' PROVE FiledAsStored(j)'
    <3>1. FiledAsStored(j) /\ j # k
      BY <1>1, <2>2 DEF QueryInv, InStep
    <3>2. (j \in DOMAIN objects' <=> j \in DOMAIN objects) /\ (j \in DOMAIN objects => objects'[j] = objects[j])
      BY <3>1 DEF Writes
    <3>3. j \in DOMAIN objects => Pairs(j, objects[j])' = Pairs(j, objects[j])
      BY <3>2 DEF Pairs, vars
    <3>4. Filed(j)' = Filed(j) /\ late' = late
      BY <2>1
    <3> QED BY <3>1, <3>2, <3>3, <3>4 DEF FiledAsStored
  <2> QED BY <2>2 DEF InStep
<1> QED BY <1>4, <1>5, <1>6

(* The call of the indexer brings its key back in step, if nobody has written it since. *)
LEMMA GiveStep ==
  ASSUME QueryInv, NEW r \in DOMAIN inHand, Gives(r), funcs' = funcs,
         NEW k, k = inHand[r].key,
         \A j \in Keys \ {k} : Filed(j)' = Filed(j),
         \A p : p \in Filed(k)' <=> \E o \in inHand[r].content : p \in Pairs(k, o)
  PROVE  StoreTypes' /\ HandsCurrent' /\ InStep'
<1>1. /\ inHand' = [q \in DOMAIN inHand \ {r} |-> inHand[q]]
      /\ apart' = IF r \in crossed THEN apart \cup {k} ELSE apart \ {k}
      /\ crossed' = crossed \ {r} /\ late' = {x \in late : x[1] # k} /\ objects' = objects
  BY DEF Gives
<1>2. StoreTypes' /\ HandsCurrent'
  BY <1>1 DEF QueryInv, StoreTypes, HandsCurrent, Stored
<1>3. \A j, o : Pairs(j, o)' = Pairs(j, o)
  BY DEF Pairs
<1>4. ASSUME NEW j \in Keys \ apart', NEW p \in Fields \X Values
      PROVE  p \in Filed(j)' <=> j \in DOMAIN objects /\ p \in Pairs(j, objects[j]) /\ <<j, p[1]>> \notin late'
  <2>1. CASE j # k
    <3>1. p \in Filed(j) <=> j \in DOMAIN objects /\ p \in Pairs(j, objects[j]) /\ <<j, p[1]>> \notin late
      BY <1>1, <1>4, <2>1 DEF QueryInv, InStep, FiledAsStored
    <3>2. <<j, p[1]>> \in late' <=> <<j, p[1]>> \in late
      BY <1>1, <2>1
    <3> QED BY <2>1, <3>1, <3>2
  <2>2. CASE j = k
    <3>1. inHand[r].content = Stored(objects, k)
      BY <1>1, <1>4, <2>2 DEF QueryInv, HandsCurrent
    <3>2. <<k, p[1]>> \notin late'
      BY <1>1
    <3> QED BY <2>2, <3>1, <3>2 DEF Stored
  <2> QED BY <2>1, <2>2
<1>5. InStep'
  BY <1>1, <1>3, <1>4 DEF InStep, FiledAsStored, Pairs
<1> QED BY <1>2, <1>5

(* Every write of a Run or a client keeps the invariant. *)
LEMMA WritesKeepInv ==
  ASSUME QueryInv, NEW k \in Keys,
         \/ ClientDeletes(k) \/ \E o \in Objs : ClientUpserts(k, o)
         \/ \E r \in Runs : RunDeletes(r, k) \/ \E o \in Objs : RunUpserts(r, k, o)
  PROVE  StoreTypes' /\ HandsCurrent' /\ InStep'
<1>1. Written(k) /\ UNCHANGED <<vars, late>>
  BY DEF ClientDeletes, ClientUpserts, RunDeletes, RunUpserts, Put, Drop
<1>2. Drop(k) => Writes(k, {})
  BY DEF Drop, Writes
<1>3. \A o : Put(k, o) => Writes(k, {o})
  BY DEF Put, Writes
<1>4. CASE ClientDeletes(k)
  BY <1>1, <1>2, <1>4, WriteStep DEF ClientDeletes, Carried
<1>5. ASSUME NEW o \in Objs, ClientUpserts(k, o) PROVE StoreTypes' /\ HandsCurrent' /\ InStep'
  BY <1>1, <1>3, <1>5, WriteStep DEF ClientUpserts, Carried
<1>6. ASSUME NEW r \in Runs, RunDeletes(r, k) PROVE StoreTypes' /\ HandsCurrent' /\ InStep'
  BY <1>1, <1>2, <1>6, WriteStep DEF RunDeletes, Carried
<1>7. ASSUME NEW r \in Runs, NEW o \in Objs, RunUpserts(r, k, o) PROVE StoreTypes' /\ HandsCurrent' /\ InStep'
  BY <1>1, <1>3, <1>7, WriteStep DEF RunUpserts, Carried
<1> QED BY <1>4, <1>5, <1>6, <1>7

(* So does every call of the indexer by a Run. *)
LEMMA GivesKeepInv ==
  ASSUME QueryInv, NEW r \in Runs, RunUpdatesIndex(r) \/ RunRemovesIndex(r)
  PROVE  StoreTypes' /\ HandsCurrent' /\ InStep'
<1> DEFINE k == inHand[r].key
<1>1. r \in DOMAIN inHand /\ Gives(r) /\ k \in Keys
  BY DEF RunUpdatesIndex, RunRemovesIndex, QueryInv, StoreTypes
<1>2. CASE RunUpdatesIndex(r)
  <2>1. PICK o \in inHand[r].content : UpdateIndex(k, o)
    BY <1>2 DEF RunUpdatesIndex
  <2>2. inHand[r].content = {o}
    BY <1>1, <2>1 DEF QueryInv, StoreTypes
  <2>3. \A j : Filed(j)' = IF j = k THEN Pairs(k, o) ELSE Filed(j)
    BY <2>1 DEF UpdateIndex, Filed
  <2>4. funcs' = funcs
    BY <2>1 DEF UpdateIndex
  <2> HIDE DEF k
  <2> QED BY <1>1, <2>2, <2>3, <2>4, GiveStep DEF k
<1>3. CASE RunRemovesIndex(r)
  <2>1. inHand[r].content = {} /\ (RemoveIndex(k) \/ (k \notin DOMAIN reverse /\ UNCHANGED vars))
    BY <1>3 DEF RunRemovesIndex
  <2>2. (\A j : Filed(j)' = IF j = k THEN {} ELSE Filed(j)) /\ funcs' = funcs
    BY <2>1 DEF RemoveIndex, Filed, vars
  <2> HIDE DEF k
  <2> QED BY <1>1, <2>1, <2>2, GiveStep DEF k
<1> QED BY <1>2, <1>3

(* Every step of the Runs, the clients and IndexField keeps the invariant of the queries. *)
LEMMA QueryStep == ASSUME QueryInv, QueryNext PROVE QueryInv'
<1>1. IndInv'
  BY QueryNextIsNext, NextInv DEF QueryInv
<1>2. StoreTypes' /\ HandsCurrent' /\ InStep'
  BY RegistrationStep, WritesKeepInv, GivesKeepInv DEF QueryNext, RunNext
<1> QED BY <1>1, <1>2 DEF QueryInv

(* It holds before anything is stored. *)
LEMMA QueryInvInit == QueryInit => QueryInv
<1> SUFFICES ASSUME QueryInit PROVE QueryInv
  OBVIOUS
<1>1. /\ IndInv /\ objects = [k \in {} |-> 0] /\ inHand = [r \in {} |-> 0]
      /\ reverse = [k \in {} |-> {}]
  BY InitInv DEF QueryInit, Init
<1>2. \A k : Filed(k) = {}
  BY <1>1 DEF Filed
<1> QED BY <1>1, <1>2 DEF QueryInv, StoreTypes, HandsCurrent, InStep, FiledAsStored

(* So it always holds. *)
LEMMA QueryInvAlways == QuerySpec => []QueryInv
<1>1. QueryInv /\ [QueryNext]_queryVars => QueryInv'
  <2> SUFFICES ASSUME QueryInv, UNCHANGED queryVars PROVE QueryInv'
    BY QueryStep
  <2>1. /\ UNCHANGED vars /\ objects' = objects /\ inHand' = inHand /\ crossed' = crossed
        /\ apart' = apart /\ late' = late
    BY DEF queryVars
  <2>2. IndInv'
    BY <2>1, NextInv DEF QueryInv
  <2>3. funcs' = funcs /\ reverse' = reverse
    BY <2>1 DEF vars
  <2>4. StoreTypes' /\ HandsCurrent' /\ InStep'
    BY <2>1, <2>3 DEF QueryInv, StoreTypes, HandsCurrent, Stored, InStep, FiledAsStored, Filed, Pairs
  <2> QED BY <2>2, <2>4 DEF QueryInv
<1> QED BY <1>1, QueryInvInit, PTL DEF QuerySpec

\* Beside a store, the Indexer still is the one of index.go: IndexField, the
\* list and the watch use only its own methods.
THEOREM QueriesIndex == QuerySpec => Spec
<1>1. QueryInit => Init
  BY DEF QueryInit
<1>2. QueryInv /\ [QueryNext]_queryVars => [Next]_vars
  BY QueryNextIsNext DEF queryVars
<1> QED BY <1>1, <1>2, QueryInvAlways, PTL DEF QuerySpec, Spec

\* Cache.List drops the requirements it cannot express (cache.go:168) and never
\* adds one: for all selectors and all objects, nothing asked for is left out.
THEOREM ListNeverOmits == QuerySpec => []NeverOmits
<1>1. NeverOmits
  BY MeantIsListed DEF NeverOmits
<1> QED BY <1>1, PTL

\* Selectors of single-valued equalities, each label or path once and none with
\* the empty value, are answered exactly by Cache.List and labelsMatch.
THEOREM ListExactIfExpressible == QuerySpec => []ExactIfExpressible
<1>1. ExactIfExpressible
  <2> SUFFICES ASSUME NEW g \in GVKs, NEW ns \in Namespaces, NEW ls \in LabelSelectors, NEW fs \in FieldSelectors,
                      Expressible(ls, fs)
               PROVE  List(g, ns, ls, fs) = Meant(g, ns, ls, fs)
    BY DEF ExactIfExpressible
  <2>1. \A i \in DOMAIN fs : fs[i].value # ""
    BY DEF Expressible
  <2>2. \A k \in Meant(g, ns, ls, fs) : k \in List(g, ns, ls, fs)
    BY <2>1, MeantIsListed
  <2>3. \A k \in List(g, ns, ls, fs) : k \in Meant(g, ns, ls, fs)
    BY ListedIsMeant
  <2> QED BY <2>2, <2>3
<1> QED BY <1>1, PTL

(* What is filed as it is stored is found by path where the list finds it. *)
LEMMA LookupFollows == QueryInv => LookupAgreesWithList
<1> SUFFICES ASSUME QueryInv, NEW x \in DOMAIN funcs, <<x[2], funcs[x]>> \in PathIndexes, NEW v \in Values,
                    NEW k \in Keys \ apart
             PROVE  k \in Lookup(x[1], x[2], v) <=>
                      /\ k \in StoreList(x[1], "", [l \in {} |-> ""], [h \in {x[2]} |-> v])
                      /\ <<k, x[2]>> \notin late
  BY DEF LookupAgreesWithList
<1> DEFINE g == x[1]
           f == x[2]
<1>1. x = <<g, f>> /\ g \in GVKs /\ f \in Fields /\ funcs[x] \in Funcs /\ <<g, f, v>> \in Lookups
  BY DEF QueryInv, IndInv, TypeOK, Lookups
<1>2. k \in StoreList(g, "", [l \in {} |-> ""], [h \in {f} |-> v])
        <=> k \in DOMAIN objects /\ GvkOf[k] = g /\ fieldMatches(objects[k], f, v)
  BY DEF StoreList, labelsMatch
<1>3. \A o \in Objs : v \in Extract[funcs[x]][o] <=> fieldMatches(o, f, v)
  <2>1. \A h, fn : <<h, fn>> \in PathIndexes =>
          \A o \in Objs : Extract[fn][o] = IF h \in DOMAIN o.fields THEN {o.fields[h]} ELSE {}
    BY QueriesAssumption
  <2>2. \A o \in Objs : Extract[funcs[x]][o] = IF f \in DOMAIN o.fields THEN {o.fields[f]} ELSE {}
    BY <2>1
  <2> QED BY <2>2 DEF fieldMatches
<1>4. \A o \in Objs : GvkOf[k] = g => (<<f, v>> \in Pairs(k, o) <=> fieldMatches(o, f, v))
  BY <1>1, <1>3 DEF Pairs
<1>5. k \in Lookup(g, f, v) <=> GvkOf[k] = g /\ <<f, v>> \in Filed(k)
  BY <1>1 DEF QueryInv, IndInv, Mirror
<1>6. <<f, v>> \in Filed(k) <=> /\ k \in DOMAIN objects /\ <<f, v>> \in Pairs(k, objects[k])
                                /\ <<k, f>> \notin late
  BY <1>1 DEF QueryInv, InStep, FiledAsStored
<1>7. k \in DOMAIN objects => objects[k] \in Objs
  BY DEF QueryInv, StoreTypes
<1> HIDE DEF g, f
<1>8. k \in Lookup(g, f, v) <=>
        k \in StoreList(g, "", [l \in {} |-> ""], [h \in {f} |-> v]) /\ <<k, f>> \notin late
  BY <1>2, <1>4, <1>5, <1>6, <1>7
<1> QED BY <1>8 DEF g, f

\* Any number of Runs write to the store and then call the indexer, clients write
\* to the store only, fields are registered at any time: on every key whose last
\* write has reached the indexer, Lookup finds what Cache.List finds by the path,
\* but for the objects stored before the field was registered (cache.go:289).
THEOREM LookupIsList == QuerySpec => []LookupAgreesWithList
BY QueryInvAlways, LookupFollows, PTL
=============================================================================
