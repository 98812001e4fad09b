----------------------------- MODULE FieldIndex -----------------------------
(***************************************************************************)
(* What the Indexer promises: Lookup answers from the values the           *)
(* registered functions extracted from each object when it was last        *)
(* indexed.  An object indexed before a function was registered is not     *)
(* found through it until it is indexed again.                             *)
(***************************************************************************)
CONSTANTS Keys,      \* ObjectKeys
          GvkOf,     \* the GVK of each
          Fields,
          Values,    \* index values
          Funcs,     \* IndexerFuncs
          Objs,      \* objects
          Extract    \* the values each function extracts from each object

VARIABLES funcs,     \* <<gvk, field>> -> function, for the registered indexes
          found      \* what Lookup returns for every gvk, field and value

GVKs    == {GvkOf[k] : k \in Keys}
Lookups == GVKs \X Fields \X Values

Init ==
  /\ funcs = [x \in {} |-> 0]
  /\ found = [x \in Lookups |-> {}]

Register(g, f, fn) ==
  /\ <<g, f>> \notin DOMAIN funcs
  /\ funcs' = [x \in DOMAIN funcs \cup {<<g, f>>} |-> IF x = <<g, f>> THEN fn ELSE funcs[x]]
  /\ UNCHANGED found

\* The lookups that find an object with this content.
Entries(k, o) ==
  {x \in Lookups : /\ x[1] = GvkOf[k]
                   /\ <<x[1], x[2]>> \in DOMAIN funcs
                   /\ x[3] \in Extract[funcs[<<x[1], x[2]>>]][o]}

Reindex(k, entries) ==
  /\ found' = [x \in Lookups |-> (found[x] \ {k}) \cup (IF x \in entries THEN {k} ELSE {})]
  /\ UNCHANGED funcs

Next ==
  \/ \E g \in GVKs, f \in Fields, fn \in Funcs : Register(g, f, fn)
  \/ \E k \in Keys : Reindex(k, {}) \/ \E o \in Objs : Reindex(k, Entries(k, o))

Spec == Init /\ [][Next]_<<funcs, found>>
=============================================================================
