---------------------------- MODULE MCDedupStore ----------------------------
(***************************************************************************)
(* Instance of DedupStore.  The objects share subtrees across objects,     *)
(* repeat one inside an object, use a map key as a scalar, store nil and   *)
(* an empty map, and spell one integer in two Go types.                    *)
(***************************************************************************)
EXTENDS DedupStore

Scalar(type, x) == [kind |-> "scalar", val |-> <<type, x>>]
Map(f)   == [kind |-> "map", entries |-> f]
Slice(s) == [kind |-> "slice", items |-> s]

AsString == Scalar("string", "a")
AsInt    == Scalar("int", 1)
AsInt64  == Scalar("int64", 1)
AsNil    == [kind |-> "scalar", val |-> Nil]
List     == Slice(<<AsString, AsInt>>)
Empty    == Map([k \in {} |-> AsNil])

Repeated == Map([k \in {"a", "b"} |-> List])
Mixed    == Map([k \in {"a", "b"} |-> IF k = "a" THEN AsInt64 ELSE AsNil])
Nested   == Map([k \in {"b"} |-> Empty])

MCObjects == {Repeated, Mixed, Nested}
MCTrees   == MCObjects \cup {List, Empty, AsString, AsInt, AsInt64, AsNil}
=============================================================================
