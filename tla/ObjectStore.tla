---------------------------- MODULE ObjectStore ----------------------------
(***************************************************************************)
(* The promise of the Store interface (store/store.go): a map from object  *)
(* keys to objects.  Garbage collection is not an operation here, it must  *)
(* be invisible.                                                           *)
(***************************************************************************)
CONSTANTS Keys, Objects, Missing

VARIABLE contents

Init == contents = [k \in Keys |-> Missing]

Upsert(k, o) == contents' = [contents EXCEPT ![k] = o]

Delete(k) == contents' = [contents EXCEPT ![k] = Missing]

Next == \E k \in Keys : Delete(k) \/ \E o \in Objects : Upsert(k, o)

Spec == Init /\ [][Next]_contents
=============================================================================
