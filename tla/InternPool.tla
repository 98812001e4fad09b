----------------------------- MODULE InternPool -----------------------------
(***************************************************************************)
(* What both intern pools promise: an atomic table from contents to IDs.   *)
(* Intern hands out the ID of a content, Sweep revokes the IDs outside the *)
(* set it is given.  held is what callers have been told and may still     *)
(* rely on.  ValueInternPool and SubtreeInternPool implement this module.  *)
(***************************************************************************)
EXTENDS PoolOps

CONSTANTS Contents,  \* what may be interned
          Cleared    \* what a revoked slot holds

VARIABLES pool, held

Init == pool = EmptyPool /\ held = {}

InternContent(c) ==
  /\ pool' = Intern(pool, c)
  /\ held' = held \cup {[content |-> c, id |-> IdOf(pool', c)]}

Revoke(keep) ==
  /\ pool' = Sweep(pool, keep, Cleared)
  /\ held' = {h \in held : h.id \in keep}

Next ==
  \/ \E c \in Contents : InternContent(c)
  \/ \E keep \in SUBSET DOMAIN pool.slots : Revoke(keep)

Spec == Init /\ [][Next]_<<pool, held>>
=============================================================================
