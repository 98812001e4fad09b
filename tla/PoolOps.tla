------------------------------ MODULE PoolOps ------------------------------
(***************************************************************************)
(* A content-addressed pool as a value: what ValueInternPool and           *)
(* SubtreeInternPool both compute once their locks and their lookup        *)
(* structures are abstracted away.                                         *)
(*                                                                         *)
(* slots is the Go slice from index 1 on (index 0 is the reserved          *)
(* sentinel), so an ID is a position in slots.  live holds the IDs the     *)
(* pool's index still knows; a slot outside live has been cleared by       *)
(* garbage collection and is never handed out again.                       *)
(***************************************************************************)
EXTENDS Integers, Sequences

EmptyPool == [slots |-> <<>>, live |-> {}]

Has(p, c)  == \E i \in p.live : p.slots[i] = c
IdOf(p, c) == CHOOSE i \in p.live : p.slots[i] = c

\* Intern: the existing ID if the content is known, else a fresh slot.
Intern(p, c) ==
  IF Has(p, c) THEN p
  ELSE [slots |-> Append(p.slots, c), live |-> p.live \cup {Len(p.slots) + 1}]

\* DeleteUnreachable: forget and clear every indexed ID outside keep.
Sweep(p, keep, cleared) ==
  [slots |-> [i \in DOMAIN p.slots |->
                IF i \in p.live \ keep THEN cleared ELSE p.slots[i]],
   live  |-> p.live \cap keep]

\* What makes a pool usable: every live ID holds a content, no content has two.
WellFormed(p, C) ==
  /\ p.live \subseteq DOMAIN p.slots
  /\ \A i \in p.live : p.slots[i] \in C
  /\ \A i, j \in p.live : p.slots[i] = p.slots[j] => i = j
=============================================================================
