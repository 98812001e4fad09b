------------------------------ MODULE Scalars ------------------------------
(***************************************************************************)
(* The scalar values an Unstructured object can carry, and the conversion  *)
(* ValueInternPool.Intern (store/intern.go) and DedupStore.decompose       *)
(* (store/dedup_store.go) apply to them before they are stored.            *)
(*                                                                         *)
(* A Go scalar is a pair <<type, payload>>.  A type outside Go's switch    *)
(* (int8, float32, a struct ...) is "other"; its payload is the text that  *)
(* Sprintf("%v") prints for it.                                            *)
(***************************************************************************)
EXTENDS Integers

CONSTANT MaxInt64    \* the largest int64: 2^63 - 1 in Go, small in a model

ASSUME MaxInt64Assumption == MaxInt64 \in Nat

Nil == <<"nil">>

CanonicalTypes == {"string", "int64", "float64", "bool"}
IntegerTypes   == {"int", "int32", "uint", "uint32", "uint64"}

\* int64(t): two's complement, so an unsigned value above MaxInt64 turns negative.
ToInt64(n) == IF n > MaxInt64 THEN n - 2 * (MaxInt64 + 1) ELSE n

\* The type switch at the head of Intern.
Normalise(v) ==
  IF v[1] \in IntegerTypes THEN <<"int64", ToInt64(v[2])>>
  ELSE IF v[1] \in CanonicalTypes \cup {"nil"} THEN v
  ELSE <<"string", v[2]>>
=============================================================================
