--------------------------- MODULE MCClientCache ---------------------------
(* Instances of ClientCache: with an LRU of one entry, and without one but   *)
(* with an object that has finalizers.                                       *)
EXTENDS ClientCache

CONSTANTS k1, k2

MCPlain   == [lru |-> 0, finalized |-> {}]
MCMarking == [lru |-> 0, finalized |-> {k1}]
MCCaching == [lru |-> 1, finalized |-> {}]

MCSetups      == {MCMarking, MCCaching}
MCPlainOnly   == {MCPlain}
MCCachingOnly == {MCCaching}
=============================================================================
