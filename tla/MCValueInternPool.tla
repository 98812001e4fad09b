------------------------- MODULE MCValueInternPool -------------------------
(* Instance of ValueInternPool: int64 is four bits wide.  The raw values    *)
(* are the number 1, the string "1" and a type that prints as it, and an    *)
(* unsigned 15, which wraps to -1, beside -1 itself.                        *)
EXTENDS ValueInternPool

MCRawValues ==
  {<<"int", 1>>, <<"string", "1">>, <<"other", "1">>,
   <<"uint64", 15>>, <<"int64", -1>>}
=============================================================================
