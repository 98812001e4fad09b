----------------------------- MODULE MCQueries -----------------------------
(* Instance of Queries: two objects of one GVK in two namespaces, kept by a  *)
(* Run, and one of another GVK that has no informer; clients write to all.   *)
(* Labels and fields that are set, empty or absent.                          *)
EXTENDS Queries

CONSTANTS a1, a2, b1

MCGvkOf  == [k \in {a1, a2, b1} |-> IF k = b1 THEN "B" ELSE "A"]
MCNsOf   == [k \in {a1, a2, b1} |-> IF k = a2 THEN "n2" ELSE "n1"]
MCServes == [r \in Runs |-> "A"]

Full == [labels |-> [app |-> "x", tier |-> "y"], fields |-> [owner |-> "x", node |-> "y"]]
Bare == [labels |-> [app |-> "y"], fields |-> [node |-> ""]]

MCPathIndexes == {<<"owner", "owner">>}

MCObjs == {Full, Bare}

ValueAt(o, path) == IF path \in DOMAIN o.fields THEN {o.fields[path]} ELSE {}

\* "owner" returns the value at that path, "both" may return two.
MCExtract ==
  [fn \in {"owner", "both"} |->
     [o \in MCObjs |-> IF fn = "owner" THEN ValueAt(o, "owner") ELSE ValueAt(o, "owner") \cup ValueAt(o, "node")]]

Req(l, op, values) == [key |-> l, op |-> op, values |-> values]

MCLabelSelectors ==
  [selectable : {TRUE},
   reqs : {<<>>,
           <<Req("app", "=", {"x"}), Req("app", "in", {"y"})>>,
           <<Req("app", "in", {"x", "y"})>>,
           <<Req("app", "in", {"y"}), Req("tier", "exists", {})>>,
           <<Req("app", "notin", {"x"}), Req("tier", "!", {})>>,
           <<Req("app", "=", {"y"}), Req("tier", "==", {""})>>,
           <<Req("app", "!=", {"y"}), Req("tier", "==", {"y"})>>,
           <<Req("tier", "in", {"y"})>>}]
    \cup {[selectable |-> FALSE, reqs |-> <<>>]}

FieldReq(f, op, v) == [field |-> f, op |-> op, value |-> v]

MCFieldSelectors ==
  {<<>>, <<FieldReq("node", "==", "")>>, <<FieldReq("owner", "!=", "x")>>,
   <<FieldReq("owner", "=", "x"), FieldReq("node", "=", "y")>>,
   <<FieldReq("owner", "=", "x"), FieldReq("owner", "=", "y")>>}
=============================================================================
