------------------------------ MODULE Queries ------------------------------
(***************************************************************************)
(* Cache.List and Cache.IndexField over the store and the Indexer: how     *)
(* client.ListOptions become options of DedupStore.List, what that call    *)
(* returns, and how it compares with the meaning Kubernetes gives the      *)
(* selectors and with the index that IndexField builds.                    *)
(*                                                                         *)
(* The store is what ObjectStore promises, a map from keys to objects.     *)
(* Store and indexer have a lock each: a Run of an informer writes to the  *)
(* store in one call and gives the object to the indexer in the next, the  *)
(* writers of client.go do only the first, and IndexField may come at any  *)
(* time.  Which objects they write, and when, is left open here.  An       *)
(* object is a record of its labels and of the text "%v" prints for each   *)
(* dotted path that leads somewhere in it.                                 *)
(***************************************************************************)
EXTENDS Indexer, Sequences, FiniteSets, FiniteSetsExt

CONSTANTS NsOf,             \* the namespace of each key
          LabelSelectors,   \* [selectable, reqs : sequence of [key, op, values]]
          FieldSelectors,   \* sequences of [field, op, value]
          PathIndexes,      \* <<field, func>>: func returns the value at the path field
          Runs,             \* goroutines executing Run of an informer
          Serves            \* the GVK of each

\* Requirements come in sequences, values in finite sets.
ASSUME SelectorsAssumption ==
  /\ \A ls \in LabelSelectors :
       /\ Len(ls.reqs) \in Nat /\ DOMAIN ls.reqs = 1..Len(ls.reqs)
       /\ \A i \in DOMAIN ls.reqs : IsFiniteSet(ls.reqs[i].values)
  /\ \A fs \in FieldSelectors : Len(fs) \in Nat /\ DOMAIN fs = 1..Len(fs)

ASSUME QueriesAssumption ==
  /\ PathIndexes \subseteq Fields \X Funcs
  /\ \A o \in Objs : DOMAIN o = {"labels", "fields"}
  /\ \A x \in PathIndexes, o \in Objs :
       Extract[x[2]][o] = IF x[1] \in DOMAIN o.fields THEN {o.fields[x[1]]} ELSE {}

VARIABLES
  objects,    \* the store: key -> object
  inHand,     \* Run -> the key it has written to the store and not yet given to the
              \* indexer, with its content: {object}, or {} if it was deleted
  crossed,    \* history: Runs whose key in hand somebody has written again since
  apart,      \* history: keys whose last write to the store and last call of the
              \* indexer do not belong together
  late        \* history: <<key, field>> such that the object was stored when the
              \* field was registered, and has not been given to the indexer since

queryVars == <<vars, objects, inHand, crossed, apart, late>>

QueryInit ==
  /\ Init
  /\ objects = [k \in {} |-> 0] /\ inHand = [r \in {} |-> 0]
  /\ crossed = {} /\ apart = {} /\ late = {}

-----------------------------------------------------------------------------
(* Cache.IndexField                                                        *)

\* The function is registered; objects that are stored already are not filed.
IndexField(g, f, fn) ==
  /\ AddIndex(g, f, fn)
  /\ late' = late \cup {<<k, f>> : k \in {j \in DOMAIN objects : GvkOf[j] = g}}
  /\ UNCHANGED <<objects, inHand, crossed, apart>>

-----------------------------------------------------------------------------
(* Writes to the store                                                     *)

\* k is written: whoever has it in hand will give the indexer an older content.
Written(k) ==
  /\ apart' = apart \cup {k}
  /\ crossed' = crossed \cup {r \in DOMAIN inHand : inHand[r].key = k}

\* store.Upsert.
Put(k, o) ==
  /\ objects' = [j \in DOMAIN objects \cup {k} |-> IF j = k THEN o ELSE objects[j]]
  /\ Written(k)
  /\ UNCHANGED <<vars, late>>

\* store.Delete: an object that is not stored is no error.
Drop(k) ==
  /\ objects' = [j \in DOMAIN objects \ {k} |-> objects[j]]
  /\ Written(k)
  /\ UNCHANGED <<vars, late>>

\* A Run that has nothing in hand writes an object of its GVK.
Takes(r, k, content) ==
  /\ r \notin DOMAIN inHand /\ Serves[r] = GvkOf[k]
  /\ inHand' = [q \in DOMAIN inHand \cup {r} |->
                  IF q = r THEN [key |-> k, content |-> content] ELSE inHand[q]]

\* A list item, or an ADDED or MODIFIED event.
RunUpserts(r, k, o) == Takes(r, k, {o}) /\ Put(k, o)

\* A DELETED event.
RunDeletes(r, k) == Takes(r, k, {}) /\ Drop(k)

\* The answer of Create, Update or Patch.
ClientUpserts(k, o) == Put(k, o) /\ UNCHANGED inHand

\* Delete, or the next object of DeleteAllOf.
ClientDeletes(k) == Drop(k) /\ UNCHANGED inHand

-----------------------------------------------------------------------------
(* The call of the indexer that follows in a Run                           *)

Gives(r) ==
  LET k == inHand[r].key IN
  /\ inHand' = [q \in DOMAIN inHand \ {r} |-> inHand[q]]
  /\ apart' = IF r \in crossed THEN apart \cup {k} ELSE apart \ {k}
  /\ crossed' = crossed \ {r}
  /\ late' = {x \in late : x[1] # k}
  /\ UNCHANGED objects

RunUpdatesIndex(r) ==
  /\ r \in DOMAIN inHand
  /\ \E o \in inHand[r].content : UpdateIndex(inHand[r].key, o)
  /\ Gives(r)

\* Mutated form: a deleted object is not taken out of the indexer.
RunSkipsRemoveIndex(r) ==
  /\ r \in DOMAIN inHand /\ inHand[r].content = {}
  /\ UNCHANGED vars
  /\ Gives(r)

RunRemovesIndex(r) ==
  /\ r \in DOMAIN inHand /\ inHand[r].content = {}
  /\ \/ RemoveIndex(inHand[r].key)
     \/ inHand[r].key \notin DOMAIN reverse /\ UNCHANGED vars
  /\ Gives(r)

RunNext(r) ==
  \/ RunUpdatesIndex(r) \/ RunRemovesIndex(r)
  \/ \E k \in Keys : RunDeletes(r, k) \/ \E o \in Objs : RunUpserts(r, k, o)

QueryNext ==
  \/ \E g \in GVKs, f \in Fields, fn \in Funcs : IndexField(g, f, fn)
  \/ \E r \in Runs : RunNext(r)
  \/ \E k \in Keys : ClientDeletes(k) \/ \E o \in Objs : ClientUpserts(k, o)

QuerySpec == QueryInit /\ [][QueryNext]_queryVars

-----------------------------------------------------------------------------
(* Cache.List                                                              *)

\* Mutated form: any value of a set-based requirement will do.
KeptAnyIn(reqs) == {i \in DOMAIN reqs : reqs[i].op \in {"=", "==", "in"} /\ reqs[i].values # {}}

\* The label requirements List passes on: equality with a single value.
Kept(reqs) ==
  {i \in DOMAIN reqs : reqs[i].op \in {"=", "==", "in"} /\ Cardinality(reqs[i].values) = 1}

\* labelMap: label -> value; a later requirement on a label replaces an earlier
\* one.  A selector that is not selectable sets no filter at all.
LabelMap(ls) ==
  LET kept == IF ls.selectable THEN Kept(ls.reqs) ELSE {}
      last(l) == Max({i \in kept : ls.reqs[i].key = l})
  IN  [l \in {ls.reqs[i].key : i \in kept} |-> CHOOSE v \in ls.reqs[last(l)].values : TRUE]

\* WithFieldSelector of every equality: path -> value, the last one given.
FieldMap(fs) ==
  LET kept == {i \in DOMAIN fs : fs[i].op \in {"=", "=="}}
      last(f) == Max({i \in kept : fs[i].field = f})
  IN  [f \in {fs[i].field : i \in kept} |-> fs[last(f)].value]

\* What Go's map lookup returns for a string map: "" if the key is absent.
TextAt(m, x) == IF x \in DOMAIN m THEN m[x] ELSE ""

\* Mutated form: labels the object does not have are not compared.
labelsMatchPresent(labels, selector) ==
  \A l \in DOMAIN selector \cap DOMAIN labels : labels[l] = selector[l]

\* An absent label counts as empty.
labelsMatch(labels, selector) == \A l \in DOMAIN selector : TextAt(labels, l) = selector[l]

\* A path that leads nowhere matches no value, not even the empty one.
fieldMatches(o, f, v) == f \in DOMAIN o.fields /\ o.fields[f] = v

\* The keys of the objects DedupStore.List returns.
StoreList(g, ns, labels, fields) ==
  {k \in DOMAIN objects :
     /\ GvkOf[k] = g
     /\ ns # "" => NsOf[k] = ns
     /\ labelsMatch(objects[k].labels, labels)
     /\ \A f \in DOMAIN fields : fieldMatches(objects[k], f, fields[f])}

List(g, ns, ls, fs) == StoreList(g, ns, LabelMap(ls), FieldMap(fs))

-----------------------------------------------------------------------------
(* What Kubernetes means by the same options                               *)

MeetsLabel(labels, req) ==
  LET has == req.key \in DOMAIN labels IN
  CASE req.op \in {"=", "==", "in"}  -> has /\ labels[req.key] \in req.values
    [] req.op \in {"!=", "notin"}    -> ~has \/ labels[req.key] \notin req.values
    [] req.op = "exists"             -> has
    [] req.op = "!"                  -> ~has

MeetsField(fields, req) ==
  CASE req.op \in {"=", "=="} -> TextAt(fields, req.field) = req.value
    [] req.op = "!="          -> TextAt(fields, req.field) # req.value

Meant(g, ns, ls, fs) ==
  {k \in DOMAIN objects :
     /\ GvkOf[k] = g /\ (ns # "" => NsOf[k] = ns)
     /\ ls.selectable /\ \A i \in DOMAIN ls.reqs : MeetsLabel(objects[k].labels, ls.reqs[i])
     /\ \A i \in DOMAIN fs : MeetsField(objects[k].fields, fs[i])}

Namespaces == {""} \cup {NsOf[k] : k \in Keys}

\* Whatever selectors it cannot express are given, List leaves out nothing that
\* was asked for: it drops requirements, it never adds one.  (Except an object
\* without the field when the field is asked to be empty.)
NeverOmits ==
  \A g \in GVKs, ns \in Namespaces, ls \in LabelSelectors, fs \in FieldSelectors :
    (\A i \in DOMAIN fs : fs[i].value # "") => Meant(g, ns, ls, fs) \subseteq List(g, ns, ls, fs)

\* Selectors the cache can express: single-valued equalities, each label or
\* path once, none with the empty value, which absent labels and paths confuse.
Expressible(ls, fs) ==
  /\ ls.selectable
  /\ \A i \in DOMAIN ls.reqs :
       /\ ls.reqs[i].op \in {"=", "==", "in"}
       /\ \E v \in ls.reqs[i].values : v # "" /\ ls.reqs[i].values = {v}
       /\ \A j \in DOMAIN ls.reqs : ls.reqs[j].key = ls.reqs[i].key => j = i
  /\ \A i \in DOMAIN fs :
       /\ fs[i].op \in {"=", "=="} /\ fs[i].value # ""
       /\ \A j \in DOMAIN fs : fs[j].field = fs[i].field => j = i

\* For those List returns exactly what was asked for.
ExactIfExpressible ==
  \A g \in GVKs, ns \in Namespaces, ls \in LabelSelectors, fs \in FieldSelectors :
    Expressible(ls, fs) => List(g, ns, ls, fs) = Meant(g, ns, ls, fs)

\* List filters by path and never asks the index (plans/design.md:441 says it
\* does).  For an index over a path the two differ on a key only while a Run is
\* between its two calls; after a write of a client, or of another Run in between,
\* until a Run writes the key again; and, if IndexField did not come before the
\* objects ("Must be called before Start()", cache/cache.go:289), because Lookup
\* misses an object until a Run has brought it once more.
LookupAgreesWithList ==
  \A x \in DOMAIN funcs : <<x[2], funcs[x]>> \in PathIndexes =>
    \A v \in Values, k \in Keys \ apart :
      LET listed == StoreList(x[1], "", [l \in {} |-> ""], [f \in {x[2]} |-> v]) IN
      k \in Lookup(x[1], x[2], v) <=> k \in listed /\ <<k, x[2]>> \notin late
=============================================================================
