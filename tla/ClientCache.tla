---------------------------- MODULE ClientCache ----------------------------
(***************************************************************************)
(* client.go and the reading half of cache/cache.go: goroutines that call  *)
(* Get, Create, Update, Patch, Delete and DeleteAllOf of DedupClients over  *)
(* one Cache, beside the informer that keeps its store.  A write goes to    *)
(* the API server first; its answer is then written through to the store,  *)
(* and the entry of the reconstruction LRU is dropped, in a step each.      *)
(*                                                                         *)
(* The informer is that of module Informer, with all its Runs.  Server and  *)
(* store are shared: a client's write is an event of log, and both sides    *)
(* write store.  Workers may belong to one client or to several of a        *)
(* SharedStoreManager: these share the Cache, whose LRU is then off, and    *)
(* their own clientLRU stays empty because nothing ever puts into it, so    *)
(* InvalidateAllLRUs and the lookup in DedupClient.Get change nothing.      *)
(* A call that fails, at the server or before, returns without touching     *)
(* the cache; one that fails after the server has carried it out is a       *)
(* write by somebody else.                                                 *)
(***************************************************************************)
EXTENDS Informer

CONSTANTS
  Workers,      \* goroutines calling the clients
  Setups        \* [lru : size of reconstructLRU, 0 if there is none,
                \*  finalized : objects the server only marks when they are deleted]

ASSUME ClientAssumption == Setups \subseteq [lru : Nat, finalized : SUBSET Keys]

VARIABLES
  setup,        \* the configuration, which never changes
  lru,          \* reconstructLRU: key -> version, for the keys it has
  work,         \* the local state of every worker
  overtaken     \* history: keys whose last write-through came too late or too early

clientVars == <<setup, lru, work, overtaken>>
allVars == <<vars, clientVars>>

Idle == [pc |-> "idle",      \* next step
         key |-> "none",     \* the object in hand
         ver |-> 0,          \* its version
         todo |-> {}]        \* keys to delete, at the server or in the store

ClientInit ==
  /\ Init /\ since = 0
  /\ setup \in Setups
  /\ lru = [k \in {} |-> 0]
  /\ work = [w \in Workers |-> Idle]
  /\ overtaken = {}

-----------------------------------------------------------------------------
(* The informer beside the clients                                         *)

\* The server version up to which r has applied, or is applying.
Reached(r) == Max({run[r].rv, run[r].pos})

\* r has no snapshot yet.
Unlisted(r) == run[r].initial /\ run[r].pc = "list"

\* The key r has just written to the store, if any.
JustApplied(r) ==
  IF run[r].pc \in {"apply", "watch"} /\ run'[r].pc \in {"applyIndex", "eventIndex"}
  THEN {run'[r].cur.key} ELSE {}

\* The server and the informer know nothing of LRUs: neither list nor watch
\* events invalidate an entry.
Around ==
  /\ Next
  /\ overtaken' = overtaken \ UNION {JustApplied(r) : r \in Runs}
  /\ UNCHANGED <<setup, lru, work>>

-----------------------------------------------------------------------------
(* Get                                                                     *)

Returns(w) == work' = [work EXCEPT ![w] = Idle]

\* Get with an LRU that does not have k.  A hit returns lru[k], a Get without
\* LRU what the store has: both change nothing.
GetMiss(w, k) ==
  /\ work[w].pc = "idle"
  /\ setup.lru > 0 /\ k \notin DOMAIN lru
  /\ work' = [work EXCEPT ![w].pc = "read", ![w].key = k, ![w].ver = 0]
  /\ UNCHANGED <<vars, setup, lru, overtaken>>

\* store.Get.
ReadStore(w) ==
  LET k == work[w].key IN
  /\ work[w].pc = "read"
  /\ \/ store[k] = 0 /\ Returns(w)
     \/ store[k] # 0 /\ work' = [work EXCEPT ![w].pc = "fill", ![w].ver = store[k]]
  /\ UNCHANGED <<vars, setup, lru, overtaken>>

\* Mutated form: a full cache keeps all it has.
FillWithoutEvicting(w) ==
  LET k == work[w].key IN
  /\ work[w].pc = "fill"
  /\ lru' = [j \in DOMAIN lru \cup {k} |-> IF j = k THEN work[w].ver ELSE lru[j]]
  /\ Returns(w)
  /\ UNCHANGED <<vars, setup, overtaken>>

\* reconstructLRU.put; a full cache gives up an entry (which one: see LRUCache).
Fill(w) ==
  LET k == work[w].key
      roomy == k \in DOMAIN lru \/ Cardinality(DOMAIN lru) < setup.lru
      evicting == {DOMAIN lru \ {victim} : victim \in DOMAIN lru}
  IN
  /\ work[w].pc = "fill"
  /\ \E kept \in IF roomy THEN {DOMAIN lru} ELSE evicting :
       lru' = [j \in kept \cup {k} |-> IF j = k THEN work[w].ver ELSE lru[j]]
  /\ Returns(w)
  /\ UNCHANGED <<vars, setup, overtaken>>

-----------------------------------------------------------------------------
(* Writes: the call of the API server                                      *)

\* The server applies w's call to k, and w takes the answer to the store.
Answered(w, type, k, pc, todo) ==
  /\ work[w].pc = "idle"
  /\ Emit(type, k)
  /\ work' = [work EXCEPT ![w] = [pc |-> pc, key |-> k, ver |-> Now + 1, todo |-> todo]]
  /\ UNCHANGED <<setup, lru, overtaken>>

Create(w, k) == At(Now)[k] = 0 /\ Answered(w, "ADDED", k, "upsert", {})

\* The caller's object is not the library's.  An update made from the current
\* version succeeds; any other is refused as a conflict and changes nothing.
Update(w, k) == At(Now)[k] # 0 /\ Answered(w, "MODIFIED", k, "upsert", {})

Patch(w, k) == At(Now)[k] # 0 /\ Answered(w, "MODIFIED", k, "upsert", {})

\* Status().Update and SubResource(...).Patch write their answers through too.
SubResourceUpdate(w, k) == At(Now)[k] # 0 /\ Answered(w, "MODIFIED", k, "upsert", {})

SubResourcePatch(w, k) == At(Now)[k] # 0 /\ Answered(w, "MODIFIED", k, "upsert", {})

\* SubResource(...).Create applies to the object itself and drops the answer.
SubResourceCreate(w, k) ==
  /\ work[w].pc = "idle"
  /\ ServerWrites(k)
  /\ UNCHANGED clientVars

\* What the server makes of a deletion.
Removal(k) == IF k \in setup.finalized THEN "MODIFIED" ELSE "DELETED"

\* Mutated form: the object is deleted from the store when the server refuses, too.
DeleteAlthoughRefused(w, k) ==
  \/ At(Now)[k] # 0 /\ Answered(w, Removal(k), k, "sweep", {k})
  \/ /\ work[w].pc = "idle"
     /\ work' = [work EXCEPT ![w] = [pc |-> "sweep", key |-> k, ver |-> Now, todo |-> {k}]]
     /\ UNCHANGED <<vars, setup, lru, overtaken>>

Delete(w, k) == At(Now)[k] # 0 /\ Answered(w, Removal(k), k, "sweep", {k})

DeleteAllOf(w) ==
  /\ work[w].pc = "idle"
  /\ work' = [work EXCEPT ![w] = [pc |-> "collect", key |-> "none", ver |-> Now,
                                  todo |-> {it.key : it \in Existing}]]
  /\ UNCHANGED <<vars, setup, lru, overtaken>>

\* The server deletes one object of the collection, if it is still there.
Collect(w) ==
  /\ work[w].pc = "collect"
  /\ \E k \in work[w].todo :
       /\ work' = [work EXCEPT ![w].todo = @ \ {k}]
       /\ IF At(Now)[k] # 0 THEN Emit(Removal(k), k) ELSE UNCHANGED vars
  /\ UNCHANGED <<setup, lru, overtaken>>

\* DeleteCollection has returned; store.List names what the store has by now.
ListForDeletion(w) ==
  /\ work[w].pc = "collect"
  /\ work[w].todo = {}
  /\ work' = [work EXCEPT ![w].pc = "sweep", ![w].todo = {k \in Keys : store[k] # 0}]
  /\ UNCHANGED <<vars, setup, lru, overtaken>>

-----------------------------------------------------------------------------
(* Writes: the store and the LRU                                           *)

\* The store is given v for k by a call the server answered at version ver.
\* It came too late if a watch had delivered a later event about k, which v
\* now undoes; and too early if a Run has no snapshot yet, so that a deletion
\* before it goes unseen.  A removal is wrong if k was only marked.
WritesThrough(w, k, v) ==
  LET undoes(e) == e.key = k /\ (v = 0 => e.type # "DELETED")
      wrong == \/ \E r \in Runs : \/ Unlisted(r)
                                  \/ \E n \in work[w].ver + 1 .. Reached(r) : undoes(log[n])
               \/ v = 0 /\ k \in setup.finalized
  IN
  /\ store' = [store EXCEPT ![k] = v]
  /\ overtaken' = IF wrong THEN overtaken \cup {k} ELSE overtaken \ {k}
  /\ UNCHANGED <<log, failures, cancelled, index, since, told, hasSynced, run, setup>>

\* Mutated form: the object the caller sent is stored, not the server's answer.
UpsertSent(w) ==
  /\ work[w].pc = "upsert"
  /\ WritesThrough(w, work[w].key, work[w].ver - 1)
  /\ work' = [work EXCEPT ![w].pc = "invalidate"]
  /\ UNCHANGED lru

\* store.Upsert of the answer.
UpsertAnswer(w) ==
  /\ work[w].pc = "upsert"
  /\ WritesThrough(w, work[w].key, work[w].ver)
  /\ work' = [work EXCEPT ![w].pc = "invalidate"]
  /\ UNCHANGED lru

\* Mutated form: the LRU entry of a deleted object is not dropped.
DeleteStoredOnly(w) ==
  /\ work[w].pc = "sweep"
  /\ \E k \in work[w].todo :
       /\ WritesThrough(w, k, 0)
       /\ work' = [work EXCEPT ![w].todo = @ \ {k}]
  /\ UNCHANGED lru

\* store.Delete of the object deleted, or of the next one listed.
DeleteStored(w) ==
  /\ work[w].pc = "sweep"
  /\ \E k \in work[w].todo :
       /\ WritesThrough(w, k, 0)
       /\ work' = [work EXCEPT ![w].pc = "drop", ![w].key = k, ![w].todo = @ \ {k}]
  /\ UNCHANGED lru

\* Cache.InvalidateLRU: a deletion goes on with its next object, other calls
\* return with the server's answer in the caller's object.
InvalidateLRU(w) ==
  /\ work[w].pc \in {"invalidate", "drop"}
  /\ lru' = [k \in DOMAIN lru \ {work[w].key} |-> lru[k]]
  /\ work' = [work EXCEPT ![w] = IF @.pc = "drop" THEN [@ EXCEPT !.pc = "sweep", !.key = "none"]
                                                  ELSE Idle]
  /\ UNCHANGED <<vars, setup, overtaken>>

\* Nothing is left to delete from the store.
SweepDone(w) ==
  /\ work[w].pc = "sweep"
  /\ work[w].todo = {}
  /\ Returns(w)
  /\ UNCHANGED <<vars, setup, lru, overtaken>>

\* A call in progress goes on.
Continue(w) ==
  \/ ReadStore(w) \/ Fill(w) \/ Collect(w) \/ ListForDeletion(w)
  \/ UpsertAnswer(w) \/ DeleteStored(w) \/ InvalidateLRU(w) \/ SweepDone(w)

\* A worker calls the client.
Begin(w) ==
  \/ DeleteAllOf(w)
  \/ \E k \in Keys :
       \/ GetMiss(w, k) \/ Create(w, k) \/ Update(w, k) \/ Patch(w, k) \/ Delete(w, k)
       \/ SubResourceCreate(w, k) \/ SubResourceUpdate(w, k) \/ SubResourcePatch(w, k)

ClientNext == Around \/ \E w \in Workers : Begin(w) \/ Continue(w)

ClientSpec == ClientInit /\ [][ClientNext]_allVars

\* The scheduler runs the informer and every call in progress; nobody is obliged
\* to call.
ClientFairSpec ==
  /\ ClientSpec
  /\ WF_allVars(Around /\ run' # run)
  /\ \A w \in Workers : WF_allVars(Continue(w))

-----------------------------------------------------------------------------
ClientTypeOK ==
  /\ TypeOK
  /\ setup \in Setups
  /\ DOMAIN lru \subseteq Keys /\ Cardinality(DOMAIN lru) <= setup.lru
  /\ \A k \in DOMAIN lru : lru[k] \in 1..Now
  /\ work \in [Workers -> [pc : {"idle", "read", "fill", "collect", "upsert", "sweep",
                                "invalidate", "drop"},
                          key : Keys \cup {"none"}, ver : 0..Now, todo : SUBSET Keys]]
  /\ overtaken \subseteq Keys

\* r has applied its snapshot and is not in the middle of another list.
Following(r) == run[r].pc \in {"check", "open", "watch", "eventIndex", "notify"}

\* Beside a single Run, write-through and watch write the store, in any order.  Still,
\* once there is a snapshot, the store shows of every object a state the server had no
\* earlier than the last event the watch delivered, except where an answer was
\* overtaken by the watch, came before the snapshot or removed an object that
\* was only marked, and until the watch repairs it.
WithinWatchLag ==
  failures = 0 =>
    \A r \in Runs : Following(r) =>
      \A k \in Keys \ overtaken : \E n \in Reached(r)..Now : store[k] = At(n)[k]

\* An entry of the LRU differs from the store and nobody is about to drop it.
Stale(k) ==
  /\ k \in DOMAIN lru /\ lru[k] # store[k]
  /\ \A w \in Workers : work[w].pc \in {"invalidate", "drop"} => work[w].key # k

\* However reads and writes of clients interleave, an entry of the LRU becomes
\* stale only when the informer changes the store below it, or when a Get that
\* read the store before a write fills the LRU after it.
StaleByWatchOrLateFill ==
  [][\A k \in Keys : ~Stale(k) /\ Stale(k)' =>
       \/ run' # run
       \/ \E w \in Workers : work[w].pc = "fill" /\ work[w].key = k /\ work[w].ver # store[k]
    ]_allVars

\* What a Get that begins now returns.
Answer(k) == IF k \in DOMAIN lru THEN lru[k] ELSE store[k]

\* Without an LRU, reads catch up with the server for good once writes have
\* ceased, except where a write-through answer was overtaken; the index, which
\* no write-through touches, catches up everywhere.
ReadsCatchUp ==
  setup.lru = 0 =>
    <>[](hasSynced /\ failures = 0 /\ Wanted => \A k \in Keys :
           /\ k \notin overtaken => Answer(k) = At(Now)[k]
           /\ index[k] = At(Now)[k])

\* With an LRU: "all per-client LRU caches must be invalidated for that key" when
\* a watch event arrives (plans/shared-storage-analysis.md:418).
CachedReadsCatchUp ==
  <>[](hasSynced /\ failures = 0 /\ Wanted =>
         \A k \in DOMAIN lru : lru[k] = At(Now)[k])

\* Write-through answers: "the informer will eventually receive the same event
\* [...] the upsert is idempotent" (plans/design.md:498).
WriteThroughSettles ==
  <>[](hasSynced /\ failures = 0 /\ Wanted => \A k \in Keys : store[k] = At(Now)[k])
=============================================================================
