# A TLA+ model of kubeclient

kubeclient is a Kubernetes client with a cache that keeps every object of the
watched kinds in a *deduplicated* store: objects are cut into subtrees, equal
subtrees and equal scalars are stored once.  This directory models the parts
of it that carry state, checks them with TLC on small instances and proves the
safety properties with TLAPS for every value of the constants.

`PROJECT.json` is the index: components, runs, mutants, the map from every
definition to the source lines it models, findings, hazards and theorems.

1. [The system](#1-the-system)
2. [Modules](#2-modules)
3. [Runs](#3-runs)
4. [Bounds, symmetry, deadlock, fairness](#4-bounds-symmetry-deadlock-fairness)
5. [Proofs](#5-proofs)
6. [Findings](#6-findings)
7. [What is left out, and the plan](#7-what-is-left-out-and-the-plan)

## 1. The system

### Components

| Part | Source | State | Operations |
|---|---|---|---|
| ValueInternPool | `store/intern.go` | `values` (slice, ID 0 is nil), `index` | `Intern`, `Resolve`, `DeleteUnreachable`, `Len` |
| SubtreeInternPool | `store/subtree.go` | `nodes` (slice), `index` (hash -> candidates) | `Intern`, `Resolve`, `DeleteUnreachable`, `Len` |
| DedupStore | `store/dedup_store.go` | both pools, `objects`, `refcounts` | `Upsert`, `Delete`, `Get`, `List`, `Count`, `GC` |
| Store interface | `store/store.go` | none | the contract of DedupStore, list options |
| Indexer | `cache/index.go` | `funcs`, `data`, `reverse` | `AddIndex`, `Lookup`, `UpdateIndex`, `RemoveIndex` |
| lruCache | `cache/lru.go` | `items`, `order` | `get`, `put`, `delete`, `len` |
| GVKInformer | `cache/informer.go` | `hasSynced`, `handlers`; locals of `Run` | `Run`, `list`, `watchLoop`, `handleEvent`, `AddEventHandler` |
| InformerMap | `cache/informer_map.go` | `informers` | `GetOrCreate`, `Start`, `WaitForCacheSync` |
| Cache | `cache/cache.go` | `started`, `reconstructLRU` | `Get`, `List`, `IndexField`, `EnsureInformer`, `Start`, `InvalidateLRU` |
| DedupClient | `client.go` | `clientLRU` if it belongs to a manager | cached `Get` and `List`; write-through `Create`, `Update`, `Patch`, `Delete`, `DeleteAllOf` and the same for subresources |
| SharedStoreManager | `shared_manager.go` | `clients`, one Cache for all | `NewClient`, `InvalidateAllLRUs`, `Start`, `WaitForCacheSync` |
| Options, Codec, GVK helpers | `client_options.go`, `codec/`, `internal/` | configuration / none | conversions |

### How they interact

`DedupClient` sends writes to the API server and then applies the answer to the
store (write-through); reads go to `Cache`.  `Cache.Get` and `Cache.List` call
`EnsureInformer` with the context of the request, which registers a
`GVKInformer` in the `InformerMap` and, once the cache has been started, runs
it.  Each `Run` is a goroutine that lists, watches and applies what it sees to
the `DedupStore` and then to the `Indexer`, in two separate calls.  The store
interns values and nodes in the two pools, and everything it hands out is
rebuilt from them.  Locks: one `RWMutex` per pool, per store, per indexer, per
LRU, per informer map, per informer and per cache; nothing is held across two
components except the store's lock across its own pools.

### What is hard here, and what correctness means

* **Intern pools.** Both use double-checked locking, and garbage collection
  clears slots in place.  Correct: equal contents have equal IDs and different
  contents different ones, however calls interleave; a cleared slot never
  comes back.  Hash collisions must not matter.
* **DedupStore.** Sharing makes every write a write to common structure.
  Correct: it behaves as a map from keys to objects; GC is invisible; nothing
  live refers to something cleared; the counts add up.  Go's random map
  iteration must not defeat deduplication; a wrapped count must not lose an
  object.
* **Indexer.** A forward and a reverse map are kept in step over any sequence of
  registrations, updates and removals.  Correct: a lookup answers from the
  last update of every object.
* **LRU.** List and map are kept in step, at the capacity boundary in particular.
  Correct: the victim is the entry used longest ago.
* **Informer.** Lists, watches, failures, backoff and cancellation against a
  server that keeps changing.  Correct: what the server has arrives and stays,
  nothing gets older, a cancelled Run ends.
* **Lifecycle.** Registration races `Start`, and the context of a request becomes
  the context of a watch.  Correct: one informer per GVK, none forgotten, one
  watch each, a true `WaitForCacheSync` is true.
* **Queries.** `List` rebuilds and filters objects; selectors it cannot express are
  dropped.  Correct: nothing that was asked for is left out, and what it can
  express is exact; the index, which is written in a call of its own or not at all,
  agrees wherever the last write of an object has reached it.
* **Client.** Store and LRU are written by every client and by the informer, with
  nothing to order them, and a write takes three steps (server, store, LRU).
  Correct: the store never leaves the window between what the watch has
  delivered and what the server has, the LRU never outlives the store, and
  reads catch up when writes cease.  The code guarantees the first and the last
  with exceptions, which are named, and the second not at all.

The `hazards` of `PROJECT.json` list these at their lines.

## 2. Modules

| Module | Role |
|---|---|
| `Scalars` | the scalar values and the type switch at the head of `Intern` |
| `PoolOps` | a content-addressed pool as a value: `Intern`, `Sweep`, `WellFormed` |
| `InternPool` | abstract: an atomic table from contents to IDs |
| `ValueInternPool`, `SubtreeInternPool` | the two pools with their lock regions; both implement `InternPool` |
| `ObjectStore` | abstract: a map from keys to objects, GC not an operation |
| `DedupStore` | the store over two pools (as `PoolOps` values); implements `ObjectStore` |
| `FieldIndex` | abstract: lookups answered from the last update |
| `Indexer` | forward and reverse maps; implements `FieldIndex` |
| `RecencyCache` | abstract: an LRU stated with clocks |
| `LRUCache` | map and list; implements `RecencyCache` |
| `Informer` | the Runs of one informer, store, indexer and API server |
| `InformerLifecycle` | EnsureInformer, Start, WaitForCacheSync, contexts |
| `Queries` | the Runs and clients that write store and `Indexer`, IndexField, and List against the meaning of selectors |
| `ClientCache` | clients' reads and writes, the LRU, beside `Informer` |
| `MC*` | instances for TLC |
| `*Proofs` | theorems and their proofs |

**Composition.**  The pools are modelled twice on purpose: with their locks and
lookup structures in their own modules, and as atomic `PoolOps` values inside
`DedupStore`.  The refinement theorems of the pools (`ImplementsInternPool`)
justify the second form: `InternPool` is written with the same `PoolOps`
operators the store uses.  `Informer` in turn represents store and indexer by
what `ObjectStore` and `FieldIndex` promise, namely the version each holds for
a key; `Queries` puts `Indexer` beside a store that is a map; `ClientCache` extends
`Informer`, sharing its server and its store; and `InformerLifecycle` reduces a Run to its life (listing, watching,
dead), which `Informer` models in full.

### Correspondence with the code

**ValueInternPool, SubtreeInternPool.**  A goroutine calls `Intern` (`Call`),
takes the read lock (`FastPath`), and if that misses the write lock
(`SlowPath`, re-check and append).  `DeleteUnreachable` is one action with any
set of IDs to keep.  The Go slice is a sequence from ID 1 on.  `held` is not in
the code: it is what callers were told and has not been revoked, and the
properties are about it.  The value pool's raw values carry their Go type, and
`Normalise` is the type switch: integer types become `int64` with two's
complement wrap-around, unknown types the text `Sprintf` prints.  `ToInt64` keeps
the width through `MaxInt64`.  In the subtree pool the hash is an arbitrary
function of the content, so collisions happen at will; a bucket is the set of
its candidates because equal ones never coexist in it.

**DedupStore.**  `Upsert` holds the lock over several steps: `UpsertBegin`, then
one step per map key and per subtree it interns (`InternKey`, `Decompose`;
children before parents, which is what the recursion does), then
`UpsertCommit` with `decRef` of the old root and `incRef` of the new one.
The order among siblings is left open, which covers every iteration order of
Go's maps; `DecomposeMap` also builds the entries in every order before
`SortEntries`.  `GC` is `GCBegin` (drop zero counts, roots), `GCWalk` (one layer
of the walk) and `GCSweep` (both pools).  Nothing else is enabled while `mu` is
held, as in Go.  `incRef` and `decRef` visit a node once per path; `Visits`
counts the paths, `IncRef` adds modulo `RefMod`, `DecRef` stops at zero.  `Get`
is `Reconstruct` from the root; it returns `Missing` for an absent key and for
a root that is no map.  NaN (a float that never equals itself, so never found
in the value index) is not among the values.

**Indexer.**  Every method is one action under `idx.mu`.  The nested maps are
flat functions, keys without entry are outside the domain, and emptied sets
are dropped as in the code.  An index function is any function of the object.

**LRUCache.**  `get`, `put` (update, insert, insert with eviction) and `delete`
are the actions; `container/list` is a sequence with `ListRemove`, `PushFront`,
`MoveToFront`.  `used` and `now` are history variables that no action reads.

**Informer.**  A Run steps through `list` (the server call, then per item the
store's Upsert and the indexer's update), the check of the loop, the watch
(open, per event store, indexer, handlers), the broken watch, the sleep, the
relist and the sleep after a failed relist.  `Stops` are the selects on
`ctx.Done`.  The API server is external: a log of events, an object named by the
version that wrote it.  A list returns a snapshot and its version.  A watch
from a version continues there; a watch without version (after a failed relist,
where `resourceVersion` is `""`) starts with an ADDED event for everything that
exists.  A handler is represented by what it was last told (`told`); it may be
there before Run or be added at any time (`AddEventHandler`), and `since` is the
version from which it can have heard anything.  A MODIFIED event carries the
object `Old` finds in the store before the upsert, which decides between OnAdd
and OnUpdate.  Bookmarks change nothing.

**InformerLifecycle.**  `FastPath` and `SlowPath` are `GetOrCreate`;
`ReadStarted` and `LaunchUnsynced` the rest of `EnsureInformer`;
`SetStarted`, `LaunchRegistered` and `StartReturns` are `Start`.  An informer
object carries the name of the call that created it, so two objects for one GVK
would be distinct.  A Run is keyed by informer and context.  `WaitReturns` is a
round of `WaitForCacheSync` that finds everything synced.

**Queries.**  An object is its labels and the text of what each dotted path leads to.
Store and indexer have a lock each, and every write is a step of its own: a Run of
an informer writes the store (`RunUpserts`, `RunDeletes`) and then gives the object
it has in hand to the indexer (`RunUpdatesIndex`, `RunRemovesIndex`), while a write
of client.go does only the first (`ClientUpserts`, `ClientDeletes`).  Which objects
they write, and when, is left open; Runs and clients come in any number, and
`IndexField` at any time.  Three history variables, which no guard reads, say where
store and index need not agree: `apart` has the keys whose last write to the store
and last call of the indexer do not belong together, `crossed` the Runs whose object
in hand is no longer the latest, and `late` the objects that were stored when a field
was registered and have not been brought again.  `LabelMap` and
`FieldMap` are the loops of `Cache.List` that turn selectors into options of the
store, including what they drop and what they overwrite; `StoreList` is
`DedupStore.List`, `labelsMatch` and `fieldMatches` its filters, with Go's empty
string for an absent label.  `MeetsLabel`, `MeetsField` and `Meant` state what
Kubernetes means by the same options.  The order of the result, which is that
of a Go map, and the conversion to typed lists are left out.

**ClientCache.**  A worker is a goroutine in a call.  A Get of an object the LRU does
not have reads the store (`ReadStore`) and fills the LRU (`Fill`) in two steps;
a hit changes nothing.  A write calls the server (`Create`, `Update`, `Patch`,
`SubResource...`, `Delete`: an event of the log), stores the answer (`UpsertAnswer`,
`DeleteStored`) and drops the LRU's entry (`InvalidateLRU`); `DeleteAllOf` deletes
what the server has (`Collect`, one by one), then lists the store
(`ListForDeletion`) and deletes and drops what it finds.  `setup` is the
configuration: the size of the LRU, and which objects have finalizers, so that the
server only marks them when they are deleted.  Clients of one `SharedStoreManager`
are workers with the LRU off, as `NewSharedStoreManager` sets it; their own
LRUs are empty for ever, since nothing puts into them.  `overtaken` is a history
variable that no action reads: the objects whose last write-through was wrong when
it was stored, until the watch has repaired it.

## 3. Runs

Runs expected to pass:

| Run | Instance | States | Shows |
|---|---|---|---|
| `value_pool` | 2 goroutines, 5 spellings of 3 values, 4 slots | 121,021 | `HandlesCanonical`, `IdsNeverReused`, refinement of `InternPool` |
| `subtree_pool` | 2 goroutines, zero node, one colliding, one not, 4 slots | 8,965 | `HandlesCanonical`, `NoResurrection`, refinement |
| `dedup_store` | 2 keys, 3 objects sharing subtrees | 46,322 | `NoDangling`, `RootsLive`, `FullyDeduplicated`, `RefcountsArePaths`, `GCLeavesOnlyReachable`, `UpsertReadsBack`, refinement of `ObjectStore` |
| `queries` | 3 keys of 2 GVKs and 2 namespaces, 2 contents, 1 Run, clients writing any key, 9 label and 5 field selectors | 59,490 | `NeverOmits`, `ExactIfExpressible`, `LookupAgreesWithList`, `Mirror`, refinement of `FieldIndex` |
| `lru` | 4 keys, capacity 3, 6 uses | 5,695 | `ListMatchesItems`, `WithinCapacity`, refinement of `RecencyCache` |
| `informer` | 1 Run that may be cancelled, 1 handler, 2 keys, 3 events, 3 failures | 164,376 | `ExactUntilFailure`, `NothingMissing`, `HandlersFollowWatch`, `UpdatesShowPredecessor`, `IndexFollowsStore`, `NeverOlder`, `EventuallyComplete`, `CancelledRunsEnd` |
| `lifecycle` | 2 GVKs, 2 calls, one failed list | 350,016 | `OneObjectPerGVK`, `NoneForgotten`, `TrueMeansSynced`, `WaitEnds` |
| `client` | 2 goroutines, 2 keys, 2 events; an LRU of one entry, or none and one object with finalizers | 307,138 | `WithinWatchLag`, `StaleByWatchOrLateFill`, `ReadsCatchUp` |

Runs in which TLC finds the property violated (section 6): `informer_ghosts`,
`lifecycle_unwatched`, `client_lru`, `client_late`.

Every property of a passing run has a mutant in `PROJECT.json`: a form of one
modelled definition with a plausible bug (the second lookup dropped, entries
left unsorted, the sweep before the end of the walk, ...) under which TLC finds
the property violated.  The mutated forms stand before the definition they
replace and are marked `Mutated form`.

## 4. Bounds, symmetry, deadlock, fairness

**Bounds.**
* `MaxSlots`: slots a pool ever allocates.  4 slots for 2 to 3 contents let a
  content be interned, revoked and interned again under a new ID.  In the
  store no Upsert starts once 7 nodes exist; one object has at most 4 nodes and
  an Upsert that started may finish, so objects are replaced, deleted,
  collected and stored again.
* `MaxInt64 = 7`: a four-bit int64; 15 is an unsigned value above its range.
* `RefMod`: 1000 is never reached.  That counts which wrap endanger nothing is
  the theorem `NeverDangling`, which holds for every `RefMod`; that they count
  paths until one does is the theorem `CountsArePaths`.
* In the query run one Run writes the two objects of its GVK and clients write all
  three, between its two calls as well; two contents with labels and fields that are
  set, empty or absent meet every operator.  That two Runs cross each other's calls
  is covered by the proof of `LookupIsList`, which holds for any number of Runs.
* `MaxTime`: puts and hits of the LRU.  Six are enough to fill a cache of
  three, reorder it and evict.  That a size of zero or below means one is
  covered by the proof, which holds for every `Size`.
* `MaxVersion`, `MaxFailures`: events and failures in the informer runs.  Three
  events over two keys allow an object to be created, updated and deleted, or
  one to be deleted while another appears; three failures allow a broken watch,
  a failed relist and a broken watch without version.  The lifecycle has one
  failed initial list.  Two EnsureInformer calls race each other and Start; the
  proofs cover any number.
* In the client run two events are enough for a write by one client to be undone
  or followed by another's before its answer is stored, with a second object to
  evict and to sweep; an LRU of one entry is full at once.  No failures: what
  they do to the store is the informer runs' question.  One key with three
  events (561,363 states) gives the same answers.
* `MaxBackoff = 3`: the doubling meets its cap without being a power of two,
  as 30 seconds are not.

**Symmetry.**  No run uses it: most check temporal properties as well.

**Deadlock.**  It is checked in all pool, store, query and LRU runs.  It is off
(`CHECK_DEADLOCK FALSE`) in the informer runs, where a quiet watch at the end of
the bounded log is a legal final state, in the client runs for the same reason,
and in the lifecycle runs, where all
calls may have returned.

**Fairness.**  `Informer!FairSpec` has weak fairness of the steps of each Run:
the Go scheduler runs every goroutine, timers fire, server calls return or fail
and the server delivers the events of an open watch.  Failures are finite by
`MaxFailures`, so "eventually" means after the last failure.
`InformerLifecycle!FairSpec` has weak fairness of the goroutines that were
started, of each call in progress, of the rounds of `WaitForCacheSync`, and of
`SetStarted`: the application calls `Start`.  `ClientCache!ClientFairSpec` has weak
fairness of the informer's steps and of every call in progress.  Nobody is
obliged to write, to cancel or to call.

## 5. Proofs

The theorems hold for every value of the constants that satisfies the named
assumptions (`MaxInt64Assumption`, `MaxSlotsAssumption`, `NilAssumption`,
`HashAssumption`, `TreesAssumption`, `NoCycles`, `RefModAssumption`,
`ExtractAssumption`, `SelectorsAssumption`, `QueriesAssumption`, `SizeAssumption`,
`InformerAssumption`, `LifecycleAssumption`, `ClientAssumption`), which TLC
evaluates in the runs.  Two say something of the data: `NoCycles`, that no tree
contains itself (`decompose` would not return from one that does), and
`SelectorsAssumption`, that selectors are sequences and their value sets finite.

* **ValueInternPoolProofs.**  `IndInv = TypeOK /\ IndexMatchesValues /\
  HeldIndexed`: the index and the slots are inverse to each other, and what was
  handed out is still in the index.  `HandlesCanonical` needs both: that two
  equal values have one ID follows from both being entries of one map.  From it
  follow `HandlesAlwaysCanonical`, `NeverReused` (an action property) and
  `Refinement`: the fast path that hits and the slow path are the atomic
  `InternContent`, a fast path that misses stutters.
* **SubtreeInternPoolProofs.**  `IndInv = TypeOK /\ BucketsByHash /\
  BucketsDistinct /\ HeldIndexed`: a candidate is in the bucket of its content's
  hash, and no bucket has two equal ones.  The hash function is arbitrary.
  `HandlesAlwaysCanonical`, `NeverResurrected`, `Refinement`.
* **DedupStoreProofs**, for any set of trees and any `RefMod` (no overflow of the
  counts endangers an object).
  *What is referred to is live.*  `IndInv = TypeOK /\ WellFormed(values) /\
  WellFormed(subtrees) /\ NoDangling /\ RootsLive`.  `NoDangling` alone is not
  inductive: `UpsertCommit` needs that the memo of the call in progress points at
  live nodes, the sweep that what the walk marked is closed under children when
  the walk ends, and contains the roots.  `TypeCorrect`, `NeverDangling`,
  `RootsAlwaysLive`.
  *What is live reads as what was stored.*  `StoreInv` adds `Readable` (in every
  slot, cleared ones included, a map lists its entries sorted and under different
  strings, and children have smaller IDs than their parent), `Cleared` (a slot that
  is not live is empty) and `ReadsBack` (what `decompose` has returned reads as the
  tree it was given, every object as one that was).  Since children have smaller
  IDs, `Reconstruct` is well defined on every state (`ReadUnfolds`), does not
  change where nodes and values do not (`ReadAgrees`), and tells different nodes
  apart (`ReadInjective`, which is where sorted entries and canonical pools are
  needed).  Since no tree contains itself, `Normal` is well defined too.  From it
  follow `AlwaysReadable`, `Deduplicates`, `UpsertsReadBack` and `Refinement`: until
  its commit nothing of an Upsert is visible to Get, and nothing of GC ever.
  *What GC leaves.*  What the walk has marked is reachable (`MarkedReachable`), and
  what is reachable is marked when it ends: `GCExact`.
  *What the counts count.*  `CountsArePaths`: they are the numbers of paths from
  stored objects (`RefcountsArePaths`), in every behaviour in which no node is
  reached by `RefMod` paths (`NoOverflow`).  The hypothesis is needed: a decrement
  stops at zero, where a count that wrapped would have to go below.  `CountInv` adds
  to `StoreInv` that finitely many keys are stored.  Each object has its share of the
  paths to a node (`Share`); a share depends only on the nodes below the object's
  root (`VisitsAgree`: what nothing visited lists adds nothing), which interning does
  not change and the sweep does not take (`SlotsChange`); replacing a root replaces
  its share (`PathsSet`).  `Visits` is well defined from the root down, as
  `Reconstruct` is from the leaves up.
* **IndexerProofs.**  `IndInv = TypeOK /\ Mirror`.  `AlwaysMirror` and
  `Refinement`: unfiling by the reverse map takes an object out of every lookup.
  For `Queries`, with any selectors and objects: `ListNeverOmits` and
  `ListExactIfExpressible` hold in every state, because the loops of `Cache.List`
  only drop or weaken requirements (`LabelFromReq`, `FieldFromReq`: what is left in
  the maps came from a requirement).  `LookupIsList`, for any number of Runs and
  clients, needs `QueryInv`: a Run whose object nobody has written since has in hand
  what the store has (`HandsCurrent`), and every key that is not apart is filed under
  exactly what is extracted from its stored object, except for fields registered too
  late for it (`InStep`).  A write sets its key apart (`WriteStep`); the call of the
  indexer brings it back if it was not crossed (`GiveStep`).  `QueriesIndex` says
  that Cache uses the Indexer only through its operations, so that everything
  proved of `Indexer` holds in `Queries`.
* **LRUCacheProofs.**  `IndInv` has the list and the map agreeing, the list
  ordered by last use (`OrderIsRecency`) and its length within the capacity.
  `AlwaysMatching`, `AlwaysWithinCapacity`, `Refinement`: the back of the list
  is the one entry used longest ago.
* **InformerLifecycleProofs.**  `IndInv` adds to the three invariants that calls
  in progress know their GVK, that a synced informer was launched and that what
  a wait began with stays registered.  `NoneForgotten` rests on the order in
  `Start` (flag first, then the walk over the map) against the order in
  `EnsureInformer` (registration first, then the flag).  `AlwaysOneObject`,
  `NeverForgotten`, `AlwaysTrueMeansSynced`, for any number of calls and GVKs.
* **InformerProofs.**  For any number of Runs: `InformerTyped`, and `HandsAlways`,
  which says that the server's history is legal and that what a Run has in hand
  (the rest of a list, the synthetic events of a watch without version, the event
  being delivered) is what the server had at the version the Run is bringing the
  store to (`InHand`, by program point), and that a Run without failures lists
  once.  For one Run (`SingleRun`) the store follows: it holds no version beyond
  that goal, and every object that exists there and is not pending (`Tracks`); the
  index lags by the object in hand only (`Lags`); until the first failure both are
  exact, and the handler has been told of each event since it was added.  From these
  `ExactWithOneRun`, `NothingMissingWithOneRun`, `IndexFollowsWithOneRun`,
  `HandlersWithOneRun`, `PredecessorWithOneRun` and `NeverOlderWithOneRun`.
  `SingleRun` is a hypothesis of the theorems and not of the model: two Runs of one
  informer, which `EnsureInformer` can start, do undo each other's writes, and then
  the properties fail.
* **ClientCacheProofs.**  For any number of goroutines, objects and Runs: `StaleOnlySo`,
  clients alone make no LRU entry stale, but by a late fill.  Its invariant is only
  that the records have their fields (`Shapes`); the argument is in the steps: a
  write-through reaches the store together with the state in which its worker is
  about to drop the entry, and only dropping leaves that state.  `ClientInv` has the
  types of calls and LRU and what calls know: the answer a call is about to store is
  what its event wrote, and what it is about to delete was gone from the server at
  some time of the call (`CallsKnow`).  The part of `InformerProofs` about what Runs
  have in hand is proved again with clients writing to the same log, to which they
  only append (`RunsBesideClients`).  `ClientTyped`: the LRU stays within its capacity.
  With a single Run (`SingleRun`), for any number of goroutines and objects:
  `ReadsWithinWatchLag` rests on `ShownSoFar`, that each object that is neither
  pending nor overtaken is shown as the server had it at the Run's goal or later.
  The hypothesis is needed there alone: a second Run puts back what the first has
  passed.

Every module's `TypeOK` is a theorem as well.  For the pools, the indexer and the
LRU no run repeats what the theorem says.

**Induction.**  The library's induction theorems take an operator as parameter,
which the provers at hand cannot instantiate.  Where a proof needs induction over
IDs or trees it takes the smallest ID (`Smallest`, from the well-foundedness of
finite subsets), the largest one (`Largest`), the smallest set (`SmallestSet`, for
totals, which are recursions over subsets) or the innermost tree (`NoCycles`) that
would break the claim.

**Only model-checked.**  Liveness under fairness: `EventuallyComplete`,
`CancelledRunsEnd`, `WaitEnds`, `ReadsCatchUp`.  Every safety property of the passing
runs is a theorem, `RefcountsArePaths` under `NoOverflow`, and under `SingleRun` the
properties a second Run would break: six of `Informer`, and `WithinWatchLag` of
`ClientCache`.

## 6. Findings

| Run | What the code does |
|---|---|
| `informer_ghosts` | a deletion during a broken watch is never noticed: the relist only upserts (`cache/informer.go:126`) |
| `lifecycle_unwatched` | an informer started by a request loses its watch with the request's context and is never restarted (`cache/cache.go:320`) |
| `client_lru` | watch events do not invalidate the LRU: Get returns an object that has changed or is gone for ever (`cache/cache.go:111`) |
| `client_late` | the answer of a write, stored after the watch has delivered a newer event, undoes it for good (`client.go:155`) |

Differences between text and code that the passing runs pin down as the code
has them: an unsigned integer above the int64 range comes back negative
(`Scalars!ToInt64`; `store/intern.go:80` says that Resolve returns the original
value); `refcounts` counts paths (`RefcountsArePaths`; `store/dedup_store.go:28`
says object roots); objects that arrive by list are not announced to handlers
(`HandlersFollowWatch`; `cache/informer.go:22` says handlers are called when
objects are added).

What the passing runs say of the client, in terms a user can act on.  The store
deviates from the window between watch and server only for objects whose last
write-through was overtaken by the watch, was made before the informer's first
list, or deleted an object with finalizers; the next watch event about the object
repairs it (`WithinWatchLag`).  The index, which no write-through touches,
always catches up (`ReadsCatchUp`); design.md:466 has writes update it, so that a
lookup after a write may miss what Get already returns: `LookupAgreesWithList` names
the keys on which lookups and lists may differ, which are those written by a client
or crossed by another Run since the indexer was last given them, and those stored
before their index was registered (`cache/cache.go:289`).  Without an LRU every
other read catches up too.

Observed while reading, without a run: `GC` is never called by the library
(`gcInterval`, `client_options.go:41`) and `watchGVKs` is never read
(`client_options.go:56`); with more than one namespace all are watched
(`informer_map.go:61`); `DeleteAllOf` reads only the namespace of its options and
deletes all objects of the kind whatever the selectors (`client.go:313`; the comment
at line 295 says those matching the options); `labels.Nothing()` lists everything
(`cache.go:170`); a field selector for the empty value omits objects without the field
(`dedup_store.go:371`); `List` never asks the index (design.md:441 says it does); Update and
Create of a subresource other than status go to the object itself (`client.go:540`,
`client.go:491`), and the answer of a patch of a subresource with a kind of its own is
stored under the object's key (`client.go:616`); the per-client LRUs of the shared manager
are never filled (`shared_manager.go:25`); `EnsureInformer` starts a Run for each call while the
first is still listing (`cache.go:318`), and a second Run that lags and is cancelled
leaves an old version behind.

## 7. What is left out, and the plan

Not modelled: the codec (copies and conversions that share nothing with the store)
and the GVK helpers, which are stateless; options (setters); the content of the
FNV hash (any function); the LRUs and the list of clients of `SharedStoreManager`,
which nothing fills; logging, metrics.  `Informer` has any number of Runs, but its
TLC run has one: what holds with several is little (section 6).

What may come next is the little that does hold with several Runs of one informer
(what each has in hand, and when index and store agree, is proved for any number;
what the store then is, is not).

The runs are kept to a dozen: one per question, `queries` containing what a run
of the indexer alone would show.

The order so far: pools, store, indexer and LRU first because everything rests
on them, then the informer and its lifecycle, then the queries and the clients
that use them all.
