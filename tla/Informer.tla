------------------------------ MODULE Informer ------------------------------
(***************************************************************************)
(* cache/informer.go: GVKInformer.Run, which lists one GVK from the API    *)
(* server, applies the result to the store and the indexer, then applies   *)
(* watch events until the stream breaks, sleeps, lists again and watches   *)
(* again.                                                                  *)
(*                                                                         *)
(* Runs are the goroutines executing Run of one informer: Cache may start  *)
(* several (see InformerLifecycle).  A step is what lies between two       *)
(* points where another goroutine or the server can act: a server call,    *)
(* one call of the store or the indexer, one select.                       *)
(*                                                                         *)
(* The API server is external.  Its history is log; an object is named by  *)
(* its resourceVersion, the position in log of the event that wrote it.    *)
(* Store and Indexer are represented by what they promise: the version     *)
(* each of them holds for every key.  Bookmark events change nothing and   *)
(* are left out; Upsert and Delete of the store never fail.                *)
(***************************************************************************)
EXTENDS Integers, Sequences, FiniteSets, FiniteSetsExt

CONSTANTS
  Keys,
  Runs,          \* goroutines executing Run of this informer
  Mortal,        \* those whose context may be cancelled
  MaxBackoff,    \* 30 seconds in Go
  MaxVersion,    \* bound: events in the server's log
  MaxFailures    \* bound: failed calls and broken streams

ASSUME InformerAssumption ==
  /\ Mortal \subseteq Runs
  /\ MaxBackoff \in Nat \ {0} /\ MaxVersion \in Nat /\ MaxFailures \in Nat

VARIABLES
  log,         \* the server's events
  failures,    \* calls that failed and streams that broke so far
  cancelled,   \* the Runs whose ctx is done
  store,       \* key -> version in the store, 0 if absent
  index,       \* key -> version last given to the indexer, 0 if removed
  since,       \* the version from which the handler is told, NoRV before it is added
  told,        \* key -> version the handler was last told of, 0 if none or deleted
  hasSynced,
  run          \* the local state of every Run

vars == <<log, failures, cancelled, store, index, since, told, hasSynced, run>>

\* The resourceVersion "" that a failed list returns.
NoRV == -1

\* An item or event: its object, and the one it replaces if it is an update.
Nothing == [key |-> "none", ver |-> 0, old |-> 0]

Init ==
  /\ log = <<>>
  /\ failures = 0
  /\ cancelled = {}
  /\ store = [k \in Keys |-> 0]
  /\ index = [k \in Keys |-> 0]
  /\ since \in {NoRV, 0}
  /\ told = [k \in Keys |-> 0]
  /\ hasSynced = FALSE
  /\ run = [r \in Runs |->
              [pc |-> "list",       \* next step
               initial |-> TRUE,    \* in the list before the loop
               rv |-> NoRV,         \* resourceVersion
               pos |-> 0,           \* the version the watch has delivered up to
               todo |-> {},         \* list items, or synthetic events, not yet applied
               cur |-> Nothing,     \* the item or event in hand
               backoff |-> 1]]

-----------------------------------------------------------------------------
(* The API server                                                          *)

Now == Len(log)

\* What exists after the first n events: key -> version, 0 if absent.
At(n) ==
  [k \in Keys |->
     LET about == {i \in 1..n : log[i].key = k} IN
     IF about = {} \/ log[Max(about \cup {1})].type = "DELETED" THEN 0 ELSE Max(about)]

Existing == {[key |-> k, ver |-> At(Now)[k], old |-> 0] : k \in {j \in Keys : At(Now)[j] # 0}}

Emit(type, k) ==
  /\ Now < MaxVersion
  /\ log' = Append(log, [type |-> type, key |-> k])
  /\ UNCHANGED <<failures, cancelled, store, index, since, told, hasSynced, run>>

ServerWrites(k)  == Emit(IF At(Now)[k] = 0 THEN "ADDED" ELSE "MODIFIED", k)
ServerDeletes(k) == At(Now)[k] # 0 /\ Emit("DELETED", k)

\* A call of r fails: its context is done, or the network or the server is at fault.
Failure(r) ==
  \/ r \in cancelled /\ UNCHANGED failures
  \/ failures < MaxFailures /\ failures' = failures + 1

Cancel(r) ==
  /\ r \in Mortal \ cancelled
  /\ cancelled' = cancelled \cup {r}
  /\ UNCHANGED <<log, failures, store, index, since, told, hasSynced, run>>

\* An event handler is added, at any time.  The event in hand is still announced
\* to it, because handlers are looked up after store and index are updated.
AddEventHandler ==
  /\ since = NoRV
  /\ since' = Max({0} \cup {IF run[r].pc \in {"eventIndex", "notify"} THEN run[r].pos - 1
                                                                   ELSE run[r].pos : r \in Runs})
  /\ UNCHANGED <<log, failures, cancelled, store, index, told, hasSynced, run>>

-----------------------------------------------------------------------------
(* list                                                                    *)

\* Run r goes on at pc with the given local changes.
Goto(r, pc) == run' = [run EXCEPT ![r].pc = pc]

ListReturns(r) ==
  /\ run[r].pc = "list"
  /\ run' = [run EXCEPT ![r].pc = "apply", ![r].todo = Existing, ![r].rv = Now]
  /\ UNCHANGED <<log, failures, cancelled, store, index, since, told, hasSynced>>

\* A failed initial list ends Run; a failed relist waits once more.
ListFails(r) ==
  /\ run[r].pc = "list"
  /\ Failure(r)
  /\ run' = [run EXCEPT ![r].pc = IF run[r].initial THEN "done" ELSE "wait",
                        ![r].rv = NoRV]
  /\ UNCHANGED <<log, cancelled, store, index, since, told, hasSynced>>

\* store.Upsert of one item of the list.
UpsertItem(r, it) ==
  /\ store' = [store EXCEPT ![it.key] = it.ver]
  /\ run' = [run EXCEPT ![r].pc = "applyIndex", ![r].cur = it, ![r].todo = @ \ {it}]

ApplyItem(r) ==
  /\ run[r].pc = "apply"
  /\ \E it \in run[r].todo : UpsertItem(r, it)
  /\ UNCHANGED <<log, failures, cancelled, index, since, told, hasSynced>>

\* indexer.UpdateIndex of the same item.
ApplyIndex(r) ==
  /\ run[r].pc = "applyIndex"
  /\ index' = [index EXCEPT ![run[r].cur.key] = run[r].cur.ver]
  /\ run' = [run EXCEPT ![r].pc = "apply", ![r].cur = Nothing]
  /\ UNCHANGED <<log, failures, cancelled, store, since, told, hasSynced>>

\* Mutated form: the list counts as complete before its items are applied.
ListDoneEarly(r) ==
  /\ run[r].pc = "apply"
  /\ hasSynced' = (hasSynced \/ run[r].initial)
  /\ run' = [run EXCEPT ![r].pc = "check", ![r].initial = FALSE, ![r].todo = {}, ![r].backoff = 1]
  /\ UNCHANGED <<log, failures, cancelled, store, index, since, told>>

\* list has returned.  The initial one sets hasSynced; both reset the backoff.
ListDone(r) ==
  /\ run[r].pc = "apply"
  /\ run[r].todo = {}
  /\ hasSynced' = (hasSynced \/ run[r].initial)
  /\ run' = [run EXCEPT ![r].pc = "check", ![r].initial = FALSE, ![r].backoff = 1]
  /\ UNCHANGED <<log, failures, cancelled, store, index, since, told>>

-----------------------------------------------------------------------------
(* watchLoop and handleEvent                                               *)

\* Mutated form: the watch starts at the present, whatever the list returned.
WatchOpensAtNow(r) ==
  /\ run[r].pc = "open"
  /\ run' = [run EXCEPT ![r].pc = "watch", ![r].pos = Now]
  /\ UNCHANGED <<log, failures, cancelled, store, index, since, told, hasSynced>>

\* A watch without resourceVersion starts with an ADDED event for everything
\* that exists; any other continues after the given version.
WatchOpens(r) ==
  /\ run[r].pc = "open"
  /\ run' = [run EXCEPT ![r].pc = "watch",
                        ![r].pos = IF run[r].rv = NoRV THEN Now ELSE run[r].rv,
                        ![r].todo = IF run[r].rv = NoRV THEN Existing ELSE {}]
  /\ UNCHANGED <<log, failures, cancelled, store, index, since, told, hasSynced>>

\* Mutated form: the replaced object is read after the new one is stored.
OldAfterUpsert(i) == IF log[i].type = "MODIFIED" THEN i ELSE 0

\* The object OnUpdate will show as the old one: for a MODIFIED event what the
\* store has before the upsert.  If it has none the event counts as an addition.
Old(i) == IF log[i].type = "MODIFIED" THEN store[log[i].key] ELSE 0

\* ADDED or MODIFIED: store.Upsert.
Upserts(r, it) ==
  /\ store' = [store EXCEPT ![it.key] = it.ver]
  /\ run' = [run EXCEPT ![r].pc = "eventIndex", ![r].cur = it,
                        ![r].todo = @ \ {it}, ![r].pos = IF it \in run[r].todo THEN @ ELSE @ + 1]
  /\ UNCHANGED <<log, failures, cancelled, index, since, told, hasSynced>>

\* DELETED: store.Delete.
Deletes(r, k) ==
  /\ store' = [store EXCEPT ![k] = 0]
  /\ run' = [run EXCEPT ![r].pc = "eventIndex", ![r].cur = [key |-> k, ver |-> 0, old |-> 0],
                        ![r].pos = @ + 1]
  /\ UNCHANGED <<log, failures, cancelled, index, since, told, hasSynced>>

\* The next event of the stream: the synthetic ones first.
HandleEvent(r) ==
  LET next == run[r].pos + 1 IN
  /\ run[r].pc = "watch"
  /\ \/ \E it \in run[r].todo : Upserts(r, it)
     \/ /\ run[r].todo = {}
        /\ next <= Now
        /\ \/ /\ log[next].type # "DELETED"
              /\ Upserts(r, [key |-> log[next].key, ver |-> next, old |-> Old(next)])
           \/ log[next].type = "DELETED" /\ Deletes(r, log[next].key)

\* Mutated form: a deleted object stays in the indexer.
EventIndexKeepsDeleted(r) ==
  /\ run[r].pc = "eventIndex"
  /\ index' = [index EXCEPT ![run[r].cur.key] = IF run[r].cur.ver = 0 THEN @ ELSE run[r].cur.ver]
  /\ Goto(r, "notify")
  /\ UNCHANGED <<log, failures, cancelled, store, since, told, hasSynced>>

\* indexer.UpdateIndex or indexer.RemoveIndex.
EventIndex(r) ==
  /\ run[r].pc = "eventIndex"
  /\ index' = [index EXCEPT ![run[r].cur.key] = run[r].cur.ver]
  /\ Goto(r, "notify")
  /\ UNCHANGED <<log, failures, cancelled, store, since, told, hasSynced>>

\* Mutated form: deletions are not reported.
NotifyUpsertsOnly(r) ==
  /\ run[r].pc = "notify"
  /\ told' = IF since = NoRV \/ run[r].cur.ver = 0
             THEN told ELSE [told EXCEPT ![run[r].cur.key] = run[r].cur.ver]
  /\ run' = [run EXCEPT ![r].pc = "watch", ![r].cur = Nothing]
  /\ UNCHANGED <<log, failures, cancelled, store, index, since, hasSynced>>

\* OnAdd, OnUpdate or OnDelete of the handler, if there is one by now.
Notify(r) ==
  /\ run[r].pc = "notify"
  /\ told' = IF since = NoRV THEN told ELSE [told EXCEPT ![run[r].cur.key] = run[r].cur.ver]
  /\ run' = [run EXCEPT ![r].pc = "watch", ![r].cur = Nothing]
  /\ UNCHANGED <<log, failures, cancelled, store, index, since, hasSynced>>

\* The Watch call fails, the channel is closed, an ERROR event or one with an
\* object of another type arrives: watchLoop returns an error.
WatchBreaks(r) ==
  /\ run[r].pc \in {"open", "watch"}
  /\ Failure(r)
  /\ run' = [run EXCEPT ![r].pc = "broken", ![r].todo = {}]
  /\ UNCHANGED <<log, cancelled, store, index, since, told, hasSynced>>

-----------------------------------------------------------------------------
(* The loop of Run                                                         *)

\* Mutated form: only watchLoop looks at the context.
StopsInWatchOnly(r) == r \in cancelled /\ run[r].pc = "watch" /\ Goto(r, "done")

\* The selects that have a case for ctx.Done.
Stops(r) ==
  /\ r \in cancelled
  /\ run[r].pc \in {"check", "watch", "broken", "sleep", "wait"}
  /\ Goto(r, "done")

\* Mutated form: a broken watch ends Run.
ProceedsGivingUp(r) ==
  \/ r \notin cancelled /\ run[r].pc = "check" /\ Goto(r, "open")
  \/ r \notin cancelled /\ run[r].pc = "broken" /\ Goto(r, "done")

\* The polls at the head of the loop and after watchLoop find ctx not done.
Proceeds(r) ==
  /\ r \notin cancelled
  /\ \/ run[r].pc = "check" /\ Goto(r, "open")
     \/ run[r].pc = "broken" /\ Goto(r, "sleep")

\* Mutated form: no upper bound.
DoubleUnbounded(b) == 2 * b

Double(b) == IF 2 * b > MaxBackoff THEN MaxBackoff ELSE 2 * b

\* Mutated form: the watch resumes where the last list was, without a new list.
WakesWithoutRelist(r) ==
  /\ run[r].pc \in {"sleep", "wait"}
  /\ run' = [run EXCEPT ![r].pc = "check", ![r].backoff = Double(@)]

\* time.After(backoff): relist after a broken watch, else back to the loop.
Wakes(r) ==
  \/ /\ run[r].pc = "sleep"
     /\ run' = [run EXCEPT ![r].pc = "list", ![r].backoff = Double(@)]
  \/ /\ run[r].pc = "wait"
     /\ run' = [run EXCEPT ![r].pc = "check", ![r].backoff = Double(@)]

Loop(r) ==
  /\ Stops(r) \/ Proceeds(r) \/ Wakes(r)
  /\ UNCHANGED <<log, failures, cancelled, store, index, since, told, hasSynced>>

Step(r) ==
  \/ ListReturns(r) \/ ListFails(r) \/ ApplyItem(r) \/ ApplyIndex(r) \/ ListDone(r)
  \/ WatchOpens(r) \/ HandleEvent(r) \/ EventIndex(r) \/ Notify(r) \/ WatchBreaks(r)
  \/ Loop(r)

Next ==
  \/ \E k \in Keys : ServerWrites(k) \/ ServerDeletes(k)
  \/ AddEventHandler
  \/ \E r \in Runs : Step(r) \/ Cancel(r)

Spec == Init /\ [][Next]_vars

\* The scheduler runs every goroutine, timers fire, calls return and the server
\* delivers its events.  Nothing obliges anyone to write or to cancel.
FairSpec == Spec /\ \A r \in Runs : WF_vars(Step(r))

-----------------------------------------------------------------------------
PCs == {"list", "apply", "applyIndex", "check", "open", "watch", "eventIndex", "notify",
        "broken", "sleep", "wait", "done"}

Item == [key : Keys, ver : 0..Now, old : 0..Now]

TypeOK ==
  /\ log \in Seq([type : {"ADDED", "MODIFIED", "DELETED"}, key : Keys])
  /\ failures \in 0..MaxFailures
  /\ cancelled \subseteq Mortal
  /\ store \in [Keys -> 0..Now] /\ index \in [Keys -> 0..Now] /\ told \in [Keys -> 0..Now]
  /\ since \in NoRV..Now /\ hasSynced \in BOOLEAN
  /\ run \in [Runs -> [pc : PCs, initial : BOOLEAN, rv : NoRV..Now, pos : 0..Now, todo : SUBSET Item,
                       cur : Item \cup {Nothing}, backoff : 1..MaxBackoff]]
  /\ \A r \in Runs : run[r].pc \in {"applyIndex", "eventIndex", "notify"} => run[r].cur \in Item

\* The version r's store should show, once nothing is in hand.
Seen(r) == IF run[r].pc = "watch" THEN run[r].pos ELSE run[r].rv

Settled(r) == run[r].pc \in {"check", "open", "watch"} /\ run[r].rv # NoRV

\* Until the first failure the store of a single Run is exactly what the server
\* had at the version the Run has reached: hasSynced means the whole snapshot is
\* there, and no event between list and watch is lost or applied twice.
ExactUntilFailure ==
  \A r \in Runs :
    failures = 0 /\ hasSynced /\ Settled(r) => store = At(Seen(r)) /\ index = At(Seen(r))

\* After any number of failures, relists and watches without version, every
\* object the server has at the version reached is in the store and the indexer
\* with the right content.  What deviates are only objects it no longer has.
NothingMissing ==
  \A r \in Runs : run[r].pc = "watch" =>
    \A k \in Keys :
      At(run[r].pos)[k] # 0 /\ (\A it \in run[r].todo : it.key # k)
        => store[k] = At(run[r].pos)[k] /\ index[k] = store[k]

\* Until the first failure the handler has been told of every change since the
\* list and since it was added, deletions included, and of nothing else: what
\* the list or the store already had is never announced to it.
HandlersFollowWatch ==
  \A r \in Runs : failures = 0 /\ run[r].pc = "watch" /\ since # NoRV =>
    told = [k \in Keys |-> IF At(run[r].pos)[k] > Max({run[r].rv, since})
                           THEN At(run[r].pos)[k] ELSE 0]

\* Until the first failure OnUpdate shows as the old object exactly the version
\* before the event, and OnAdd is for objects that were not there.
UpdatesShowPredecessor ==
  \A r \in Runs :
    failures = 0 /\ run[r].pc = "notify" /\ run[r].cur.ver # 0 =>
      run[r].cur.old = At(run[r].pos - 1)[run[r].cur.key]

\* The index agrees with the store whenever the Run is not between the two.
IndexFollowsStore ==
  (\A r \in Runs : run[r].pc \notin {"applyIndex", "eventIndex"}) => index = store

\* A single Run never replaces an object by an older one.
NeverOlder == [][\A k \in Keys : store'[k] = 0 \/ store'[k] >= store[k]]_vars

\* "Blocks until ctx is cancelled" (informer.go:77): a cancelled Run ends,
\* whatever it was doing.
CancelledRunsEnd == \A r \in Runs : r \in cancelled ~> run[r].pc = "done"

\* Not every context that a Run was given has ended.
Wanted == cancelled # Runs

\* Once the informer has synced, the server is quiet and failures are over, and
\* as long as a context says so, everything the server has is in the store, for
\* good: "cache is populated and kept up-to-date via the Kubernetes Watch API"
\* (README.md:17), for the objects that exist.  (A failed initial list ends Run: such an informer never syncs.)
EventuallyComplete ==
  <>[](hasSynced /\ Wanted => \A k \in Keys :
         At(Now)[k] # 0 => store[k] = At(Now)[k] /\ index[k] = store[k])

\* The same for the objects that no longer exist.
EventuallyNoGhosts ==
  <>[](hasSynced /\ Wanted => \A k \in Keys : At(Now)[k] = 0 => store[k] = 0)
=============================================================================
