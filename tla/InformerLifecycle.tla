------------------------- MODULE InformerLifecycle -------------------------
(***************************************************************************)
(* Who starts informers: Cache.EnsureInformer, called by every cached Get  *)
(* and List with the caller's context, races Cache.Start, which runs the   *)
(* informers registered so far (cache/cache.go, cache/informer_map.go).    *)
(* WaitForCacheSync waits for what is registered.                          *)
(*                                                                         *)
(* A step is one region of m.mu, c.mu or inf.mu.  An informer object is    *)
(* named by the call that created it, so that two objects for one GVK      *)
(* would be told apart.  Run is reduced to its life (see Informer).        *)
(***************************************************************************)
EXTENDS Integers, FiniteSets

CONSTANTS
  GVKs,
  Calls,         \* calls of EnsureInformer, each with a context of its own
  Main,          \* names the context of Start
  None,
  MaxFailures    \* bound: failed initial lists

ASSUME LifecycleAssumption ==
  Main \notin Calls /\ None \notin GVKs \cup Calls /\ MaxFailures \in Nat

Contexts == Calls \cup {Main}

VARIABLES
  informers,   \* GVK -> informer object, None if there is none
  call,        \* the EnsureInformer calls: [pc, gvk, inf]
  hasSynced,   \* the informers whose initial list has completed
  phase,       \* <<informer, ctx>> -> life of the Run started with that ctx
  failures,
  main,        \* Start: "idle", "started" (c.started is set), "blocked", "returned"
  cancelled,   \* the contexts that are done
  wait         \* WaitForCacheSync: [pc, awaited: what was registered when it began]

vars == <<informers, call, hasSynced, phase, failures, main, cancelled, wait>>
runs == <<hasSynced, phase, failures>>

Init ==
  /\ informers = [g \in GVKs |-> None]
  /\ call = [c \in Calls |-> [pc |-> "idle", gvk |-> None, inf |-> None]]
  /\ hasSynced = {}
  /\ phase = [x \in Calls \X Contexts |-> "none"]
  /\ failures = 0
  /\ main = "idle"
  /\ cancelled = {}
  /\ wait = [pc |-> "idle", awaited |-> {}]

\* Mutated form: GVKs without an informer are not skipped.
RegisteredOrNone == {informers[g] : g \in GVKs}

\* The values of m.informers.
Registered == {informers[g] : g \in GVKs} \ {None}

-----------------------------------------------------------------------------
(* EnsureInformer                                                          *)

\* GetOrCreate under the read lock.
FastPath(c, g) ==
  /\ call[c].pc = "idle"
  /\ call' = [call EXCEPT ![c] = [pc |-> IF informers[g] = None THEN "slow" ELSE "check",
                                  gvk |-> g, inf |-> informers[g]]]
  /\ UNCHANGED <<informers, runs, main, cancelled, wait>>

\* Mutated form: no second lookup under the write lock.
SlowPathUnchecked(c) ==
  /\ call[c].pc = "slow"
  /\ informers' = [informers EXCEPT ![call[c].gvk] = c]
  /\ call' = [call EXCEPT ![c].pc = "check", ![c].inf = c]
  /\ UNCHANGED <<runs, main, cancelled, wait>>

\* Double-check under the write lock, then create and register.
SlowPath(c) ==
  /\ call[c].pc = "slow"
  /\ informers' = [informers EXCEPT ![call[c].gvk] = IF @ = None THEN c ELSE @]
  /\ call' = [call EXCEPT ![c].pc = "check", ![c].inf = informers'[call[c].gvk]]
  /\ UNCHANGED <<runs, main, cancelled, wait>>

\* Mutated form: c.started is set after <-ctx.Done().
StartedTooLate == main = "returned"

\* c.started.
Started == main # "idle"

\* c.started under c.mu: before Start there is nothing to do.
ReadStarted(c) ==
  /\ call[c].pc = "check"
  /\ call' = [call EXCEPT ![c].pc = IF Started THEN "launch" ELSE "returned"]
  /\ UNCHANGED <<informers, runs, main, cancelled, wait>>

\* Unless inf.HasSynced(), run the informer with the caller's context.
LaunchUnsynced(c) ==
  /\ call[c].pc = "launch"
  /\ call' = [call EXCEPT ![c].pc = "returned"]
  /\ phase' = [phase EXCEPT ![<<call[c].inf, c>>] =
                 IF call[c].inf \in hasSynced THEN @ ELSE "listing"]
  /\ UNCHANGED <<informers, hasSynced, failures, main, cancelled, wait>>

-----------------------------------------------------------------------------
(* Start                                                                   *)

SetStarted ==
  /\ main = "idle"
  /\ main' = "started"
  /\ UNCHANGED <<informers, call, runs, cancelled, wait>>

\* InformerMap.Start: a Run for every informer, synced or not, all with Start's
\* context; then Start blocks.
LaunchRegistered ==
  /\ main = "started"
  /\ main' = "blocked"
  /\ phase' = [x \in DOMAIN phase |->
                 IF x[1] \in Registered /\ x[2] = Main THEN "listing" ELSE phase[x]]
  /\ UNCHANGED <<informers, call, hasSynced, failures, cancelled, wait>>

StartReturns ==
  /\ main = "blocked" /\ Main \in cancelled
  /\ main' = "returned"
  /\ UNCHANGED <<informers, call, runs, cancelled, wait>>

-----------------------------------------------------------------------------
(* Run, contexts and WaitForCacheSync                                      *)

\* The initial list completes.
RunSyncs(x) ==
  /\ phase[x] = "listing"
  /\ phase' = [phase EXCEPT ![x] = "watching"]
  /\ hasSynced' = hasSynced \cup {x[1]}
  /\ UNCHANGED <<informers, call, failures, main, cancelled, wait>>

\* The initial list fails, and Run returns an error that nobody reads.
RunFails(x) ==
  /\ phase[x] = "listing"
  /\ failures < MaxFailures
  /\ failures' = failures + 1
  /\ phase' = [phase EXCEPT ![x] = "dead"]
  /\ UNCHANGED <<informers, call, hasSynced, main, cancelled, wait>>

\* The context of a Run is done: it ends, listing or watching.
RunEnds(x) ==
  /\ phase[x] \in {"listing", "watching"}
  /\ x[2] \in cancelled
  /\ phase' = [phase EXCEPT ![x] = "dead"]
  /\ UNCHANGED <<informers, call, hasSynced, failures, main, cancelled, wait>>

\* A context may end at any time after the call it was given to began.
Cancel(c) ==
  /\ c \notin cancelled
  /\ IF c = Main THEN main # "idle" ELSE call[c].pc # "idle"
  /\ cancelled' = cancelled \cup {c}
  /\ UNCHANGED <<informers, call, runs, main, wait>>

WaitBegins ==
  /\ wait.pc = "idle"
  /\ wait' = [pc |-> "waiting", awaited |-> Registered]
  /\ UNCHANGED <<informers, call, runs, main, cancelled>>

\* Mutated form: one synced informer is enough.
WaitReturnsAny ==
  /\ wait.pc = "waiting"
  /\ Registered = {} \/ Registered \cap hasSynced # {}
  /\ wait' = [wait EXCEPT !.pc = "true"]
  /\ UNCHANGED <<informers, call, runs, main, cancelled>>

\* Mutated form: a wait that finds an informer missing at the start is never over.
WaitReturnsIfUnchanged ==
  /\ wait.pc = "waiting" /\ Registered = wait.awaited
  /\ Registered \subseteq hasSynced
  /\ wait' = [wait EXCEPT !.pc = "true"]
  /\ UNCHANGED <<informers, call, runs, main, cancelled>>

\* One round under m.mu finds every informer synced.  A round that does not
\* sleeps and tries again.
WaitReturns ==
  /\ wait.pc = "waiting"
  /\ Registered \subseteq hasSynced
  /\ wait' = [wait EXCEPT !.pc = "true"]
  /\ UNCHANGED <<informers, call, runs, main, cancelled>>

\* The context given to WaitForCacheSync is done.
WaitCancelled ==
  /\ wait.pc = "waiting"
  /\ wait' = [wait EXCEPT !.pc = "false"]
  /\ UNCHANGED <<informers, call, runs, main, cancelled>>

CallStep(c) == SlowPath(c) \/ ReadStarted(c) \/ LaunchUnsynced(c)
StartStep   == LaunchRegistered \/ StartReturns
RunStep(x)  == RunSyncs(x) \/ RunFails(x) \/ RunEnds(x)

Next ==
  \/ \E c \in Calls : CallStep(c) \/ \E g \in GVKs : FastPath(c, g)
  \/ \E x \in Calls \X Contexts : RunStep(x)
  \/ \E c \in Contexts : Cancel(c)
  \/ SetStarted \/ StartStep
  \/ WaitBegins \/ WaitReturns \/ WaitCancelled

Spec == Init /\ [][Next]_vars

\* Goroutines that were started are scheduled, server calls return, and the
\* application calls Start.  Nobody has to call EnsureInformer, or to cancel.
FairSpec ==
  /\ Spec
  /\ WF_vars(SetStarted) /\ WF_vars(StartStep) /\ WF_vars(WaitReturns)
  /\ \A c \in Calls : WF_vars(CallStep(c))
  /\ \A x \in Calls \X Contexts : WF_vars(RunStep(x))

-----------------------------------------------------------------------------
TypeOK ==
  /\ informers \in [GVKs -> Calls \cup {None}]
  /\ call \in [Calls -> [pc : {"idle", "slow", "check", "launch", "returned"},
                         gvk : GVKs \cup {None}, inf : Calls \cup {None}]]
  /\ hasSynced \subseteq Calls
  /\ phase \in [Calls \X Contexts -> {"none", "listing", "watching", "dead"}]
  /\ failures \in 0..MaxFailures
  /\ main \in {"idle", "started", "blocked", "returned"}
  /\ cancelled \subseteq Contexts
  /\ wait \in [pc : {"idle", "waiting", "true", "false"}, awaited : SUBSET Calls]

\* All calls for a GVK work on one informer object, the registered one, however
\* their double-checked registrations interleave: none runs an informer that
\* WaitForCacheSync and Start do not know.
OneObjectPerGVK ==
  \A c \in Calls : call[c].pc \in {"check", "launch", "returned"} =>
    call[c].inf = informers[call[c].gvk] /\ call[c].inf # None

Launched(i) == \E c \in Contexts : phase[<<i, c>>] # "none"

\* No informer falls between Start and EnsureInformer: once Start blocks, every
\* registered informer has been run, or some call is still about to decide.
NoneForgotten ==
  main = "blocked" =>
    \A i \in Registered :
      Launched(i) \/ \E c \in Calls : call[c].inf = i /\ call[c].pc \in {"check", "launch"}

\* WaitForCacheSync returned true: every informer that was registered when the
\* wait began has completed its initial list.
TrueMeansSynced == wait.pc = "true" => wait.awaited \subseteq hasSynced

\* If no initial list fails and no context is cancelled, WaitForCacheSync returns.
WaitEnds == wait.pc = "waiting" ~> (wait.pc # "waiting" \/ cancelled # {} \/ failures # 0)

Live(i) == {c \in Contexts : phase[<<i, c>>] \in {"listing", "watching"}}

\* "cache is populated and kept up-to-date via the Kubernetes Watch API"
\* (README.md:17): while the cache runs, a populated informer has a watch.
SyncedIsWatched ==
  main = "blocked" /\ Main \notin cancelled => \A i \in hasSynced : Live(i) # {}
=============================================================================
