---------------------- MODULE InformerLifecycleProofs ----------------------
(***************************************************************************)
(* For any number of GVKs and of EnsureInformer calls: one informer object *)
(* per GVK, no informer forgotten between Start and EnsureInformer, and a  *)
(* true answer of WaitForCacheSync that can be relied on.                  *)
(***************************************************************************)
EXTENDS InformerLifecycle, TLAPS

\* A call past the lookup works on a GVK of its own choice.
CallsHaveGVK == \A c \in Calls : call[c].pc # "idle" => call[c].gvk \in GVKs

\* An informer can only have synced in a Run.
SyncedWasLaunched == \A i \in hasSynced : Launched(i)

\* Nothing is ever unregistered, so what was awaited is still registered.
AwaitedRegistered == wait.awaited \subseteq Registered

\* NoneForgotten needs SyncedWasLaunched: a call that finds the informer synced
\* starts nothing.  TrueMeansSynced needs AwaitedRegistered.
IndInv ==
  /\ TypeOK /\ CallsHaveGVK /\ OneObjectPerGVK
  /\ SyncedWasLaunched /\ NoneForgotten
  /\ AwaitedRegistered /\ TrueMeansSynced

\* Everything the invariant is made of.
LEMMA InitInv == Init => IndInv
  BY LifecycleAssumption
  DEF Init, IndInv, TypeOK, CallsHaveGVK, OneObjectPerGVK, SyncedWasLaunched, NoneForgotten,
      AwaitedRegistered, TrueMeansSynced, Registered, Launched, Contexts

\* GetOrCreate keeps every registration and adds at most the caller's.
LEMMA RegistrationStable ==
  ASSUME IndInv, NEW c \in Calls, SlowPath(c)
  PROVE  /\ informers' \in [GVKs -> Calls \cup {None}]
         /\ \A g \in GVKs : informers[g] # None => informers'[g] = informers[g]
         /\ Registered \subseteq Registered'
         /\ \A i \in Registered' : i \in Registered \/ i = informers'[call[c].gvk]
         /\ informers'[call[c].gvk] \in Calls
  <1>1. call[c].gvk \in GVKs /\ informers \in [GVKs -> Calls \cup {None}]
    BY DEF IndInv, TypeOK, CallsHaveGVK, SlowPath
  <1>2. informers' = [informers EXCEPT ![call[c].gvk] = IF @ = None THEN c ELSE @]
    BY DEF SlowPath
  <1>3. /\ informers' \in [GVKs -> Calls \cup {None}]
        /\ \A g \in GVKs : informers[g] # None => informers'[g] = informers[g]
        /\ \A g \in GVKs : g # call[c].gvk => informers'[g] = informers[g]
        /\ informers'[call[c].gvk] \in Calls
    BY <1>1, <1>2, LifecycleAssumption
  <1> QED
    BY <1>1, <1>3 DEF Registered

\* A step that loses no registration and no pending call forgets no informer.
LEMMA StillRemembered ==
  ASSUME NoneForgotten, UNCHANGED <<informers, main>>,
         \A i : Launched(i) => Launched(i)',
         main = "blocked" =>
           \A d \in Calls : call[d].pc \in {"check", "launch"} =>
             call'[d].inf = call[d].inf /\ call'[d].pc \in {"check", "launch"}
  PROVE  NoneForgotten'
  <1> SUFFICES ASSUME main = "blocked", NEW i \in Registered, ~Launched(i)'
               PROVE  \E d \in Calls : call'[d].inf = i /\ call'[d].pc \in {"check", "launch"}
    BY DEF NoneForgotten, Registered
  <1>1. PICK d \in Calls : call[d].inf = i /\ call[d].pc \in {"check", "launch"}
    BY DEF NoneForgotten
  <1> QED
    BY <1>1

\* The steps of EnsureInformer.
LEMMA FastPathInv == ASSUME IndInv, NEW c \in Calls, NEW g \in GVKs, FastPath(c, g) PROVE IndInv'
  <1>1. /\ call' \in [Calls -> [pc : {"idle", "slow", "check", "launch", "returned"},
                                gvk : GVKs \cup {None}, inf : Calls \cup {None}]]
        /\ \A d \in Calls : d # c => call'[d] = call[d]
        /\ call[c].pc = "idle"
        /\ call'[c].gvk = g /\ call'[c].inf = informers[g]
        /\ call'[c].pc = IF informers[g] = None THEN "slow" ELSE "check"
    BY LifecycleAssumption DEF FastPath, IndInv, TypeOK
  <1>2. UNCHANGED <<informers, hasSynced, phase, failures, main, cancelled, wait>>
    BY DEF FastPath, runs
  <1>3. TypeOK'
    BY <1>1, <1>2 DEF IndInv, TypeOK
  <1>4. CallsHaveGVK' /\ OneObjectPerGVK'
    BY <1>1, <1>2 DEF IndInv, CallsHaveGVK, OneObjectPerGVK
  <1>5. NoneForgotten'
    <2>1. \A i : Launched(i) => Launched(i)'
      BY <1>2 DEF Launched
    <2>2. main = "blocked" =>
            \A d \in Calls : call[d].pc \in {"check", "launch"} =>
              call'[d].inf = call[d].inf /\ call'[d].pc \in {"check", "launch"}
      BY <1>1
    <2> QED
      BY <1>2, <2>1, <2>2, StillRemembered DEF IndInv
  <1>6. (SyncedWasLaunched /\ AwaitedRegistered /\ TrueMeansSynced)'
    BY <1>2 DEF IndInv, SyncedWasLaunched, AwaitedRegistered, TrueMeansSynced, Launched, Registered
  <1> QED
    BY <1>3, <1>4, <1>5, <1>6 DEF IndInv

\* Get or create: an informer is registered once, and the call uses that one.
LEMMA SlowPathInv == ASSUME IndInv, NEW c \in Calls, SlowPath(c) PROVE IndInv'
  <1>1. /\ call' = [call EXCEPT ![c].pc = "check", ![c].inf = informers'[call[c].gvk]]
        /\ call[c].pc = "slow"
        /\ UNCHANGED <<hasSynced, phase, failures, main, cancelled, wait>>
    BY DEF SlowPath, runs
  <1>2. /\ call' \in [Calls -> [pc : {"idle", "slow", "check", "launch", "returned"},
                                gvk : GVKs \cup {None}, inf : Calls \cup {None}]]
        /\ \A d \in Calls : d # c => call'[d] = call[d]
        /\ call'[c].pc = "check" /\ call'[c].gvk = call[c].gvk
        /\ call'[c].inf = informers'[call[c].gvk]
        /\ call[c].gvk \in GVKs
    BY <1>1, RegistrationStable DEF IndInv, TypeOK, CallsHaveGVK
  <1>3. TypeOK'
    BY <1>1, <1>2, RegistrationStable DEF IndInv, TypeOK
  <1>4. CallsHaveGVK' /\ OneObjectPerGVK'
    BY <1>1, <1>2, RegistrationStable, LifecycleAssumption
    DEF IndInv, CallsHaveGVK, OneObjectPerGVK
  <1>5. NoneForgotten'
    BY <1>1, <1>2, RegistrationStable DEF IndInv, NoneForgotten, Launched
  <1>6. (SyncedWasLaunched /\ AwaitedRegistered /\ TrueMeansSynced)'
    BY <1>1, RegistrationStable DEF IndInv, SyncedWasLaunched, AwaitedRegistered, TrueMeansSynced, Launched
  <1> QED
    BY <1>3, <1>4, <1>5, <1>6 DEF IndInv

\* Reading c.started keeps the invariant.
LEMMA ReadStartedInv == ASSUME IndInv, NEW c \in Calls, ReadStarted(c) PROVE IndInv'
  <1>1. /\ call' \in [Calls -> [pc : {"idle", "slow", "check", "launch", "returned"},
                                gvk : GVKs \cup {None}, inf : Calls \cup {None}]]
        /\ \A d \in Calls : d # c => call'[d] = call[d]
        /\ call[c].pc = "check"
        /\ call'[c].gvk = call[c].gvk /\ call'[c].inf = call[c].inf
        /\ call'[c].pc \in {"launch", "returned"}
        /\ main = "blocked" => call'[c].pc = "launch"
    BY DEF ReadStarted, Started, IndInv, TypeOK
  <1>2. UNCHANGED <<informers, hasSynced, phase, failures, main, cancelled, wait>>
    BY DEF ReadStarted, runs
  <1>3. TypeOK'
    BY <1>1, <1>2 DEF IndInv, TypeOK
  <1>4. CallsHaveGVK' /\ OneObjectPerGVK'
    BY <1>1, <1>2 DEF IndInv, CallsHaveGVK, OneObjectPerGVK
  <1>5. NoneForgotten'
    <2>1. \A i : Launched(i) => Launched(i)'
      BY <1>2 DEF Launched
    <2>2. main = "blocked" =>
            \A d \in Calls : call[d].pc \in {"check", "launch"} =>
              call'[d].inf = call[d].inf /\ call'[d].pc \in {"check", "launch"}
      BY <1>1
    <2> QED
      BY <1>2, <2>1, <2>2, StillRemembered DEF IndInv
  <1>6. (SyncedWasLaunched /\ AwaitedRegistered /\ TrueMeansSynced)'
    BY <1>2 DEF IndInv, SyncedWasLaunched, AwaitedRegistered, TrueMeansSynced, Launched, Registered
  <1> QED
    BY <1>3, <1>4, <1>5, <1>6 DEF IndInv

\* Running an informer that has not synced keeps the invariant.
LEMMA LaunchUnsyncedInv == ASSUME IndInv, NEW c \in Calls, LaunchUnsynced(c) PROVE IndInv'
  <1>1. /\ call' \in [Calls -> [pc : {"idle", "slow", "check", "launch", "returned"},
                                gvk : GVKs \cup {None}, inf : Calls \cup {None}]]
        /\ \A d \in Calls : d # c => call'[d] = call[d]
        /\ call[c].pc = "launch" /\ call'[c].pc = "returned"
        /\ call'[c].gvk = call[c].gvk /\ call'[c].inf = call[c].inf
    BY DEF LaunchUnsynced, IndInv, TypeOK
  <1>2. UNCHANGED <<informers, hasSynced, failures, main, cancelled, wait>>
    BY DEF LaunchUnsynced
  <1>3. call[c].inf \in Calls /\ c \in Contexts
    BY <1>1, LifecycleAssumption DEF IndInv, TypeOK, OneObjectPerGVK, Contexts
  <1>4. /\ phase' \in [Calls \X Contexts -> {"none", "listing", "watching", "dead"}]
        /\ \A x \in Calls \X Contexts : phase[x] # "none" => phase'[x] # "none"
        /\ call[c].inf \notin hasSynced => phase'[<<call[c].inf, c>>] # "none"
    BY <1>3 DEF LaunchUnsynced, IndInv, TypeOK
  <1>5. \A i \in Calls : Launched(i) => Launched(i)'
    BY <1>4 DEF Launched
  <1>6. ASSUME NEW i, i = call[c].inf PROVE Launched(i)'
    <2>1. CASE i \in hasSynced
      BY <1>3, <1>5, <1>6, <2>1 DEF IndInv, SyncedWasLaunched
    <2>2. CASE i \notin hasSynced
      BY <1>3, <1>4, <1>6, <2>2 DEF Launched
    <2> QED
      BY <2>1, <2>2
  <1>7. TypeOK'
    BY <1>1, <1>2, <1>4 DEF IndInv, TypeOK
  <1>8. CallsHaveGVK' /\ OneObjectPerGVK'
    BY <1>1, <1>2 DEF IndInv, CallsHaveGVK, OneObjectPerGVK
  <1>9. Registered \subseteq Calls /\ hasSynced \subseteq Calls
    BY DEF IndInv, TypeOK, Registered
  <1>10. NoneForgotten'
    <2> SUFFICES ASSUME main = "blocked", NEW i \in Registered,
                        ~ \E d \in Calls : call'[d].inf = i /\ call'[d].pc \in {"check", "launch"}
                 PROVE  Launched(i)'
      BY <1>2 DEF NoneForgotten, Registered
    <2>1. CASE Launched(i)
      BY <1>5, <1>9, <2>1
    <2>2. CASE ~Launched(i)
      <3>1. PICK d \in Calls : call[d].inf = i /\ call[d].pc \in {"check", "launch"}
        BY <2>2 DEF IndInv, NoneForgotten
      <3>2. d = c
        BY <1>1, <3>1
      <3> QED
        BY <1>6, <3>1, <3>2
    <2> QED
      BY <2>1, <2>2
  <1>11. SyncedWasLaunched'
    BY <1>2, <1>5, <1>9 DEF IndInv, SyncedWasLaunched
  <1>12. (AwaitedRegistered /\ TrueMeansSynced)'
    BY <1>2 DEF IndInv, AwaitedRegistered, TrueMeansSynced, Registered
  <1> QED
    BY <1>7, <1>8, <1>10, <1>11, <1>12 DEF IndInv

\* The steps of Start.
LEMMA LaunchRegisteredInv == ASSUME IndInv, LaunchRegistered PROVE IndInv'
  <1>1. UNCHANGED <<informers, call, hasSynced, failures, cancelled, wait>> /\ main' = "blocked"
    BY DEF LaunchRegistered
  <1>2. /\ phase' \in [Calls \X Contexts -> {"none", "listing", "watching", "dead"}]
        /\ \A x \in Calls \X Contexts : phase[x] # "none" => phase'[x] # "none"
        /\ \A x \in Calls \X Contexts : x[1] \in Registered /\ x[2] = Main => phase'[x] # "none"
    BY DEF LaunchRegistered, IndInv, TypeOK
  <1>3. Registered \subseteq Calls /\ hasSynced \subseteq Calls /\ Main \in Contexts
    BY DEF IndInv, TypeOK, Registered, Contexts
  <1>4. \A i \in Registered : Launched(i)'
    BY <1>2, <1>3 DEF Launched
  <1>5. (TypeOK /\ CallsHaveGVK /\ OneObjectPerGVK)'
    BY <1>1, <1>2 DEF IndInv, TypeOK, CallsHaveGVK, OneObjectPerGVK
  <1>6. NoneForgotten'
    BY <1>1, <1>4 DEF NoneForgotten, Registered
  <1>7. SyncedWasLaunched'
    BY <1>1, <1>2, <1>3 DEF IndInv, SyncedWasLaunched, Launched
  <1>8. (AwaitedRegistered /\ TrueMeansSynced)'
    BY <1>1 DEF IndInv, AwaitedRegistered, TrueMeansSynced, Registered
  <1> QED
    BY <1>5, <1>6, <1>7, <1>8 DEF IndInv

\* The steps of a Run.
LEMMA RunInv == ASSUME IndInv, NEW x \in Calls \X Contexts, RunStep(x) PROVE IndInv'
  <1>1. UNCHANGED <<informers, call, main, cancelled, wait>>
    BY DEF RunStep, RunSyncs, RunFails, RunEnds
  <1>2. /\ phase' \in [Calls \X Contexts -> {"none", "listing", "watching", "dead"}]
        /\ \A y \in Calls \X Contexts : phase[y] # "none" => phase'[y] # "none"
        /\ phase[x] # "none"
    BY DEF RunStep, RunSyncs, RunFails, RunEnds, IndInv, TypeOK
  <1>3. hasSynced \subseteq hasSynced' /\ hasSynced' \subseteq hasSynced \cup {x[1]}
    BY DEF RunStep, RunSyncs, RunFails, RunEnds
  <1>4. failures' \in 0..MaxFailures
    BY LifecycleAssumption DEF RunStep, RunSyncs, RunFails, RunEnds, IndInv, TypeOK
  <1>5. x[1] \in Calls /\ x[2] \in Contexts /\ x = <<x[1], x[2]>>
    OBVIOUS
  <1>6. \A i \in Calls : Launched(i) => Launched(i)'
    BY <1>2 DEF Launched
  <1>7. Launched(x[1])
    BY <1>2, <1>5 DEF Launched
  <1>8. Registered \subseteq Calls /\ hasSynced \subseteq Calls /\ Registered' = Registered
    BY <1>1 DEF IndInv, TypeOK, Registered
  <1>9. (TypeOK /\ CallsHaveGVK /\ OneObjectPerGVK)'
    BY <1>1, <1>2, <1>3, <1>4, <1>5 DEF IndInv, TypeOK, CallsHaveGVK, OneObjectPerGVK
  <1>10. NoneForgotten'
    BY <1>1, <1>6, <1>8 DEF IndInv, NoneForgotten
  <1>11. SyncedWasLaunched'
    BY <1>3, <1>5, <1>6, <1>7, <1>8 DEF IndInv, SyncedWasLaunched
  <1>12. (AwaitedRegistered /\ TrueMeansSynced)'
    BY <1>1, <1>3, <1>8 DEF IndInv, AwaitedRegistered, TrueMeansSynced
  <1> QED
    BY <1>9, <1>10, <1>11, <1>12 DEF IndInv

\* The steps that touch neither a registration nor a Run.
LEMMA OtherInv ==
  ASSUME IndInv, UNCHANGED <<informers, call, hasSynced, phase, failures>>,
         main' \in {"idle", "started", "blocked", "returned"},
         main' = "blocked" => main = "blocked",
         cancelled' \subseteq Contexts,
         wait' \in [pc : {"idle", "waiting", "true", "false"}, awaited : SUBSET Calls],
         wait'.awaited \subseteq Registered,
         wait'.pc = "true" => wait'.awaited \subseteq hasSynced
  PROVE  IndInv'
  <1>1. TypeOK'
    BY DEF IndInv, TypeOK
  <1>2. (CallsHaveGVK /\ OneObjectPerGVK)'
    BY DEF IndInv, CallsHaveGVK, OneObjectPerGVK
  <1>3. Registered' = Registered /\ \A i : Launched(i)' <=> Launched(i)
    BY DEF Registered, Launched
  <1>4. (SyncedWasLaunched /\ NoneForgotten)'
    BY <1>3 DEF IndInv, SyncedWasLaunched, NoneForgotten
  <1>5. (AwaitedRegistered /\ TrueMeansSynced)'
    BY <1>3 DEF AwaitedRegistered, TrueMeansSynced
  <1> QED
    BY <1>1, <1>2, <1>4, <1>5 DEF IndInv

\* Every step keeps the invariant.
LEMMA NextInv == IndInv /\ [Next]_vars => IndInv'
  <1> SUFFICES ASSUME IndInv, [Next]_vars PROVE IndInv'
    OBVIOUS
  <1>0. /\ wait \in [pc : {"idle", "waiting", "true", "false"}, awaited : SUBSET Calls]
        /\ wait.awaited \subseteq Registered /\ cancelled \subseteq Contexts
        /\ main \in {"idle", "started", "blocked", "returned"}
        /\ wait.pc = "true" => wait.awaited \subseteq hasSynced
        /\ Registered \subseteq Calls
    BY DEF IndInv, TypeOK, AwaitedRegistered, TrueMeansSynced, Registered
  <1>1. CASE UNCHANGED vars
    BY <1>0, <1>1, OtherInv DEF vars
  <1>2. ASSUME NEW c \in Calls, CallStep(c) PROVE IndInv'
    BY <1>2, SlowPathInv, ReadStartedInv, LaunchUnsyncedInv DEF CallStep
  <1>3. ASSUME NEW c \in Calls, NEW g \in GVKs, FastPath(c, g) PROVE IndInv'
    BY <1>3, FastPathInv
  <1>4. ASSUME NEW x \in Calls \X Contexts, RunStep(x) PROVE IndInv'
    BY <1>4, RunInv
  <1>5. ASSUME NEW c \in Contexts, Cancel(c) PROVE IndInv'
    BY <1>0, <1>5, OtherInv DEF Cancel, runs
  <1>6. CASE SetStarted
    BY <1>0, <1>6, OtherInv DEF SetStarted, runs
  <1>7. CASE StartStep
    <2>1. CASE LaunchRegistered
      BY <2>1, LaunchRegisteredInv
    <2>2. CASE StartReturns
      BY <1>0, <2>2, OtherInv DEF StartReturns, runs
    <2> QED
      BY <1>7, <2>1, <2>2 DEF StartStep
  <1>8. CASE WaitBegins
    BY <1>0, <1>8, OtherInv DEF WaitBegins, runs
  <1>9. CASE WaitReturns \/ WaitCancelled
    <2>1. /\ wait' \in [pc : {"true", "false"}, awaited : {wait.awaited}]
          /\ wait'.pc = "true" => Registered \subseteq hasSynced
          /\ UNCHANGED <<informers, call, hasSynced, phase, failures, main, cancelled>>
      BY <1>0, <1>9 DEF WaitReturns, WaitCancelled, runs
    <2> QED
      BY <1>0, <2>1, OtherInv
  <1> QED
    BY <1>1, <1>2, <1>3, <1>4, <1>5, <1>6, <1>7, <1>8, <1>9 DEF Next

\* The invariant holds in every reachable state.
THEOREM Invariance == Spec => []IndInv
  BY InitInv, NextInv, PTL DEF Spec

\* Registrations, calls and Runs keep their types: what a call holds is an
\* informer object somebody created (informer_map.go:39).
THEOREM TypeCorrect == Spec => []TypeOK
  <1>1. IndInv => TypeOK
    BY DEF IndInv
  <1> QED
    BY <1>1, Invariance, PTL

\* Double-checked registration gives every caller the one registered informer of
\* its GVK (informer_map.go:41).
THEOREM AlwaysOneObject == Spec => []OneObjectPerGVK
  <1>1. IndInv => OneObjectPerGVK
    BY DEF IndInv
  <1> QED
    BY <1>1, Invariance, PTL

\* Start sets c.started before it looks at the map and EnsureInformer registers
\* before it reads c.started (cache.go:310-333): no informer is forgotten.
THEOREM NeverForgotten == Spec => []NoneForgotten
  <1>1. IndInv => NoneForgotten
    BY DEF IndInv
  <1> QED
    BY <1>1, Invariance, PTL

\* WaitForCacheSync answers true only when what it waited for has synced
\* (informer_map.go:84).
THEOREM AlwaysTrueMeansSynced == Spec => []TrueMeansSynced
  <1>1. IndInv => TrueMeansSynced
    BY DEF IndInv
  <1> QED
    BY <1>1, Invariance, PTL
=============================================================================
