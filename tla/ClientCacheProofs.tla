------------------------- MODULE ClientCacheProofs -------------------------
(***************************************************************************)
(* What spoils the reconstruction LRU, proved for any number of goroutines, *)
(* Runs and objects and for an LRU of any size; and what the store shows    *)
(* while clients write to it beside an informer with a single Run.          *)
(***************************************************************************)
EXTENDS ClientCache, InformerProofs

\* The little the proof needs to know of types: which fields there are.
RunShapes ==
  /\ DOMAIN store = Keys
  /\ DOMAIN run = Runs
  /\ \A r \in Runs : "pc" \in DOMAIN run[r]

WorkShapes ==
  /\ DOMAIN work = Workers
  /\ \A w \in Workers : {"pc", "key", "ver", "todo"} \subseteq DOMAIN work[w]

Shapes == RunShapes /\ WorkShapes

(* Before the first call every record has its shape. *)
LEMMA InitShapes == ClientInit => Shapes
  BY DEF ClientInit, Init, Idle, Shapes, RunShapes, WorkShapes

\* No step of the server or the informer changes who runs or what is a key.
LEMMA StepShapes == ASSUME RunShapes, NEW r \in Runs, Step(r) PROVE RunShapes'
  <1>1. CASE ListReturns(r) \/ ListFails(r)
    BY <1>1 DEF RunShapes, ListReturns, ListFails
  <1>2. CASE ApplyItem(r) \/ ApplyIndex(r) \/ ListDone(r)
    BY <1>2 DEF RunShapes, ApplyItem, UpsertItem, ApplyIndex, ListDone
  <1>3. CASE WatchOpens(r) \/ WatchBreaks(r)
    BY <1>3 DEF RunShapes, WatchOpens, WatchBreaks
  <1>4. CASE HandleEvent(r)
    BY <1>4 DEF RunShapes, HandleEvent, Upserts, Deletes
  <1>5. CASE EventIndex(r) \/ Notify(r)
    BY <1>5 DEF RunShapes, EventIndex, Notify, Goto
  <1>6. CASE Loop(r)
    BY <1>6 DEF RunShapes, Loop, Stops, Proceeds, Wakes, Goto
  <1> QED
    BY <1>1, <1>2, <1>3, <1>4, <1>5, <1>6 DEF Step

(* What happens beside the calls (the server, the Runs) keeps the shapes. *)
LEMMA AroundShapes == ASSUME Shapes, Around PROVE Shapes'
  <1>1. RunShapes'
    BY StepShapes DEF Shapes, RunShapes, Around, Next, ServerWrites, ServerDeletes, Emit,
                      AddEventHandler, Cancel
  <1>2. WorkShapes'
    BY DEF Around, Shapes, WorkShapes
  <1> QED
    BY <1>1, <1>2 DEF Shapes

\* A call changes the local state of its worker, and never the informer's.
LEMMA CallShapes ==
  ASSUME Shapes, NEW w \in Workers, Begin(w) \/ Continue(w)
  PROVE  Shapes'
  <1>1. run' = run /\ DOMAIN store' = Keys
    BY DEF Shapes, RunShapes, Begin, Continue, GetMiss, ReadStore, Fill, Answered, Create,
           Update, Patch, SubResourceUpdate, SubResourcePatch, SubResourceCreate, ServerWrites,
           Emit, Delete, DeleteAllOf, Collect, ListForDeletion, UpsertAnswer, DeleteStored,
           WritesThrough, InvalidateLRU, SweepDone, vars
  <1>2. WorkShapes'
    <2>1. CASE Begin(w)
      BY <2>1 DEF Shapes, WorkShapes, Begin, GetMiss, Answered, Create, Update, Patch,
                  SubResourceUpdate, SubResourcePatch, SubResourceCreate, Delete, DeleteAllOf,
                  clientVars
    <2>2. CASE ReadStore(w) \/ Fill(w) \/ Collect(w) \/ ListForDeletion(w)
      BY <2>2 DEF Shapes, WorkShapes, ReadStore, Fill, Collect, ListForDeletion, Returns, Idle
    <2>3. CASE UpsertAnswer(w) \/ DeleteStored(w) \/ InvalidateLRU(w) \/ SweepDone(w)
      BY <2>3 DEF Shapes, WorkShapes, UpsertAnswer, DeleteStored, InvalidateLRU, SweepDone,
                  Returns, Idle
    <2> QED
      BY <2>1, <2>2, <2>3 DEF Continue
  <1> QED
    BY <1>1, <1>2 DEF Shapes, RunShapes

(* Every step keeps the shapes. *)
LEMMA NextShapes == Shapes /\ [ClientNext]_allVars => Shapes'
  <1>1. Shapes /\ UNCHANGED allVars => Shapes'
    BY DEF Shapes, RunShapes, WorkShapes, allVars, vars, clientVars
  <1> QED
    BY <1>1, AroundShapes, CallShapes DEF ClientNext

\* The records of the Runs and of the calls keep the fields the code gives them:
\* what the steps of the proof about the LRU start from.
THEOREM ShapesInvariance == ClientSpec => []Shapes
  BY InitShapes, NextShapes, PTL DEF ClientSpec

-----------------------------------------------------------------------------
\* A worker that is about to drop the entry of k.
Drops(w, k) == work[w].pc \in {"invalidate", "drop"} /\ work[w].key = k

\* An entry that stays as it is, over a store that stays as it is, becomes stale
\* only by a worker that no longer drops it.
LEMMA StaysFresh ==
  ASSUME NEW k,
         ~Stale(k),
         store'[k] = store[k],
         k \in DOMAIN lru' => k \in DOMAIN lru /\ lru'[k] = lru[k],
         \A w \in Workers : Drops(w, k) => Drops(w, k)'
  PROVE  ~Stale(k)'
  BY DEF Stale, Drops

\* The server and a Run that does not move leave the store alone.
LEMMA AroundKeepsStore == ASSUME Shapes, Around, run' = run PROVE store' = store
  <1>1. ASSUME NEW r \in Runs, ApplyItem(r) \/ HandleEvent(r)
        PROVE  FALSE
    <2>1. CASE ApplyItem(r)
      <3>1. run[r].pc = "apply" /\ run'[r].pc = "applyIndex"
        BY <2>1 DEF Shapes, RunShapes, ApplyItem, UpsertItem
      <3> QED
        BY <3>1
    <2>2. CASE HandleEvent(r)
      <3>1. run[r].pc = "watch"
        BY <2>2 DEF HandleEvent
      <3>2. ASSUME NEW it, Upserts(r, it)
            PROVE  run'[r].pc = "eventIndex"
        BY <3>2 DEF Shapes, RunShapes, Upserts
      <3>3. ASSUME NEW k, Deletes(r, k)
            PROVE  run'[r].pc = "eventIndex"
        BY <3>3 DEF Shapes, RunShapes, Deletes
      <3> QED
        BY <2>2, <3>1, <3>2, <3>3 DEF HandleEvent
    <2> QED
      BY <1>1, <2>1, <2>2
  <1>2. ASSUME NEW r \in Runs, Step(r)
        PROVE  store' = store
    BY <1>1, <1>2 DEF Step, ListReturns, ListFails, ApplyIndex, ListDone, WatchOpens,
                      EventIndex, Notify, WatchBreaks, Loop
  <1> QED
    BY <1>2 DEF Around, Next, ServerWrites, ServerDeletes, Emit, AddEventHandler, Cancel

\* What a call that changes neither store nor LRU does to an entry: nothing.
LEMMA ReadsKeepFresh ==
  ASSUME Shapes, NEW w \in Workers, NEW k \in Keys, ~Stale(k),
         \/ Begin(w)
         \/ ReadStore(w) \/ Collect(w) \/ ListForDeletion(w) \/ SweepDone(w)
  PROVE  ~Stale(k)'
  <1>1. store' = store /\ lru' = lru
    BY DEF Begin, GetMiss, ReadStore, Answered, Create, Update, Patch, SubResourceUpdate,
           SubResourcePatch, SubResourceCreate, ServerWrites, Emit, Delete, DeleteAllOf,
           Collect, ListForDeletion, SweepDone, vars, clientVars
  <1>2. ASSUME NEW v \in Workers, Drops(v, k)
        PROVE  Drops(v, k)'
    <2>1. work'[v] = work[v]
      BY <1>2 DEF Drops, Shapes, WorkShapes, Begin, GetMiss, ReadStore, Answered, Create, Update, Patch,
                  SubResourceUpdate, SubResourcePatch, SubResourceCreate, Delete, DeleteAllOf,
                  Collect, ListForDeletion, SweepDone, Returns, clientVars
    <2> QED
      BY <1>2, <2>1 DEF Drops
  <1> QED
    BY <1>1, <1>2, StaysFresh

\* A write-through announces that it drops the entry before anybody can read it.
LEMMA WritesKeepFresh ==
  ASSUME Shapes, NEW w \in Workers, NEW k \in Keys, ~Stale(k),
         UpsertAnswer(w) \/ DeleteStored(w)
  PROVE  ~Stale(k)'
  <1>1. lru' = lru /\ work'[w].pc \in {"invalidate", "drop"}
    BY DEF UpsertAnswer, DeleteStored, Shapes, WorkShapes
  <1>2. CASE work'[w].key = k
    BY <1>1, <1>2 DEF Stale
  <1>3. CASE work'[w].key # k
    <2>1. store'[k] = store[k]
      <3>1. CASE UpsertAnswer(w)
        BY <1>3, <3>1 DEF UpsertAnswer, WritesThrough, Shapes, RunShapes, WorkShapes
      <3>2. CASE DeleteStored(w)
        <4>1. PICK j \in work[w].todo :
                /\ store' = [store EXCEPT ![j] = 0]
                /\ work' = [work EXCEPT ![w].pc = "drop", ![w].key = j, ![w].todo = @ \ {j}]
          BY <3>2 DEF DeleteStored, WritesThrough
        <4>2. work'[w].key = j
          BY <4>1 DEF Shapes, WorkShapes
        <4> QED
          BY <1>3, <4>1, <4>2 DEF Shapes, RunShapes
      <3> QED
        BY <3>1, <3>2
    <2>2. ASSUME NEW v \in Workers, Drops(v, k)
          PROVE  Drops(v, k)'
      BY <2>2 DEF UpsertAnswer, DeleteStored, Shapes, RunShapes, WorkShapes, Drops
    <2> QED
      BY <1>1, <2>1, <2>2, StaysFresh
  <1> QED
    BY <1>2, <1>3

\* InvalidateLRU drops the entry of its own key and keeps all others.
LEMMA DropsKeepFresh ==
  ASSUME Shapes, NEW w \in Workers, NEW k \in Keys, ~Stale(k), InvalidateLRU(w)
  PROVE  ~Stale(k)'
  <1>1. CASE work[w].key = k
    BY <1>1 DEF InvalidateLRU, Stale
  <1>2. CASE work[w].key # k
    <2>1. store' = store /\ (k \in DOMAIN lru' => k \in DOMAIN lru /\ lru'[k] = lru[k])
      BY DEF InvalidateLRU, vars
    <2>2. ASSUME NEW v \in Workers, Drops(v, k)
          PROVE  Drops(v, k)'
      BY <1>2, <2>2 DEF InvalidateLRU, Shapes, RunShapes, WorkShapes, Drops
    <2> QED
      BY <2>1, <2>2, StaysFresh
  <1> QED
    BY <1>1, <1>2

\* Filling the LRU puts what was read in, and takes others out.
LEMMA FillsKeepFresh ==
  ASSUME Shapes, NEW w \in Workers, NEW k \in Keys, ~Stale(k), Fill(w), Stale(k)'
  PROVE  work[w].pc = "fill" /\ work[w].key = k /\ work[w].ver # store[k]
  <1>1. store' = store /\ work[w].pc = "fill"
    BY DEF Fill, vars
  <1>2. ASSUME NEW v \in Workers, Drops(v, k)
        PROVE  Drops(v, k)'
    BY <1>2 DEF Fill, Returns, Shapes, RunShapes, WorkShapes, Drops
  <1>3. PICK kept \in SUBSET DOMAIN lru :
          lru' = [j \in kept \cup {work[w].key} |-> IF j = work[w].key THEN work[w].ver ELSE lru[j]]
    BY DEF Fill
  <1>4. CASE work[w].key = k
    BY <1>1, <1>3, <1>4 DEF Stale
  <1>5. CASE work[w].key # k
    <2>1. k \in DOMAIN lru' => k \in DOMAIN lru /\ lru'[k] = lru[k]
      BY <1>3, <1>5
    <2> QED
      BY <1>1, <1>2, <2>1, StaysFresh
  <1> QED
    BY <1>4, <1>5

\* Every write of client.go stores first and invalidates after (client.go:155),
\* and this order is enough: clients alone never leave a stale entry in the LRU
\* but by a Get that read the store before the write (cache.go:121).
THEOREM StaleOnlySo == ClientSpec => StaleByWatchOrLateFill
  <1>1. Shapes /\ [ClientNext]_allVars =>
          [\A k \in Keys : ~Stale(k) /\ Stale(k)' =>
             \/ run' # run
             \/ \E w \in Workers :
                  work[w].pc = "fill" /\ work[w].key = k /\ work[w].ver # store[k]]_allVars
    <2> SUFFICES ASSUME Shapes, ClientNext, NEW k \in Keys, ~Stale(k), Stale(k)'
                 PROVE  \/ run' # run
                        \/ \E w \in Workers :
                             work[w].pc = "fill" /\ work[w].key = k /\ work[w].ver # store[k]
      OBVIOUS
    <2>1. CASE Around
      <3> SUFFICES ASSUME run' = run PROVE FALSE
        OBVIOUS
      <3>1. store' = store /\ lru' = lru /\ work' = work
        BY <2>1, AroundKeepsStore DEF Around
      <3> QED
        BY <3>1 DEF Stale
    <2>2. ASSUME NEW w \in Workers, Begin(w) \/ Continue(w)
          PROVE  Fill(w)
      BY <2>2, ReadsKeepFresh, WritesKeepFresh, DropsKeepFresh DEF Continue
    <2> QED
      BY <2>1, <2>2, FillsKeepFresh DEF ClientNext
  <1> QED
    BY <1>1, ShapesInvariance, PTL DEF ClientSpec, StaleByWatchOrLateFill

-----------------------------------------------------------------------------
(* What the store shows beside the clients                                 *)

\* Some state that the server had from its event n on shows v for key k.
Witnessed(l, n, k, v) == \E m \in n..Len(l) : v = After(l, m)[k]

\* The store s shows of every object whose item is not pending, and that no
\* answer has overtaken, a state the server had at the informer's goal or later.
Shown(l, s, exempt, R) ==
  /\ R.pc = "list" => \A k \in Keys \ exempt : s[k] = 0
  /\ Pursuing(R) =>
       \A k \in Keys \ exempt : k \in Pending(R) \/ Witnessed(l, Goal(R), k, s[k])

\* What the calls in progress know of the server: an answer is what its event
\* wrote, and what is to be deleted was gone from the server at some time of the call.
CallKnows(l, marked, W) ==
  /\ W.pc = "upsert" =>
       W.ver \in 1..Len(l) /\ l[W.ver].key = W.key /\ l[W.ver].type # "DELETED"
  /\ W.pc = "collect" =>
       \A k \in Keys \ marked : k \in W.todo \/ Witnessed(l, W.ver, k, 0)
  /\ W.pc \in {"sweep", "drop"} =>
       \A k \in W.todo \ marked : Witnessed(l, W.ver, k, 0)

CallsKnow == \A w \in Workers : CallKnows(log, setup.finalized, work[w])

ShownSoFar == failures = 0 => \A r \in Runs : Shown(log, store, overtaken, run[r])

\* The local state of a call, with versions up to n, and what comes with its step.
CallStates(n) ==
  [pc : {"idle", "read", "fill", "collect", "upsert", "sweep", "invalidate", "drop"},
   key : Keys \cup {"none"}, ver : 0..n, todo : SUBSET Keys]

CallFits(size, W) ==
  /\ W.pc \in {"read", "fill"} => size > 0
  /\ W.pc \in {"read", "fill", "upsert", "invalidate", "drop"} => W.key \in Keys
  /\ W.pc \in {"fill", "upsert"} => W.ver # 0

CallsFit ==
  /\ IsFiniteSet(DOMAIN lru) /\ lru = [k \in DOMAIN lru |-> lru[k]]
  /\ \A w \in Workers : CallFits(setup.lru, work[w])

ClientInv == RunsInv /\ ClientTypeOK /\ CallsFit /\ CallsKnow

-----------------------------------------------------------------------------
(* Calls and the server's history                                          *)

\* Whoever writes, the history only becomes longer.
Grows(l, m) == m = l \/ \E e \in Event : m = Append(l, e)

(* A history that has grown agrees with what it was as far as that reached. *)
LEMMA GrowsKeeps ==
  ASSUME NEW l \in Seq(Event), NEW m, Grows(l, m)
  PROVE  /\ m \in Seq(Event) /\ Len(m) \in Nat /\ Len(l) \in Nat /\ Len(l) <= Len(m)
         /\ \A i \in 1..Len(l) : m[i] = l[i]
         /\ \A n \in 0..Len(l) : After(m, n) = After(l, n)
<1>1. CASE m = l
  BY <1>1
<1>2. CASE \E e \in Event : m = Append(l, e)
  <2>1. PICK e \in Event : m = Append(l, e)
    BY <1>2
  <2>2. \A n \in 0..Len(l) : After(m, n) = After(l, n)
    BY <2>1, PastStays
  <2> QED BY <2>1, <2>2
<1> QED BY <1>1, <1>2 DEF Grows

(* A version read before the history grew is still one the server had. *)
LEMMA WitnessedGrows ==
  ASSUME NEW l \in Seq(Event), NEW m, Grows(l, m), NEW n \in Nat, NEW k, NEW v, Witnessed(l, n, k, v)
  PROVE  Witnessed(m, n, k, v)
<1>1. PICK i \in n..Len(l) : v = After(l, i)[k]
  BY DEF Witnessed
<1>2. i \in n..Len(m) /\ After(m, i) = After(l, i)
  BY GrowsKeeps
<1> QED BY <1>1, <1>2 DEF Witnessed

(* So is whatever a call holds. *)
LEMMA CallKnowsGrows ==
  ASSUME NEW l \in Seq(Event), NEW m, Grows(l, m), NEW marked, NEW W \in CallStates(Len(l)),
         CallKnows(l, marked, W)
  PROVE  CallKnows(m, marked, W)
<1>1. W.ver \in 0..Len(l) /\ Len(l) <= Len(m) /\ Len(m) \in Nat
      /\ (W.ver \in 1..Len(l) => W.ver \in 1..Len(m) /\ m[W.ver] = l[W.ver])
  BY GrowsKeeps DEF CallStates
<1>2. \A k : Witnessed(l, W.ver, k, 0) => Witnessed(m, W.ver, k, 0)
  BY <1>1, WitnessedGrows
<1> QED BY <1>1, <1>2 DEF CallKnows

(* And what the store shows stays as recent as the last event delivered. *)
LEMMA ShownGrows ==
  ASSUME NEW l \in Seq(Event), NEW m, Grows(l, m), NEW s, NEW exempt, NEW R \in Locals(Len(l)),
         Shown(l, s, exempt, R)
  PROVE  Shown(m, s, exempt, R)
<1>1. Pursuing(R) => Goal(R) \in Nat
  BY GoalReached DEF Pursuing
<1>2. Pursuing(R) => \A k : Witnessed(l, Goal(R), k, s[k]) => Witnessed(m, Goal(R), k, s[k])
  BY <1>1, WitnessedGrows
<1> QED BY <1>2 DEF Shown

\* Without an event about k in between, nothing changes for k.
LEMMA AfterQuiet ==
  ASSUME NEW l, NEW i \in Nat, NEW g \in Nat, i <= g, NEW k \in Keys, \A n \in i + 1 .. g : l[n].key # k
  PROVE  After(l, g)[k] = After(l, i)[k]
<1>1. CASE \A n \in 1..i : l[n].key # k
  <2>1. \A n \in 1..g : l[n].key # k
    BY <1>1
  <2> QED BY <1>1, <2>1, AfterNone
<1>2. CASE \E j \in 1..i : l[j].key = k
  <2>1. PICK j \in 1..i : l[j].key = k
    BY <1>2
  <2>2. PICK m \in j..i : IsLast(l, m, i, k)
    BY <2>1, LastEvent
  <2>3. m \in 1..i /\ m \in 1..g /\ IsLast(l, m, g, k)
    BY <2>2 DEF IsLast
  <2>4. After(l, i)[k] = IF l[m].type = "DELETED" THEN 0 ELSE m
    BY <2>2, <2>3, AfterLast
  <2>5. After(l, g)[k] = IF l[m].type = "DELETED" THEN 0 ELSE m
    BY <2>3, AfterLast
  <2> QED BY <2>4, <2>5
<1> QED BY <1>1, <1>2

\* An answer that no delivered event has overtaken is what the server has.
LEMMA AnswerWitnessed ==
  ASSUME NEW l \in Seq(Event), NEW g \in 0..Len(l), NEW k \in Keys, NEW ver \in 1..Len(l),
         l[ver].key = k, l[ver].type # "DELETED", \A n \in ver + 1 .. g : l[n].key # k
  PROVE  Witnessed(l, g, k, ver)
<1>1. ver \in Nat /\ ver \in 1..ver /\ IsLast(l, ver, ver, k)
  BY DEF IsLast
<1>2. After(l, ver)[k] = ver
  BY <1>1, AfterLast
<1>3. CASE g <= ver
  BY <1>2, <1>3 DEF Witnessed
<1>4. CASE ver < g
  <2>1. g \in Nat /\ ver <= g /\ g \in g..Len(l)
    BY <1>4
  <2>2. After(l, g)[k] = ver
    BY <1>1, <1>2, <2>1, AfterQuiet
  <2> QED BY <2>1, <2>2 DEF Witnessed
<1> QED BY <1>3, <1>4

\* What was gone and has not been delivered as written again is gone.
LEMMA RemovalWitnessed ==
  ASSUME NEW l \in Seq(Event), NEW g \in 0..Len(l), NEW k \in Keys, NEW ver \in 0..Len(l),
         Witnessed(l, ver, k, 0), \A n \in ver + 1 .. g : l[n].key = k => l[n].type = "DELETED"
  PROVE  Witnessed(l, g, k, 0)
<1>1. PICK i \in ver..Len(l) : After(l, i)[k] = 0
  BY DEF Witnessed
<1>2. CASE g <= i
  BY <1>1, <1>2 DEF Witnessed
<1>3. CASE i < g
  <2>1. g \in Nat /\ i \in Nat /\ i <= g /\ g \in g..Len(l)
    BY <1>3
  <2>2. After(l, g)[k] = 0
    <3>1. CASE \A n \in i + 1 .. g : l[n].key # k
      BY <1>1, <2>1, <3>1, AfterQuiet
    <3>2. CASE \E j \in i + 1 .. g : l[j].key = k
      <4>1. PICK j \in i + 1 .. g : l[j].key = k
        BY <3>2
      <4>2. j \in 1..g
        BY <2>1
      <4>3. PICK m \in j..g : IsLast(l, m, g, k)
        BY <2>1, <4>1, <4>2, LastEvent
      <4>4. m \in 1..g /\ m \in ver + 1 .. g /\ l[m].key = k
        BY <1>1, <2>1, <4>3 DEF IsLast
      <4>5. l[m].type = "DELETED"
        BY <4>4
      <4> QED BY <2>1, <4>3, <4>4, <4>5, AfterLast
    <3> QED BY <3>1, <3>2
  <2> QED BY <2>1, <2>2 DEF Witnessed
<1> QED BY <1>2, <1>3

\* Reached is the goal of a Run that has one.
LEMMA ReachedIsGoal ==
  ASSUME NEW l, NEW n \in Nat, NEW R \in Locals(n), InHand(l, R), Pursuing(R)
  PROVE  Max({R.rv, R.pos}) = Goal(R) /\ Goal(R) \in 0..n
<1>1. R.rv \in NoRV..n /\ R.pos \in 0..n /\ Goal(R) \in 0..n /\ NoRV \in Int
  BY GoalReached DEF Locals, Pursuing, NoRV
<1>2. Goal(R) \in {R.rv, R.pos} /\ R.rv <= Goal(R) /\ R.pos <= Goal(R)
  <2>1. CASE R.pc \in Watching
    BY <1>1, <2>1 DEF InHand, Goal, NoRV
  <2>2. CASE R.pc \notin Watching
    <3>1. R.pc \in {"check", "open"} \cup Listing /\ Goal(R) = R.rv /\ R.rv # NoRV
      BY <2>2 DEF Pursuing, Goal
    <3> QED BY <1>1, <3>1 DEF InHand
  <2> QED BY <2>1, <2>2
<1>3. {R.rv, R.pos} \in SUBSET (NoRV..n) /\ {R.rv, R.pos} # {} /\ n \in Int
  BY <1>1 DEF NoRV
<1>4. Max({R.rv, R.pos}) \in {R.rv, R.pos} /\ \A y \in {R.rv, R.pos} : Max({R.rv, R.pos}) >= y
  BY <1>1, <1>3, MaxIsLargest
<1> QED BY <1>1, <1>2, <1>4 DEF NoRV

-----------------------------------------------------------------------------
(* What a call does to its own local state                                 *)

\* The local state of w, and no other, becomes W.
CallBecomes(w, W) ==
  /\ work' = [v \in Workers |-> work'[v]]
  /\ work'[w] = W
  /\ \A v \in Workers \ {w} : work'[v] = work[v]

\* The call of w goes on with a local state that is typed, fits and knows.
GoesOn(w, W) ==
  /\ W \in CallStates(Len(log')) /\ CallFits(setup.lru, W) /\ CallKnows(log', setup.finalized, W)
  /\ CallBecomes(w, W)

Proceeding(w) == \E W : GoesOn(w, W)

(* The fields of the call a worker is in. *)
LEMMA CallTyped ==
  ASSUME ClientInv, NEW w \in Workers
  PROVE  /\ work \in [Workers -> CallStates(Now)] /\ work[w] \in CallStates(Len(log))
         /\ work[w] = [pc |-> work[w].pc, key |-> work[w].key, ver |-> work[w].ver, todo |-> work[w].todo]
         /\ work[w].key \in Keys \cup {"none"} /\ work[w].ver \in 0..Now /\ work[w].todo \in SUBSET Keys
         /\ Now = Len(log) /\ Now \in Nat /\ log \in Seq(Event) /\ TypeOK
         /\ CallFits(setup.lru, work[w]) /\ CallKnows(log, setup.finalized, work[w])
<1>1. TypeOK /\ Now = Len(log) /\ Now \in Nat /\ log \in Seq(Event)
  BY TypedRuns DEF ClientInv, RunsInv, Now
<1>2. work \in [Workers -> CallStates(Now)]
  BY DEF ClientInv, ClientTypeOK, CallStates
<1>3. CallFits(setup.lru, work[w]) /\ CallKnows(log, setup.finalized, work[w])
  BY DEF ClientInv, CallsFit, CallsKnow
<1> QED BY <1>1, <1>2, <1>3 DEF CallStates

(* A call that ends leaves its worker nothing to remember. *)
LEMMA IdleGoesOn ==
  ASSUME ClientInv, NEW w \in Workers, work' = [work EXCEPT ![w] = Idle], log' \in Seq(Event)
  PROVE  Proceeding(w)
<1>0. CallBecomes(w, Idle)
  BY CallTyped DEF CallBecomes
<1>1. Idle \in CallStates(Len(log'))
  BY DEF Idle, CallStates
<1>2. CallFits(setup.lru, Idle) /\ CallKnows(log', setup.finalized, Idle)
  BY DEF Idle, CallFits, CallKnows
<1> QED BY <1>0, <1>1, <1>2 DEF Proceeding, GoesOn

(* The steps of DedupClient.Get carry a version the server had. *)
LEMMA GetGoesOn ==
  ASSUME ClientInv, NEW w \in Workers, NEW k \in Keys, GetMiss(w, k) \/ ReadStore(w) \/ Fill(w)
  PROVE  Proceeding(w)
<1>1. /\ work \in [Workers -> CallStates(Now)] /\ Now = Len(log) /\ Now \in Nat /\ log \in Seq(Event)
      /\ store \in [Keys -> 0..Now]
      /\ work[w] = [pc |-> work[w].pc, key |-> work[w].key, ver |-> work[w].ver, todo |-> work[w].todo]
      /\ work[w].todo \in SUBSET Keys /\ CallFits(setup.lru, work[w])
  BY CallTyped DEF TypeOK
<1>2. log' = log
  BY DEF GetMiss, ReadStore, Fill, vars
<1>3. CASE GetMiss(w, k)
  <2> DEFINE W == [pc |-> "read", key |-> k, ver |-> 0, todo |-> work[w].todo]
  <2>1. CallBecomes(w, W)
    BY <1>1, <1>3 DEF GetMiss, CallBecomes
  <2>2. setup.lru > 0
    BY <1>3 DEF GetMiss
  <2>3. W \in CallStates(Len(log'))
    BY <1>1, <1>2 DEF CallStates
  <2>4. CallFits(setup.lru, W) /\ CallKnows(log', setup.finalized, W)
    BY <2>2 DEF CallFits, CallKnows
  <2> HIDE DEF W
  <2> QED BY <2>1, <2>3, <2>4 DEF Proceeding, GoesOn
<1>4. CASE ReadStore(w)
  <2>1. work[w].pc = "read"
    BY <1>4 DEF ReadStore
  <2>2. CASE Returns(w)
    BY <1>1, <1>2, <2>2, IdleGoesOn DEF Returns
  <2>3. CASE store[work[w].key] # 0 /\ work' = [work EXCEPT ![w].pc = "fill", ![w].ver = store[work[w].key]]
    <3> DEFINE W == [pc |-> "fill", key |-> work[w].key, ver |-> store[work[w].key], todo |-> work[w].todo]
    <3>1. CallBecomes(w, W)
      BY <1>1, <2>3 DEF CallBecomes
    <3>2. setup.lru > 0 /\ work[w].key \in Keys
      BY <1>1, <2>1 DEF CallFits
    <3>3. W \in CallStates(Len(log'))
      BY <1>1, <1>2, <3>2 DEF CallStates
    <3>4. CallFits(setup.lru, W) /\ CallKnows(log', setup.finalized, W)
      BY <2>3, <3>2 DEF CallFits, CallKnows
    <3> HIDE DEF W
    <3> QED BY <3>1, <3>3, <3>4 DEF Proceeding, GoesOn
  <2> QED BY <1>4, <2>2, <2>3 DEF ReadStore
<1>5. CASE Fill(w)
  BY <1>1, <1>2, <1>5, IdleGoesOn DEF Fill, Returns
<1> QED BY <1>3, <1>4, <1>5

\* The server carries out what a call asks for.
LEMMA EmitLegal ==
  ASSUME ClientInv, NEW k \in Keys, NEW type \in {"ADDED", "MODIFIED", "DELETED"}, Emit(type, k)
  PROVE  /\ Now' = Now + 1 /\ log' \in Seq(Event) /\ Len(log') = Now + 1 /\ Grows(log, log')
         /\ log'[Now + 1].key = k /\ log'[Now + 1].type = type
         /\ type = "DELETED" => After(log', Now + 1)[k] = 0
<1> DEFINE e == [type |-> type, key |-> k]
<1>1. log \in Seq(Event) /\ log' = Append(log, e) /\ e \in Event /\ Now \in Nat /\ Now = Len(log)
  BY TypedRuns, EmitAppends DEF ClientInv, RunsInv, Now
<1>2. e.key = k /\ e.type = type
  OBVIOUS
<1> HIDE DEF e
<1>3. log' \in Seq(Event) /\ Len(log') = Now + 1 /\ log'[Now + 1] = e
  BY <1>1
<1>4. type = "DELETED" => After(log', Now + 1)[k] = 0
  <2>1. Now + 1 \in Nat /\ Now + 1 \in 1 .. Now + 1 /\ IsLast(log', Now + 1, Now + 1, k)
    BY <1>1, <1>2, <1>3 DEF IsLast
  <2> QED BY <1>2, <1>3, <2>1, AfterLast
<1> QED BY <1>1, <1>2, <1>3, <1>4 DEF Grows, Now

(* A write the server has just answered carries the version it got. *)
LEMMA AnsweredGoesOn ==
  ASSUME ClientInv, NEW w \in Workers, NEW k \in Keys, NEW type \in {"ADDED", "MODIFIED", "DELETED"},
         NEW pc, NEW todo \in SUBSET {k}, Answered(w, type, k, pc, todo),
         \/ pc = "upsert" /\ type # "DELETED"
         \/ pc = "sweep" /\ (k \in setup.finalized \/ type = "DELETED")
  PROVE  Proceeding(w)
<1> DEFINE W == [pc |-> pc, key |-> k, ver |-> Now + 1, todo |-> todo]
<1>1. CallBecomes(w, W) /\ Emit(type, k)
  BY CallTyped DEF Answered, CallBecomes
<1>2. /\ Len(log') = Now + 1 /\ Now \in Nat
      /\ log'[Now + 1].key = k /\ log'[Now + 1].type = type
      /\ type = "DELETED" => After(log', Now + 1)[k] = 0
  BY <1>1, EmitLegal, CallTyped
<1>3. W \in CallStates(Len(log'))
  BY <1>2 DEF CallStates
<1>4. CallFits(setup.lru, W)
  BY <1>2 DEF CallFits
<1>5. CallKnows(log', setup.finalized, W)
  <2>1. CASE pc = "upsert"
    BY <1>2, <2>1 DEF CallKnows
  <2>2. CASE pc = "sweep"
    <3>1. ASSUME NEW j \in todo \ setup.finalized PROVE Witnessed(log', Now + 1, j, 0)
      BY <1>2, <2>2, <3>1 DEF Witnessed
    <3> QED BY <2>2, <3>1 DEF CallKnows
  <2> QED BY <2>1, <2>2
<1> HIDE DEF W
<1> QED BY <1>1, <1>3, <1>4, <1>5 DEF Proceeding, GoesOn

(* DeleteAllOf has only the keys the server deleted still to sweep. *)
LEMMA DeleteAllGoesOn ==
  ASSUME ClientInv, NEW w \in Workers, DeleteAllOf(w)
  PROVE  Proceeding(w)
<1> DEFINE W == [pc |-> "collect", key |-> "none", ver |-> Now, todo |-> {it.key : it \in Existing}]
<1>1. /\ Now = Len(log) /\ Now \in Nat /\ log \in Seq(Event) /\ log' = log /\ CallBecomes(w, W)
  BY CallTyped DEF DeleteAllOf, CallBecomes, vars
<1>2. Existing = ItemsAfter(log, Now)
  BY <1>1, ExistingType
<1>3. {it.key : it \in Existing} \in SUBSET Keys
  BY <1>1, <1>2, ItemParts
<1>4. W \in CallStates(Len(log'))
  BY <1>1, <1>3 DEF CallStates
<1>5. ASSUME NEW k \in Keys, k \notin {it.key : it \in Existing} PROVE Witnessed(log, Now, k, 0)
  <2>1. After(log, Now)[k] = 0
    <3>1. SUFFICES ASSUME After(log, Now)[k] # 0 PROVE FALSE
      OBVIOUS
    <3>2. [key |-> k, ver |-> After(log, Now)[k], old |-> 0] \in Existing
      BY <1>2, <3>1 DEF ItemsAfter
    <3> QED BY <1>5, <3>2
  <2> QED BY <1>1, <2>1 DEF Witnessed
<1>6. CallKnows(log', setup.finalized, W)
  BY <1>1, <1>5 DEF CallKnows
<1>7. CallFits(setup.lru, W)
  BY DEF CallFits
<1> HIDE DEF W
<1> QED BY <1>1, <1>4, <1>6, <1>7 DEF Proceeding, GoesOn

\* The collection is deleted object by object; the call knows of each when it was gone.
LEMMA CollectGoesOn ==
  ASSUME ClientInv, NEW w \in Workers, Collect(w)
  PROVE  Proceeding(w)
<1>1. PICK k \in work[w].todo : /\ work' = [work EXCEPT ![w].todo = @ \ {k}]
                                /\ IF At(Now)[k] # 0 THEN Emit(Removal(k), k) ELSE UNCHANGED vars
  BY DEF Collect
<1> DEFINE V == work[w]
           W == [pc |-> "collect", key |-> V.key, ver |-> V.ver, todo |-> V.todo \ {k}]
<1>2. /\ Now = Len(log) /\ Now \in Nat /\ log \in Seq(Event) /\ work \in [Workers -> CallStates(Now)]
      /\ V = [pc |-> V.pc, key |-> V.key, ver |-> V.ver, todo |-> V.todo] /\ V.pc = "collect"
      /\ V.key \in Keys \cup {"none"} /\ V.ver \in 0..Now /\ V.todo \in SUBSET Keys
      /\ CallKnows(log, setup.finalized, V)
  BY CallTyped DEF Collect
<1>3. CallBecomes(w, W)
  BY <1>1, <1>2 DEF CallBecomes
<1>4. Grows(log, log') /\ log' \in Seq(Event) /\ Len(log') \in Nat /\ Now <= Len(log')
  <2>1. CASE At(Now)[k] # 0
    <3>1. Emit(Removal(k), k) /\ Removal(k) \in {"ADDED", "MODIFIED", "DELETED"}
      BY <1>1, <2>1 DEF Removal
    <3> QED BY <1>2, <3>1, EmitLegal
  <2>2. CASE At(Now)[k] = 0
    BY <1>1, <1>2, <2>2 DEF Grows, vars
  <2> QED BY <2>1, <2>2
<1>5. W \in CallStates(Len(log'))
  BY <1>2, <1>4 DEF CallStates
<1>6. CallFits(setup.lru, W)
  BY DEF CallFits
<1>7. k \notin setup.finalized => Witnessed(log', V.ver, k, 0)
  <2>1. CASE At(Now)[k] # 0
    <3>1. Emit(Removal(k), k) /\ Removal(k) \in {"ADDED", "MODIFIED", "DELETED"}
          /\ (k \notin setup.finalized => Removal(k) = "DELETED")
      BY <1>1, <2>1 DEF Removal
    <3>2. Len(log') = Now + 1 /\ (k \notin setup.finalized => After(log', Now + 1)[k] = 0)
      BY <1>2, <3>1, EmitLegal
    <3> QED BY <1>2, <3>2 DEF Witnessed
  <2>2. CASE At(Now)[k] = 0
    <3>1. log' = log /\ After(log, Now)[k] = 0
      BY <1>1, <2>2, AtAfter DEF vars
    <3> QED BY <1>2, <3>1 DEF Witnessed
  <2> QED BY <2>1, <2>2
<1>8. CallKnows(log', setup.finalized, W)
  <2>1. CallKnows(log', setup.finalized, V)
    BY <1>2, <1>4, CallKnowsGrows, CallTyped
  <2>2. ASSUME NEW j \in Keys \ setup.finalized PROVE j \in V.todo \ {k} \/ Witnessed(log', V.ver, j, 0)
    BY <1>2, <1>7, <2>1 DEF CallKnows
  <2> QED BY <2>2 DEF CallKnows
<1> HIDE DEF W
<1> QED BY <1>3, <1>5, <1>6, <1>8 DEF Proceeding, GoesOn

(* The steps that bring the answer into the store, and the sweep, give up knowledge only. *)
LEMMA SweepGoesOn ==
  ASSUME ClientInv, NEW w \in Workers,
         ListForDeletion(w) \/ UpsertAnswer(w) \/ DeleteStored(w) \/ InvalidateLRU(w) \/ SweepDone(w)
  PROVE  Proceeding(w)
<1> DEFINE V == work[w]
<1>1. /\ Now = Len(log) /\ Now \in Nat /\ log \in Seq(Event) /\ work \in [Workers -> CallStates(Now)]
      /\ V = [pc |-> V.pc, key |-> V.key, ver |-> V.ver, todo |-> V.todo]
      /\ V.key \in Keys \cup {"none"} /\ V.ver \in 0..Now /\ V.todo \in SUBSET Keys
      /\ CallKnows(log, setup.finalized, V) /\ CallFits(setup.lru, V)
  BY CallTyped
<1>2. log' = log
  BY DEF ListForDeletion, UpsertAnswer, DeleteStored, WritesThrough, InvalidateLRU, SweepDone, vars
<1>3. CASE ListForDeletion(w)
  <2> DEFINE W == [pc |-> "sweep", key |-> V.key, ver |-> V.ver, todo |-> {k \in Keys : store[k] # 0}]
  <2>1. V.pc = "collect" /\ V.todo = {} /\ CallBecomes(w, W)
    BY <1>1, <1>3 DEF ListForDeletion, CallBecomes
  <2>2. W \in CallStates(Len(log')) /\ CallFits(setup.lru, W)
    BY <1>1, <1>2 DEF CallStates, CallFits
  <2>3. CallKnows(log', setup.finalized, W)
    BY <1>1, <1>2, <2>1 DEF CallKnows
  <2> HIDE DEF W
  <2> QED BY <2>1, <2>2, <2>3 DEF Proceeding, GoesOn
<1>4. CASE UpsertAnswer(w)
  <2> DEFINE W == [pc |-> "invalidate", key |-> V.key, ver |-> V.ver, todo |-> V.todo]
  <2>1. V.pc = "upsert" /\ CallBecomes(w, W)
    BY <1>1, <1>4 DEF UpsertAnswer, CallBecomes
  <2>2. W \in CallStates(Len(log')) /\ CallFits(setup.lru, W) /\ CallKnows(log', setup.finalized, W)
    BY <1>1, <1>2, <2>1 DEF CallStates, CallFits, CallKnows
  <2> HIDE DEF W
  <2> QED BY <2>1, <2>2 DEF Proceeding, GoesOn
<1>5. CASE DeleteStored(w)
  <2>1. PICK k \in V.todo : work' = [work EXCEPT ![w].pc = "drop", ![w].key = k, ![w].todo = @ \ {k}]
    BY <1>5 DEF DeleteStored
  <2> DEFINE W == [pc |-> "drop", key |-> k, ver |-> V.ver, todo |-> V.todo \ {k}]
  <2>2. V.pc = "sweep" /\ CallBecomes(w, W)
    BY <1>1, <1>5, <2>1 DEF DeleteStored, CallBecomes
  <2>3. W \in CallStates(Len(log')) /\ CallFits(setup.lru, W)
    BY <1>1, <1>2, <2>1 DEF CallStates, CallFits
  <2>4. CallKnows(log', setup.finalized, W)
    BY <1>1, <1>2, <2>2 DEF CallKnows
  <2> HIDE DEF W
  <2> QED BY <2>2, <2>3, <2>4 DEF Proceeding, GoesOn
<1>6. CASE InvalidateLRU(w)
  <2>1. V.pc \in {"invalidate", "drop"}
    BY <1>6 DEF InvalidateLRU
  <2>2. CASE V.pc = "invalidate"
    BY <1>1, <1>2, <1>6, <2>2, IdleGoesOn DEF InvalidateLRU
  <2>3. CASE V.pc = "drop"
    <3> DEFINE W == [pc |-> "sweep", key |-> "none", ver |-> V.ver, todo |-> V.todo]
    <3>1. CallBecomes(w, W)
      BY <1>1, <1>6, <2>3 DEF InvalidateLRU, CallBecomes
    <3>2. W \in CallStates(Len(log')) /\ CallFits(setup.lru, W)
      BY <1>1, <1>2 DEF CallStates, CallFits
    <3>3. CallKnows(log', setup.finalized, W)
      BY <1>1, <1>2, <2>3 DEF CallKnows
    <3> HIDE DEF W
    <3> QED BY <3>1, <3>2, <3>3 DEF Proceeding, GoesOn
  <2> QED BY <2>1, <2>2, <2>3
<1>7. CASE SweepDone(w)
  BY <1>1, <1>2, <1>7, IdleGoesOn DEF SweepDone, Returns
<1> QED BY <1>3, <1>4, <1>5, <1>6, <1>7

-----------------------------------------------------------------------------
(* The kinds of step                                                       *)

\* What a step of a call does to the state it shares with the informer: nothing,
\* a legal write at the server, or a write-through.
Looks == UNCHANGED vars /\ overtaken' = overtaken

WritesAtServer ==
  /\ \E k \in Keys, type \in {"ADDED", "MODIFIED", "DELETED"} :
       Emit(type, k) /\ (type = "ADDED" <=> At(Now)[k] = 0)
  /\ overtaken' = overtaken

WritesToStore(w) ==
  \E k \in Keys, v \in {0, work[w].ver} :
    /\ WritesThrough(w, k, v)
    /\ \/ work[w].pc = "upsert" /\ k = work[w].key /\ v = work[w].ver
       \/ work[w].pc = "sweep" /\ k \in work[w].todo /\ v = 0

(* A step of a call looks, writes at the server or writes to the store. *)
LEMMA KindsOfCall ==
  ASSUME ClientInv, NEW w \in Workers, Begin(w) \/ Continue(w)
  PROVE  (Looks \/ WritesAtServer \/ WritesToStore(w)) /\ setup' = setup
<1>1. ASSUME NEW k \in Keys, NEW type \in {"ADDED", "MODIFIED", "DELETED"}, NEW pc, NEW todo,
             Answered(w, type, k, pc, todo), type = "ADDED" <=> At(Now)[k] = 0
      PROVE  WritesAtServer /\ setup' = setup
  BY <1>1 DEF Answered, WritesAtServer
<1>2. \A k : Removal(k) \in {"MODIFIED", "DELETED"}
  BY DEF Removal
<1>3. CASE Begin(w)
  <2>1. CASE DeleteAllOf(w)
    BY <2>1 DEF DeleteAllOf, Looks
  <2>2. ASSUME NEW k \in Keys, GetMiss(w, k) PROVE Looks /\ setup' = setup
    BY <2>2 DEF GetMiss, Looks
  <2>3. ASSUME NEW k \in Keys, Create(w, k) PROVE WritesAtServer /\ setup' = setup
    BY <1>1, <2>3 DEF Create
  <2>4. ASSUME NEW k \in Keys,
               Update(w, k) \/ Patch(w, k) \/ SubResourceUpdate(w, k) \/ SubResourcePatch(w, k)
        PROVE  WritesAtServer /\ setup' = setup
    BY <1>1, <2>4 DEF Update, Patch, SubResourceUpdate, SubResourcePatch
  <2>5. ASSUME NEW k \in Keys, Delete(w, k) PROVE WritesAtServer /\ setup' = setup
    BY <1>1, <1>2, <2>5 DEF Delete
  <2>6. ASSUME NEW k \in Keys, SubResourceCreate(w, k) PROVE WritesAtServer /\ setup' = setup
    <3>1. Emit(IF At(Now)[k] = 0 THEN "ADDED" ELSE "MODIFIED", k) /\ UNCHANGED clientVars
      BY <2>6 DEF SubResourceCreate, ServerWrites
    <3>2. setup' = setup /\ overtaken' = overtaken
      BY <3>1 DEF clientVars
    <3> QED BY <3>1, <3>2 DEF WritesAtServer
  <2> QED BY <1>3, <2>1, <2>2, <2>3, <2>4, <2>5, <2>6 DEF Begin
<1>4. CASE ReadStore(w) \/ Fill(w) \/ ListForDeletion(w) \/ InvalidateLRU(w) \/ SweepDone(w)
  BY <1>4 DEF ReadStore, Fill, ListForDeletion, InvalidateLRU, SweepDone, Looks
<1>5. CASE Collect(w)
  <2>1. PICK k \in work[w].todo : IF At(Now)[k] # 0 THEN Emit(Removal(k), k) ELSE UNCHANGED vars
    BY <1>5 DEF Collect
  <2>2. k \in Keys
    BY <2>1, CallTyped
  <2>3. setup' = setup /\ overtaken' = overtaken
    BY <1>5 DEF Collect
  <2> QED BY <1>2, <2>1, <2>2, <2>3 DEF Looks, WritesAtServer
<1>6. CASE UpsertAnswer(w)
  <2>1. work[w].pc = "upsert" /\ WritesThrough(w, work[w].key, work[w].ver)
    BY <1>6 DEF UpsertAnswer
  <2>2. work[w].key \in Keys
    BY <2>1, CallTyped DEF CallFits
  <2> QED BY <2>1, <2>2 DEF WritesToStore, WritesThrough
<1>7. CASE DeleteStored(w)
  <2>1. PICK k \in work[w].todo : WritesThrough(w, k, 0)
    BY <1>7 DEF DeleteStored
  <2>2. k \in Keys /\ work[w].pc = "sweep"
    BY <1>7, <2>1, CallTyped DEF DeleteStored
  <2>3. setup' = setup
    BY <2>1 DEF WritesThrough
  <2> QED BY <2>1, <2>2, <2>3 DEF WritesToStore
<1> QED BY <1>3, <1>4, <1>5, <1>6, <1>7 DEF Continue

-----------------------------------------------------------------------------
(* The calls in progress, after a step                                     *)

(* No step of a call makes up a version. *)
LEMMA CallProceeds ==
  ASSUME ClientInv, NEW w \in Workers, Begin(w) \/ Continue(w)
  PROVE  Proceeding(w) \/ work' = work
<1>1. CASE Begin(w)
  <2>1. CASE DeleteAllOf(w)
    BY <2>1, DeleteAllGoesOn
  <2>2. ASSUME NEW k \in Keys, GetMiss(w, k) PROVE Proceeding(w)
    BY <2>2, GetGoesOn
  <2>3. ASSUME NEW k \in Keys, Create(w, k) PROVE Proceeding(w)
    <3>1. Answered(w, "ADDED", k, "upsert", {}) /\ {} \in SUBSET {k}
      BY <2>3 DEF Create
    <3> QED BY <3>1, AnsweredGoesOn
  <2>4. ASSUME NEW k \in Keys,
               Update(w, k) \/ Patch(w, k) \/ SubResourceUpdate(w, k) \/ SubResourcePatch(w, k)
        PROVE  Proceeding(w)
    <3>1. Answered(w, "MODIFIED", k, "upsert", {}) /\ {} \in SUBSET {k}
      BY <2>4 DEF Update, Patch, SubResourceUpdate, SubResourcePatch
    <3> QED BY <3>1, AnsweredGoesOn
  <2>5. ASSUME NEW k \in Keys, Delete(w, k) PROVE Proceeding(w)
    <3>1. Answered(w, Removal(k), k, "sweep", {k}) /\ {k} \in SUBSET {k}
      BY <2>5 DEF Delete
    <3>2. Removal(k) \in {"ADDED", "MODIFIED", "DELETED"} /\ (k \in setup.finalized \/ Removal(k) = "DELETED")
      BY DEF Removal
    <3> QED BY <3>1, <3>2, AnsweredGoesOn
  <2>6. ASSUME NEW k \in Keys, SubResourceCreate(w, k) PROVE work' = work
    BY <2>6 DEF SubResourceCreate, clientVars
  <2> QED BY <1>1, <2>1, <2>2, <2>3, <2>4, <2>5, <2>6 DEF Begin
<1>2. CASE ReadStore(w) \/ Fill(w)
  <2>1. Keys # {}
    BY <1>2, CallTyped DEF ReadStore, Fill, CallFits
  <2> QED BY <1>2, <2>1, GetGoesOn
<1>3. CASE Collect(w)
  BY <1>3, CollectGoesOn
<1>4. CASE ListForDeletion(w) \/ UpsertAnswer(w) \/ DeleteStored(w) \/ InvalidateLRU(w) \/ SweepDone(w)
  BY <1>4, SweepGoesOn
<1> QED BY <1>1, <1>2, <1>3, <1>4 DEF Continue

\* A call makes the history longer by a legal event at most.
LEMMA CallGrowsLog ==
  ASSUME ClientInv, NEW w \in Workers, Begin(w) \/ Continue(w)
  PROVE  Grows(log, log') /\ failures' = failures /\ run' = run /\ cancelled' = cancelled /\ setup' = setup
<1>1. Looks \/ WritesAtServer \/ WritesToStore(w)
  BY KindsOfCall
<1>2. setup' = setup
  BY KindsOfCall
<1>3. CASE Looks
  BY <1>2, <1>3 DEF Looks, vars, Grows
<1>4. CASE WritesAtServer
  <2>1. PICK k \in Keys, type \in {"ADDED", "MODIFIED", "DELETED"} : Emit(type, k)
    BY <1>4 DEF WritesAtServer
  <2>2. Grows(log, log')
    BY <2>1, EmitLegal
  <2> QED BY <1>2, <2>1, <2>2 DEF Emit
<1>5. CASE WritesToStore(w)
  BY <1>2, <1>5 DEF WritesToStore, WritesThrough, Grows
<1> QED BY <1>1, <1>3, <1>4, <1>5

\* For the informer, a call is somebody else's write to its server, or to its store.
LEMMA RunsCall ==
  ASSUME ClientInv, NEW w \in Workers, Begin(w) \/ Continue(w)
  PROVE  RunsInv'
<1>1. Looks \/ WritesAtServer \/ WritesToStore(w)
  BY KindsOfCall
<1>2. RunsInv
  BY DEF ClientInv
<1>3. CASE Looks
  BY <1>2, <1>3, RunsStep DEF Looks
<1>4. CASE WritesAtServer
  <2>1. PICK k \in Keys, type \in {"ADDED", "MODIFIED", "DELETED"} :
          Emit(type, k) /\ (type = "ADDED" <=> At(Now)[k] = 0)
    BY <1>4 DEF WritesAtServer
  <2>2. TypeOK' /\ LegalHistory' /\ Hands'
    BY <1>2, <2>1, TypeEmit, HistoryEmit, HandsEmit DEF RunsInv
  <2>3. NoFailureYet'
    <3>1. failures' = failures /\ run' = run /\ cancelled' = cancelled
      BY <2>1 DEF Emit
    <3> QED BY <1>2, <3>1 DEF RunsInv, NoFailureYet
  <2> QED BY <2>2, <2>3 DEF RunsInv
<1>5. CASE WritesToStore(w)
  <2>1. PICK k \in Keys, v \in {0, work[w].ver} : WritesThrough(w, k, v)
    BY <1>5 DEF WritesToStore
  <2>2. /\ log' = log /\ failures' = failures /\ cancelled' = cancelled /\ index' = index
        /\ since' = since /\ told' = told /\ hasSynced' = hasSynced /\ run' = run
        /\ store' = [store EXCEPT ![k] = v]
    BY <2>1 DEF WritesThrough
  <2>3. work[w].ver \in 0..Now /\ Now \in Nat /\ TypeOK
    BY CallTyped
  <2>4. store' \in [Keys -> 0..Now] /\ Now' = Now
    BY <2>2, <2>3 DEF TypeOK, Now
  <2>5. TypeOK'
    BY <2>2, <2>3, <2>4 DEF TypeOK, Item
  <2>6. LegalHistory' /\ Hands' /\ NoFailureYet'
    BY <1>2, <2>2 DEF RunsInv, LegalHistory, Hands, NoFailureYet
  <2> QED BY <2>5, <2>6 DEF RunsInv
<1> QED BY <1>1, <1>3, <1>4, <1>5

\* The local states of all calls after a step of one of them.
LEMMA CallsAfterCall ==
  ASSUME ClientInv, NEW w \in Workers, Begin(w) \/ Continue(w)
  PROVE  /\ work' \in [Workers -> CallStates(Now')]
         /\ CallsKnow'
         /\ \A v \in Workers : CallFits(setup'.lru, work'[v])
<1>1. Grows(log, log') /\ setup' = setup
  BY CallGrowsLog
<1>2. \A v \in Workers : /\ work[v] \in CallStates(Len(log)) /\ CallFits(setup.lru, work[v])
                         /\ CallKnows(log, setup.finalized, work[v])
  BY CallTyped
<1>3. log \in Seq(Event) /\ work \in [Workers -> CallStates(Now)] /\ Now = Len(log)
  BY CallTyped
<1>4. CallStates(Len(log)) \subseteq CallStates(Len(log')) /\ Now' = Len(log')
  BY <1>1, <1>3, GrowsKeeps DEF CallStates, Now
<1>5. \A v \in Workers : /\ work[v] \in CallStates(Len(log')) /\ CallFits(setup.lru, work[v])
                         /\ CallKnows(log', setup.finalized, work[v])
  BY <1>1, <1>2, <1>3, <1>4, CallKnowsGrows
<1>6. CASE work' = work
  BY <1>1, <1>3, <1>4, <1>5, <1>6 DEF CallsKnow
<1>7. CASE Proceeding(w)
  <2>1. PICK W : GoesOn(w, W)
    BY <1>7 DEF Proceeding
  <2>2. \A v \in Workers : /\ work'[v] \in CallStates(Len(log')) /\ CallFits(setup.lru, work'[v])
                           /\ CallKnows(log', setup.finalized, work'[v])
    BY <1>5, <2>1 DEF GoesOn, CallBecomes
  <2>3. work' = [v \in Workers |-> work'[v]]
    BY <2>1 DEF GoesOn, CallBecomes
  <2> QED BY <1>1, <1>4, <2>2, <2>3 DEF CallsKnow
<1> QED BY <1>6, <1>7, CallProceeds

-----------------------------------------------------------------------------
(* The LRU                                                                 *)

\* An LRU of the given size, with versions up to n.
LRUFits(size, c, n) ==
  /\ DOMAIN c \subseteq Keys /\ IsFiniteSet(DOMAIN c) /\ Cardinality(DOMAIN c) <= size
  /\ \A k \in DOMAIN c : c[k] \in 1..n
  /\ c = [k \in DOMAIN c |-> c[k]]

\* A new entry takes its own place, a free one or that of another.
MakesRoom(size, c, k, kept) ==
  \/ kept = DOMAIN c /\ (k \in DOMAIN c \/ Cardinality(DOMAIN c) < size)
  \/ \E victim \in DOMAIN c : kept = DOMAIN c \ {victim}

Puts(c, kept, k, v, d) == d = [j \in kept \cup {k} |-> IF j = k THEN v ELSE c[j]]

(* A fill that evicts before it stores keeps the LRU within its size. *)
LEMMA LRUFitsFill ==
  ASSUME NEW size \in Nat, NEW c, NEW n \in Nat, LRUFits(size, c, n), NEW k \in Keys, NEW v \in 1..n,
         NEW kept \in SUBSET DOMAIN c, MakesRoom(size, c, k, kept), NEW d, Puts(c, kept, k, v, d)
  PROVE  LRUFits(size, d, n)
<1>1. DOMAIN c \subseteq Keys /\ IsFiniteSet(DOMAIN c) /\ Cardinality(DOMAIN c) <= size
      /\ Cardinality(DOMAIN c) \in Nat /\ \A j \in DOMAIN c : c[j] \in 1..n
  BY FS_CardinalityType DEF LRUFits
<1>2. IsFiniteSet(kept) /\ Cardinality(kept) \in Nat
  BY <1>1, FS_Subset, FS_CardinalityType
<1>3. IsFiniteSet(kept \cup {k})
      /\ Cardinality(kept \cup {k}) = IF k \in kept THEN Cardinality(kept) ELSE Cardinality(kept) + 1
  BY <1>2, FS_AddElement
<1>4. Cardinality(kept \cup {k}) <= size
  <2>1. CASE kept = DOMAIN c /\ (k \in DOMAIN c \/ Cardinality(DOMAIN c) < size)
    BY <1>1, <1>3, <2>1
  <2>2. ASSUME NEW victim \in DOMAIN c, kept = DOMAIN c \ {victim}
        PROVE  Cardinality(kept \cup {k}) <= size
    <3>1. Cardinality(kept) = Cardinality(DOMAIN c) - 1
      BY <1>1, <2>2, FS_RemoveElement
    <3> QED BY <1>1, <1>3, <3>1
  <2> QED BY <2>1, <2>2 DEF MakesRoom
<1>5. \A j \in kept \cup {k} : d[j] \in 1..n
  BY <1>1 DEF Puts
<1>6. DOMAIN d = kept \cup {k} /\ d = [j \in DOMAIN d |-> d[j]]
  BY DEF Puts
<1>7. kept \cup {k} \subseteq Keys
  BY <1>1
<1> QED BY <1>3, <1>4, <1>5, <1>6, <1>7 DEF LRUFits

(* Invalidating an entry keeps it there too. *)
LEMMA LRUFitsDrop ==
  ASSUME NEW size \in Nat, NEW c, NEW n \in Nat, LRUFits(size, c, n), NEW k
  PROVE  LRUFits(size, [j \in DOMAIN c \ {k} |-> c[j]], n)
<1> DEFINE d == [j \in DOMAIN c \ {k} |-> c[j]]
<1>1. DOMAIN c \subseteq Keys /\ IsFiniteSet(DOMAIN c) /\ Cardinality(DOMAIN c) <= size
      /\ Cardinality(DOMAIN c) \in Nat /\ \A j \in DOMAIN c : c[j] \in 1..n
  BY FS_CardinalityType DEF LRUFits
<1>2. IsFiniteSet(DOMAIN c \ {k})
      /\ Cardinality(DOMAIN c \ {k}) = IF k \in DOMAIN c THEN Cardinality(DOMAIN c) - 1 ELSE Cardinality(DOMAIN c)
  BY <1>1, FS_RemoveElement
<1>3. DOMAIN d = DOMAIN c \ {k} /\ d = [j \in DOMAIN d |-> d[j]] /\ \A j \in DOMAIN d : d[j] \in 1..n
  BY <1>1
<1>4. Cardinality(DOMAIN c \ {k}) <= size
  BY <1>1, <1>2
<1> HIDE DEF d
<1>5. LRUFits(size, d, n)
  BY <1>1, <1>2, <1>3, <1>4 DEF LRUFits
<1> QED BY <1>5 DEF d

(* No step of a call overfills the LRU. *)
LEMMA LRUAfterCall ==
  ASSUME ClientInv, NEW w \in Workers, Begin(w) \/ Continue(w)
  PROVE  LRUFits(setup'.lru, lru', Now')
<1>1. /\ Grows(log, log') /\ setup' = setup /\ log \in Seq(Event) /\ Now = Len(log) /\ Now \in Nat
      /\ work \in [Workers -> CallStates(Now)] /\ CallFits(setup.lru, work[w])
  BY CallGrowsLog, CallTyped
<1>2. Now' \in Nat /\ Now <= Now'
  BY <1>1, GrowsKeeps DEF Now
<1>3. setup.lru \in Nat
  BY ClientAssumption DEF ClientInv, ClientTypeOK
<1>4. LRUFits(setup.lru, lru, Now')
  <2>1. \A k \in DOMAIN lru : lru[k] \in 1..Now'
    BY <1>1, <1>2 DEF ClientInv, ClientTypeOK
  <2> QED BY <2>1 DEF ClientInv, ClientTypeOK, CallsFit, LRUFits
<1>5. CASE lru' = lru
  BY <1>1, <1>4, <1>5
<1>6. CASE InvalidateLRU(w)
  <2>1. lru' = [j \in DOMAIN lru \ {work[w].key} |-> lru[j]]
    BY <1>6 DEF InvalidateLRU
  <2> QED BY <1>1, <1>2, <1>3, <1>4, <2>1, LRUFitsDrop
<1>7. CASE Fill(w)
  <2> DEFINE k == work[w].key
             v == work[w].ver
             roomy == k \in DOMAIN lru \/ Cardinality(DOMAIN lru) < setup.lru
  <2>1. PICK kept \in IF roomy THEN {DOMAIN lru} ELSE {DOMAIN lru \ {victim} : victim \in DOMAIN lru} :
          lru' = [j \in kept \cup {k} |-> IF j = k THEN v ELSE lru[j]]
    BY <1>7 DEF Fill
  <2>2. k \in Keys /\ v \in 1..Now'
    <3>1. work[w].ver \in 0..Now
      BY CallTyped
    <3> QED BY <1>1, <1>2, <1>7, <3>1 DEF Fill, CallFits
  <2>3. kept \in SUBSET DOMAIN lru
    BY <2>1
  <2>4. MakesRoom(setup.lru, lru, k, kept) /\ Puts(lru, kept, k, v, lru')
    BY <2>1 DEF MakesRoom, Puts
  <2> HIDE DEF k, v, roomy
  <2>5. LRUFits(setup.lru, lru', Now')
    BY <1>2, <1>3, <1>4, <2>2, <2>3, <2>4, LRUFitsFill
  <2> QED BY <1>1, <2>5
<1>8. lru' = lru \/ InvalidateLRU(w) \/ Fill(w)
  <2>1. CASE Begin(w)
    BY <2>1 DEF Begin, GetMiss, Answered, Create, Update, Patch, SubResourceUpdate, SubResourcePatch,
                SubResourceCreate, Delete, DeleteAllOf, clientVars
  <2>2. CASE Continue(w)
    BY <2>2 DEF Continue, ReadStore, Collect, ListForDeletion, UpsertAnswer, DeleteStored, SweepDone
  <2> QED BY <2>1, <2>2
<1> QED BY <1>5, <1>6, <1>7, <1>8

-----------------------------------------------------------------------------
(* What the store shows after a step of the informer                       *)

\* Where no item is applied the informer goes on to other things.
LEMMA NothingApplied ==
  ASSUME TypeOK, NEW r \in Runs, StoreStays(r)
  PROVE  JustApplied(r) = {}
<1>1. CASE ListReturns(r) \/ ListFails(r) \/ ApplyIndex(r) \/ ListDone(r)
  BY <1>1, ListReturnsEffect, ListFailsEffect, ApplyIndexEffect, ListDoneEffect DEF JustApplied
<1>2. CASE WatchOpens(r) \/ EventIndex(r) \/ Notify(r) \/ WatchBreaks(r)
  BY <1>2, WatchOpensEffect, EventIndexEffect, NotifyEffect, WatchBreaksEffect DEF JustApplied
<1>3. CASE Loop(r)
  BY <1>3, StopsEffect, ProceedsEffect, WakesEffect DEF Loop, JustApplied
<1> QED BY <1>1, <1>2, <1>3 DEF StoreStays

\* The informer goes on towards the same goal.
LEMMA ShownSame ==
  ASSUME NEW l, NEW s, NEW exempt, NEW R, NEW S, Shown(l, s, exempt, R), S.pc # "list",
         Pursuing(S) => Pursuing(R) /\ Goal(S) = Goal(R) /\ S.todo = R.todo
  PROVE  Shown(l, s, exempt, S)
<1>1. Pursuing(S) => Pending(S) = Pending(R)
  BY DEF Pending
<1> QED BY <1>1 DEF Shown

\* The snapshot has everything that is there, and the store nothing yet.
LEMMA ShownStart ==
  ASSUME NEW l \in Seq(Event), NEW s, NEW exempt, NEW R, NEW S, Shown(l, s, exempt, R), R.pc = "list",
         S.pc # "list", S.todo = ItemsAfter(l, Len(l)), Goal(S) = Len(l)
  PROVE  Shown(l, s, exempt, S)
<1>1. Len(l) \in Nat /\ \A k \in Keys : k \in Pending(S) <=> After(l, Len(l))[k] # 0
  BY AllPending
<1>2. ASSUME NEW k \in Keys \ exempt, k \notin Pending(S) PROVE Witnessed(l, Goal(S), k, s[k])
  BY <1>1, <1>2 DEF Shown, Witnessed
<1> QED BY <1>2 DEF Shown

\* An item of the snapshot is applied, whatever the store had instead.
LEMMA ShownUpsert ==
  ASSUME NEW l, NEW n \in Nat, n \in n..Len(l), NEW s \in [Keys -> Nat], NEW exempt, NEW R, NEW S, Shown(l, s, exempt, R),
         NEW it \in R.todo, R.todo \subseteq ItemsAfter(l, n), S.todo = R.todo \ {it},
         Pursuing(R), Goal(R) = n, Goal(S) = n, S.pc # "list",
         NEW t, t = [s EXCEPT ![it.key] = it.ver]
  PROVE  Shown(l, t, exempt \ {it.key}, S)
<1> DEFINE k == it.key
<1>1. k \in Keys /\ it.ver = After(l, n)[k]
  BY ItemParts
<1>2. Pending(S) = Pending(R) \ {k}
  <2>1. \A a \in R.todo : a.key = it.key => a = it
    BY ItemParts
  <2> QED BY <2>1 DEF Pending
<1>3. t[k] = After(l, n)[k] /\ \A j \in Keys \ {k} : t[j] = s[j]
  BY <1>1
<1> HIDE DEF k
<1>4. Witnessed(l, n, k, t[k])
  BY <1>1, <1>3 DEF Witnessed
<1>5. ASSUME NEW j \in Keys \ (exempt \ {k}), j \notin Pending(S) PROVE Witnessed(l, n, j, t[j])
  BY <1>2, <1>3, <1>4, <1>5 DEF Shown
<1>6. \A j \in Keys \ (exempt \ {k}) : j \in Pending(S) \/ Witnessed(l, Goal(S), j, t[j])
  BY <1>5
<1>7. Shown(l, t, exempt \ {k}, S)
  BY <1>6 DEF Shown
<1> QED BY <1>7 DEF k

\* An event moves the goal on by one, and changes one object.
LEMMA ShownEvent ==
  ASSUME NEW l \in Seq(Event), NEW n \in 1..Len(l), NEW s \in [Keys -> Nat], NEW exempt, NEW R, NEW S,
         Shown(l, s, exempt, R), Pursuing(R), Goal(R) = n - 1, R.todo = {}, Goal(S) = n, S.pc # "list",
         NEW t, t = [s EXCEPT ![l[n].key] = IF l[n].type = "DELETED" THEN 0 ELSE n]
  PROVE  Shown(l, t, exempt \ {l[n].key}, S)
<1> DEFINE k == l[n].key
           v == IF l[n].type = "DELETED" THEN 0 ELSE n
<1>1. k \in Keys /\ After(l, n) = [After(l, n - 1) EXCEPT ![k] = v]
  BY AfterNext
<1>2. After(l, n - 1) \in [Keys -> 0 .. n - 1]
  BY AfterType
<1>3. Pending(R) = {}
  BY DEF Pending
<1>4. t = [s EXCEPT ![k] = v]
  OBVIOUS
<1>5. /\ t[k] = v /\ After(l, n)[k] = v
      /\ \A j \in Keys \ {k} : t[j] = s[j] /\ After(l, n)[j] = After(l, n - 1)[j]
  BY <1>1, <1>2, <1>4
<1> HIDE DEF k, v
<1>6. Witnessed(l, n, k, t[k])
  BY <1>5 DEF Witnessed
<1>7. ASSUME NEW j \in Keys \ {k}, j \notin exempt PROVE Witnessed(l, n, j, t[j])
  <2>1. Witnessed(l, n - 1, j, s[j])
    BY <1>3, <1>7 DEF Shown
  <2>2. PICK m \in n - 1 .. Len(l) : s[j] = After(l, m)[j]
    BY <2>1 DEF Witnessed
  <2>3. CASE m = n - 1
    BY <1>5, <1>7, <2>2, <2>3 DEF Witnessed
  <2>4. CASE m # n - 1
    <3>1. m \in n..Len(l)
      BY <2>2, <2>4
    <3> QED BY <1>5, <1>7, <2>2, <3>1 DEF Witnessed
  <2> QED BY <2>3, <2>4
<1>8. \A j \in Keys \ (exempt \ {k}) : Witnessed(l, Goal(S), j, t[j])
  BY <1>6, <1>7
<1>9. Shown(l, t, exempt \ {k}, S)
  BY <1>8 DEF Shown
<1> QED BY <1>9 DEF k

(* A step of a Run brings the store up to the event it applies. *)
LEMMA ShownStep ==
  ASSUME TypeOK, NEW r \in Runs, InHand(log, run[r]), Unbroken(run[r], r \in cancelled), Step(r),
         Shown(log, store, overtaken, run[r])
  PROVE  Shown(log, store', overtaken \ JustApplied(r), run'[r])
<1>1. /\ Now \in Nat /\ Now = Len(log) /\ log \in Seq(Event) /\ run[r].pos \in 0..Now /\ run[r].rv \in NoRV..Now
      /\ store \in [Keys -> 0..Now] /\ store \in [Keys -> Nat]
  BY TypedRuns, TypedLocal DEF TypeOK, Now
<1>2. CASE StoreStays(r)
  <2>1. store' = store /\ overtaken \ JustApplied(r) = overtaken
    BY <1>1, <1>2, StoreStaysStays, NothingApplied
  <2>2. CASE /\ Pursuing(run'[r]) => /\ Pursuing(run[r]) /\ Goal(run'[r]) = Goal(run[r])
                                     /\ run'[r].todo = run[r].todo
             /\ run'[r].pc = "list" => run[r].pc = "sleep"
    <3>1. run'[r].pc # "list"
      BY <2>2 DEF Unbroken
    <3> QED BY <2>1, <2>2, <3>1, ShownSame
  <2>3. CASE /\ run'[r].todo = ItemsAfter(log, Now) /\ Goal(run'[r]) = Now
             /\ ListReturns(r) \/ (WatchOpens(r) /\ run[r].rv = NoRV)
    <3>1. ListReturns(r)
      BY <2>3 DEF WatchOpens, Unbroken
    <3>2. run[r].pc = "list" /\ run'[r].pc # "list"
      BY <3>1, ListReturnsEffect DEF ListReturns
    <3> QED BY <1>1, <2>1, <2>3, <3>2, ShownStart
  <2> QED BY <1>2, <2>2, <2>3, GoalStep
<1>3. CASE ApplyItem(r)
  <2>1. PICK it \in run[r].todo :
          /\ store' = [store EXCEPT ![it.key] = it.ver]
          /\ Becomes(r, "applyIndex", run[r].initial, run[r].rv, run[r].pos, run[r].todo \ {it}, it,
                     run[r].backoff)
    BY <1>3, ApplyItemEffect
  <2>2. /\ run'[r].pc = "applyIndex" /\ run'[r].todo = run[r].todo \ {it} /\ run'[r].rv = run[r].rv
        /\ run'[r].cur = it
    BY <2>1 DEF Becomes
  <2>3. /\ run[r].pc = "apply" /\ run[r].rv # NoRV /\ run[r].todo \subseteq ItemsAfter(log, run[r].rv)
    BY <1>3 DEF ApplyItem, InHand, Listing
  <2>4. /\ Pursuing(run[r]) /\ Goal(run[r]) = run[r].rv /\ Goal(run'[r]) = run[r].rv
        /\ run[r].rv \in Nat /\ run[r].rv \in run[r].rv .. Len(log)
    BY <1>1, <2>2, <2>3 DEF Pursuing, Goal, Listing, Watching, NoRV
  <2>5. run'[r].pc # "list" /\ JustApplied(r) = {it.key}
    BY <2>2, <2>3 DEF JustApplied
  <2>6. Shown(log, store', overtaken \ {it.key}, run'[r])
    BY <1>1, <2>1, <2>2, <2>3, <2>4, <2>5, ShownUpsert
  <2> QED BY <2>5, <2>6
<1>4. CASE HandleEvent(r)
  <2>1. PICK it \in Item : SyntheticEvent(r, it) \/ RealEvent(r, it)
    BY <1>4, HandleEventEffect
  <2>2. run[r].pc = "watch" /\ run[r].todo = {}
    BY <1>4 DEF HandleEvent, InHand, Watching, Unbroken
  <2>3. RealEvent(r, it)
    BY <2>1, <2>2 DEF SyntheticEvent
  <2> DEFINE next == run[r].pos + 1
  <2>4. /\ run'[r].pc = "eventIndex" /\ run'[r].pos = next /\ run'[r].todo = {} /\ next \in 1..Now
        /\ run'[r].cur = it /\ it.key = log[next].key
    BY <2>3 DEF RealEvent, Becomes
  <2>5. store' = [store EXCEPT ![log[next].key] = IF log[next].type = "DELETED" THEN 0 ELSE next]
    BY <2>3 DEF RealEvent
  <2>6. /\ Pursuing(run[r]) /\ Goal(run[r]) = next - 1 /\ Goal(run'[r]) = next
        /\ run'[r].pc # "list" /\ JustApplied(r) = {log[next].key}
    BY <1>1, <2>2, <2>4 DEF Pursuing, Goal, Listing, Watching, NoRV, JustApplied
  <2> HIDE DEF next
  <2>7. Shown(log, store', overtaken \ {log[next].key}, run'[r])
    BY <1>1, <2>2, <2>4, <2>5, <2>6, ShownEvent
  <2> QED BY <2>6, <2>7
<1> QED BY <1>2, <1>3, <1>4 DEF Step, StoreStays

-----------------------------------------------------------------------------
(* What the store shows after a step of a call                             *)

\* A write-through is either recorded as overtaken or shows what it must.
LEMMA ShownWrite ==
  ASSUME NEW l, NEW s \in [Keys -> Nat], NEW exempt, NEW R, Shown(l, s, exempt, R), NEW k \in Keys, NEW v,
         NEW t, t = [s EXCEPT ![k] = v], NEW after,
         \/ after = exempt \cup {k}
         \/ /\ after = exempt \ {k} /\ R.pc # "list"
            /\ Pursuing(R) => Witnessed(l, Goal(R), k, v)
  PROVE  Shown(l, t, after, R)
<1>1. t[k] = v /\ \A j \in Keys \ {k} : t[j] = s[j]
  OBVIOUS
<1>2. \A j \in Keys \ after : j # k => j \notin exempt
  OBVIOUS
<1>3. R.pc = "list" => \A j \in Keys \ after : t[j] = 0
  BY <1>1, <1>2 DEF Shown
<1>4. Pursuing(R) => \A j \in Keys \ after : j \in Pending(R) \/ Witnessed(l, Goal(R), j, t[j])
  BY <1>1, <1>2 DEF Shown
<1> QED BY <1>3, <1>4 DEF Shown

(* A call that writes to the store exempts the key whose newer state it may have overwritten. *)
LEMMA ShownAfterWrite ==
  ASSUME ClientInv, ShownSoFar, NEW w \in Workers, WritesToStore(w), NEW r \in Runs, failures = 0,
         InHand(log, run[r]), Unbroken(run[r], r \in cancelled)
  PROVE  Shown(log, store', overtaken', run[r])
<1>1. PICK k \in Keys, v \in {0, work[w].ver} :
        /\ WritesThrough(w, k, v)
        /\ \/ work[w].pc = "upsert" /\ k = work[w].key /\ v = work[w].ver
           \/ work[w].pc = "sweep" /\ k \in work[w].todo /\ v = 0
  BY DEF WritesToStore
<1> DEFINE R == run[r]
           ver == work[w].ver
           wrong == \/ \E q \in Runs :
                         \/ Unlisted(q)
                         \/ \E n \in ver + 1 .. Reached(q) :
                              log[n].key = k /\ (v = 0 => log[n].type # "DELETED")
                    \/ v = 0 /\ k \in setup.finalized
<1>2. store' = [store EXCEPT ![k] = v] /\ overtaken' = IF wrong THEN overtaken \cup {k} ELSE overtaken \ {k}
  BY <1>1 DEF WritesThrough
<1>3. /\ Now \in Nat /\ Now = Len(log) /\ log \in Seq(Event) /\ ver \in 0..Now
      /\ CallKnows(log, setup.finalized, work[w]) /\ CallFits(setup.lru, work[w]) /\ TypeOK
  BY CallTyped
<1>4. R \in Locals(Now) /\ store \in [Keys -> Nat]
  BY <1>3, TypedRuns DEF TypeOK
<1>5. r \in Runs
  OBVIOUS
<1>6. Shown(log, store, overtaken, R)
  BY DEF ShownSoFar
<1>7. ASSUME ~wrong PROVE R.pc # "list" /\ (Pursuing(R) => Witnessed(log, Goal(R), k, v))
  <2>1. R.pc # "list"
    <3>1. R.pc = "list" => R.initial
      BY DEF Unbroken
    <3> QED BY <1>5, <1>7, <3>1 DEF Unlisted
  <2>2. ASSUME Pursuing(R) PROVE Witnessed(log, Goal(R), k, v)
    <3>1. Reached(r) = Goal(R) /\ Goal(R) \in 0..Len(log)
      BY <1>3, <1>4, <1>5, <2>2, ReachedIsGoal DEF Reached
    <3>2. \A n \in ver + 1 .. Goal(R) : log[n].key = k => (v = 0 /\ log[n].type = "DELETED")
      BY <1>5, <1>7, <3>1
    <3>3. CASE work[w].pc = "upsert" /\ k = work[w].key /\ v = ver
      <4>1. ver \in 1..Len(log) /\ log[ver].key = k /\ log[ver].type # "DELETED" /\ v # 0
        BY <1>3, <3>3 DEF CallKnows, CallFits
      <4>2. \A n \in ver + 1 .. Goal(R) : log[n].key # k
        BY <3>2, <4>1
      <4> HIDE DEF R, ver, wrong
      <4>3. Witnessed(log, Goal(R), k, ver)
        BY <1>3, <3>1, <4>1, <4>2, AnswerWitnessed
      <4> QED BY <3>3, <4>3
    <3>4. CASE work[w].pc = "sweep" /\ k \in work[w].todo /\ v = 0
      <4>1. k \notin setup.finalized
        BY <1>7, <3>4
      <4>2. Witnessed(log, ver, k, 0) /\ ver \in 0..Len(log)
        BY <1>3, <3>4, <4>1 DEF CallKnows
      <4>3. \A n \in ver + 1 .. Goal(R) : log[n].key = k => log[n].type = "DELETED"
        BY <3>2
      <4> HIDE DEF R, ver, wrong
      <4>4. Witnessed(log, Goal(R), k, 0)
        BY <1>3, <3>1, <4>2, <4>3, RemovalWitnessed
      <4> QED BY <3>4, <4>4
    <3> QED BY <1>1, <3>3, <3>4
  <2> QED BY <2>1, <2>2
<1> HIDE DEF wrong, ver
<1>8. Shown(log, store', overtaken', R)
  BY <1>2, <1>4, <1>6, <1>7, ShownWrite
<1> QED BY <1>8

(* No step of a call takes the store back on a key that is not exempt. *)
LEMMA ShownAfterCall ==
  ASSUME ClientInv, ShownSoFar, NEW w \in Workers, Begin(w) \/ Continue(w)
  PROVE  ShownSoFar'
<1>1. Looks \/ WritesAtServer \/ WritesToStore(w)
  BY KindsOfCall
<1>2. failures' = failures /\ run' = run /\ Grows(log, log')
  BY CallGrowsLog
<1>3. log \in Seq(Event) /\ \A r \in Runs : run[r] \in Locals(Len(log))
  BY CallTyped, TypedRuns
<1>4. CASE Looks
  BY <1>2, <1>4 DEF Looks, vars, ShownSoFar
<1>5. CASE WritesAtServer
  <2>1. store' = store /\ overtaken' = overtaken
    BY <1>5 DEF WritesAtServer, Emit
  <2>2. ASSUME failures = 0, NEW r \in Runs PROVE Shown(log', store, overtaken, run[r])
    <3>1. Shown(log, store, overtaken, run[r])
      BY <2>2 DEF ShownSoFar
    <3> QED BY <1>2, <1>3, <3>1, ShownGrows
  <2> QED BY <1>2, <2>1, <2>2 DEF ShownSoFar
<1>6. CASE WritesToStore(w)
  <2>1. ASSUME failures = 0, NEW r \in Runs PROVE Shown(log, store', overtaken', run[r])
    <3>1. InHand(log, run[r]) /\ Unbroken(run[r], r \in cancelled)
      BY <2>1 DEF ClientInv, RunsInv, Hands, NoFailureYet
    <3> QED BY <1>6, <2>1, <3>1, ShownAfterWrite
  <2>2. log' = log
    BY <1>6 DEF WritesToStore, WritesThrough
  <2> QED BY <1>2, <2>1, <2>2 DEF ShownSoFar
<1> QED BY <1>1, <1>4, <1>5, <1>6

-----------------------------------------------------------------------------
(* The invariant of the clients                                            *)

(* A step of a call keeps the invariant. *)
LEMMA CallStep ==
  ASSUME ClientInv, NEW w \in Workers, Begin(w) \/ Continue(w)
  PROVE  ClientInv'
<1>1. RunsInv' /\ TypeOK'
  BY RunsCall DEF RunsInv
<1>2. /\ work' \in [Workers -> CallStates(Now')] /\ CallsKnow'
      /\ \A v \in Workers : CallFits(setup'.lru, work'[v])
  BY CallsAfterCall
<1>3. LRUFits(setup'.lru, lru', Now')
  BY LRUAfterCall
<1>4. overtaken' \subseteq Keys
  BY KindsOfCall DEF Looks, WritesAtServer, WritesToStore, WritesThrough, ClientInv, ClientTypeOK
<1>5. setup' \in Setups
  BY CallGrowsLog DEF ClientInv, ClientTypeOK
<1>6. ClientTypeOK'
  BY <1>1, <1>2, <1>3, <1>4, <1>5 DEF ClientTypeOK, LRUFits, CallStates
<1>7. CallsFit'
  BY <1>2, <1>3 DEF CallsFit, LRUFits
<1> QED BY <1>1, <1>2, <1>6, <1>7 DEF ClientInv

(* The server only appends to its history. *)
LEMMA NextGrowsLog == ASSUME TypeOK, Next PROVE Grows(log, log')
<1>1. ASSUME NEW k \in Keys, ServerWrites(k) \/ ServerDeletes(k) PROVE Grows(log, log')
  <2>1. PICK type \in {"ADDED", "MODIFIED", "DELETED"} : Emit(type, k)
    BY <1>1 DEF ServerWrites, ServerDeletes
  <2> DEFINE e == [type |-> type, key |-> k]
  <2>2. log' = Append(log, e) /\ e \in Event
    BY <2>1, EmitAppends
  <2> HIDE DEF e
  <2> QED BY <2>2 DEF Grows
<1>2. ASSUME NEW r \in Runs, Step(r) PROVE Grows(log, log')
  BY <1>2, StepKeepsLog DEF Grows
<1>3. ASSUME AddEventHandler \/ \E r \in Runs : Cancel(r) PROVE Grows(log, log')
  BY <1>3 DEF AddEventHandler, Cancel, Grows
<1> QED BY <1>1, <1>2, <1>3 DEF Next

\* While the informer goes on the calls stay as they are, and know what they know.
LEMMA CallsAfterAround ==
  ASSUME ClientInv, Around, RunsInv'
  PROVE  CallsKnow' /\ CallsFit' /\ ClientTypeOK'
<1>1. Grows(log, log') /\ setup' = setup /\ lru' = lru /\ work' = work
      /\ overtaken' = overtaken \ UNION {JustApplied(r) : r \in Runs}
  BY NextGrowsLog DEF Around, ClientInv, RunsInv
<1>2. log \in Seq(Event) /\ Now = Len(log) /\ Now \in Nat
  BY TypedRuns DEF ClientInv, RunsInv, Now
<1>3. Now' \in Nat /\ Now <= Now'
  BY <1>1, <1>2, GrowsKeeps DEF Now
<1>4. work \in [Workers -> CallStates(Now)] /\ CallStates(Now) \subseteq CallStates(Now')
  BY <1>2, <1>3 DEF ClientInv, ClientTypeOK, CallStates
<1>5. \A w \in Workers : CallKnows(log', setup.finalized, work[w])
  BY <1>1, <1>2, <1>4, CallKnowsGrows DEF ClientInv, CallsKnow
<1>6. /\ DOMAIN lru \subseteq Keys /\ Cardinality(DOMAIN lru) <= setup.lru
      /\ \A k \in DOMAIN lru : lru[k] \in 1..Now'
  BY <1>2, <1>3 DEF ClientInv, ClientTypeOK
<1>7. work' \in [Workers -> CallStates(Now')]
  BY <1>1, <1>4
<1>8. setup' \in Setups /\ overtaken' \subseteq Keys
  BY <1>1 DEF ClientInv, ClientTypeOK
<1>9. ClientTypeOK'
  BY <1>1, <1>6, <1>7, <1>8 DEF ClientTypeOK, RunsInv, CallStates
<1> QED BY <1>1, <1>5, <1>9 DEF CallsKnow, CallsFit, ClientInv

(* The invariant holds before the first call. *)
LEMMA ClientInvInit == ClientInit => ClientInv
<1> SUFFICES ASSUME ClientInit PROVE ClientInv
  OBVIOUS
<1>1. RunsInv
  BY RunsInit DEF ClientInit
<1>2. Now = 0 /\ TypeOK
  BY <1>1 DEF ClientInit, Init, Now, RunsInv
<1>3. /\ work = [w \in Workers |-> Idle] /\ overtaken = {} /\ setup \in Setups
      /\ lru = [k \in {} |-> 0]
  BY DEF ClientInit
<1>4. DOMAIN lru = {} /\ IsFiniteSet(DOMAIN lru) /\ Cardinality(DOMAIN lru) = 0
      /\ lru = [k \in DOMAIN lru |-> lru[k]]
  BY <1>3, FS_EmptySet
<1>5. setup.lru \in Nat
  BY <1>3, ClientAssumption
<1>6. Idle \in CallStates(Now)
  BY <1>2 DEF Idle, CallStates
<1>7. work \in [Workers -> CallStates(Now)]
  BY <1>3, <1>6
<1>8. ClientTypeOK
  BY <1>2, <1>3, <1>4, <1>5, <1>7 DEF ClientTypeOK, CallStates
<1>9. \A w \in Workers : work[w].pc = "idle"
  BY <1>3 DEF Idle
<1>10. CallsFit /\ CallsKnow
  BY <1>4, <1>9 DEF CallsFit, CallFits, CallsKnow, CallKnows
<1> QED BY <1>1, <1>8, <1>10 DEF ClientInv

(* Every step keeps it. *)
LEMMA ClientInvStep == ClientInv /\ [ClientNext]_allVars => ClientInv'
<1> SUFFICES ASSUME ClientInv, [ClientNext]_allVars PROVE ClientInv'
  OBVIOUS
<1>1. CASE Around
  <2>1. RunsInv'
    BY <1>1, RunsStep DEF ClientInv, Around
  <2>2. CallsKnow' /\ CallsFit' /\ ClientTypeOK'
    BY <1>1, <2>1, CallsAfterAround
  <2> QED BY <2>1, <2>2 DEF ClientInv
<1>2. ASSUME NEW w \in Workers, Begin(w) \/ Continue(w) PROVE ClientInv'
  BY <1>2, CallStep
<1>3. CASE UNCHANGED allVars
  <2>1. RunsInv'
    <3>1. UNCHANGED vars
      BY <1>3 DEF allVars
    <3> QED BY <3>1, RunsStep DEF ClientInv
  <2>2. log' = log /\ store' = store /\ run' = run /\ failures' = failures /\ setup' = setup
        /\ lru' = lru /\ work' = work /\ overtaken' = overtaken /\ Now' = Now
    BY <1>3 DEF allVars, vars, clientVars, Now
  <2>3. ClientTypeOK'
    BY <2>1, <2>2 DEF ClientInv, ClientTypeOK, RunsInv
  <2>4. CallsFit' /\ CallsKnow'
    BY <2>2 DEF ClientInv, CallsFit, CallsKnow
  <2> QED BY <2>1, <2>3, <2>4 DEF ClientInv
<1> QED BY <1>1, <1>2, <1>3 DEF ClientNext

(* So it always holds. *)
LEMMA ClientInvAlways == ClientSpec => []ClientInv
BY ClientInvInit, ClientInvStep, PTL DEF ClientSpec

\* Whatever calls and informer do in between, the LRU keeps within its capacity,
\* holds only versions the server has given, and every call one of its own.
THEOREM ClientTyped == ClientSpec => []ClientTypeOK
<1>1. ClientInv => ClientTypeOK
  BY DEF ClientInv
<1> QED BY <1>1, ClientInvAlways, PTL

\* What the informer has in hand is the server's, whoever else writes its store.
THEOREM RunsBesideClients == ClientSpec => [](TypeOK /\ LegalHistory /\ Hands /\ NoFailureYet)
<1>1. ClientInv => TypeOK /\ LegalHistory /\ Hands /\ NoFailureYet
  BY DEF ClientInv, RunsInv
<1> QED BY <1>1, ClientInvAlways, PTL

-----------------------------------------------------------------------------
(* The store beside a single Run                                           *)

(* Neither does a step beside the calls, with one Run whose requests do not fail. *)
LEMMA ShownAfterAround ==
  ASSUME SingleRun, ClientInv, ShownSoFar, Around, NoFailureYet'
  PROVE  ShownSoFar'
<1>1. /\ TypeOK /\ Hands /\ NoFailureYet /\ Next
      /\ overtaken' = overtaken \ UNION {JustApplied(r) : r \in Runs}
  BY DEF ClientInv, RunsInv, Around
<1>2. log \in Seq(Event) /\ \A r \in Runs : run[r] \in Locals(Len(log))
  BY <1>1, TypedRuns DEF Now
<1>3. ASSUME run' = run, store' = store, failures' = failures, Grows(log, log')
      PROVE  ShownSoFar'
  <2>1. overtaken' = overtaken
    BY <1>1, <1>3 DEF JustApplied
  <2>2. ASSUME failures = 0, NEW r \in Runs PROVE Shown(log', store, overtaken, run[r])
    <3>1. Shown(log, store, overtaken, run[r])
      BY <2>2 DEF ShownSoFar
    <3> QED BY <1>2, <1>3, <3>1, ShownGrows
  <2> QED BY <1>3, <2>1, <2>2 DEF ShownSoFar
<1>4. Grows(log, log')
  BY <1>1, NextGrowsLog
<1>5. ASSUME NEW k \in Keys, ServerWrites(k) \/ ServerDeletes(k) PROVE ShownSoFar'
  BY <1>3, <1>4, <1>5 DEF ServerWrites, ServerDeletes, Emit
<1>6. ASSUME AddEventHandler \/ \E r \in Runs : Cancel(r) PROVE ShownSoFar'
  BY <1>3, <1>4, <1>6 DEF AddEventHandler, Cancel
<1>7. ASSUME NEW r \in Runs, Step(r), failures' = 0 PROVE ShownSoFar'
  <2>1. failures = 0 /\ log' = log
    BY <1>1, <1>7, FailuresGrow, StepKeepsLog
  <2>2. /\ InHand(log, run[r]) /\ Unbroken(run[r], r \in cancelled)
        /\ Shown(log, store, overtaken, run[r])
    BY <1>1, <2>1 DEF Hands, NoFailureYet, ShownSoFar
  <2>3. Shown(log, store', overtaken \ JustApplied(r), run'[r])
    BY <1>1, <1>7, <2>2, ShownStep
  <2>4. Runs = {r} /\ overtaken' = overtaken \ JustApplied(r)
    BY <1>1 DEF SingleRun
  <2> QED BY <2>1, <2>3, <2>4 DEF ShownSoFar
<1> QED BY <1>1, <1>5, <1>6, <1>7 DEF Next, ShownSoFar

(* At first the store is empty and nothing has been listed. *)
LEMMA ShownInit == ClientInit => ShownSoFar
BY DEF ClientInit, Init, ShownSoFar, Shown, Pursuing, Listing, Watching

(* So what the store shows stays as recent as the last event, whatever the step. *)
LEMMA ShownSoFarStep ==
  SingleRun /\ ClientInv /\ ClientInv' /\ ShownSoFar /\ [ClientNext]_allVars => ShownSoFar'
<1> SUFFICES ASSUME SingleRun, ClientInv, ClientInv', ShownSoFar, [ClientNext]_allVars PROVE ShownSoFar'
  OBVIOUS
<1>1. CASE Around
  BY <1>1, ShownAfterAround DEF ClientInv, RunsInv
<1>2. ASSUME NEW w \in Workers, Begin(w) \/ Continue(w) PROVE ShownSoFar'
  BY <1>2, ShownAfterCall
<1>3. CASE UNCHANGED allVars
  BY <1>3 DEF allVars, vars, clientVars, ShownSoFar
<1> QED BY <1>1, <1>2, <1>3 DEF ClientNext

(* and always is. *)
LEMMA ShownAlways == ASSUME SingleRun PROVE ClientSpec => [](ClientInv /\ ShownSoFar)
<1>1. ClientInv /\ ShownSoFar /\ [ClientNext]_allVars => (ClientInv /\ ShownSoFar)'
  BY ClientInvStep, ShownSoFarStep
<1> QED BY <1>1, ClientInvInit, ShownInit, PTL DEF ClientSpec

(* A read of the store that is not exempt is no older than the last event delivered. *)
LEMMA WatchLagFollows == ClientInv /\ ShownSoFar => WithinWatchLag
<1> SUFFICES ASSUME ClientInv, ShownSoFar, failures = 0, NEW r \in Runs, Following(r),
                    NEW k \in Keys \ overtaken
             PROVE  \E n \in Reached(r)..Now : store[k] = At(n)[k]
  BY DEF WithinWatchLag
<1>1. /\ Now \in Nat /\ Now = Len(log) /\ run[r] \in Locals(Now) /\ InHand(log, run[r])
      /\ Unbroken(run[r], r \in cancelled) /\ Shown(log, store, overtaken, run[r])
      /\ run[r].pos \in 0..Now /\ run[r].rv \in NoRV..Now
  BY TypedRuns, TypedLocal DEF ClientInv, RunsInv, Hands, NoFailureYet, ShownSoFar, Now
<1>2. run[r].pc \in {"check", "open"} \cup Watching /\ run[r].rv # NoRV
  BY <1>1 DEF Following, Watching, Unbroken
<1>3. Pursuing(run[r]) /\ run[r].todo = {}
  BY <1>1, <1>2 DEF Pursuing, Goal, InHand, Watching, NoRV
<1>4. Reached(r) = Goal(run[r])
  BY <1>1, <1>3, ReachedIsGoal DEF Reached
<1>5. k \notin Pending(run[r])
  BY <1>3 DEF Pending
<1>6. PICK n \in Goal(run[r]) .. Len(log) : store[k] = After(log, n)[k]
  BY <1>1, <1>3, <1>5 DEF Shown, Witnessed
<1> QED BY <1>1, <1>4, <1>6, AtAfter

\* Beside a single Run, of every object no write-through has overtaken the store shows
\* a state the server had at the last event delivered or later: Upsert and Delete
\* of client.go beside list and handleEvent of the informer.
THEOREM ReadsWithinWatchLag == ASSUME SingleRun PROVE ClientSpec => []WithinWatchLag
BY ShownAlways, WatchLagFollows, PTL
=============================================================================
