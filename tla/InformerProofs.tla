--------------------------- MODULE InformerProofs ---------------------------
(***************************************************************************)
(* Theorems of Informer and their proofs.  The type invariant, the shape   *)
(* of the server's history and what a Run holds in hand are proved for any *)
(* number of Runs; what store, index and handler then show, for one Run.   *)
(***************************************************************************)
EXTENDS Informer, FiniteSetTheorems, SequenceTheorems, TLAPS

Event == [type : {"ADDED", "MODIFIED", "DELETED"}, key : Keys]

\* What exists after the first n events of l: key -> version, 0 if absent.
After(l, n) ==
  [k \in Keys |->
     LET about == {i \in 1..n : l[i].key = k} IN
     IF about = {} \/ l[Max(about \cup {1})].type = "DELETED" THEN 0 ELSE Max(about)]

\* The same, as a list returns it.
ItemsAfter(l, n) ==
  {[key |-> k, ver |-> After(l, n)[k], old |-> 0] : k \in {j \in Keys : After(l, n)[j] # 0}}

\* The server adds only what is absent, and changes or deletes only what is there.
Legal(l) == \A i \in 1..Len(l) : l[i].type = "ADDED" <=> After(l, i - 1)[l[i].key] = 0

Listing == {"apply", "applyIndex"}
Watching == {"watch", "eventIndex", "notify"}

\* What a Run with local state R has not applied yet, and what it has in hand,
\* belong to the version it is bringing the store to; after a successful list
\* the watch has no synthetic events.
InHand(l, R) ==
  /\ R.pc \in Listing => R.rv # NoRV /\ R.todo \subseteq ItemsAfter(l, R.rv) /\ R.pos <= R.rv
  /\ R.pc = "applyIndex" => R.cur \in ItemsAfter(l, R.rv) /\ R.cur \notin R.todo
  /\ R.pc \in {"check", "open"} => R.todo = {} /\ (R.rv # NoRV => R.pos <= R.rv)
  /\ R.pc \in {"list", "broken", "sleep"} => R.todo = {}
  /\ R.pc = "wait" => R.todo = {} /\ R.rv = NoRV
  /\ R.pc \in Watching =>
       /\ R.todo \subseteq ItemsAfter(l, R.pos)
       /\ R.rv # NoRV => R.todo = {} /\ R.rv <= R.pos
  /\ R.pc \in {"eventIndex", "notify"} =>
       /\ R.cur.ver = After(l, R.pos)[R.cur.key]
       /\ \A it \in R.todo : it.key # R.cur.key
       /\ R.rv # NoRV => R.rv < R.pos /\ R.cur.key = l[R.pos].key

\* Before the first failure a Run makes one list, and what breaks it off is its context.
Unbroken(R, stopped) ==
  /\ R.pc \notin {"sleep", "wait"}
  /\ R.pc = "broken" => stopped
  /\ R.pc \in {"list"} \cup Listing => R.initial
  /\ R.pc = "list" => R.pos = 0
  /\ R.pc \in {"check", "open"} \cup Watching => R.rv # NoRV

LegalHistory == Legal(log)
Hands == \A r \in Runs : InHand(log, run[r])
NoFailureYet == failures = 0 => \A r \in Runs : Unbroken(run[r], r \in cancelled)

\* The version that a Run brings the store to.
Goal(R) == IF R.pc \in Watching THEN R.pos ELSE R.rv

Pursuing(R) == R.pc \in {"check", "open"} \cup Listing \cup Watching /\ Goal(R) # NoRV

\* The keys whose items are still to be applied.
Pending(R) == {it.key : it \in R.todo}

\* The store has only versions of the right object that the Run has come to,
\* and every existing object whose item is not pending, as it should be.
Tracks(l, s, R) ==
  /\ \A k \in Keys : s[k] # 0 => l[s[k]].key = k
  /\ Pursuing(R) =>
       \A k \in Keys :
         /\ s[k] <= Goal(R)
         /\ After(l, Goal(R))[k] # 0 /\ k \notin Pending(R) => s[k] = After(l, Goal(R))[k]

\* No object of the store s is replaced by an older one.
NotOlder(s, t) == \A k \in Keys : t[k] = 0 \/ t[k] >= s[k]

\* It has nothing else, and had nothing before the first list.
Exact(l, s, R) ==
  /\ R.pc = "list" => \A k \in Keys : s[k] = 0
  /\ Pursuing(R) =>
       \A k \in Keys : s[k] = IF k \in Pending(R) THEN 0 ELSE After(l, Goal(R))[k]

\* The indexer lags by the object in hand at most, which the store has.
Lags(s, x, R) ==
  /\ \A k \in Keys : x[k] = s[k] \/ (R.pc \in {"applyIndex", "eventIndex"} /\ R.cur.key = k)
  /\ R.pc \in {"applyIndex", "eventIndex"} => s[R.cur.key] = R.cur.ver

\* The version up to which the handler has been told.
Announced(R) == IF R.pc \in {"eventIndex", "notify"} THEN R.pos - 1 ELSE R.pos

\* The handler knows of every change between the later of list and
\* registration, n, and the last event announced.
Told(l, n, t, R) ==
  /\ n <= Announced(R)
  /\ R.pc \in {"list", "check", "open"} \cup Listing => \A k \in Keys : t[k] = 0
  /\ R.pc \in Watching /\ n # NoRV =>
       \A k \in Keys :
         t[k] = IF After(l, Announced(R))[k] > R.rv /\ After(l, Announced(R))[k] > n
                THEN After(l, Announced(R))[k] ELSE 0

\* The old object of the event in hand is its predecessor.
OldInHand(l, R) ==
  R.pc \in {"eventIndex", "notify"} /\ R.cur.ver # 0 => R.cur.old = After(l, R.pos - 1)[R.cur.key]

StoreTracks == \A r \in Runs : Tracks(log, store, run[r])
IndexLags == \A r \in Runs : Lags(store, index, run[r])
NoOneToTell == since = NoRV => \A k \in Keys : told[k] = 0

\* What holds in addition before the first failure.
ExactSoFar ==
  failures = 0 =>
    \A r \in Runs : Exact(log, store, run[r]) /\ Told(log, since, told, run[r]) /\ OldInHand(log, run[r])

-----------------------------------------------------------------------------
(* The largest number of a bounded set, and what exists after n events     *)

(* A non-empty set of integers within bounds has a largest member. *)
LEMMA MaxIsLargest ==
  ASSUME NEW a \in Int, NEW b \in Int, NEW S \in SUBSET (a..b), S # {}
  PROVE  Max(S) \in S /\ \A y \in S : Max(S) >= y
<1> DEFINE R == StrictSubsetOrdering(a..b)
           F == {(x..b) : x \in S}
<1>1. IsWellFoundedOn(R, FiniteSubsetsOf(a..b))
  BY FS_StrictSubsetOrderingWellFounded
<1>2. F \subseteq FiniteSubsetsOf(a..b)
  <2>1. SUFFICES ASSUME NEW x \in S PROVE (x..b) \in FiniteSubsetsOf(a..b)
    OBVIOUS
  <2>2. x \in Int /\ (x..b) \subseteq (a..b)
    OBVIOUS
  <2>3. IsFiniteSet(x..b)
    BY <2>2, FS_Interval
  <2> QED BY <2>2, <2>3 DEF FiniteSubsetsOf
<1>3. F # {}
  OBVIOUS
<1>4. PICK U \in F : \A V \in F : <<V, U>> \notin R
  <2> HIDE DEF R, F
  <2> QED BY <1>1, <1>2, <1>3, WFMin
<1>5. PICK x \in S : U = (x..b)
  OBVIOUS
<1>6. \A y \in S : x >= y
  <2>1. SUFFICES ASSUME NEW y \in S, y > x PROVE FALSE
    OBVIOUS
  <2>2. (y..b) \subseteq (x..b) /\ (y..b) # (x..b) /\ (x..b) \subseteq (a..b) /\ (y..b) \subseteq (a..b)
    <3>1. x \in (x..b) /\ x \notin (y..b)
      BY <2>1
    <3> QED BY <2>1, <3>1
  <2>3. <<(y..b), (x..b)>> \in R
    BY <2>2 DEF StrictSubsetOrdering
  <2> QED BY <1>4, <1>5, <2>3
<1> QED BY <1>6 DEF Max

(* The same for positions of a history. *)
LEMMA MaxOfPositions ==
  ASSUME NEW n \in Nat, NEW S \in SUBSET (1..n), NEW j \in S
  PROVE  /\ Max(S) \in S /\ Max(S) \in j..n /\ Max(S) \in 1..n
         /\ \A y \in S : Max(S) >= y
<1>1. 1 \in Int /\ n \in Int /\ S \in SUBSET (1..n) /\ S # {}
  OBVIOUS
<1>2. Max(S) \in S /\ \A y \in S : Max(S) >= y
  BY <1>1, MaxIsLargest, Zenon
<1>3. Max(S) \in 1..n /\ j \in 1..n
  BY <1>2
<1>4. Max(S) >= j
  BY <1>2
<1> QED BY <1>2, <1>3, <1>4

\* Event m is the last about k among the first n.
IsLast(l, m, n, k) == l[m].key = k /\ \A i \in m + 1 .. n : l[i].key # k

\* The last event about k decides whether k exists, and at which version.
LEMMA AfterLast ==
  ASSUME NEW l, NEW n \in Nat, NEW k \in Keys,
         NEW m \in 1..n, IsLast(l, m, n, k)
  PROVE  After(l, n)[k] = IF l[m].type = "DELETED" THEN 0 ELSE m
<1> DEFINE about == {i \in 1..n : l[i].key = k}
<1>1. ASSUME NEW S \in SUBSET (1..n), m \in S, \A y \in S : y <= m
      PROVE  Max(S) = m
  <2>1. Max(S) \in S /\ Max(S) \in m..n
    BY <1>1, MaxOfPositions, Zenon
  <2> QED BY <1>1, <2>1
<1>2. /\ m \in about /\ about \in SUBSET (1..n) /\ \A y \in about : y <= m
      /\ m \in about \cup {1} /\ about \cup {1} \in SUBSET (1..n) /\ \A y \in about \cup {1} : y <= m
  BY DEF IsLast
<1>3. Max(about) = m /\ Max(about \cup {1}) = m
  <2> HIDE DEF about
  <2> QED BY <1>1, <1>2
<1>4. After(l, n)[k] = IF about = {} \/ l[Max(about \cup {1})].type = "DELETED" THEN 0 ELSE Max(about)
  BY DEF After
<1> HIDE DEF about
<1> QED BY <1>2, <1>3, <1>4

\* Without an event about k there is no k.
LEMMA AfterNone ==
  ASSUME NEW l, NEW n, NEW k \in Keys, \A i \in 1..n : l[i].key # k
  PROVE  After(l, n)[k] = 0
BY DEF After

\* If there are events about k, one is the last.
LEMMA LastEvent ==
  ASSUME NEW l, NEW n \in Nat, NEW k \in Keys,
         NEW j \in 1..n, l[j].key = k
  PROVE  \E m \in j..n : IsLast(l, m, n, k)
<1> DEFINE about == {i \in 1..n : l[i].key = k}
<1>1. about \in SUBSET (1..n) /\ j \in about
  OBVIOUS
<1>2. Max(about) \in about /\ Max(about) \in j..n /\ \A y \in about : Max(about) >= y
  <2> HIDE DEF about
  <2> QED BY <1>1, MaxOfPositions
<1>3. Max(about) \in j..n /\ l[Max(about)].key = k
  BY <1>2
<1>4. IsLast(l, Max(about), n, k)
  <2>1. \A i \in 1..n : l[i].key = k => i \in about
    OBVIOUS
  <2> HIDE DEF about
  <2>2. Max(about) \in j..n /\ \A i \in 1..n : l[i].key = k => Max(about) >= i
    BY <1>2, <2>1
  <2> QED BY <1>3, <2>2 DEF IsLast
<1> QED BY <1>3, <1>4

\* What exists, exists at the version of one of its own events.
LEMMA AfterType ==
  ASSUME NEW l, NEW n \in Nat
  PROVE  /\ After(l, n) \in [Keys -> 0..n]
         /\ \A k \in Keys : After(l, n)[k] # 0 => l[After(l, n)[k]].key = k
<1>1. ASSUME NEW k \in Keys
      PROVE  After(l, n)[k] \in 0..n /\ (After(l, n)[k] # 0 => l[After(l, n)[k]].key = k)
  <2>1. CASE \A i \in 1..n : l[i].key # k
    BY <2>1, AfterNone
  <2>2. CASE \E j \in 1..n : l[j].key = k
    <3>1. PICK j \in 1..n : l[j].key = k
      BY <2>2
    <3>2. PICK m \in j..n : IsLast(l, m, n, k)
      BY <3>1, LastEvent
    <3>3. After(l, n)[k] = IF l[m].type = "DELETED" THEN 0 ELSE m
      BY <3>2, AfterLast
    <3> QED BY <3>2, <3>3 DEF IsLast
  <2> QED BY <2>1, <2>2
<1>2. After(l, n) = [k \in Keys |-> After(l, n)[k]]
  BY DEF After
<1> QED BY <1>1, <1>2

\* What exists after n events is not older than any of them about it.
LEMMA AfterNotBefore ==
  ASSUME NEW l, NEW n \in Nat, NEW k \in Keys,
         NEW j \in 1..n, l[j].key = k
  PROVE  After(l, n)[k] = 0 \/ After(l, n)[k] >= j
<1>1. PICK m \in j..n : IsLast(l, m, n, k)
  BY LastEvent
<1>2. After(l, n)[k] = IF l[m].type = "DELETED" THEN 0 ELSE m
  BY <1>1, AfterLast
<1> QED BY <1>2

\* Nothing exists before the first event.
LEMMA AfterStart == \A l : After(l, 0) = [k \in Keys |-> 0]
<1> TAKE l
<1>1. \A k \in Keys : After(l, 0)[k] = 0
  BY AfterNone
<1> QED BY <1>1 DEF After

\* The effect of one event.
LEMMA AfterNext ==
  ASSUME NEW l \in Seq(Event), NEW n \in 1..Len(l)
  PROVE  /\ l[n].key \in Keys
         /\ After(l, n) = [After(l, n - 1) EXCEPT ![l[n].key] = IF l[n].type = "DELETED" THEN 0 ELSE n]
<1>1. l[n] \in Event
  OBVIOUS
<1>2. l[n].key \in Keys
  BY <1>1 DEF Event
<1>3. After(l, n)[l[n].key] = IF l[n].type = "DELETED" THEN 0 ELSE n
  <2>1. n \in Nat /\ n \in 1..n /\ IsLast(l, n, n, l[n].key)
    BY DEF IsLast
  <2> QED BY <1>2, <2>1, AfterLast
<1>4. ASSUME NEW k \in Keys, k # l[n].key PROVE After(l, n)[k] = After(l, n - 1)[k]
  <2>1. CASE \A i \in 1 .. n - 1 : l[i].key # k
    <3>1. \A i \in 1..n : l[i].key # k
      BY <1>4, <2>1
    <3> QED BY <2>1, <3>1, AfterNone
  <2>2. CASE \E j \in 1 .. n - 1 : l[j].key = k
    <3>1. PICK j \in 1 .. n - 1 : l[j].key = k
      BY <2>2
    <3>2. n \in Nat /\ n - 1 \in Nat
      OBVIOUS
    <3>3. PICK m \in j .. n - 1 : IsLast(l, m, n - 1, k)
      BY <3>1, <3>2, LastEvent
    <3>4. IsLast(l, m, n, k)
      BY <1>4, <3>2, <3>3 DEF IsLast
    <3>5. m \in 1..n /\ m \in 1 .. n - 1
      BY <3>2, <3>3
    <3>6. After(l, n)[k] = IF l[m].type = "DELETED" THEN 0 ELSE m
      BY <3>2, <3>3, <3>4, <3>5, AfterLast
    <3>7. After(l, n - 1)[k] = IF l[m].type = "DELETED" THEN 0 ELSE m
      BY <3>2, <3>3, <3>5, AfterLast
    <3> QED BY <3>6, <3>7
  <2> QED BY <2>1, <2>2
<1>5. /\ After(l, n) = [k \in Keys |-> After(l, n)[k]]
      /\ After(l, n - 1) = [k \in Keys |-> After(l, n - 1)[k]]
  BY DEF After
<1> HIDE DEF After
<1> QED BY <1>2, <1>3, <1>4, <1>5

\* The past does not change.
LEMMA PastStays ==
  ASSUME NEW l \in Seq(Event), NEW e \in Event, NEW n \in 0..Len(l)
  PROVE  After(Append(l, e), n) = After(l, n)
<1> DEFINE m == Append(l, e)
<1>1. \A i \in 1..n : m[i] = l[i]
  OBVIOUS
<1> HIDE DEF m
<1>2. ASSUME NEW k \in Keys PROVE After(m, n)[k] = After(l, n)[k]
  <2> DEFINE about == {i \in 1..n : l[i].key = k}
  <2>1. {i \in 1..n : m[i].key = k} = about
    BY <1>1
  <2>2. CASE about = {}
    BY <2>1, <2>2 DEF After
  <2>3. CASE about # {}
    <3>1. Max(about \cup {1}) \in 1..n
      <4>1. about \cup {1} \in SUBSET (1..n) /\ about \cup {1} # {}
        BY <2>3
      <4>2. n \in Nat /\ 1 \in about \cup {1}
        OBVIOUS
      <4> HIDE DEF about
      <4> QED BY <4>1, <4>2, MaxOfPositions
    <3>2. m[Max(about \cup {1})] = l[Max(about \cup {1})]
      BY <1>1, <3>1
    <3> QED BY <2>1, <3>2 DEF After
  <2> QED BY <2>2, <2>3
<1>3. After(m, n) = [k \in Keys |-> After(m, n)[k]] /\ After(l, n) = [k \in Keys |-> After(l, n)[k]]
  BY DEF After
<1> HIDE DEF After
<1>4. After(m, n) = After(l, n)
  BY <1>2, <1>3
<1> QED BY <1>4 DEF m

(* The state at the server now is the state after the whole history. *)
LEMMA AtAfter == \A n : At(n) = After(log, n)
BY DEF At, After

-----------------------------------------------------------------------------
(* What each step does to the local state of its Run                       *)

\* The local states with versions up to n.
ItemsUpTo(n) == [key : Keys, ver : 0..n, old : 0..n]

Locals(n) == [pc : PCs, initial : BOOLEAN, rv : NoRV..n, pos : 0..n, todo : SUBSET ItemsUpTo(n),
              cur : ItemsUpTo(n) \cup {Nothing}, backoff : 1..MaxBackoff]

\* The local state of r, and no other, becomes the given one.
Becomes(r, pc, initial, rv, pos, todo, cur, backoff) ==
  /\ run' = [q \in Runs |-> run'[q]]
  /\ run'[r] = [pc |-> pc, initial |-> initial, rv |-> rv, pos |-> pos, todo |-> todo,
                cur |-> cur, backoff |-> backoff]
  /\ \A q \in Runs \ {r} : run'[q] = run[q]

(* The resource version is a number. *)
LEMMA NowType == log \in Seq(Event) => Now \in Nat
BY DEF Now

(* What TypeOK says of the history and the Runs, without expanding it. *)
LEMMA TypedRuns == TypeOK => Now \in Nat /\ run \in [Runs -> Locals(Now)] /\ log \in Seq(Event)
BY NowType DEF TypeOK, Locals, Event, Item, ItemsUpTo

(* The fields of one Run and their ranges. *)
LEMMA TypedLocal ==
  ASSUME NEW n, NEW r \in Runs, run \in [Runs -> Locals(n)]
  PROVE  /\ run[r] = [pc |-> run[r].pc, initial |-> run[r].initial, rv |-> run[r].rv,
                      pos |-> run[r].pos, todo |-> run[r].todo, cur |-> run[r].cur,
                      backoff |-> run[r].backoff]
         /\ run[r].pc \in PCs /\ run[r].initial \in BOOLEAN /\ run[r].rv \in NoRV..n
         /\ run[r].pos \in 0..n /\ run[r].todo \in SUBSET ItemsUpTo(n)
         /\ run[r].cur \in ItemsUpTo(n) \cup {Nothing} /\ run[r].backoff \in 1..MaxBackoff
BY DEF Locals

\* One lemma per kind of step.
LEMMA ListReturnsEffect ==
  ASSUME TypeOK, NEW r \in Runs, ListReturns(r)
  PROVE  /\ Becomes(r, "apply", run[r].initial, Now, run[r].pos, Existing, run[r].cur,
                    run[r].backoff)
         /\ run'[r].pc = "apply" /\ run'[r].initial = run[r].initial /\ run'[r].rv = Now
         /\ run'[r].pos = run[r].pos /\ run'[r].todo = Existing /\ run'[r].cur = run[r].cur
<1>1. run \in [Runs -> Locals(Now)]
  BY TypedRuns
<1>2. run[r] = [pc |-> run[r].pc, initial |-> run[r].initial, rv |-> run[r].rv, pos |-> run[r].pos,
                todo |-> run[r].todo, cur |-> run[r].cur, backoff |-> run[r].backoff]
  BY <1>1, TypedLocal
<1>3. Becomes(r, "apply", run[r].initial, Now, run[r].pos, Existing, run[r].cur,
              run[r].backoff)
  BY <1>1, <1>2 DEF ListReturns, Becomes
<1> QED BY <1>3 DEF Becomes

(* What each step of a Run does to its record, field by field: a List that fails, *)
LEMMA ListFailsEffect ==
  ASSUME TypeOK, NEW r \in Runs, ListFails(r)
  PROVE  /\ Becomes(r, IF run[r].initial THEN "done" ELSE "wait", run[r].initial, NoRV,
                    run[r].pos, run[r].todo, run[r].cur, run[r].backoff)
         /\ run'[r].pc = IF run[r].initial THEN "done" ELSE "wait"
         /\ run'[r].initial = run[r].initial /\ run'[r].rv = NoRV /\ run'[r].pos = run[r].pos
         /\ run'[r].todo = run[r].todo /\ run'[r].cur = run[r].cur
<1>1. run \in [Runs -> Locals(Now)]
  BY TypedRuns
<1>2. run[r] = [pc |-> run[r].pc, initial |-> run[r].initial, rv |-> run[r].rv, pos |-> run[r].pos,
                todo |-> run[r].todo, cur |-> run[r].cur, backoff |-> run[r].backoff]
  BY <1>1, TypedLocal
<1>3. Becomes(r, IF run[r].initial THEN "done" ELSE "wait", run[r].initial, NoRV,
              run[r].pos, run[r].todo, run[r].cur, run[r].backoff)
  BY <1>1, <1>2 DEF ListFails, Becomes
<1> QED BY <1>3 DEF Becomes

(* the index call for a listed object, *)
LEMMA ApplyIndexEffect ==
  ASSUME TypeOK, NEW r \in Runs, ApplyIndex(r)
  PROVE  /\ Becomes(r, "apply", run[r].initial, run[r].rv, run[r].pos, run[r].todo, Nothing,
                    run[r].backoff)
         /\ run'[r].pc = "apply" /\ run'[r].initial = run[r].initial /\ run'[r].rv = run[r].rv
         /\ run'[r].pos = run[r].pos /\ run'[r].todo = run[r].todo /\ run'[r].cur = Nothing
<1>1. run \in [Runs -> Locals(Now)]
  BY TypedRuns
<1>2. run[r] = [pc |-> run[r].pc, initial |-> run[r].initial, rv |-> run[r].rv, pos |-> run[r].pos,
                todo |-> run[r].todo, cur |-> run[r].cur, backoff |-> run[r].backoff]
  BY <1>1, TypedLocal
<1>3. Becomes(r, "apply", run[r].initial, run[r].rv, run[r].pos, run[r].todo, Nothing,
              run[r].backoff)
  BY <1>1, <1>2 DEF ApplyIndex, Becomes
<1> QED BY <1>3 DEF Becomes

(* the end of list, *)
LEMMA ListDoneEffect ==
  ASSUME TypeOK, NEW r \in Runs, ListDone(r)
  PROVE  /\ Becomes(r, "check", FALSE, run[r].rv, run[r].pos, run[r].todo, run[r].cur, 1)
         /\ run'[r].pc = "check" /\ run'[r].initial = FALSE /\ run'[r].rv = run[r].rv
         /\ run'[r].pos = run[r].pos /\ run'[r].todo = run[r].todo /\ run'[r].cur = run[r].cur
<1>1. run \in [Runs -> Locals(Now)]
  BY TypedRuns
<1>2. run[r] = [pc |-> run[r].pc, initial |-> run[r].initial, rv |-> run[r].rv, pos |-> run[r].pos,
                todo |-> run[r].todo, cur |-> run[r].cur, backoff |-> run[r].backoff]
  BY <1>1, TypedLocal
<1>3. Becomes(r, "check", FALSE, run[r].rv, run[r].pos, run[r].todo, run[r].cur, 1)
  BY <1>1, <1>2 DEF ListDone, Becomes
<1> QED BY <1>3 DEF Becomes

(* a watch opened, *)
LEMMA WatchOpensEffect ==
  ASSUME TypeOK, NEW r \in Runs, WatchOpens(r)
  PROVE  /\ Becomes(r, "watch", run[r].initial, run[r].rv,
                    IF run[r].rv = NoRV THEN Now ELSE run[r].rv,
                    IF run[r].rv = NoRV THEN Existing ELSE {}, run[r].cur, run[r].backoff)
         /\ run'[r].pc = "watch" /\ run'[r].initial = run[r].initial /\ run'[r].rv = run[r].rv
         /\ run'[r].pos = IF run[r].rv = NoRV THEN Now ELSE run[r].rv
         /\ run'[r].todo = IF run[r].rv = NoRV THEN Existing ELSE {}
         /\ run'[r].cur = run[r].cur
<1>1. run \in [Runs -> Locals(Now)]
  BY TypedRuns
<1>2. run[r] = [pc |-> run[r].pc, initial |-> run[r].initial, rv |-> run[r].rv, pos |-> run[r].pos,
                todo |-> run[r].todo, cur |-> run[r].cur, backoff |-> run[r].backoff]
  BY <1>1, TypedLocal
<1>3. Becomes(r, "watch", run[r].initial, run[r].rv,
              IF run[r].rv = NoRV THEN Now ELSE run[r].rv,
              IF run[r].rv = NoRV THEN Existing ELSE {}, run[r].cur, run[r].backoff)
  BY <1>1, <1>2 DEF WatchOpens, Becomes
<1> QED BY <1>3 DEF Becomes

(* the index call for an event, *)
LEMMA EventIndexEffect ==
  ASSUME TypeOK, NEW r \in Runs, EventIndex(r)
  PROVE  /\ Becomes(r, "notify", run[r].initial, run[r].rv, run[r].pos, run[r].todo, run[r].cur,
                    run[r].backoff)
         /\ run'[r].pc = "notify" /\ run'[r].initial = run[r].initial /\ run'[r].rv = run[r].rv
         /\ run'[r].pos = run[r].pos /\ run'[r].todo = run[r].todo /\ run'[r].cur = run[r].cur
<1>1. run \in [Runs -> Locals(Now)]
  BY TypedRuns
<1>2. run[r] = [pc |-> run[r].pc, initial |-> run[r].initial, rv |-> run[r].rv, pos |-> run[r].pos,
                todo |-> run[r].todo, cur |-> run[r].cur, backoff |-> run[r].backoff]
  BY <1>1, TypedLocal
<1>3. Becomes(r, "notify", run[r].initial, run[r].rv, run[r].pos, run[r].todo, run[r].cur,
              run[r].backoff)
  BY <1>1, <1>2 DEF EventIndex, Goto, Becomes
<1> QED BY <1>3 DEF Becomes

(* the handlers called, *)
LEMMA NotifyEffect ==
  ASSUME TypeOK, NEW r \in Runs, Notify(r)
  PROVE  /\ Becomes(r, "watch", run[r].initial, run[r].rv, run[r].pos, run[r].todo, Nothing,
                    run[r].backoff)
         /\ run'[r].pc = "watch" /\ run'[r].initial = run[r].initial /\ run'[r].rv = run[r].rv
         /\ run'[r].pos = run[r].pos /\ run'[r].todo = run[r].todo /\ run'[r].cur = Nothing
<1>1. run \in [Runs -> Locals(Now)]
  BY TypedRuns
<1>2. run[r] = [pc |-> run[r].pc, initial |-> run[r].initial, rv |-> run[r].rv, pos |-> run[r].pos,
                todo |-> run[r].todo, cur |-> run[r].cur, backoff |-> run[r].backoff]
  BY <1>1, TypedLocal
<1>3. Becomes(r, "watch", run[r].initial, run[r].rv, run[r].pos, run[r].todo, Nothing,
              run[r].backoff)
  BY <1>1, <1>2 DEF Notify, Becomes
<1> QED BY <1>3 DEF Becomes

(* a watch closed, *)
LEMMA WatchBreaksEffect ==
  ASSUME TypeOK, NEW r \in Runs, WatchBreaks(r)
  PROVE  /\ Becomes(r, "broken", run[r].initial, run[r].rv, run[r].pos, {}, run[r].cur,
                    run[r].backoff)
         /\ run'[r].pc = "broken" /\ run'[r].initial = run[r].initial /\ run'[r].rv = run[r].rv
         /\ run'[r].pos = run[r].pos /\ run'[r].todo = {} /\ run'[r].cur = run[r].cur
<1>1. run \in [Runs -> Locals(Now)]
  BY TypedRuns
<1>2. run[r] = [pc |-> run[r].pc, initial |-> run[r].initial, rv |-> run[r].rv, pos |-> run[r].pos,
                todo |-> run[r].todo, cur |-> run[r].cur, backoff |-> run[r].backoff]
  BY <1>1, TypedLocal
<1>3. Becomes(r, "broken", run[r].initial, run[r].rv, run[r].pos, {}, run[r].cur,
              run[r].backoff)
  BY <1>1, <1>2 DEF WatchBreaks, Becomes
<1> QED BY <1>3 DEF Becomes

(* a cancelled context seen, *)
LEMMA StopsEffect ==
  ASSUME TypeOK, NEW r \in Runs, Stops(r)
  PROVE  /\ Becomes(r, "done", run[r].initial, run[r].rv, run[r].pos, run[r].todo, run[r].cur,
                    run[r].backoff)
         /\ run'[r].pc = "done" /\ run'[r].initial = run[r].initial /\ run'[r].rv = run[r].rv
         /\ run'[r].pos = run[r].pos /\ run'[r].todo = run[r].todo /\ run'[r].cur = run[r].cur
<1>1. run \in [Runs -> Locals(Now)]
  BY TypedRuns
<1>2. run[r] = [pc |-> run[r].pc, initial |-> run[r].initial, rv |-> run[r].rv, pos |-> run[r].pos,
                todo |-> run[r].todo, cur |-> run[r].cur, backoff |-> run[r].backoff]
  BY <1>1, TypedLocal
<1>3. Becomes(r, "done", run[r].initial, run[r].rv, run[r].pos, run[r].todo, run[r].cur,
              run[r].backoff)
  BY <1>1, <1>2 DEF Stops, Goto, Becomes
<1> QED BY <1>3 DEF Becomes

(* a context seen alive, *)
LEMMA ProceedsEffect ==
  ASSUME TypeOK, NEW r \in Runs, Proceeds(r)
  PROVE  /\ Becomes(r, IF run[r].pc = "check" THEN "open" ELSE "sleep", run[r].initial,
                    run[r].rv, run[r].pos, run[r].todo, run[r].cur, run[r].backoff)
         /\ run'[r].pc = IF run[r].pc = "check" THEN "open" ELSE "sleep"
         /\ run'[r].initial = run[r].initial /\ run'[r].rv = run[r].rv
         /\ run'[r].pos = run[r].pos /\ run'[r].todo = run[r].todo /\ run'[r].cur = run[r].cur
<1>1. run \in [Runs -> Locals(Now)]
  BY TypedRuns
<1>2. run[r] = [pc |-> run[r].pc, initial |-> run[r].initial, rv |-> run[r].rv, pos |-> run[r].pos,
                todo |-> run[r].todo, cur |-> run[r].cur, backoff |-> run[r].backoff]
  BY <1>1, TypedLocal
<1>3. Becomes(r, IF run[r].pc = "check" THEN "open" ELSE "sleep", run[r].initial,
              run[r].rv, run[r].pos, run[r].todo, run[r].cur, run[r].backoff)
  BY <1>1, <1>2 DEF Proceeds, Goto, Becomes
<1> QED BY <1>3 DEF Becomes

(* a back-off slept, *)
LEMMA WakesEffect ==
  ASSUME TypeOK, NEW r \in Runs, Wakes(r)
  PROVE  /\ Becomes(r, IF run[r].pc = "sleep" THEN "list" ELSE "check", run[r].initial,
                    run[r].rv, run[r].pos, run[r].todo, run[r].cur, Double(run[r].backoff))
         /\ run'[r].pc = IF run[r].pc = "sleep" THEN "list" ELSE "check"
         /\ run'[r].initial = run[r].initial /\ run'[r].rv = run[r].rv
         /\ run'[r].pos = run[r].pos /\ run'[r].todo = run[r].todo /\ run'[r].cur = run[r].cur
<1>1. run \in [Runs -> Locals(Now)]
  BY TypedRuns
<1>2. run[r] = [pc |-> run[r].pc, initial |-> run[r].initial, rv |-> run[r].rv, pos |-> run[r].pos,
                todo |-> run[r].todo, cur |-> run[r].cur, backoff |-> run[r].backoff]
  BY <1>1, TypedLocal
<1>3. Becomes(r, IF run[r].pc = "sleep" THEN "list" ELSE "check", run[r].initial,
              run[r].rv, run[r].pos, run[r].todo, run[r].cur, Double(run[r].backoff))
  BY <1>1, <1>2 DEF Wakes, Becomes
<1> QED BY <1>3 DEF Becomes

(* a listed object put into the store, *)
LEMMA ApplyItemEffect ==
  ASSUME TypeOK, NEW r \in Runs, ApplyItem(r)
  PROVE  \E it \in run[r].todo :
           /\ store' = [store EXCEPT ![it.key] = it.ver]
           /\ Becomes(r, "applyIndex", run[r].initial, run[r].rv, run[r].pos, run[r].todo \ {it}, it,
                      run[r].backoff)
<1>1. run \in [Runs -> Locals(Now)]
  BY TypedRuns
<1>2. PICK it \in run[r].todo : UpsertItem(r, it)
  BY DEF ApplyItem
<1>3. run[r] = [pc |-> run[r].pc, initial |-> run[r].initial, rv |-> run[r].rv, pos |-> run[r].pos,
                todo |-> run[r].todo, cur |-> run[r].cur, backoff |-> run[r].backoff]
  BY <1>1, TypedLocal
<1>4. /\ store' = [store EXCEPT ![it.key] = it.ver]
      /\ Becomes(r, "applyIndex", run[r].initial, run[r].rv, run[r].pos, run[r].todo \ {it}, it,
                 run[r].backoff)
  BY <1>1, <1>2, <1>3 DEF UpsertItem, Becomes
<1> QED BY <1>4

\* An event changes store and position; a synthetic one does not move on.
SyntheticEvent(r, it) ==
  /\ it \in run[r].todo
  /\ store' = [store EXCEPT ![it.key] = it.ver]
  /\ Becomes(r, "eventIndex", run[r].initial, run[r].rv, run[r].pos, run[r].todo \ {it}, it, run[r].backoff)

RealEvent(r, it) ==
  LET next == run[r].pos + 1 IN
  /\ run[r].todo = {} /\ next \in 1..Now
  /\ it = [key |-> log[next].key,
           ver |-> IF log[next].type = "DELETED" THEN 0 ELSE next,
           old |-> IF log[next].type = "DELETED" THEN 0 ELSE Old(next)]
  /\ store' = [store EXCEPT ![it.key] = it.ver]
  /\ Becomes(r, "eventIndex", run[r].initial, run[r].rv, next, {}, it, run[r].backoff)

(* and an event taken from the watch. *)
LEMMA HandleEventEffect ==
  ASSUME TypeOK, NEW r \in Runs, HandleEvent(r)
  PROVE  \E it \in Item : SyntheticEvent(r, it) \/ RealEvent(r, it)
<1>1. run \in [Runs -> Locals(Now)] /\ Now \in Nat /\ log \in Seq(Event)
  BY TypedRuns
<1> DEFINE R == run[r]
           next == run[r].pos + 1
<1>2. /\ run[r] = [pc |-> R.pc, initial |-> R.initial, rv |-> R.rv, pos |-> R.pos, todo |-> R.todo,
                   cur |-> R.cur, backoff |-> R.backoff]
      /\ R.todo \in SUBSET Item /\ R.pos \in 0..Now
  BY <1>1, TypedLocal DEF Item, ItemsUpTo
<1>3. ASSUME NEW it \in R.todo, Upserts(r, it) PROVE SyntheticEvent(r, it)
  BY <1>1, <1>2, <1>3 DEF Upserts, SyntheticEvent, Becomes
<1>4. ASSUME R.todo = {}, next <= Now, log[next].type # "DELETED",
             Upserts(r, [key |-> log[next].key, ver |-> next, old |-> Old(next)])
      PROVE  \E it \in Item : RealEvent(r, it)
  <2> DEFINE it == [key |-> log[next].key, ver |-> next, old |-> Old(next)]
  <2>1. next \in 1..Now /\ log[next] \in Event
    BY <1>1, <1>2, <1>4 DEF Now
  <2>2. it \in Item
    <3>1. log[next].key \in Keys /\ next \in 0..Now
      BY <1>1, <1>2, <2>1 DEF Event
    <3>2. store[log[next].key] \in 0..Now
      BY <1>1, <3>1 DEF TypeOK
    <3>3. Old(next) \in 0..Now
      BY <1>1, <3>2 DEF Old
    <3> QED BY <3>1, <3>3 DEF Item
  <2>3. store' = [store EXCEPT ![it.key] = it.ver]
    BY <1>4 DEF Upserts
  <2>4. Becomes(r, "eventIndex", R.initial, R.rv, next, {}, it, R.backoff)
    <3>1. run' = [run EXCEPT ![r].pc = "eventIndex", ![r].cur = it, ![r].todo = @ \ {it},
                             ![r].pos = IF it \in R.todo THEN @ ELSE @ + 1]
      BY <1>4 DEF Upserts
    <3> HIDE DEF it
    <3> QED BY <1>1, <1>2, <1>4, <3>1 DEF Becomes
  <2> QED BY <1>4, <2>1, <2>2, <2>3, <2>4 DEF RealEvent
<1>5. ASSUME R.todo = {}, next <= Now, log[next].type = "DELETED", Deletes(r, log[next].key)
      PROVE  \E it \in Item : RealEvent(r, it)
  <2> DEFINE it == [key |-> log[next].key, ver |-> 0, old |-> 0]
  <2>1. next \in 1..Now /\ log[next] \in Event
    BY <1>1, <1>2, <1>5 DEF Now
  <2>2. it \in Item
    BY <1>1, <2>1 DEF Item, Event
  <2>3. store' = [store EXCEPT ![it.key] = it.ver]
    BY <1>5 DEF Deletes
  <2>4. Becomes(r, "eventIndex", R.initial, R.rv, next, {}, it, R.backoff)
    <3>1. run' = [run EXCEPT ![r].pc = "eventIndex", ![r].cur = it, ![r].pos = @ + 1]
      BY <1>5 DEF Deletes
    <3> HIDE DEF it
    <3> QED BY <1>1, <1>2, <1>5, <3>1 DEF Becomes
  <2> QED BY <1>5, <2>1, <2>2, <2>3, <2>4 DEF RealEvent
<1> QED BY <1>2, <1>3, <1>4, <1>5 DEF HandleEvent

-----------------------------------------------------------------------------
(* The type invariant                                                      *)

(* What a watch without a resource version replays is what the server has. *)
LEMMA ExistingType ==
  ASSUME log \in Seq(Event)
  PROVE  Existing \in SUBSET Item /\ Existing = ItemsAfter(log, Now)
<1>1. Now \in Nat /\ At(Now) = After(log, Now)
  BY NowType, AtAfter
<1>2. After(log, Now) \in [Keys -> 0..Now]
  BY <1>1, AfterType
<1>3. Existing = ItemsAfter(log, Now)
  BY <1>1 DEF Existing, ItemsAfter
<1>4. ItemsAfter(log, Now) \in SUBSET Item
  BY <1>1, <1>2 DEF ItemsAfter, Item
<1> QED BY <1>3, <1>4

(* TypeOK holds at the start. *)
LEMMA TypeInit == Init => TypeOK
<1> SUFFICES ASSUME Init PROVE TypeOK
  OBVIOUS
<1>1. Now = 0 /\ log \in Seq([type : {"ADDED", "MODIFIED", "DELETED"}, key : Keys])
  BY DEF Init, Now
<1>2. run \in [Runs -> Locals(Now)]
  <2> DEFINE first == [pc |-> "list", initial |-> TRUE, rv |-> NoRV, pos |-> 0, todo |-> {},
                       cur |-> Nothing, backoff |-> 1]
  <2>1. run = [r \in Runs |-> first]
    BY DEF Init
  <2>2. NoRV \in NoRV..Now /\ 0 \in 0..Now /\ 1 \in 1..MaxBackoff /\ "list" \in PCs
    BY <1>1, InformerAssumption DEF NoRV, PCs
  <2>3. first \in Locals(Now)
    BY <2>2 DEF Locals
  <2> HIDE DEF first
  <2> QED BY <2>1, <2>3
<1>3. failures \in 0..MaxFailures /\ cancelled \subseteq Mortal /\ hasSynced \in BOOLEAN
  <2>1. failures = 0 /\ cancelled = {}
    BY DEF Init
  <2>2. hasSynced \in BOOLEAN
    BY Zenon DEF Init
  <2>3. 0 \in 0..MaxFailures
    BY InformerAssumption
  <2> QED BY <2>1, <2>2, <2>3
<1>4. /\ store \in [Keys -> 0..Now] /\ index \in [Keys -> 0..Now] /\ told \in [Keys -> 0..Now]
      /\ since \in NoRV..Now
  BY <1>1 DEF Init, NoRV
<1>5. \A r \in Runs : run[r].pc = "list"
  BY DEF Init
<1> QED BY <1>1, <1>2, <1>3, <1>4, <1>5 DEF TypeOK, Locals, Item, ItemsUpTo

\* Writing to the server only makes the log longer.
LEMMA TypeEmit ==
  ASSUME TypeOK, NEW k \in Keys, NEW type \in {"ADDED", "MODIFIED", "DELETED"}, Emit(type, k)
  PROVE  TypeOK'
<1>1. log \in Seq(Event) /\ [type |-> type, key |-> k] \in Event
  BY DEF TypeOK, Event
<1>2. log' \in Seq(Event) /\ Now' = Now + 1 /\ Now \in Nat
  BY <1>1 DEF Emit, Now
<1>4. run' = run /\ store' = store /\ index' = index /\ told' = told /\ since' = since
      /\ failures' = failures /\ cancelled' = cancelled /\ hasSynced' = hasSynced
  BY DEF Emit
<1>5. run' \in [Runs -> Locals(Now')]
  <2>1. run \in [Runs -> Locals(Now)]
    BY TypedRuns
  <2>2. Locals(Now) \subseteq Locals(Now')
    <3>1. ItemsUpTo(Now) \subseteq ItemsUpTo(Now')
      BY <1>2 DEF ItemsUpTo
    <3> QED BY <1>2, <3>1 DEF Locals, NoRV
  <2> QED BY <1>4, <2>1, <2>2
<1>6. \A r \in Runs : run'[r].pc \in {"applyIndex", "eventIndex", "notify"} => run'[r].cur \in ItemsUpTo(Now')
  BY <1>2, <1>4 DEF TypeOK, Item, ItemsUpTo
<1>7. store' \in [Keys -> 0..Now'] /\ index' \in [Keys -> 0..Now'] /\ told' \in [Keys -> 0..Now']
      /\ since' \in NoRV..Now'
  BY <1>2, <1>4 DEF TypeOK, NoRV
<1> QED BY <1>2, <1>4, <1>5, <1>6, <1>7 DEF TypeOK, Event, Locals, Item, ItemsUpTo

\* A step of a Run leaves the server alone.
LEMMA TypeBecomes ==
  ASSUME TypeOK, NEW r \in Runs,
         NEW pc \in PCs, NEW initial \in BOOLEAN, NEW rv \in NoRV..Now, NEW pos \in 0..Now,
         NEW todo \in SUBSET Item, NEW cur \in Item \cup {Nothing}, NEW backoff \in 1..MaxBackoff,
         Becomes(r, pc, initial, rv, pos, todo, cur, backoff),
         pc \in {"applyIndex", "eventIndex", "notify"} => cur \in Item,
         log' = log, failures' \in 0..MaxFailures, cancelled' = cancelled, since' = since,
         hasSynced' \in BOOLEAN, store' \in [Keys -> 0..Now], index' \in [Keys -> 0..Now],
         told' \in [Keys -> 0..Now]
  PROVE  TypeOK'
<1>1. run \in [Runs -> Locals(Now)]
  BY TypedRuns
<1>2. run' \in [Runs -> Locals(Now)]
  <2>1. Item = ItemsUpTo(Now)
    BY DEF Item, ItemsUpTo
  <2>2. run'[r] \in Locals(Now)
    BY <2>1 DEF Becomes, Locals
  <2> QED BY <1>1, <2>2 DEF Becomes
<1>3. \A q \in Runs : run'[q].pc \in {"applyIndex", "eventIndex", "notify"} => run'[q].cur \in Item
  <2>1. run'[r].pc = pc /\ run'[r].cur = cur /\ \A q \in Runs \ {r} : run'[q] = run[q]
    BY DEF Becomes
  <2> QED BY <2>1 DEF TypeOK
<1>4. Now' = Now
  BY DEF Now
<1> QED BY <1>2, <1>3, <1>4 DEF TypeOK, Locals, Item, ItemsUpTo

(* Every step of the server and of a Run keeps TypeOK. *)
LEMMA TypeStep == ASSUME TypeOK, Next PROVE TypeOK'
<1>1. log \in Seq(Event) /\ Now \in Nat /\ run \in [Runs -> Locals(Now)]
  BY TypedRuns
<1>2. ASSUME NEW k \in Keys, ServerWrites(k) \/ ServerDeletes(k) PROVE TypeOK'
  BY <1>2, TypeEmit DEF ServerWrites, ServerDeletes
<1>3. CASE AddEventHandler
  <2> DEFINE S == {0} \cup {IF run[r].pc \in {"eventIndex", "notify"} THEN run[r].pos - 1
                                                                    ELSE run[r].pos : r \in Runs}
  <2>1. S \in SUBSET (-1..Now) /\ S # {} /\ -1 \in Int /\ Now \in Int
    <3>1. \A r \in Runs : run[r].pos \in 0..Now
      BY <1>1, TypedLocal
    <3> QED BY <1>1, <3>1
  <2>2. Max(S) \in -1..Now
    <3> HIDE DEF S
    <3> QED BY <2>1, MaxIsLargest
  <2>3. since' = Max(S)
    BY <1>3 DEF AddEventHandler
  <2> HIDE DEF S
  <2> QED BY <1>3, <2>2, <2>3 DEF AddEventHandler, TypeOK, Now, NoRV, Item
<1>4. ASSUME NEW r \in Runs, Step(r) PROVE TypeOK'
  <2>0. /\ run[r].pc \in PCs /\ run[r].initial \in BOOLEAN /\ run[r].rv \in NoRV..Now
        /\ run[r].pos \in 0..Now /\ run[r].todo \in SUBSET Item
        /\ run[r].cur \in Item \cup {Nothing} /\ run[r].backoff \in 1..MaxBackoff
        /\ run[r].pc \in {"applyIndex", "eventIndex", "notify"} => run[r].cur \in Item
    BY <1>1, TypedLocal DEF TypeOK, Item, ItemsUpTo
  <2>a. /\ failures \in 0..MaxFailures /\ hasSynced \in BOOLEAN
        /\ store \in [Keys -> 0..Now] /\ index \in [Keys -> 0..Now] /\ told \in [Keys -> 0..Now]
    BY DEF TypeOK
  <2>b. NoRV \in NoRV..Now /\ Now \in NoRV..Now /\ Now \in 0..Now /\ 1 \in 1..MaxBackoff
    BY <1>1, InformerAssumption DEF NoRV
  <2>c. Failure(r) => failures' \in 0..MaxFailures
    BY <2>a, InformerAssumption DEF Failure
  <2>1. CASE ListReturns(r)
    <3>1. Becomes(r, "apply", run[r].initial, Now, run[r].pos, Existing, run[r].cur, run[r].backoff)
      BY <2>1, ListReturnsEffect
    <3> QED BY <1>1, <2>0, <2>a, <2>b, <2>1, <3>1, ExistingType, TypeBecomes DEF ListReturns, PCs
  <2>2. CASE ListFails(r)
    <3>1. Becomes(r, IF run[r].initial THEN "done" ELSE "wait", run[r].initial, NoRV, run[r].pos,
                  run[r].todo, run[r].cur, run[r].backoff)
      BY <2>2, ListFailsEffect
    <3>2. (IF run[r].initial THEN "done" ELSE "wait") \in PCs \ {"applyIndex", "eventIndex", "notify"}
      BY DEF PCs
    <3> QED BY <2>0, <2>a, <2>b, <2>c, <2>2, <3>1, <3>2, TypeBecomes DEF ListFails
  <2>3. CASE ApplyItem(r)
    <3>1. PICK it \in run[r].todo :
            /\ store' = [store EXCEPT ![it.key] = it.ver]
            /\ Becomes(r, "applyIndex", run[r].initial, run[r].rv, run[r].pos, run[r].todo \ {it}, it,
                       run[r].backoff)
      BY <2>3, ApplyItemEffect
    <3>2. it \in Item /\ run[r].todo \ {it} \in SUBSET Item
      BY <2>0
    <3>3. store' \in [Keys -> 0..Now]
      BY <2>a, <3>1, <3>2 DEF Item
    <3> QED BY <2>0, <2>a, <2>3, <3>1, <3>2, <3>3, TypeBecomes DEF ApplyItem, PCs
  <2>4. CASE ApplyIndex(r)
    <3>1. Becomes(r, "apply", run[r].initial, run[r].rv, run[r].pos, run[r].todo, Nothing,
                  run[r].backoff)
      BY <2>4, ApplyIndexEffect
    <3>2. index' \in [Keys -> 0..Now]
      BY <2>0, <2>a, <2>4 DEF ApplyIndex, Item
    <3> QED BY <2>0, <2>a, <2>4, <3>1, <3>2, TypeBecomes DEF ApplyIndex, PCs
  <2>5. CASE ListDone(r)
    <3>1. Becomes(r, "check", FALSE, run[r].rv, run[r].pos, run[r].todo, run[r].cur, 1)
      BY <2>5, ListDoneEffect
    <3> QED BY <2>0, <2>a, <2>b, <2>5, <3>1, TypeBecomes DEF ListDone, PCs
  <2>6. CASE WatchOpens(r)
    <3> DEFINE pos == IF run[r].rv = NoRV THEN Now ELSE run[r].rv
               todo == IF run[r].rv = NoRV THEN Existing ELSE {}
    <3>1. Becomes(r, "watch", run[r].initial, run[r].rv, pos, todo, run[r].cur, run[r].backoff)
      BY <2>6, WatchOpensEffect
    <3>2. pos \in 0..Now /\ todo \in SUBSET Item
      BY <1>1, <2>0, ExistingType DEF NoRV
    <3> HIDE DEF pos, todo
    <3> QED BY <2>0, <2>a, <2>6, <3>1, <3>2, TypeBecomes DEF WatchOpens, PCs
  <2>7. CASE HandleEvent(r)
    <3>1. PICK it \in Item : SyntheticEvent(r, it) \/ RealEvent(r, it)
      BY <2>7, HandleEventEffect
    <3>2. store' \in [Keys -> 0..Now]
      BY <2>a, <3>1 DEF SyntheticEvent, RealEvent, Item
    <3>3. PICK pos \in 0..Now, todo \in SUBSET Item :
            Becomes(r, "eventIndex", run[r].initial, run[r].rv, pos, todo, it, run[r].backoff)
      <4>1. CASE SyntheticEvent(r, it)
        <5>1. run[r].pos \in 0..Now /\ run[r].todo \ {it} \in SUBSET Item
          BY <2>0
        <5> QED BY <4>1, <5>1 DEF SyntheticEvent
      <4>2. CASE RealEvent(r, it)
        <5>1. run[r].pos + 1 \in 0..Now /\ {} \in SUBSET Item
          BY <2>0, <4>2 DEF RealEvent
        <5> QED BY <4>2, <5>1 DEF RealEvent
      <4> QED BY <3>1, <4>1, <4>2
    <3>4. log' = log /\ UNCHANGED <<failures, cancelled, index, since, told, hasSynced>>
      BY <2>7 DEF HandleEvent, Upserts, Deletes
    <3> QED BY <2>0, <2>a, <3>2, <3>3, <3>4, TypeBecomes DEF PCs
  <2>8. CASE EventIndex(r)
    <3>1. Becomes(r, "notify", run[r].initial, run[r].rv, run[r].pos, run[r].todo, run[r].cur,
                  run[r].backoff)
      BY <2>8, EventIndexEffect
    <3>2. run[r].cur \in Item
      BY <2>0, <2>8 DEF EventIndex
    <3>3. index' \in [Keys -> 0..Now]
      BY <2>a, <2>8, <3>2 DEF EventIndex, Item
    <3> QED BY <2>0, <2>a, <2>8, <3>1, <3>2, <3>3, TypeBecomes DEF EventIndex, PCs
  <2>9. CASE Notify(r)
    <3>1. Becomes(r, "watch", run[r].initial, run[r].rv, run[r].pos, run[r].todo, Nothing,
                  run[r].backoff)
      BY <2>9, NotifyEffect
    <3>2. run[r].cur \in Item
      BY <2>0, <2>9 DEF Notify
    <3>3. told' \in [Keys -> 0..Now]
      BY <2>a, <2>9, <3>2 DEF Notify, Item
    <3> QED BY <2>0, <2>a, <2>9, <3>1, <3>3, TypeBecomes DEF Notify, PCs
  <2>10. CASE WatchBreaks(r)
    <3>1. Becomes(r, "broken", run[r].initial, run[r].rv, run[r].pos, {}, run[r].cur,
                  run[r].backoff)
      BY <2>10, WatchBreaksEffect
    <3> QED BY <2>0, <2>a, <2>c, <2>10, <3>1, TypeBecomes DEF WatchBreaks, PCs
  <2>11. CASE Loop(r)
    <3>1. PICK pc \in PCs \ {"applyIndex", "eventIndex", "notify"}, backoff \in 1..MaxBackoff :
            Becomes(r, pc, run[r].initial, run[r].rv, run[r].pos, run[r].todo, run[r].cur, backoff)
      <4>1. Double(run[r].backoff) \in 1..MaxBackoff
        BY <2>0, InformerAssumption DEF Double
      <4>2. {"done", "open", "sleep", "list", "check"} \subseteq PCs \ {"applyIndex", "eventIndex", "notify"}
        BY DEF PCs
      <4> HIDE DEF Double
      <4>3. CASE Stops(r)
        BY <2>0, <4>2, <4>3, StopsEffect
      <4>4. CASE Proceeds(r)
        <5>1. Becomes(r, IF run[r].pc = "check" THEN "open" ELSE "sleep", run[r].initial, run[r].rv,
                      run[r].pos, run[r].todo, run[r].cur, run[r].backoff)
          BY <4>4, ProceedsEffect
        <5>2. (IF run[r].pc = "check" THEN "open" ELSE "sleep")
                \in PCs \ {"applyIndex", "eventIndex", "notify"}
          BY <4>2
        <5> QED BY <2>0, <5>1, <5>2
      <4>5. CASE Wakes(r)
        <5>1. Becomes(r, IF run[r].pc = "sleep" THEN "list" ELSE "check", run[r].initial, run[r].rv,
                      run[r].pos, run[r].todo, run[r].cur, Double(run[r].backoff))
          BY <4>5, WakesEffect
        <5>2. (IF run[r].pc = "sleep" THEN "list" ELSE "check")
                \in PCs \ {"applyIndex", "eventIndex", "notify"}
          BY <4>2
        <5> QED BY <4>1, <5>1, <5>2
      <4> QED BY <2>11, <4>3, <4>4, <4>5 DEF Loop
    <3> QED BY <2>0, <2>a, <2>11, <3>1, TypeBecomes DEF Loop
  <2> QED BY <1>4, <2>1, <2>2, <2>3, <2>4, <2>5, <2>6, <2>7, <2>8, <2>9, <2>10, <2>11 DEF Step
<1>5. ASSUME NEW r \in Runs, Cancel(r) PROVE TypeOK'
  BY <1>1, <1>5 DEF Cancel, TypeOK, Now, Item
<1> QED BY <1>2, <1>3, <1>4, <1>5 DEF Next


-----------------------------------------------------------------------------
(* The history and what a Run has in hand                                  *)

\* An item is made of a key and the version that exists.
LEMMA ItemParts ==
  ASSUME NEW l, NEW n \in Nat, NEW it \in ItemsAfter(l, n)
  PROVE  /\ it.key \in Keys /\ it.ver = After(l, n)[it.key] /\ it.ver # 0 /\ it.old = 0
         /\ \A other \in ItemsAfter(l, n) : other.key = it.key => other = it
BY DEF ItemsAfter

(* A history stays legal when ADDED is sent for exactly the objects that are missing. *)
LEMMA LegalAppend ==
  ASSUME NEW l \in Seq(Event), Legal(l), NEW e \in Event, e.type = "ADDED" <=> After(l, Len(l))[e.key] = 0
  PROVE  Legal(Append(l, e))
<1>1. ASSUME NEW i \in 1 .. Len(l) + 1
      PROVE  Append(l, e)[i].type = "ADDED" <=> After(Append(l, e), i - 1)[Append(l, e)[i].key] = 0
  <2>1. After(Append(l, e), i - 1) = After(l, i - 1)
    BY PastStays
  <2>2. CASE i = Len(l) + 1
    <3>1. Append(l, e)[i] = e /\ i - 1 = Len(l)
      BY <2>2
    <3> QED BY <2>1, <3>1
  <2>3. CASE i \in 1..Len(l)
    BY <2>1, <2>3 DEF Legal
  <2> QED BY <2>2, <2>3
<1> QED BY <1>1 DEF Legal

(* What a Run has in hand stays what it was when the server goes on. *)
LEMMA InHandAppend ==
  ASSUME NEW l \in Seq(Event), NEW e \in Event, NEW R \in Locals(Len(l)), InHand(l, R)
  PROVE  InHand(Append(l, e), R)
<1> DEFINE m == Append(l, e)
<1>1. R.pos \in 0..Len(l) /\ R.rv \in NoRV..Len(l) /\ (R.rv # NoRV => R.rv \in 0..Len(l))
  BY DEF Locals, NoRV
<1>2. \A n \in 0..Len(l) : After(m, n) = After(l, n) /\ ItemsAfter(m, n) = ItemsAfter(l, n)
  <2>1. \A n \in 0..Len(l) : After(m, n) = After(l, n)
    BY PastStays
  <2> QED BY <2>1 DEF ItemsAfter
<1>3. R.rv # NoRV /\ R.rv < R.pos => m[R.pos] = l[R.pos]
  BY <1>1 DEF NoRV
<1> HIDE DEF m
<1>4. /\ ItemsAfter(m, R.pos) = ItemsAfter(l, R.pos) /\ After(m, R.pos) = After(l, R.pos)
      /\ R.rv # NoRV => ItemsAfter(m, R.rv) = ItemsAfter(l, R.rv)
  BY <1>1, <1>2
<1>5. /\ R.pc \in Listing => R.rv # NoRV /\ R.todo \subseteq ItemsAfter(m, R.rv) /\ R.pos <= R.rv
      /\ R.pc = "applyIndex" => R.cur \in ItemsAfter(m, R.rv) /\ R.cur \notin R.todo
  BY <1>4 DEF InHand, Listing
<1>6. /\ R.pc \in {"check", "open"} => R.todo = {} /\ (R.rv # NoRV => R.pos <= R.rv)
      /\ R.pc \in {"list", "broken", "sleep"} => R.todo = {}
      /\ R.pc = "wait" => R.todo = {} /\ R.rv = NoRV
  BY DEF InHand
<1>7. R.pc \in Watching => /\ R.todo \subseteq ItemsAfter(m, R.pos)
                           /\ R.rv # NoRV => R.todo = {} /\ R.rv <= R.pos
  BY <1>4 DEF InHand
<1>8. R.pc \in {"eventIndex", "notify"} =>
        /\ R.cur.ver = After(m, R.pos)[R.cur.key]
        /\ \A it \in R.todo : it.key # R.cur.key
        /\ R.rv # NoRV => R.rv < R.pos /\ R.cur.key = m[R.pos].key
  BY <1>3, <1>4 DEF InHand
<1> QED BY <1>5, <1>6, <1>7, <1>8 DEF InHand, m

(* The server appends one event and touches nothing of the informer. *)
LEMMA EmitAppends ==
  ASSUME TypeOK, NEW k \in Keys, NEW type \in {"ADDED", "MODIFIED", "DELETED"}, Emit(type, k)
  PROVE  /\ log' = Append(log, [type |-> type, key |-> k]) /\ [type |-> type, key |-> k] \in Event
         /\ UNCHANGED <<failures, cancelled, store, index, since, told, hasSynced, run>>
BY DEF Emit, Event

(* An event the server may send keeps the history legal, *)
LEMMA HistoryEmit ==
  ASSUME TypeOK, LegalHistory, NEW k \in Keys, NEW type \in {"ADDED", "MODIFIED", "DELETED"},
         Emit(type, k), type = "ADDED" <=> At(Now)[k] = 0
  PROVE  LegalHistory'
<1> DEFINE e == [type |-> type, key |-> k]
<1>1. log \in Seq(Event) /\ log' = Append(log, e) /\ e \in Event
  BY TypedRuns, EmitAppends
<1>2. e.type = "ADDED" <=> After(log, Len(log))[e.key] = 0
  BY AtAfter DEF Now
<1> HIDE DEF e
<1> QED BY <1>1, <1>2, LegalAppend DEF LegalHistory

(* and what the Runs have in hand. *)
LEMMA HandsEmit ==
  ASSUME TypeOK, Hands, NEW k \in Keys, NEW type \in {"ADDED", "MODIFIED", "DELETED"},
         Emit(type, k)
  PROVE  Hands'
<1> DEFINE e == [type |-> type, key |-> k]
<1>1. log \in Seq(Event) /\ log' = Append(log, e) /\ e \in Event /\ run' = run
  BY TypedRuns, EmitAppends
<1>2. \A r \in Runs : run[r] \in Locals(Len(log))
  BY TypedRuns DEF Now
<1> HIDE DEF e
<1> QED BY <1>1, <1>2, InHandAppend DEF Hands

\* A step of a Run changes neither the server nor its context.
LEMMA StepKeepsLog ==
  ASSUME NEW r \in Runs, Step(r)
  PROVE  log' = log /\ cancelled' = cancelled /\ since' = since
<1>1. CASE ListReturns(r) \/ ListFails(r) \/ ApplyItem(r) \/ ApplyIndex(r) \/ ListDone(r)
  BY <1>1 DEF ListReturns, ListFails, ApplyItem, ApplyIndex, ListDone
<1>2. CASE WatchOpens(r) \/ EventIndex(r) \/ Notify(r) \/ WatchBreaks(r)
  BY <1>2 DEF WatchOpens, EventIndex, Notify, WatchBreaks
<1>3. CASE HandleEvent(r)
  BY <1>3 DEF HandleEvent, Upserts, Deletes
<1>4. CASE Loop(r)
  BY <1>4 DEF Loop
<1> QED BY <1>1, <1>2, <1>3, <1>4 DEF Step

(* Every step keeps the history legal. *)
LEMMA HistoryStep == ASSUME TypeOK, LegalHistory, Next PROVE LegalHistory'
<1>1. ASSUME log' = log PROVE LegalHistory'
  BY <1>1 DEF LegalHistory
<1>2. ASSUME NEW k \in Keys, ServerWrites(k) \/ ServerDeletes(k) PROVE LegalHistory'
  BY <1>2, HistoryEmit DEF ServerWrites, ServerDeletes
<1>3. CASE AddEventHandler
  BY <1>1, <1>3 DEF AddEventHandler
<1>4. ASSUME NEW r \in Runs, Step(r) \/ Cancel(r) PROVE LegalHistory'
  BY <1>1, <1>4, StepKeepsLog DEF Cancel
<1> QED BY <1>2, <1>3, <1>4 DEF Next

\* What Run r has in hand after a step of its own.
LEMMA HandStep ==
  ASSUME TypeOK, NEW r \in Runs, InHand(log, run[r]), Step(r)
  PROVE  InHand(log, run'[r])
<1>1. /\ run[r].pos \in 0..Now /\ run[r].rv \in NoRV..Now /\ Now \in Nat /\ log \in Seq(Event)
      /\ run[r].todo \in SUBSET Item
  BY TypedRuns, TypedLocal DEF Item, ItemsUpTo
<1>2. CASE ListReturns(r)
  <2>1. run'[r].pc = "apply" /\ run'[r].todo = Existing /\ run'[r].rv = Now /\ run'[r].pos = run[r].pos
    BY <1>2, ListReturnsEffect
  <2>2. Existing = ItemsAfter(log, Now)
    BY <1>1, ExistingType
  <2> QED BY <1>1, <2>1, <2>2 DEF InHand, NoRV, Listing, Watching
<1>3. CASE ListFails(r)
  <2>1. /\ run'[r].pc \in {"done", "wait"} /\ run'[r].rv = NoRV
        /\ run'[r].todo = run[r].todo /\ run[r].pc = "list"
    BY <1>3, ListFailsEffect DEF ListFails
  <2> QED BY <2>1 DEF InHand, Listing, Watching
<1>4. CASE ApplyItem(r)
  <2>1. PICK it \in run[r].todo :
          /\ run'[r].pc = "applyIndex" /\ run'[r].cur = it /\ run'[r].todo = run[r].todo \ {it}
          /\ run'[r].rv = run[r].rv /\ run'[r].pos = run[r].pos
    <3>1. PICK it \in run[r].todo :
            /\ store' = [store EXCEPT ![it.key] = it.ver]
            /\ Becomes(r, "applyIndex", run[r].initial, run[r].rv, run[r].pos, run[r].todo \ {it}, it,
                       run[r].backoff)
      BY <1>4, ApplyItemEffect
    <3> QED BY <3>1 DEF Becomes
  <2>2. run[r].pc = "apply"
    BY <1>4 DEF ApplyItem
  <2> QED BY <2>1, <2>2 DEF InHand, Listing, Watching
<1>5. CASE ApplyIndex(r)
  <2>1. /\ run'[r].pc = "apply" /\ run'[r].todo = run[r].todo
        /\ run'[r].rv = run[r].rv /\ run'[r].pos = run[r].pos /\ run[r].pc = "applyIndex"
    BY <1>5, ApplyIndexEffect DEF ApplyIndex
  <2> QED BY <2>1 DEF InHand, Listing, Watching
<1>6. CASE ListDone(r)
  <2>1. /\ run'[r].pc = "check" /\ run'[r].todo = run[r].todo
        /\ run'[r].rv = run[r].rv /\ run'[r].pos = run[r].pos /\ run[r].pc = "apply" /\ run[r].todo = {}
    BY <1>6, ListDoneEffect DEF ListDone
  <2> QED BY <2>1 DEF InHand, Listing, Watching
<1>7. CASE WatchOpens(r)
  <2>1. /\ run'[r].pc = "watch" /\ run'[r].rv = run[r].rv
        /\ run'[r].pos = IF run[r].rv = NoRV THEN Now ELSE run[r].rv
        /\ run'[r].todo = IF run[r].rv = NoRV THEN Existing ELSE {}
    BY <1>7, WatchOpensEffect
  <2>2. Existing = ItemsAfter(log, Now)
    BY <1>1, ExistingType
  <2> QED BY <1>1, <2>1, <2>2 DEF InHand, NoRV, Listing, Watching
<1>8. CASE HandleEvent(r)
  <2>1. run[r].pc = "watch"
    BY <1>8 DEF HandleEvent
  <2>2. /\ run[r].todo \subseteq ItemsAfter(log, run[r].pos)
        /\ run[r].rv # NoRV => run[r].todo = {} /\ run[r].rv <= run[r].pos
    BY <2>1 DEF InHand, Watching
  <2>3. PICK it \in Item : SyntheticEvent(r, it) \/ RealEvent(r, it)
    BY <1>8, HandleEventEffect
  <2>4. CASE SyntheticEvent(r, it)
    <3>1. /\ run'[r].pc = "eventIndex" /\ run'[r].rv = run[r].rv /\ run'[r].pos = run[r].pos
          /\ run'[r].todo = run[r].todo \ {it} /\ run'[r].cur = it /\ it \in run[r].todo
      BY <2>4 DEF SyntheticEvent, Becomes
    <3>2. it \in ItemsAfter(log, run[r].pos) /\ run[r].pos \in Nat
      BY <1>1, <2>2, <3>1
    <3>3. /\ it.ver = After(log, run[r].pos)[it.key]
          /\ \A other \in ItemsAfter(log, run[r].pos) : other.key = it.key => other = it
      BY <3>2, ItemParts
    <3> QED BY <2>2, <3>1, <3>3 DEF InHand, Listing, Watching
  <2>5. CASE RealEvent(r, it)
    <3> DEFINE next == run[r].pos + 1
    <3>1. /\ run'[r].pc = "eventIndex" /\ run'[r].rv = run[r].rv /\ run'[r].pos = next
          /\ run'[r].todo = {} /\ run'[r].cur = it /\ next \in 1..Now
      BY <2>5 DEF RealEvent, Becomes
    <3>2. it.key = log[next].key /\ it.ver = IF log[next].type = "DELETED" THEN 0 ELSE next
      BY <2>5 DEF RealEvent
    <3>3. After(log, next - 1) \in [Keys -> 0 .. next - 1]
      BY <1>1, <3>1, AfterType
    <3>4. it.ver = After(log, next)[it.key]
      BY <1>1, <3>1, <3>2, <3>3, AfterNext DEF Now
    <3> QED BY <1>1, <2>2, <3>1, <3>2, <3>4 DEF InHand, Listing, Watching, NoRV
  <2> QED BY <2>3, <2>4, <2>5
<1>9. CASE EventIndex(r)
  <2>1. /\ run'[r].pc = "notify" /\ run'[r].todo = run[r].todo /\ run'[r].cur = run[r].cur
        /\ run'[r].rv = run[r].rv /\ run'[r].pos = run[r].pos /\ run[r].pc = "eventIndex"
    BY <1>9, EventIndexEffect DEF EventIndex
  <2> QED BY <2>1 DEF InHand, Listing, Watching
<1>10. CASE Notify(r)
  <2>1. /\ run'[r].pc = "watch" /\ run'[r].todo = run[r].todo
        /\ run'[r].rv = run[r].rv /\ run'[r].pos = run[r].pos /\ run[r].pc = "notify"
    BY <1>10, NotifyEffect DEF Notify
  <2> QED BY <2>1 DEF InHand, Listing, Watching
<1>11. CASE WatchBreaks(r)
  <2>1. run'[r].pc = "broken" /\ run'[r].todo = {}
    BY <1>11, WatchBreaksEffect
  <2> QED BY <2>1 DEF InHand, Listing, Watching
<1>12. CASE Loop(r)
  <2>1. CASE Stops(r)
    <3>1. run'[r].pc = "done"
      BY <2>1, StopsEffect
    <3> QED BY <3>1 DEF InHand, Listing, Watching
  <2>2. CASE Proceeds(r)
    <3>1. /\ run'[r].pc = IF run[r].pc = "check" THEN "open" ELSE "sleep"
          /\ run'[r].rv = run[r].rv /\ run'[r].pos = run[r].pos /\ run'[r].todo = run[r].todo
          /\ run[r].pc \in {"check", "broken"}
      BY <2>2, ProceedsEffect DEF Proceeds
    <3> QED BY <3>1 DEF InHand, Listing, Watching
  <2>3. CASE Wakes(r)
    <3>1. /\ run'[r].pc = IF run[r].pc = "sleep" THEN "list" ELSE "check"
          /\ run'[r].rv = run[r].rv /\ run'[r].pos = run[r].pos /\ run'[r].todo = run[r].todo
          /\ run[r].pc \in {"sleep", "wait"}
      BY <2>3, WakesEffect DEF Wakes
    <3> QED BY <3>1 DEF InHand, Listing, Watching
  <2> QED BY <1>12, <2>1, <2>2, <2>3 DEF Loop
<1> QED BY <1>2, <1>3, <1>4, <1>5, <1>6, <1>7, <1>8, <1>9, <1>10, <1>11, <1>12 DEF Step

\* A step of Run r is not one of another Run.
LEMMA OthersStay ==
  ASSUME TypeOK, NEW r \in Runs, Step(r), NEW q \in Runs \ {r}
  PROVE  run'[q] = run[q]
<1>1. CASE ListReturns(r) \/ ListFails(r) \/ ApplyIndex(r) \/ ListDone(r)
  BY <1>1, ListReturnsEffect, ListFailsEffect, ApplyIndexEffect, ListDoneEffect DEF Becomes
<1>2. CASE ApplyItem(r)
  BY <1>2, ApplyItemEffect DEF Becomes
<1>3. CASE WatchOpens(r) \/ EventIndex(r) \/ Notify(r) \/ WatchBreaks(r)
  BY <1>3, WatchOpensEffect, EventIndexEffect, NotifyEffect, WatchBreaksEffect DEF Becomes
<1>4. CASE HandleEvent(r)
  BY <1>4, HandleEventEffect DEF SyntheticEvent, RealEvent, Becomes
<1>5. CASE Loop(r)
  BY <1>5, StopsEffect, ProceedsEffect, WakesEffect DEF Loop, Becomes
<1> QED BY <1>1, <1>2, <1>3, <1>4, <1>5 DEF Step

(* Every step leaves each Run holding objects of the history only. *)
LEMMA HandsStep == ASSUME TypeOK, Hands, Next PROVE Hands'
<1>1. ASSUME log' = log, run' = run PROVE Hands'
  BY <1>1 DEF Hands
<1>2. ASSUME NEW k \in Keys, ServerWrites(k) \/ ServerDeletes(k) PROVE Hands'
  BY <1>2, HandsEmit DEF ServerWrites, ServerDeletes
<1>3. CASE AddEventHandler
  BY <1>1, <1>3 DEF AddEventHandler
<1>4. ASSUME NEW r \in Runs, Step(r) PROVE Hands'
  <2>1. log' = log
    BY <1>4, StepKeepsLog
  <2>2. InHand(log, run'[r])
    BY <1>4, HandStep DEF Hands
  <2>3. \A q \in Runs \ {r} : InHand(log, run'[q])
    BY <1>4, OthersStay DEF Hands
  <2> QED BY <2>1, <2>2, <2>3 DEF Hands
<1>5. ASSUME NEW r \in Runs, Cancel(r) PROVE Hands'
  BY <1>1, <1>5 DEF Cancel
<1> QED BY <1>2, <1>3, <1>4, <1>5 DEF Next

\* The first failure is the first time a Run leaves the straight path.
LEMMA UnbrokenStep ==
  ASSUME TypeOK, NEW r \in Runs, InHand(log, run[r]), Step(r),
         failures = 0 => Unbroken(run[r], r \in cancelled), failures' = 0
  PROVE  Unbroken(run'[r], r \in cancelled)
<1>1. failures \in Nat /\ Now \in Nat /\ MaxFailures \in Nat
  BY TypedRuns, InformerAssumption DEF TypeOK
<1>2. ASSUME Failure(r) PROVE r \in cancelled /\ failures = 0
  BY <1>1, <1>2 DEF Failure
<1>3. CASE ListReturns(r)
  <2>1. failures = 0 /\ run[r].pc = "list"
    BY <1>3 DEF ListReturns
  <2>2. run'[r].pc = "apply" /\ run'[r].initial = run[r].initial
    BY <1>3, ListReturnsEffect
  <2> QED BY <2>1, <2>2 DEF Unbroken, Listing, Watching
<1>4. CASE ListFails(r)
  <2>1. failures = 0 /\ run[r].pc = "list"
    BY <1>2, <1>4 DEF ListFails
  <2>2. run[r].initial
    BY <2>1 DEF Unbroken
  <2>3. run'[r].pc = "done"
    BY <1>4, <2>2, ListFailsEffect
  <2> QED BY <2>3 DEF Unbroken, Listing, Watching
<1>5. CASE ApplyItem(r)
  <2>1. failures = 0 /\ run[r].pc = "apply"
    BY <1>5 DEF ApplyItem
  <2>2. run'[r].pc = "applyIndex" /\ run'[r].initial = run[r].initial
    <3>1. PICK it \in run[r].todo :
            /\ store' = [store EXCEPT ![it.key] = it.ver]
            /\ Becomes(r, "applyIndex", run[r].initial, run[r].rv, run[r].pos, run[r].todo \ {it}, it,
                       run[r].backoff)
      BY <1>5, ApplyItemEffect
    <3> QED BY <3>1 DEF Becomes
  <2> QED BY <2>1, <2>2 DEF Unbroken, Listing, Watching
<1>6. CASE ApplyIndex(r)
  <2>1. failures = 0 /\ run[r].pc = "applyIndex"
    BY <1>6 DEF ApplyIndex
  <2>2. run'[r].pc = "apply" /\ run'[r].initial = run[r].initial
    BY <1>6, ApplyIndexEffect
  <2> QED BY <2>1, <2>2 DEF Unbroken, Listing, Watching
<1>7. CASE ListDone(r)
  <2>1. run'[r].pc = "check" /\ run'[r].rv = run[r].rv /\ run[r].pc = "apply"
    BY <1>7, ListDoneEffect DEF ListDone
  <2>2. run[r].rv # NoRV
    BY <2>1 DEF InHand, Listing
  <2> QED BY <2>1, <2>2 DEF Unbroken, Listing, Watching
<1>8. CASE WatchOpens(r)
  <2>1. failures = 0 /\ run[r].pc = "open"
    BY <1>8 DEF WatchOpens
  <2>2. run'[r].pc = "watch" /\ run'[r].rv = run[r].rv
    BY <1>8, WatchOpensEffect
  <2> QED BY <2>1, <2>2 DEF Unbroken, Listing, Watching
<1>9. CASE HandleEvent(r)
  <2>1. failures = 0 /\ run[r].pc = "watch"
    BY <1>9 DEF HandleEvent, Upserts, Deletes
  <2>2. run'[r].pc = "eventIndex" /\ run'[r].rv = run[r].rv
    <3>1. PICK it \in Item : SyntheticEvent(r, it) \/ RealEvent(r, it)
      BY <1>9, HandleEventEffect
    <3> QED BY <3>1 DEF SyntheticEvent, RealEvent, Becomes
  <2> QED BY <2>1, <2>2 DEF Unbroken, Listing, Watching
<1>10. CASE EventIndex(r)
  <2>1. failures = 0 /\ run[r].pc = "eventIndex"
    BY <1>10 DEF EventIndex
  <2>2. run'[r].pc = "notify" /\ run'[r].rv = run[r].rv
    BY <1>10, EventIndexEffect
  <2> QED BY <2>1, <2>2 DEF Unbroken, Listing, Watching
<1>11. CASE Notify(r)
  <2>1. failures = 0 /\ run[r].pc = "notify"
    BY <1>11 DEF Notify
  <2>2. run'[r].pc = "watch" /\ run'[r].rv = run[r].rv
    BY <1>11, NotifyEffect
  <2> QED BY <2>1, <2>2 DEF Unbroken, Listing, Watching
<1>12. CASE WatchBreaks(r)
  <2>1. run'[r].pc = "broken" /\ r \in cancelled
    BY <1>2, <1>12, WatchBreaksEffect DEF WatchBreaks
  <2> QED BY <2>1 DEF Unbroken, Listing, Watching
<1>13. CASE Loop(r)
  <2>1. failures = 0 /\ Unbroken(run[r], r \in cancelled)
    BY <1>13 DEF Loop
  <2>2. CASE Stops(r)
    <3>1. run'[r].pc = "done"
      BY <2>2, StopsEffect
    <3> QED BY <3>1 DEF Unbroken, Listing, Watching
  <2>3. CASE Proceeds(r)
    <3>1. run[r].pc = "check"
      BY <2>1, <2>3 DEF Proceeds, Unbroken
    <3>2. run'[r].pc = "open" /\ run'[r].rv = run[r].rv
      BY <2>3, <3>1, ProceedsEffect
    <3> QED BY <2>1, <3>1, <3>2 DEF Unbroken, Listing, Watching
  <2>4. CASE Wakes(r)
    BY <2>1, <2>4 DEF Wakes, Unbroken
  <2> QED BY <1>13, <2>2, <2>3, <2>4 DEF Loop
<1> QED BY <1>3, <1>4, <1>5, <1>6, <1>7, <1>8, <1>9, <1>10, <1>11, <1>12, <1>13 DEF Step

\* Failures are counted up.
LEMMA FailuresGrow ==
  ASSUME TypeOK, NEW r \in Runs, Step(r)
  PROVE  failures' \in {failures, failures + 1} /\ failures \in Nat
<1>1. failures \in Nat
  BY InformerAssumption DEF TypeOK
<1>2. CASE ListReturns(r) \/ ApplyItem(r) \/ ApplyIndex(r) \/ ListDone(r) \/ WatchOpens(r)
  <2>1. failures' = failures
    BY <1>2 DEF ListReturns, ApplyItem, ApplyIndex, ListDone, WatchOpens
  <2> QED BY <1>1, <2>1
<1>3. CASE EventIndex(r) \/ Notify(r) \/ Loop(r) \/ HandleEvent(r)
  <2>1. failures' = failures
    BY <1>3 DEF EventIndex, Notify, Loop, HandleEvent, Upserts, Deletes
  <2> QED BY <1>1, <2>1
<1>4. CASE ListFails(r) \/ WatchBreaks(r)
  BY <1>1, <1>4 DEF ListFails, WatchBreaks, Failure
<1> QED BY <1>2, <1>3, <1>4 DEF Step

\* Contexts stay cancelled.
LEMMA NoFailureStep == ASSUME TypeOK, Hands, NoFailureYet, Next PROVE NoFailureYet'
<1>1. ASSUME failures' = failures, run' = run, cancelled' = cancelled PROVE NoFailureYet'
  BY <1>1 DEF NoFailureYet
<1>2. ASSUME NEW k \in Keys, ServerWrites(k) \/ ServerDeletes(k) PROVE NoFailureYet'
  BY <1>1, <1>2 DEF ServerWrites, ServerDeletes, Emit
<1>3. CASE AddEventHandler
  BY <1>1, <1>3 DEF AddEventHandler
<1>4. ASSUME NEW r \in Runs, Step(r), failures' = 0 PROVE NoFailureYet'
  <2>1. cancelled' = cancelled /\ (\A q \in Runs \ {r} : run'[q] = run[q])
    BY <1>4, StepKeepsLog, OthersStay
  <2>2. Unbroken(run'[r], r \in cancelled)
    BY <1>4, UnbrokenStep DEF Hands, NoFailureYet
  <2>3. failures = 0
    BY <1>4, FailuresGrow
  <2> QED BY <2>1, <2>2, <2>3 DEF NoFailureYet
<1>5. ASSUME NEW r \in Runs, Cancel(r) PROVE NoFailureYet'
  <2>1. failures' = failures /\ run' = run /\ cancelled \subseteq cancelled'
    BY <1>5 DEF Cancel
  <2> QED BY <2>1 DEF NoFailureYet, Unbroken
<1> QED BY <1>2, <1>3, <1>4, <1>5 DEF Next, NoFailureYet

-----------------------------------------------------------------------------
(* What the store shows, for one Run                                       *)

\* A Run goes on towards the same goal, or gives it up.
LEMMA TracksSame ==
  ASSUME NEW l, NEW s, NEW R, NEW S, Tracks(l, s, R),
         Pursuing(S) => Pursuing(R) /\ Goal(S) = Goal(R) /\ S.todo = R.todo
  PROVE  Tracks(l, s, S)
<1>1. Pursuing(S) => Pending(S) = Pending(R)
  BY DEF Pending
<1> QED BY <1>1 DEF Tracks

(* Exactness depends only on where a Run is heading and what it has left to do. *)
LEMMA ExactSame ==
  ASSUME NEW l, NEW s, NEW R, NEW S, Exact(l, s, R), S.pc # "list",
         Pursuing(S) => Pursuing(R) /\ Goal(S) = Goal(R) /\ S.todo = R.todo
  PROVE  Exact(l, s, S)
<1>1. Pursuing(S) => Pending(S) = Pending(R)
  BY DEF Pending
<1> QED BY <1>1 DEF Exact

\* Whatever is to be brought to the state after n events, everything that exists
\* then is pending.
LEMMA AllPending ==
  ASSUME NEW l, NEW n \in Nat, NEW R, R.todo = ItemsAfter(l, n)
  PROVE  \A k \in Keys : k \in Pending(R) <=> After(l, n)[k] # 0
<1>1. ASSUME NEW k \in Keys, k \in Pending(R) PROVE After(l, n)[k] # 0
  <2>1. PICK it \in ItemsAfter(l, n) : it.key = k
    BY <1>1 DEF Pending
  <2> QED BY <2>1, ItemParts
<1>2. ASSUME NEW k \in Keys, After(l, n)[k] # 0 PROVE k \in Pending(R)
  <2>1. [key |-> k, ver |-> After(l, n)[k], old |-> 0] \in R.todo
    BY <1>2 DEF ItemsAfter
  <2> QED BY <2>1 DEF Pending
<1> QED BY <1>1, <1>2

(* A list that starts has everything to apply, so the store may show anything older. *)
LEMMA TracksStart ==
  ASSUME NEW l, NEW s, NEW n \in Nat, NEW R, NEW S, Tracks(l, s, R), s \in [Keys -> 0..n],
         S.todo = ItemsAfter(l, n), Goal(S) = n
  PROVE  Tracks(l, s, S)
<1>1. \A k \in Keys : k \in Pending(S) <=> After(l, n)[k] # 0
  BY AllPending
<1>2. \A k \in Keys : s[k] <= n
  OBVIOUS
<1> QED BY <1>1, <1>2 DEF Tracks

\* The items of R that are left when one has been applied.
LEMMA PendingRest ==
  ASSUME NEW l, NEW n \in Nat, NEW R, NEW S, NEW it \in R.todo, R.todo \subseteq ItemsAfter(l, n),
         S.todo = R.todo \ {it}
  PROVE  Pending(S) = Pending(R) \ {it.key} /\ it.key \in Pending(R)
<1>1. \A a \in R.todo : a.key = it.key => a = it
  BY ItemParts
<1> QED BY <1>1 DEF Pending

\* An item is applied.
LEMMA TracksUpsert ==
  ASSUME NEW l, NEW s, NEW n \in Nat, NEW R, NEW S, Tracks(l, s, R), s \in [Keys -> Nat],
         NEW it \in R.todo, R.todo \subseteq ItemsAfter(l, n), S.todo = R.todo \ {it},
         Pursuing(R), Goal(R) = n, Goal(S) = n, NEW t, t = [s EXCEPT ![it.key] = it.ver]
  PROVE  Tracks(l, t, S) /\ NotOlder(s, t)
<1> DEFINE k == it.key
<1>1. k \in Keys /\ it.ver = After(l, n)[k] /\ it.ver # 0
  BY ItemParts
<1>2. After(l, n)[k] \in 0..n /\ l[After(l, n)[k]].key = k /\ \A j \in Keys : After(l, n)[j] <= n
  BY <1>1, AfterType
<1>3. Pending(S) = Pending(R) \ {k}
  BY PendingRest
<1>4. t[k] = After(l, n)[k] /\ \A j \in Keys \ {k} : t[j] = s[j]
  BY <1>1
<1> HIDE DEF k
<1>5. /\ \A j \in Keys : s[j] # 0 => l[s[j]].key = j
      /\ \A j \in Keys : s[j] <= n
      /\ \A j \in Keys : After(l, n)[j] # 0 /\ j \notin Pending(R) => s[j] = After(l, n)[j]
  BY DEF Tracks
<1>6. ASSUME NEW j \in Keys
      PROVE  /\ t[j] # 0 => l[t[j]].key = j
             /\ t[j] <= n
             /\ After(l, n)[j] # 0 /\ j \notin Pending(S) => t[j] = After(l, n)[j]
  <2>1. CASE j = k
    BY <1>1, <1>2, <1>4, <2>1
  <2>2. CASE j # k
    BY <1>3, <1>4, <1>5, <2>2
  <2> QED BY <2>1, <2>2
<1>7. Tracks(l, t, S)
  BY <1>6 DEF Tracks
<1>8. s[k] <= it.ver
  <2>1. s[k] \in Nat /\ s[k] <= n
    BY <1>1, <1>5
  <2>2. CASE s[k] = 0
    BY <1>1, <1>2, <2>2
  <2>3. CASE s[k] # 0
    <3>1. s[k] \in 1..n /\ l[s[k]].key = k
      BY <1>1, <1>5, <2>1, <2>3
    <3> QED BY <1>1, <3>1, AfterNotBefore
  <2> QED BY <2>2, <2>3
<1>9. NotOlder(s, t)
  <2>1. s[k] \in Nat /\ it.ver \in Nat /\ t[k] = it.ver
    BY <1>1, <1>2, <1>4
  <2> QED BY <1>4, <1>8, <2>1 DEF NotOlder
<1> QED BY <1>7, <1>9

\* The event after the first n is applied.
LEMMA TracksEvent ==
  ASSUME NEW l \in Seq(Event), NEW n \in 1..Len(l), NEW s \in [Keys -> Nat], NEW R, NEW S,
         Tracks(l, s, R), Pursuing(R), Goal(R) = n - 1, R.todo = {}, Goal(S) = n, S.todo = {},
         NEW t, t = [s EXCEPT ![l[n].key] = IF l[n].type = "DELETED" THEN 0 ELSE n]
  PROVE  Tracks(l, t, S) /\ NotOlder(s, t)
<1> DEFINE k == l[n].key
           v == IF l[n].type = "DELETED" THEN 0 ELSE n
<1>1. k \in Keys /\ After(l, n) = [After(l, n - 1) EXCEPT ![k] = v]
  BY AfterNext
<1>2. After(l, n - 1) \in [Keys -> 0 .. n - 1]
  BY AfterType
<1>3. Pending(R) = {} /\ Pending(S) = {}
  BY DEF Pending
<1>4. v \in {0, n} /\ (v # 0 => l[v].key = k) /\ t = [s EXCEPT ![k] = v]
  OBVIOUS
<1> HIDE DEF k, v
<1>5. /\ \A j \in Keys : s[j] # 0 => l[s[j]].key = j
      /\ \A j \in Keys : s[j] <= n - 1
      /\ \A j \in Keys : After(l, n - 1)[j] # 0 => s[j] = After(l, n - 1)[j]
  BY <1>3 DEF Tracks
<1>6. ASSUME NEW j \in Keys
      PROVE  /\ t[j] # 0 => l[t[j]].key = j
             /\ t[j] <= n
             /\ After(l, n)[j] # 0 /\ j \notin Pending(S) => t[j] = After(l, n)[j]
  <2>1. CASE j = k
    <3>1. t[j] = v /\ After(l, n)[j] = v
      BY <1>1, <1>2, <1>4, <2>1
    <3> QED BY <1>4, <2>1, <3>1
  <2>2. CASE j # k
    <3>1. t[j] = s[j] /\ After(l, n)[j] = After(l, n - 1)[j] /\ s[j] <= n
      BY <1>1, <1>2, <1>4, <1>5, <2>2
    <3> QED BY <1>5, <3>1
  <2> QED BY <2>1, <2>2
<1>7. Tracks(l, t, S)
  BY <1>6 DEF Tracks
<1>8. s[k] <= n
  BY <1>1, <1>5
<1>9. NotOlder(s, t)
  BY <1>1, <1>4, <1>8 DEF NotOlder
<1> QED BY <1>7, <1>9

(* The same of exactness. *)
LEMMA ExactStart ==
  ASSUME NEW l, NEW s, NEW n \in Nat, NEW R, NEW S, Exact(l, s, R), R.pc = "list",
         S.pc # "list", S.todo = ItemsAfter(l, n), Goal(S) = n
  PROVE  Exact(l, s, S)
<1>1. \A k \in Keys : k \in Pending(S) <=> After(l, n)[k] # 0
  BY AllPending
<1> QED BY <1>1 DEF Exact

(* Applying a listed object brings its key to the listed version. *)
LEMMA ExactUpsert ==
  ASSUME NEW l, NEW s, NEW n \in Nat, NEW R, NEW S, Exact(l, s, R), s \in [Keys -> Nat],
         NEW it \in R.todo, R.todo \subseteq ItemsAfter(l, n), S.todo = R.todo \ {it},
         Pursuing(R), Goal(R) = n, Goal(S) = n, S.pc # "list", NEW t, t = [s EXCEPT ![it.key] = it.ver]
  PROVE  Exact(l, t, S)
<1>1. Pending(S) = Pending(R) \ {it.key}
  BY PendingRest
<1> DEFINE k == it.key
<1>2. k \in Keys /\ it.ver = After(l, n)[k]
  BY ItemParts
<1>3. t[k] = After(l, n)[k] /\ \A j \in Keys \ {k} : t[j] = s[j]
  BY <1>2
<1> HIDE DEF k
<1>4. \A j \in Keys : s[j] = IF j \in Pending(R) THEN 0 ELSE After(l, n)[j]
  BY DEF Exact
<1>5. ASSUME NEW j \in Keys PROVE t[j] = IF j \in Pending(S) THEN 0 ELSE After(l, n)[j]
  BY <1>1, <1>3, <1>4 DEF k
<1> QED BY <1>5 DEF Exact

(* Applying an event brings its key to the version of the event. *)
LEMMA ExactEvent ==
  ASSUME NEW l \in Seq(Event), NEW n \in 1..Len(l), NEW s \in [Keys -> Nat], NEW R, NEW S,
         Exact(l, s, R), Pursuing(R), Goal(R) = n - 1, R.todo = {}, Goal(S) = n, S.todo = {},
         S.pc # "list", NEW t, t = [s EXCEPT ![l[n].key] = IF l[n].type = "DELETED" THEN 0 ELSE n]
  PROVE  Exact(l, t, S)
<1> DEFINE k == l[n].key
           v == IF l[n].type = "DELETED" THEN 0 ELSE n
<1>1. k \in Keys /\ After(l, n) = [After(l, n - 1) EXCEPT ![k] = v]
  BY AfterNext
<1>2. After(l, n - 1) \in [Keys -> 0 .. n - 1]
  BY AfterType
<1>3. Pending(R) = {} /\ Pending(S) = {}
  BY DEF Pending
<1>6. t = [s EXCEPT ![k] = v]
  OBVIOUS
<1> HIDE DEF k, v
<1>4. \A j \in Keys : s[j] = After(l, n - 1)[j]
  BY <1>3 DEF Exact
<1>5. \A j \in Keys : t[j] = After(l, n)[j]
  BY <1>1, <1>2, <1>4, <1>6
<1> QED BY <1>3, <1>5 DEF Exact

\* The steps that leave the store alone.
StoreStays(r) ==
  \/ ListReturns(r) \/ ListFails(r) \/ ApplyIndex(r) \/ ListDone(r) \/ WatchOpens(r)
  \/ EventIndex(r) \/ Notify(r) \/ WatchBreaks(r) \/ Loop(r)

(* The steps that are not about the store leave it alone. *)
LEMMA StoreStaysStays ==
  ASSUME NEW r \in Runs, StoreStays(r)
  PROVE  store' = store
<1>1. CASE ListReturns(r) \/ ListFails(r) \/ ApplyIndex(r) \/ ListDone(r) \/ WatchOpens(r)
  BY <1>1 DEF ListReturns, ListFails, ApplyIndex, ListDone, WatchOpens
<1>2. CASE EventIndex(r) \/ Notify(r) \/ WatchBreaks(r) \/ Loop(r)
  BY <1>2 DEF EventIndex, Notify, WatchBreaks, Loop
<1> QED BY <1>1, <1>2 DEF StoreStays

\* A step that leaves the store alone gives up the goal, goes on towards it, or
\* begins with everything that exists now.
LEMMA GoalStep ==
  ASSUME TypeOK, NEW r \in Runs, InHand(log, run[r]), StoreStays(r)
  PROVE  \/ /\ Pursuing(run'[r]) => /\ Pursuing(run[r]) /\ Goal(run'[r]) = Goal(run[r])
                                    /\ run'[r].todo = run[r].todo
            /\ run'[r].pc = "list" => run[r].pc = "sleep"
         \/ /\ run'[r].todo = ItemsAfter(log, Now) /\ Goal(run'[r]) = Now
            /\ ListReturns(r) \/ (WatchOpens(r) /\ run[r].rv = NoRV)
<1>1. CASE ListReturns(r)
  <2>1. run'[r].pc = "apply" /\ run'[r].rv = Now /\ run'[r].todo = Existing
    BY <1>1, ListReturnsEffect
  <2> QED BY <1>1, <2>1, TypedRuns, ExistingType DEF Goal, Watching
<1>2. CASE ListFails(r)
  <2>1. run'[r].pc \in {"done", "wait"}
    BY <1>2, ListFailsEffect
  <2> QED BY <2>1 DEF Pursuing, Listing, Watching
<1>3. CASE ApplyIndex(r)
  <2>1. run'[r].pc = "apply" /\ run'[r].todo = run[r].todo /\ run'[r].rv = run[r].rv
    BY <1>3, ApplyIndexEffect
  <2>2. run[r].pc = "applyIndex"
    BY <1>3 DEF ApplyIndex
  <2> QED BY <2>1, <2>2 DEF Pursuing, Goal, Listing, Watching
<1>4. CASE ListDone(r)
  <2>1. run'[r].pc = "check" /\ run'[r].todo = run[r].todo /\ run'[r].rv = run[r].rv
    BY <1>4, ListDoneEffect
  <2>2. run[r].pc = "apply"
    BY <1>4 DEF ListDone
  <2> QED BY <2>1, <2>2 DEF Pursuing, Goal, Listing, Watching
<1>5. CASE WatchOpens(r)
  <2>1. /\ run'[r].pc = "watch" /\ run'[r].pos = IF run[r].rv = NoRV THEN Now ELSE run[r].rv
        /\ run'[r].todo = IF run[r].rv = NoRV THEN Existing ELSE {}
    BY <1>5, WatchOpensEffect
  <2>2. run[r].pc = "open" /\ run[r].todo = {}
    BY <1>5 DEF WatchOpens, InHand
  <2>3. CASE run[r].rv = NoRV
    BY <1>5, <2>1, <2>3, TypedRuns, ExistingType DEF Goal, Watching
  <2>4. CASE run[r].rv # NoRV
    BY <2>1, <2>2, <2>4 DEF Pursuing, Goal, Listing, Watching
  <2> QED BY <2>3, <2>4
<1>6. CASE EventIndex(r)
  <2>1. run'[r].pc = "notify" /\ run'[r].todo = run[r].todo /\ run'[r].pos = run[r].pos
    BY <1>6, EventIndexEffect
  <2>2. run[r].pc = "eventIndex"
    BY <1>6 DEF EventIndex
  <2> QED BY <2>1, <2>2 DEF Pursuing, Goal, Listing, Watching
<1>7. CASE Notify(r)
  <2>1. run'[r].pc = "watch" /\ run'[r].todo = run[r].todo /\ run'[r].pos = run[r].pos
    BY <1>7, NotifyEffect
  <2>2. run[r].pc = "notify"
    BY <1>7 DEF Notify
  <2> QED BY <2>1, <2>2 DEF Pursuing, Goal, Listing, Watching
<1>8. CASE WatchBreaks(r)
  <2>1. run'[r].pc = "broken"
    BY <1>8, WatchBreaksEffect
  <2> QED BY <2>1 DEF Pursuing, Listing, Watching
<1>9. CASE Loop(r)
  <2>1. CASE Stops(r)
    <3>1. run'[r].pc = "done"
      BY <2>1, StopsEffect
    <3> QED BY <3>1 DEF Pursuing, Listing, Watching
  <2>2. CASE Proceeds(r)
    <3>1. /\ run'[r].pc = IF run[r].pc = "check" THEN "open" ELSE "sleep"
          /\ run'[r].rv = run[r].rv /\ run'[r].todo = run[r].todo
      BY <2>2, ProceedsEffect
    <3> QED BY <3>1 DEF Pursuing, Goal, Listing, Watching
  <2>3. CASE Wakes(r)
    <3>1. run'[r].pc = IF run[r].pc = "sleep" THEN "list" ELSE "check"
      BY <2>3, WakesEffect
    <3>2. run'[r].rv = run[r].rv /\ run[r].pc \in {"sleep", "wait"}
      BY <2>3, WakesEffect DEF Wakes
    <3>3. run[r].pc = "wait" => run[r].rv = NoRV
      BY DEF InHand
    <3> QED BY <3>1, <3>2, <3>3 DEF Pursuing, Goal, Listing, Watching
  <2> QED BY <1>9, <2>1, <2>2, <2>3 DEF Loop
<1> QED BY <1>1, <1>2, <1>3, <1>4, <1>5, <1>6, <1>7, <1>8, <1>9 DEF StoreStays

\* The store keeps to its goal, and never replaces an object by an older one.
LEMMA TracksStep ==
  ASSUME TypeOK, NEW r \in Runs, InHand(log, run[r]), Tracks(log, store, run[r]), Step(r)
  PROVE  /\ Tracks(log, store', run'[r])
         /\ NotOlder(store, store')
<1>1. /\ Now \in Nat /\ log \in Seq(Event) /\ run[r].pos \in 0..Now /\ run[r].rv \in NoRV..Now
      /\ store \in [Keys -> 0..Now] /\ store \in [Keys -> Nat]
  BY TypedRuns, TypedLocal DEF TypeOK
<1>2. CASE StoreStays(r)
  <2>1. store' = store
    BY <1>2, StoreStaysStays
  <2>2. CASE /\ Pursuing(run'[r]) => /\ Pursuing(run[r]) /\ Goal(run'[r]) = Goal(run[r])
                                     /\ run'[r].todo = run[r].todo
    BY <1>1, <2>1, <2>2, TracksSame DEF NotOlder
  <2>3. CASE run'[r].todo = ItemsAfter(log, Now) /\ Goal(run'[r]) = Now
    BY <1>1, <2>1, <2>3, TracksStart DEF NotOlder
  <2> QED BY <1>2, <2>2, <2>3, GoalStep
<1>3. CASE ApplyItem(r)
  <2>1. PICK it \in run[r].todo :
          /\ store' = [store EXCEPT ![it.key] = it.ver]
          /\ Becomes(r, "applyIndex", run[r].initial, run[r].rv, run[r].pos, run[r].todo \ {it}, it,
                     run[r].backoff)
    BY <1>3, ApplyItemEffect
  <2>2. run'[r].pc = "applyIndex" /\ run'[r].todo = run[r].todo \ {it} /\ run'[r].rv = run[r].rv
    BY <2>1 DEF Becomes
  <2>3. /\ run[r].pc = "apply" /\ run[r].rv # NoRV /\ run[r].todo \subseteq ItemsAfter(log, run[r].rv)
    BY <1>3 DEF ApplyItem, InHand, Listing
  <2>4. Pursuing(run[r]) /\ Goal(run[r]) = run[r].rv /\ Goal(run'[r]) = run[r].rv /\ run[r].rv \in Nat
    BY <1>1, <2>2, <2>3 DEF Pursuing, Goal, Listing, Watching, NoRV
  <2> QED BY <1>1, <2>1, <2>2, <2>3, <2>4, TracksUpsert
<1>4. CASE HandleEvent(r)
  <2>1. PICK it \in Item : SyntheticEvent(r, it) \/ RealEvent(r, it)
    BY <1>4, HandleEventEffect
  <2>2. /\ run[r].pc = "watch" /\ run[r].todo \subseteq ItemsAfter(log, run[r].pos)
    BY <1>4 DEF HandleEvent, InHand, Watching
  <2>3. Pursuing(run[r]) /\ Goal(run[r]) = run[r].pos
    BY <1>1, <2>2 DEF Pursuing, Goal, Listing, Watching, NoRV
  <2>4. CASE SyntheticEvent(r, it)
    <3>1. /\ it \in run[r].todo /\ store' = [store EXCEPT ![it.key] = it.ver]
          /\ run'[r].pc = "eventIndex" /\ run'[r].todo = run[r].todo \ {it}
          /\ run'[r].pos = run[r].pos
      BY <2>4 DEF SyntheticEvent, Becomes
    <3>2. Goal(run'[r]) = run[r].pos /\ run[r].pos \in Nat
      BY <1>1, <3>1 DEF Goal, Watching
    <3> QED BY <1>1, <2>2, <2>3, <3>1, <3>2, TracksUpsert
  <2>5. CASE RealEvent(r, it)
    <3> DEFINE next == run[r].pos + 1
    <3>1. /\ run'[r].pc = "eventIndex" /\ run'[r].pos = next /\ run[r].todo = {}
          /\ run'[r].todo = {} /\ next \in 1..Now
      BY <2>5 DEF RealEvent, Becomes
    <3>2. store' = [store EXCEPT ![log[next].key] = IF log[next].type = "DELETED" THEN 0 ELSE next]
      BY <2>5 DEF RealEvent
    <3>3. Goal(run'[r]) = next /\ run[r].pos = next - 1
      BY <1>1, <3>1 DEF Goal, Watching
    <3> HIDE DEF next
    <3> QED BY <1>1, <2>3, <3>1, <3>2, <3>3, TracksEvent DEF Now
  <2> QED BY <2>1, <2>4, <2>5
<1> QED BY <1>2, <1>3, <1>4 DEF Step, StoreStays

\* Before the first failure nothing but that goal is in the store.
LEMMA ExactStep ==
  ASSUME TypeOK, NEW r \in Runs, InHand(log, run[r]), Unbroken(run[r], r \in cancelled),
         Exact(log, store, run[r]), Step(r)
  PROVE  Exact(log, store', run'[r])
<1>1. /\ Now \in Nat /\ log \in Seq(Event) /\ run[r].pos \in 0..Now /\ run[r].rv \in NoRV..Now
      /\ store \in [Keys -> Nat]
  BY TypedRuns, TypedLocal DEF TypeOK
<1>2. CASE StoreStays(r)
  <2>1. store' = store
    BY <1>2, StoreStaysStays
  <2>2. CASE /\ Pursuing(run'[r]) => /\ Pursuing(run[r]) /\ Goal(run'[r]) = Goal(run[r])
                                     /\ run'[r].todo = run[r].todo
             /\ run'[r].pc = "list" => run[r].pc = "sleep"
    <3>1. run'[r].pc # "list"
      BY <2>2 DEF Unbroken
    <3> QED BY <2>1, <2>2, <3>1, ExactSame
  <2>3. CASE /\ run'[r].todo = ItemsAfter(log, Now) /\ Goal(run'[r]) = Now
             /\ ListReturns(r) \/ (WatchOpens(r) /\ run[r].rv = NoRV)
    <3>1. ListReturns(r)
      BY <2>3 DEF WatchOpens, Unbroken
    <3>2. run[r].pc = "list" /\ run'[r].pc # "list"
      BY <3>1, ListReturnsEffect DEF ListReturns
    <3> QED BY <1>1, <2>1, <2>3, <3>2, ExactStart
  <2> QED BY <1>2, <2>2, <2>3, GoalStep
<1>3. CASE ApplyItem(r)
  <2>1. PICK it \in run[r].todo :
          /\ store' = [store EXCEPT ![it.key] = it.ver]
          /\ Becomes(r, "applyIndex", run[r].initial, run[r].rv, run[r].pos, run[r].todo \ {it}, it,
                     run[r].backoff)
    BY <1>3, ApplyItemEffect
  <2>2. run'[r].pc = "applyIndex" /\ run'[r].todo = run[r].todo \ {it} /\ run'[r].rv = run[r].rv
    BY <2>1 DEF Becomes
  <2>3. /\ run[r].pc = "apply" /\ run[r].rv # NoRV /\ run[r].todo \subseteq ItemsAfter(log, run[r].rv)
    BY <1>3 DEF ApplyItem, InHand, Listing
  <2>4. Pursuing(run[r]) /\ Goal(run[r]) = run[r].rv /\ Goal(run'[r]) = run[r].rv /\ run[r].rv \in Nat
    BY <1>1, <2>2, <2>3 DEF Pursuing, Goal, Listing, Watching, NoRV
  <2>5. run'[r].pc # "list"
    BY <2>2
  <2> QED BY <1>1, <2>1, <2>2, <2>3, <2>4, <2>5, ExactUpsert
<1>4. CASE HandleEvent(r)
  <2>1. PICK it \in Item : SyntheticEvent(r, it) \/ RealEvent(r, it)
    BY <1>4, HandleEventEffect
  <2>2. run[r].pc = "watch" /\ run[r].todo = {}
    BY <1>4 DEF HandleEvent, InHand, Watching, Unbroken
  <2>3. RealEvent(r, it)
    BY <2>1, <2>2 DEF SyntheticEvent
  <2> DEFINE next == run[r].pos + 1
  <2>4. /\ run'[r].pc = "eventIndex" /\ run'[r].pos = next /\ run'[r].todo = {} /\ next \in 1..Now
    BY <2>3 DEF RealEvent, Becomes
  <2>5. store' = [store EXCEPT ![log[next].key] = IF log[next].type = "DELETED" THEN 0 ELSE next]
    BY <2>3 DEF RealEvent
  <2>6. /\ Pursuing(run[r]) /\ Goal(run[r]) = next - 1 /\ Goal(run'[r]) = next
        /\ run'[r].pc # "list"
    BY <1>1, <2>2, <2>4 DEF Pursuing, Goal, Listing, Watching, NoRV
  <2> HIDE DEF next
  <2> QED BY <1>1, <2>2, <2>4, <2>5, <2>6, ExactEvent DEF Now
<1> QED BY <1>2, <1>3, <1>4 DEF Step, StoreStays

\* The indexer is given every object that the store is given, in the same order.
LEMMA LagsStep ==
  ASSUME TypeOK, NEW r \in Runs, Lags(store, index, run[r]), Step(r)
  PROVE  Lags(store', index', run'[r])
<1>1. store \in [Keys -> 0..Now] /\ index \in [Keys -> 0..Now]
  BY DEF TypeOK
<1>2. CASE ListReturns(r) \/ ListFails(r) \/ ListDone(r) \/ WatchOpens(r) \/ Notify(r) \/ WatchBreaks(r) \/ Loop(r)
  <2>1. store' = store /\ index' = index /\ run[r].pc \notin {"applyIndex", "eventIndex"}
    <3>1. CASE ListReturns(r) \/ ListFails(r) \/ ListDone(r) \/ WatchOpens(r)
      BY <3>1 DEF ListReturns, ListFails, ListDone, WatchOpens
    <3>2. CASE Notify(r) \/ WatchBreaks(r) \/ Loop(r)
      BY <3>2 DEF Notify, WatchBreaks, Loop, Stops, Proceeds, Wakes
    <3> QED BY <1>2, <3>1, <3>2
  <2>2. run'[r].pc \notin {"applyIndex", "eventIndex"}
    <3>1. CASE ListReturns(r) \/ ListFails(r) \/ ListDone(r)
      BY <3>1, ListReturnsEffect, ListFailsEffect, ListDoneEffect
    <3>2. CASE WatchOpens(r) \/ Notify(r) \/ WatchBreaks(r)
      BY <3>2, WatchOpensEffect, NotifyEffect, WatchBreaksEffect
    <3>3. CASE Loop(r)
      BY <3>3, StopsEffect, ProceedsEffect, WakesEffect DEF Loop
    <3> QED BY <1>2, <3>1, <3>2, <3>3
  <2> QED BY <2>1, <2>2 DEF Lags
<1>3. CASE ApplyItem(r)
  <2>1. PICK it \in run[r].todo :
          /\ store' = [store EXCEPT ![it.key] = it.ver]
          /\ Becomes(r, "applyIndex", run[r].initial, run[r].rv, run[r].pos, run[r].todo \ {it}, it,
                     run[r].backoff)
    BY <1>3, ApplyItemEffect
  <2>2. run'[r].pc = "applyIndex" /\ run'[r].cur = it
    BY <2>1 DEF Becomes
  <2>3. it.key \in Keys
    BY TypedRuns, TypedLocal DEF ItemsUpTo
  <2>4. run[r].pc = "apply" /\ index' = index
    BY <1>3 DEF ApplyItem
  <2> QED BY <1>1, <2>1, <2>2, <2>3, <2>4 DEF Lags
<1>4. CASE HandleEvent(r)
  <2>1. PICK it \in Item : SyntheticEvent(r, it) \/ RealEvent(r, it)
    BY <1>4, HandleEventEffect
  <2>2. /\ store' = [store EXCEPT ![it.key] = it.ver]
        /\ run'[r].pc = "eventIndex" /\ run'[r].cur = it /\ it.key \in Keys
    BY <2>1 DEF SyntheticEvent, RealEvent, Becomes, Item
  <2>3. run[r].pc = "watch" /\ index' = index
    BY <1>4 DEF HandleEvent, Upserts, Deletes
  <2> QED BY <1>1, <2>2, <2>3 DEF Lags
<1>5. CASE ApplyIndex(r) \/ EventIndex(r)
  <2>1. /\ store' = store /\ index' = [index EXCEPT ![run[r].cur.key] = run[r].cur.ver]
        /\ run[r].pc \in {"applyIndex", "eventIndex"}
    BY <1>5 DEF ApplyIndex, EventIndex
  <2>2. run'[r].pc \notin {"applyIndex", "eventIndex"}
    BY <1>5, ApplyIndexEffect, EventIndexEffect
  <2> QED BY <1>1, <2>1, <2>2 DEF Lags
<1> QED BY <1>2, <1>3, <1>4, <1>5 DEF Step

-----------------------------------------------------------------------------
(* What the handler is told, by one Run without failures                   *)

(* What the handlers were told depends only on how far the Run has announced. *)
LEMMA ToldSame ==
  ASSUME NEW l, NEW n, NEW t, NEW R, NEW S, Told(l, n, t, R), Announced(S) = Announced(R),
         S.pc \in {"list", "check", "open"} \cup Listing => R.pc \in {"list", "check", "open"} \cup Listing,
         S.pc \in Watching => R.pc \in Watching /\ S.rv = R.rv
  PROVE  Told(l, n, t, S)
BY DEF Told

\* What a step without failure does to the part that the handler can see.
LEMMA QuietStep ==
  ASSUME TypeOK, NEW r \in Runs, InHand(log, run[r]), Unbroken(run[r], r \in cancelled), Step(r),
         Unbroken(run'[r], r \in cancelled), ~ WatchOpens(r), ~ Notify(r)
  PROVE  /\ told' = told /\ Announced(run'[r]) = Announced(run[r])
         /\ run'[r].pc \in {"list", "check", "open"} \cup Listing =>
              run[r].pc \in {"list", "check", "open"} \cup Listing
         /\ run'[r].pc \in Watching => run[r].pc \in Watching /\ run'[r].rv = run[r].rv
<1>1. run[r].pos \in Nat
  <2>1. Now \in Nat /\ run[r].pos \in 0..Now
    BY TypedRuns, TypedLocal
  <2> QED BY <2>1
<1>2. CASE ListReturns(r)
  <2>1. run'[r].pc = "apply" /\ run'[r].pos = run[r].pos /\ run[r].pc = "list" /\ told' = told
    BY <1>2, ListReturnsEffect DEF ListReturns
  <2> QED BY <2>1 DEF Announced, Listing, Watching
<1>3. CASE ListFails(r)
  <2>1. run'[r].pc = "done" /\ run'[r].pos = run[r].pos /\ run[r].pc = "list" /\ told' = told
    BY <1>3, ListFailsEffect DEF ListFails, Unbroken
  <2> QED BY <2>1 DEF Announced, Listing, Watching
<1>4. CASE ApplyItem(r)
  <2>1. PICK it \in run[r].todo :
          /\ store' = [store EXCEPT ![it.key] = it.ver]
          /\ Becomes(r, "applyIndex", run[r].initial, run[r].rv, run[r].pos, run[r].todo \ {it}, it,
                     run[r].backoff)
    BY <1>4, ApplyItemEffect
  <2>2. run'[r].pc = "applyIndex" /\ run'[r].pos = run[r].pos
    BY <2>1 DEF Becomes
  <2>3. run[r].pc = "apply" /\ told' = told
    BY <1>4 DEF ApplyItem
  <2> QED BY <2>2, <2>3 DEF Announced, Listing, Watching
<1>5. CASE ApplyIndex(r)
  <2>1. run'[r].pc = "apply" /\ run'[r].pos = run[r].pos /\ run[r].pc = "applyIndex" /\ told' = told
    BY <1>5, ApplyIndexEffect DEF ApplyIndex
  <2> QED BY <2>1 DEF Announced, Listing, Watching
<1>6. CASE ListDone(r)
  <2>1. run'[r].pc = "check" /\ run'[r].pos = run[r].pos /\ run[r].pc = "apply" /\ told' = told
    BY <1>6, ListDoneEffect DEF ListDone
  <2> QED BY <2>1 DEF Announced, Listing, Watching
<1>7. CASE HandleEvent(r)
  <2>1. PICK it \in Item : SyntheticEvent(r, it) \/ RealEvent(r, it)
    BY <1>7, HandleEventEffect
  <2>2. run[r].pc = "watch" /\ run[r].todo = {} /\ told' = told
    BY <1>7 DEF HandleEvent, Upserts, Deletes, InHand, Watching, Unbroken
  <2>3. run'[r].pc = "eventIndex" /\ run'[r].pos = run[r].pos + 1 /\ run'[r].rv = run[r].rv
    BY <2>1, <2>2 DEF SyntheticEvent, RealEvent, Becomes
  <2> QED BY <1>1, <2>2, <2>3 DEF Announced, Listing, Watching
<1>8. CASE EventIndex(r)
  <2>1. /\ run'[r].pc = "notify" /\ run'[r].pos = run[r].pos /\ run[r].pc = "eventIndex" /\ told' = told
        /\ run'[r].rv = run[r].rv
    BY <1>8, EventIndexEffect DEF EventIndex
  <2> QED BY <2>1 DEF Announced, Listing, Watching
<1>9. CASE WatchBreaks(r)
  <2>1. run'[r].pc = "broken" /\ run'[r].pos = run[r].pos /\ run[r].pc \in {"open", "watch"} /\ told' = told
    BY <1>9, WatchBreaksEffect DEF WatchBreaks
  <2> QED BY <2>1 DEF Announced, Listing, Watching
<1>10. CASE Loop(r)
  <2>1. told' = told
    BY <1>10 DEF Loop
  <2>2. CASE Stops(r)
    <3>1. run'[r].pc = "done" /\ run'[r].pos = run[r].pos /\ run[r].pc \notin {"eventIndex", "notify"}
      BY <2>2, StopsEffect DEF Stops
    <3> QED BY <2>1, <3>1 DEF Announced, Listing, Watching
  <2>3. CASE Proceeds(r)
    <3>1. /\ run[r].pc \in {"check", "broken"} /\ run'[r].pos = run[r].pos
          /\ run'[r].pc = IF run[r].pc = "check" THEN "open" ELSE "sleep"
      BY <2>3, ProceedsEffect DEF Proceeds
    <3> QED BY <2>1, <3>1 DEF Announced, Listing, Watching
  <2>4. CASE Wakes(r)
    BY <2>4 DEF Wakes, Unbroken
  <2> QED BY <1>10, <2>2, <2>3, <2>4 DEF Loop
<1> QED BY <1>2, <1>3, <1>4, <1>5, <1>6, <1>7, <1>8, <1>9, <1>10 DEF Step

\* Before the first failure the handler is told of the next event, and of nothing else.
LEMMA ToldStep ==
  ASSUME TypeOK, NoOneToTell, NEW r \in Runs, InHand(log, run[r]), Unbroken(run[r], r \in cancelled),
         Told(log, since, told, run[r]), Step(r), Unbroken(run'[r], r \in cancelled)
  PROVE  Told(log, since, told', run'[r])
<1>1. /\ Now \in Nat /\ log \in Seq(Event) /\ run[r].pos \in 0..Now /\ run[r].rv \in NoRV..Now
      /\ told \in [Keys -> Nat] /\ since \in NoRV..Now
  BY TypedRuns, TypedLocal DEF TypeOK
<1>2. CASE WatchOpens(r)
  <2>1. /\ run[r].pc = "open" /\ run[r].rv # NoRV /\ run[r].pos <= run[r].rv /\ told' = told
        /\ run'[r].pc = "watch" /\ run'[r].rv = run[r].rv /\ run'[r].pos = run[r].rv
    BY <1>2, WatchOpensEffect DEF WatchOpens, Unbroken, InHand
  <2>2. /\ \A k \in Keys : told[k] = 0
        /\ since <= run[r].pos
    BY <2>1 DEF Told, Announced
  <2>3. Announced(run'[r]) = run[r].rv /\ run[r].rv \in Nat
    BY <1>1, <2>1 DEF Announced, NoRV
  <2>4. After(log, run[r].rv) \in [Keys -> 0 .. run[r].rv]
    BY <2>3, AfterType
  <2>5. \A k \in Keys : ~ (After(log, run[r].rv)[k] > run[r].rv)
    BY <2>3, <2>4
  <2>6. since <= run[r].rv
    BY <1>1, <2>1, <2>2, <2>3 DEF NoRV
  <2> QED BY <2>1, <2>2, <2>3, <2>5, <2>6 DEF Told, Listing, Watching
<1>3. CASE Notify(r)
  <2> DEFINE n == run[r].pos
             k == run[r].cur.key
  <2>1. /\ run[r].pc = "notify" /\ run'[r].pc = "watch" /\ run'[r].rv = run[r].rv /\ run'[r].pos = n
        /\ told' = IF since = NoRV THEN told ELSE [told EXCEPT ![k] = run[r].cur.ver]
    BY <1>3, NotifyEffect DEF Notify
  <2>2. /\ run[r].rv # NoRV /\ run[r].cur.ver = After(log, n)[k] /\ run[r].rv < n /\ k = log[n].key
    BY <2>1 DEF InHand, Unbroken, Watching
  <2>3. /\ since <= n - 1
        /\ since # NoRV => \A j \in Keys :
             told[j] = IF After(log, n - 1)[j] > run[r].rv /\ After(log, n - 1)[j] > since
                       THEN After(log, n - 1)[j] ELSE 0
    BY <2>1 DEF Told, Announced, Watching
  <2>4. n \in 1..Now /\ run[r].rv \in Nat
    BY <1>1, <2>2 DEF NoRV
  <2>5. k \in Keys /\ After(log, n) = [After(log, n - 1) EXCEPT ![k] = IF log[n].type = "DELETED" THEN 0 ELSE n]
    BY <1>1, <2>2, <2>4, AfterNext DEF Now
  <2>6. After(log, n - 1) \in [Keys -> 0 .. n - 1]
    BY <2>4, AfterType
  <2>7. Announced(run'[r]) = n
    BY <2>1 DEF Announced
  <2> HIDE DEF n, k
  <2>8. ASSUME since # NoRV, NEW j \in Keys
        PROVE  told'[j] = IF After(log, n)[j] > run[r].rv /\ After(log, n)[j] > since
                          THEN After(log, n)[j] ELSE 0
    <3>1. CASE j = k
      <4>1. told'[j] = After(log, n)[j] /\ After(log, n)[j] \in {0, n}
        BY <1>1, <2>1, <2>2, <2>5, <2>6, <2>8, <3>1
      <4>2. n > run[r].rv /\ n > since
        BY <1>1, <2>2, <2>3, <2>4 DEF NoRV
      <4> QED BY <2>4, <4>1, <4>2
    <3>2. CASE j # k
      <4>1. told'[j] = told[j] /\ After(log, n)[j] = After(log, n - 1)[j]
        BY <1>1, <2>1, <2>5, <2>6, <2>8, <3>2
      <4> QED BY <2>3, <2>8, <4>1
    <3> QED BY <3>1, <3>2
  <2>9. since <= n
    BY <1>1, <2>3, <2>4 DEF NoRV
  <2> QED BY <2>1, <2>7, <2>8, <2>9 DEF Told, Listing, Watching
<1>4. CASE ~ WatchOpens(r) /\ ~ Notify(r)
  <2>1. /\ told' = told /\ Announced(run'[r]) = Announced(run[r])
        /\ run'[r].pc \in {"list", "check", "open"} \cup Listing =>
             run[r].pc \in {"list", "check", "open"} \cup Listing
        /\ run'[r].pc \in Watching => run[r].pc \in Watching /\ run'[r].rv = run[r].rv
    BY <1>4, QuietStep
  <2> QED BY <2>1, ToldSame
<1> QED BY <1>2, <1>3, <1>4

\* The old object of an update is what the store had, its predecessor.
LEMMA OldStep ==
  ASSUME TypeOK, LegalHistory, NEW r \in Runs, InHand(log, run[r]), Unbroken(run[r], r \in cancelled),
         Exact(log, store, run[r]), OldInHand(log, run[r]), Step(r)
  PROVE  OldInHand(log, run'[r])
<1>1. /\ Now \in Nat /\ log \in Seq(Event) /\ run[r].pos \in 0..Now
  BY TypedRuns, TypedLocal
<1>2. CASE ListReturns(r) \/ ListFails(r) \/ ListDone(r) \/ WatchOpens(r) \/ Notify(r) \/ WatchBreaks(r)
           \/ Loop(r) \/ ApplyIndex(r)
  <2>1. run'[r].pc \notin {"eventIndex", "notify"}
    <3>1. CASE ListReturns(r) \/ ListFails(r) \/ ListDone(r) \/ ApplyIndex(r)
      BY <3>1, ListReturnsEffect, ListFailsEffect, ListDoneEffect, ApplyIndexEffect
    <3>2. CASE WatchOpens(r) \/ Notify(r) \/ WatchBreaks(r)
      BY <3>2, WatchOpensEffect, NotifyEffect, WatchBreaksEffect
    <3>3. CASE Loop(r)
      BY <3>3, StopsEffect, ProceedsEffect, WakesEffect DEF Loop
    <3> QED BY <1>2, <3>1, <3>2, <3>3
  <2> QED BY <2>1 DEF OldInHand
<1>3. CASE ApplyItem(r)
  <2>1. PICK it \in run[r].todo :
          /\ store' = [store EXCEPT ![it.key] = it.ver]
          /\ Becomes(r, "applyIndex", run[r].initial, run[r].rv, run[r].pos, run[r].todo \ {it}, it,
                     run[r].backoff)
    BY <1>3, ApplyItemEffect
  <2>2. run'[r].pc = "applyIndex"
    BY <2>1 DEF Becomes
  <2> QED BY <2>2 DEF OldInHand
<1>4. CASE EventIndex(r)
  <2>1. /\ run'[r].pc = "notify" /\ run'[r].pos = run[r].pos /\ run'[r].cur = run[r].cur
        /\ run[r].pc = "eventIndex"
    BY <1>4, EventIndexEffect DEF EventIndex
  <2> QED BY <2>1 DEF OldInHand
<1>5. CASE HandleEvent(r)
  <2>1. PICK it \in Item : SyntheticEvent(r, it) \/ RealEvent(r, it)
    BY <1>5, HandleEventEffect
  <2>2. run[r].pc = "watch" /\ run[r].todo = {}
    BY <1>5 DEF HandleEvent, InHand, Watching, Unbroken
  <2> DEFINE next == run[r].pos + 1
             k == log[next].key
  <2>3. /\ run'[r].pc = "eventIndex" /\ run'[r].pos = next /\ run'[r].cur = it /\ next \in 1..Now
        /\ it.key = k /\ it.ver = (IF log[next].type = "DELETED" THEN 0 ELSE next)
        /\ it.old = IF log[next].type = "DELETED" THEN 0 ELSE Old(next)
    BY <2>1, <2>2 DEF SyntheticEvent, RealEvent, Becomes
  <2>4. k \in Keys /\ next - 1 = run[r].pos
    BY <1>1, <2>3, AfterNext DEF Now
  <2>5. store[k] = After(log, next - 1)[k]
    <3>1. Pursuing(run[r]) /\ Goal(run[r]) = run[r].pos /\ Pending(run[r]) = {}
      BY <1>1, <2>2 DEF Pursuing, Goal, Pending, Listing, Watching, NoRV
    <3> QED BY <2>4, <3>1 DEF Exact
  <2>6. log[next].type = "ADDED" <=> After(log, next - 1)[k] = 0
    BY <2>3 DEF LegalHistory, Legal, Now
  <2>7. log[next].type \in {"ADDED", "MODIFIED", "DELETED"}
    <3>1. log[next] \in Event
      BY <1>1, <2>3 DEF Now
    <3> QED BY <3>1 DEF Event
  <2>8. it.ver # 0 => it.old = After(log, next - 1)[k]
    BY <2>3, <2>5, <2>6, <2>7 DEF Old
  <2> HIDE DEF next, k
  <2> QED BY <2>3, <2>8 DEF OldInHand
<1> QED BY <1>2, <1>3, <1>4, <1>5 DEF Step

-----------------------------------------------------------------------------
(* What the server writes does not touch what has been reached             *)

(* The version a Run is heading for is one the server had. *)
LEMMA GoalReached ==
  ASSUME NEW n \in Nat, NEW R \in Locals(n), Goal(R) # NoRV
  PROVE  Goal(R) \in 0..n
BY DEF Locals, Goal, NoRV

(* The server going on changes nothing of what the store shows of the past, *)
LEMMA TracksAppend ==
  ASSUME NEW l \in Seq(Event), NEW e \in Event, NEW R \in Locals(Len(l)),
         NEW s \in [Keys -> 0..Len(l)], Tracks(l, s, R)
  PROVE  Tracks(Append(l, e), s, R)
<1> DEFINE m == Append(l, e)
<1>1. \A k \in Keys : s[k] # 0 => m[s[k]] = l[s[k]]
  OBVIOUS
<1>2. Pursuing(R) => After(m, Goal(R)) = After(l, Goal(R))
  BY GoalReached, PastStays DEF Pursuing
<1> HIDE DEF m
<1>3. Tracks(m, s, R)
  BY <1>1, <1>2 DEF Tracks
<1> QED BY <1>3 DEF m

(* of its exactness, *)
LEMMA ExactAppend ==
  ASSUME NEW l \in Seq(Event), NEW e \in Event, NEW R \in Locals(Len(l)), NEW s, Exact(l, s, R)
  PROVE  Exact(Append(l, e), s, R)
<1>1. Pursuing(R) => After(Append(l, e), Goal(R)) = After(l, Goal(R))
  BY GoalReached, PastStays DEF Pursuing
<1> QED BY <1>1 DEF Exact

(* and of what the handlers were told. *)
LEMMA ToldAppend ==
  ASSUME NEW l \in Seq(Event), NEW e \in Event, NEW R \in Locals(Len(l)), NEW stopped,
         InHand(l, R), Unbroken(R, stopped), NEW n, NEW t
  PROVE  /\ Told(l, n, t, R) => Told(Append(l, e), n, t, R)
         /\ OldInHand(l, R) => OldInHand(Append(l, e), R)
<1>1. R.pos \in 0..Len(l) /\ R.rv \in NoRV..Len(l)
  BY DEF Locals
<1>2. R.pc \in {"eventIndex", "notify"} => R.rv # NoRV /\ R.rv < R.pos
  BY DEF InHand, Unbroken, Watching
<1>3. Announced(R) \in 0..Len(l) /\ (R.pc \in {"eventIndex", "notify"} => R.pos - 1 \in 0..Len(l))
  BY <1>1, <1>2 DEF Announced, NoRV
<1>4. After(Append(l, e), Announced(R)) = After(l, Announced(R))
  BY <1>3, PastStays
<1>5. R.pc \in {"eventIndex", "notify"} => After(Append(l, e), R.pos - 1) = After(l, R.pos - 1)
  BY <1>3, PastStays
<1> QED BY <1>4, <1>5 DEF Told, OldInHand

-----------------------------------------------------------------------------
(* The invariants of one Run                                               *)

\* Cache has started Run once.
SingleRun == \E r : Runs = {r}

(* With one Run, no step takes a key of the store back. *)
LEMMA StoreTracksStep ==
  ASSUME SingleRun, TypeOK, Hands, StoreTracks, Next
  PROVE  StoreTracks' /\ NotOlder(store, store')
<1>1. log \in Seq(Event) /\ store \in [Keys -> 0..Now] /\ Now \in Nat /\ run \in [Runs -> Locals(Now)]
  BY TypedRuns DEF TypeOK
<1>2. ASSUME store' = store PROVE NotOlder(store, store')
  BY <1>1, <1>2 DEF NotOlder
<1>3. ASSUME NEW k \in Keys, ServerWrites(k) \/ ServerDeletes(k) PROVE StoreTracks' /\ store' = store
  <2>1. PICK type \in {"ADDED", "MODIFIED", "DELETED"} : Emit(type, k)
    BY <1>3 DEF ServerWrites, ServerDeletes
  <2> DEFINE e == [type |-> type, key |-> k]
  <2>2. log' = Append(log, e) /\ e \in Event /\ run' = run /\ store' = store
    BY <2>1, EmitAppends
  <2> HIDE DEF e
  <2>3. \A r \in Runs : Tracks(Append(log, e), store, run[r])
    BY <1>1, <2>2, TracksAppend DEF StoreTracks, Now
  <2> QED BY <2>2, <2>3 DEF StoreTracks
<1>4. ASSUME AddEventHandler \/ \E r \in Runs : Cancel(r) PROVE StoreTracks' /\ store' = store
  <2>1. log' = log /\ run' = run /\ store' = store
    BY <1>4 DEF AddEventHandler, Cancel
  <2> QED BY <2>1 DEF StoreTracks
<1>5. ASSUME NEW r \in Runs, Step(r) PROVE StoreTracks' /\ NotOlder(store, store')
  <2>1. Tracks(log, store', run'[r]) /\ NotOlder(store, store')
    BY <1>5, TracksStep DEF Hands, StoreTracks
  <2>2. log' = log /\ Runs = {r}
    BY <1>5, StepKeepsLog DEF SingleRun
  <2> QED BY <2>1, <2>2 DEF StoreTracks
<1> QED BY <1>2, <1>3, <1>4, <1>5 DEF Next

(* With one Run, the index is behind the store by the object in hand only. *)
LEMMA IndexLagsStep ==
  ASSUME SingleRun, TypeOK, IndexLags, Next
  PROVE  IndexLags'
<1>1. ASSUME run' = run, store' = store, index' = index PROVE IndexLags'
  BY <1>1 DEF IndexLags
<1>2. ASSUME NEW k \in Keys, ServerWrites(k) \/ ServerDeletes(k) PROVE IndexLags'
  BY <1>1, <1>2 DEF ServerWrites, ServerDeletes, Emit
<1>3. CASE AddEventHandler
  BY <1>1, <1>3 DEF AddEventHandler
<1>4. ASSUME NEW r \in Runs, Step(r) PROVE IndexLags'
  <2>1. Lags(store', index', run'[r]) /\ Runs = {r}
    BY <1>4, LagsStep DEF IndexLags, SingleRun
  <2> QED BY <2>1 DEF IndexLags
<1>5. ASSUME NEW r \in Runs, Cancel(r) PROVE IndexLags'
  BY <1>1, <1>5 DEF Cancel
<1> QED BY <1>2, <1>3, <1>4, <1>5 DEF Next

(* A handler is told nothing before it is registered. *)
LEMMA NoOneToTellStep ==
  ASSUME NoOneToTell, Next, TypeOK
  PROVE  NoOneToTell'
<1>1. ASSUME told' = told, since' # NoRV \/ since' = since PROVE NoOneToTell'
  BY <1>1 DEF NoOneToTell
<1>2. ASSUME NEW k \in Keys, ServerWrites(k) \/ ServerDeletes(k) PROVE NoOneToTell'
  BY <1>1, <1>2 DEF ServerWrites, ServerDeletes, Emit
<1>3. CASE AddEventHandler
  <2>1. since = NoRV /\ told' = told
    BY <1>3 DEF AddEventHandler
  <2> QED BY <2>1 DEF NoOneToTell
<1>4. ASSUME NEW r \in Runs, Step(r) PROVE NoOneToTell'
  <2>1. since' = since
    BY <1>4, StepKeepsLog
  <2>2. told' = told \/ since # NoRV
    <3>1. CASE ListReturns(r) \/ ListFails(r) \/ ApplyItem(r) \/ ApplyIndex(r) \/ ListDone(r)
      BY <3>1 DEF ListReturns, ListFails, ApplyItem, ApplyIndex, ListDone
    <3>2. CASE WatchOpens(r) \/ EventIndex(r) \/ Notify(r) \/ WatchBreaks(r) \/ Loop(r)
      BY <3>2 DEF WatchOpens, EventIndex, Notify, WatchBreaks, Loop
    <3>3. CASE HandleEvent(r)
      BY <3>3 DEF HandleEvent, Upserts, Deletes
    <3> QED BY <1>4, <3>1, <3>2, <3>3 DEF Step
  <2> QED BY <2>1, <2>2 DEF NoOneToTell
<1>5. ASSUME NEW r \in Runs, Cancel(r) PROVE NoOneToTell'
  BY <1>1, <1>5 DEF Cancel
<1> QED BY <1>2, <1>3, <1>4, <1>5 DEF Next

\* The handler is told of what comes after its registration.
LEMMA ToldSince ==
  ASSUME SingleRun, TypeOK, Hands, NEW r \in Runs, Unbroken(run[r], r \in cancelled),
         NoOneToTell, AddEventHandler, Told(log, since, told, run[r])
  PROVE  Told(log, since', told, run[r])
<1> DEFINE n == Announced(run[r])
           S == {0} \cup {IF run[q].pc \in {"eventIndex", "notify"} THEN run[q].pos - 1
                                                                    ELSE run[q].pos : q \in Runs}
<1>1. Runs = {r} /\ since' = Max(S) /\ \A k \in Keys : told[k] = 0
  BY DEF SingleRun, AddEventHandler, NoOneToTell
<1>2. run[r].pos \in 0..Now /\ run[r].rv \in NoRV..Now /\ Now \in Nat
  BY TypedRuns, TypedLocal
<1>3. run[r].pc \in {"eventIndex", "notify"} => run[r].rv # NoRV /\ run[r].rv < run[r].pos
  BY DEF Hands, InHand, Unbroken, Watching
<1>4. n \in 0..Now
  BY <1>2, <1>3 DEF Announced, NoRV
<1>5. S = {0, n}
  BY <1>1 DEF Announced
<1> HIDE DEF S, n
<1>6. Max(S) = n
  <2>1. S \in SUBSET (0..n) /\ S # {} /\ 0 \in Int /\ n \in Int
    BY <1>4, <1>5
  <2>2. Max(S) \in S /\ Max(S) >= n
    BY <1>5, <2>1, MaxIsLargest
  <2> QED BY <1>4, <1>5, <2>2
<1>7. since' = n /\ n = Announced(run[r])
  BY <1>1, <1>6 DEF n
<1>8. After(log, n) \in [Keys -> 0..n]
  BY <1>4, AfterType
<1>9. \A k \in Keys : ~ (After(log, n)[k] > n)
  BY <1>4, <1>8
<1> QED BY <1>1, <1>4, <1>7, <1>9 DEF Told

(* With one Run, until a request fails, the store follows the history event by event. *)
LEMMA ExactSoFarStep ==
  ASSUME SingleRun, TypeOK, LegalHistory, Hands, NoFailureYet, NoOneToTell, ExactSoFar, Next,
         NoFailureYet'
  PROVE  ExactSoFar'
<1>1. log \in Seq(Event) /\ Now \in Nat /\ run \in [Runs -> Locals(Now)]
  BY TypedRuns
<1>2. ASSUME NEW k \in Keys, ServerWrites(k) \/ ServerDeletes(k) PROVE ExactSoFar'
  <2>1. PICK type \in {"ADDED", "MODIFIED", "DELETED"} : Emit(type, k)
    BY <1>2 DEF ServerWrites, ServerDeletes
  <2> DEFINE e == [type |-> type, key |-> k]
  <2>2. /\ log' = Append(log, e) /\ e \in Event /\ run' = run /\ store' = store /\ failures' = failures
        /\ since' = since /\ told' = told
    BY <2>1, EmitAppends
  <2> HIDE DEF e
  <2>3. ASSUME failures = 0, NEW r \in Runs
        PROVE  Exact(Append(log, e), store, run[r]) /\ Told(Append(log, e), since, told, run[r])
               /\ OldInHand(Append(log, e), run[r])
    <3>1. /\ InHand(log, run[r]) /\ Unbroken(run[r], r \in cancelled)
          /\ run[r] \in Locals(Len(log))
      BY <1>1, <2>3 DEF Hands, NoFailureYet, Now
    <3>2. Exact(log, store, run[r]) /\ Told(log, since, told, run[r]) /\ OldInHand(log, run[r])
      BY <2>3 DEF ExactSoFar
    <3>3. Exact(Append(log, e), store, run[r])
      BY <1>1, <2>2, <3>1, <3>2, ExactAppend
    <3>4. Told(Append(log, e), since, told, run[r]) /\ OldInHand(Append(log, e), run[r])
      BY <1>1, <2>2, <3>1, <3>2, ToldAppend
    <3> QED BY <3>3, <3>4
  <2> QED BY <2>2, <2>3 DEF ExactSoFar
<1>3. CASE AddEventHandler
  <2>1. /\ log' = log /\ run' = run /\ store' = store /\ failures' = failures /\ told' = told
    BY <1>3 DEF AddEventHandler
  <2>2. ASSUME failures = 0, NEW r \in Runs PROVE Told(log, since', told, run[r])
    BY <1>3, <2>2, ToldSince DEF ExactSoFar, NoFailureYet
  <2> QED BY <2>1, <2>2 DEF ExactSoFar
<1>4. ASSUME NEW r \in Runs, Step(r), failures' = 0 PROVE ExactSoFar'
  <2>1. log' = log /\ cancelled' = cancelled /\ since' = since /\ Runs = {r}
    BY <1>4, StepKeepsLog DEF SingleRun
  <2>2. failures = 0
    BY <1>4, FailuresGrow
  <2>3. /\ Unbroken(run[r], r \in cancelled) /\ InHand(log, run[r])
        /\ Exact(log, store, run[r]) /\ Told(log, since, told, run[r]) /\ OldInHand(log, run[r])
    BY <2>2 DEF NoFailureYet, Hands, ExactSoFar
  <2>4. Unbroken(run'[r], r \in cancelled)
    BY <1>4, <2>1 DEF NoFailureYet
  <2>5. Exact(log, store', run'[r])
    BY <1>4, <2>3, ExactStep
  <2>6. Told(log, since, told', run'[r])
    BY <1>4, <2>3, <2>4, ToldStep
  <2>7. OldInHand(log, run'[r])
    BY <1>4, <2>3, OldStep
  <2> QED BY <2>1, <2>5, <2>6, <2>7 DEF ExactSoFar
<1>5. ASSUME NEW r \in Runs, Cancel(r) PROVE ExactSoFar'
  <2>1. /\ log' = log /\ run' = run /\ store' = store /\ failures' = failures /\ told' = told
        /\ since' = since
    BY <1>5 DEF Cancel
  <2> QED BY <2>1 DEF ExactSoFar
<1> QED BY <1>2, <1>3, <1>4, <1>5 DEF Next, ExactSoFar

-----------------------------------------------------------------------------
(* The invariants, and what follows from them                              *)

\* For any number of Runs.
RunsInv == TypeOK /\ LegalHistory /\ Hands /\ NoFailureYet

\* For one Run.
OneRunInv == StoreTracks /\ IndexLags /\ NoOneToTell /\ ExactSoFar

(* The invariant of any number of Runs holds at the start, *)
LEMMA RunsInit == Init => RunsInv
<1> SUFFICES ASSUME Init PROVE RunsInv
  OBVIOUS
<1>1. \A r \in Runs : /\ run[r].pc = "list" /\ run[r].initial = TRUE /\ run[r].rv = NoRV
                      /\ run[r].pos = 0 /\ run[r].todo = {}
  BY DEF Init
<1>2. Hands
  BY <1>1 DEF Hands, InHand, Listing, Watching
<1>3. NoFailureYet
  BY <1>1 DEF NoFailureYet, Unbroken, Listing, Watching
<1>4. LegalHistory
  BY DEF Init, LegalHistory, Legal
<1> QED BY <1>2, <1>3, <1>4, TypeInit DEF RunsInv

(* is kept by every step, *)
LEMMA RunsStep == RunsInv /\ [Next]_vars => RunsInv'
<1> SUFFICES ASSUME RunsInv, [Next]_vars PROVE RunsInv'
  OBVIOUS
<1>1. CASE Next
  BY <1>1, TypeStep, HistoryStep, HandsStep, NoFailureStep DEF RunsInv
<1>2. CASE UNCHANGED vars
  <2>1. TypeOK'
    BY <1>2 DEF RunsInv, TypeOK, vars, Item, Now
  <2>2. LegalHistory' /\ Hands' /\ NoFailureYet'
    BY <1>2 DEF RunsInv, LegalHistory, Hands, NoFailureYet, vars
  <2> QED BY <2>1, <2>2 DEF RunsInv
<1> QED BY <1>1, <1>2

(* and so always holds. *)
LEMMA RunsAlways == Spec => []RunsInv
BY RunsInit, RunsStep, PTL DEF Spec

(* The invariant of a single Run holds at the start, *)
LEMMA OneRunInit == Init => OneRunInv
<1> SUFFICES ASSUME Init PROVE OneRunInv
  OBVIOUS
<1>1. \A r \in Runs : run[r].pc = "list" /\ run[r].rv = NoRV /\ run[r].pos = 0
  BY DEF Init
<1>2. /\ \A k \in Keys : store[k] = 0 /\ index[k] = 0 /\ told[k] = 0
      /\ since \in {NoRV, 0}
  BY DEF Init
<1>3. StoreTracks /\ IndexLags
  BY <1>1, <1>2 DEF StoreTracks, Tracks, IndexLags, Lags, Pursuing, Listing, Watching
<1>4. NoOneToTell
  BY <1>2 DEF NoOneToTell
<1>5. ExactSoFar
  BY <1>1, <1>2 DEF ExactSoFar, Exact, Told, OldInHand, Announced, Pursuing, Listing, Watching, NoRV
<1> QED BY <1>3, <1>4, <1>5 DEF OneRunInv

(* is kept by every step, *)
LEMMA OneRunStep == SingleRun /\ RunsInv /\ RunsInv' /\ OneRunInv /\ [Next]_vars => OneRunInv'
<1> SUFFICES ASSUME SingleRun, RunsInv, RunsInv', OneRunInv, [Next]_vars PROVE OneRunInv'
  OBVIOUS
<1>1. CASE Next
  BY <1>1, StoreTracksStep, IndexLagsStep, NoOneToTellStep, ExactSoFarStep DEF RunsInv, OneRunInv
<1>2. CASE UNCHANGED vars
  BY <1>2 DEF OneRunInv, StoreTracks, IndexLags, NoOneToTell, ExactSoFar, vars
<1> QED BY <1>1, <1>2

(* and so always holds. *)
LEMMA OneRunAlways == ASSUME SingleRun PROVE Spec => [](RunsInv /\ OneRunInv)
<1>1. RunsInv /\ OneRunInv /\ [Next]_vars => (RunsInv /\ OneRunInv)'
  BY RunsStep, OneRunStep
<1> QED BY <1>1, RunsInit, OneRunInit, PTL DEF Spec

\* The versions, positions, items and backoff of every Run of Run (informer.go)
\* keep within the server's history, whatever fails and however Runs interleave.
THEOREM InformerTyped == Spec => []TypeOK
<1>1. RunsInv => TypeOK
  BY DEF RunsInv
<1> QED BY <1>1, RunsAlways, PTL

\* list and watchLoop have in hand only what the server has at the version they
\* are bringing the store to, however many Runs of the informer there are.
THEOREM HandsAlways == Spec => [](LegalHistory /\ Hands /\ NoFailureYet)
<1>1. RunsInv => LegalHistory /\ Hands /\ NoFailureYet
  BY DEF RunsInv
<1> QED BY <1>1, RunsAlways, PTL

(* What the runs check follows from the two invariants: the store is exact between events, *)
LEMMA ExactFollows == RunsInv /\ OneRunInv => ExactUntilFailure
<1> SUFFICES ASSUME RunsInv, OneRunInv, NEW r \in Runs, failures = 0, Settled(r)
             PROVE  store = At(Seen(r)) /\ index = At(Seen(r))
  BY DEF ExactUntilFailure
<1>1. /\ run[r].pc \in {"check", "open", "watch"} /\ run[r].rv # NoRV /\ run[r].pos \in 0..Now
      /\ Now \in Nat /\ InHand(log, run[r]) /\ Exact(log, store, run[r]) /\ Lags(store, index, run[r])
      /\ store \in [Keys -> 0..Now] /\ index \in [Keys -> 0..Now]
  BY TypedRuns, TypedLocal DEF RunsInv, OneRunInv, Settled, Hands, ExactSoFar, IndexLags, TypeOK
<1>2. Seen(r) = Goal(run[r]) /\ Pursuing(run[r])
  BY <1>1 DEF Seen, Goal, Pursuing, Listing, Watching, NoRV
<1>3. Pending(run[r]) = {}
  BY <1>1 DEF InHand, Watching, Pending
<1>4. \A k \in Keys : store[k] = After(log, Seen(r))[k] /\ index[k] = store[k]
  BY <1>1, <1>2, <1>3 DEF Exact, Lags
<1>5. At(Seen(r)) = After(log, Seen(r)) /\ At(Seen(r)) = [k \in Keys |-> At(Seen(r))[k]]
  BY AtAfter DEF At
<1> HIDE DEF Seen
<1> QED BY <1>1, <1>4, <1>5

\* Until the first failure store and indexer are exactly what the server had at
\* the version the one Run has reached: list and watchLoop lose nothing.
THEOREM ExactWithOneRun == ASSUME SingleRun PROVE Spec => []ExactUntilFailure
BY OneRunAlways, ExactFollows, PTL

(* misses nothing the server has, *)
LEMMA NothingMissingFollows == RunsInv /\ OneRunInv => NothingMissing
<1> SUFFICES ASSUME RunsInv, OneRunInv, NEW r \in Runs, run[r].pc = "watch", NEW k \in Keys,
                    At(run[r].pos)[k] # 0, \A it \in run[r].todo : it.key # k
             PROVE  store[k] = At(run[r].pos)[k] /\ index[k] = store[k]
  BY DEF NothingMissing
<1>1. /\ run[r].pos \in 0..Now /\ Now \in Nat /\ Tracks(log, store, run[r]) /\ Lags(store, index, run[r])
  BY TypedRuns, TypedLocal DEF RunsInv, OneRunInv, StoreTracks, IndexLags
<1>2. Pursuing(run[r]) /\ Goal(run[r]) = run[r].pos
  BY <1>1 DEF Goal, Pursuing, Listing, Watching, NoRV
<1>3. At(run[r].pos) = After(log, run[r].pos) /\ k \notin Pending(run[r])
  BY AtAfter DEF Pending
<1> QED BY <1>1, <1>2, <1>3 DEF Tracks, Lags

\* After any failures, what the server has at the version a watch has reached is
\* in store and indexer with the right content: relisting loses no object.
THEOREM NothingMissingWithOneRun == ASSUME SingleRun PROVE Spec => []NothingMissing
BY OneRunAlways, NothingMissingFollows, PTL

(* the index files what the store holds, *)
LEMMA IndexFollows == ASSUME SingleRun PROVE RunsInv /\ OneRunInv => IndexFollowsStore
<1> SUFFICES ASSUME RunsInv, OneRunInv, \A r \in Runs : run[r].pc \notin {"applyIndex", "eventIndex"}
             PROVE  index = store
  BY DEF IndexFollowsStore
<1>1. PICK r \in Runs : TRUE
  BY DEF SingleRun
<1>2. index \in [Keys -> 0..Now] /\ store \in [Keys -> 0..Now] /\ Lags(store, index, run[r])
  BY DEF RunsInv, TypeOK, OneRunInv, IndexLags
<1>3. \A k \in Keys : index[k] = store[k]
  BY <1>2 DEF Lags
<1> QED BY <1>2, <1>3

\* Between two items or events of list and handleEvent the indexer agrees with the store.
THEOREM IndexFollowsWithOneRun == ASSUME SingleRun PROVE Spec => []IndexFollowsStore
BY OneRunAlways, IndexFollows, PTL

(* the handlers know what the watch brought, *)
LEMMA HandlersFollow == RunsInv /\ OneRunInv => HandlersFollowWatch
<1> SUFFICES ASSUME RunsInv, OneRunInv, NEW r \in Runs, failures = 0, run[r].pc = "watch", since # NoRV
             PROVE  told = [k \in Keys |-> IF At(run[r].pos)[k] > Max({run[r].rv, since})
                                           THEN At(run[r].pos)[k] ELSE 0]
  BY DEF HandlersFollowWatch
<1> DEFINE a == run[r].rv
           m == Max({a, since})
<1>1. /\ Now \in Nat /\ run[r].pos \in 0..Now /\ a \in NoRV..Now /\ since \in NoRV..Now
      /\ told \in [Keys -> 0..Now] /\ Told(log, since, told, run[r])
  BY TypedRuns, TypedLocal DEF RunsInv, OneRunInv, ExactSoFar, TypeOK
<1>2. m \in {a, since} /\ m >= a /\ m >= since
  <2>1. {a, since} \in SUBSET (NoRV..Now) /\ {a, since} # {} /\ NoRV \in Int /\ Now \in Int
    BY <1>1 DEF NoRV
  <2> HIDE DEF a
  <2> QED BY <2>1, MaxIsLargest
<1>3. At(run[r].pos) = After(log, run[r].pos) /\ At(run[r].pos) \in [Keys -> 0..run[r].pos]
  BY <1>1, AtAfter, AfterType
<1>4. \A k \in Keys : told[k] = IF At(run[r].pos)[k] > a /\ At(run[r].pos)[k] > since
                                THEN At(run[r].pos)[k] ELSE 0
  BY <1>1, <1>3 DEF Told, Announced, Watching
<1> HIDE DEF m, a
<1>5. \A k \in Keys : told[k] = IF At(run[r].pos)[k] > m THEN At(run[r].pos)[k] ELSE 0
  <2> SUFFICES ASSUME NEW k \in Keys
               PROVE  told[k] = IF At(run[r].pos)[k] > m THEN At(run[r].pos)[k] ELSE 0
    OBVIOUS
  <2>1. At(run[r].pos)[k] \in Nat /\ a \in Int /\ since \in Int
    BY <1>1, <1>3 DEF NoRV
  <2>2. At(run[r].pos)[k] > m <=> At(run[r].pos)[k] > a /\ At(run[r].pos)[k] > since
    BY <1>2, <2>1
  <2> QED BY <1>4, <2>2
<1>6. told = [k \in Keys |-> told[k]]
  BY <1>1
<1> QED BY <1>5, <1>6 DEF m, a

\* Until the first failure notifyAdd, notifyUpdate and notifyDelete have told the
\* handler of every change since the list and since it was added, and of nothing else.
THEOREM HandlersWithOneRun == ASSUME SingleRun PROVE Spec => []HandlersFollowWatch
BY OneRunAlways, HandlersFollow, PTL

(* an update shows the state before it, *)
LEMMA PredecessorFollows == RunsInv /\ OneRunInv => UpdatesShowPredecessor
BY AtAfter DEF RunsInv, OneRunInv, ExactSoFar, OldInHand, UpdatesShowPredecessor

\* Until the first failure the old object of OnUpdate, read from the store before
\* the upsert, is exactly the version before the event.
THEOREM PredecessorWithOneRun == ASSUME SingleRun PROVE Spec => []UpdatesShowPredecessor
BY OneRunAlways, PredecessorFollows, PTL

(* and a key never goes back to an older version. *)
LEMMA NeverOlderStep ==
  ASSUME SingleRun
  PROVE  RunsInv /\ OneRunInv /\ [Next]_vars => [\A k \in Keys : store'[k] = 0 \/ store'[k] >= store[k]]_vars
BY StoreTracksStep DEF RunsInv, OneRunInv, NotOlder

\* A single Run never replaces an object in the store by an older one, across
\* relists, broken streams and watches that start over.
THEOREM NeverOlderWithOneRun == ASSUME SingleRun PROVE Spec => NeverOlder
BY OneRunAlways, NeverOlderStep, PTL DEF Spec, NeverOlder
=============================================================================
