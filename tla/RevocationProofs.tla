-------------------------- MODULE RevocationProofs --------------------------
(***************************************************************************)
(* For any tokens, users, lifetimes, overlap and interleaving of the       *)
(* handler with the sync thread and the publishers: the cache bounds how   *)
(* long a revocation known to the worker is ignored, and the overlap lets  *)
(* every change of a token-version floor reach the worker.                 *)
(***************************************************************************)
EXTENDS Revocation, FiniteSetTheorems, TLAPS

(***************************************************************************)
(* Types.                                                                  *)
(***************************************************************************)

\* A function that is bounded by a number at each point of a finite set has a
\* greatest value there: a smallest subset without one would lose its fault with
\* any of its elements.
LEMMA GreatestValue ==
  ASSUME NEW S, IsFiniteSet(S), S # {}, NEW f, \A x \in S : f[x] \in Int
  PROVE  \E x \in S : \A y \in S : f[x] >= f[y]
<1> DEFINE HasMax(T) == \E x \in T : \A y \in T : f[x] >= f[y]
           Bad == {T \in SUBSET S : T # {} /\ ~HasMax(T)}
<1> SUFFICES ASSUME Bad # {} PROVE FALSE
  OBVIOUS
<1>1. PICK T \in Bad : \A U \in Bad : <<U, T>> \notin StrictSubsetOrdering(S)
  <2>1. IsWellFoundedOn(StrictSubsetOrdering(S), SUBSET S)
    BY FS_StrictSubsetOrderingWellFounded, FS_FiniteSubsetsOfFinite
  <2>2. Bad \subseteq SUBSET S
    OBVIOUS
  <2> HIDE DEF Bad
  <2> QED BY <2>1, <2>2, WFMin
<1>2. PICK z \in T : TRUE
  OBVIOUS
<1>3. CASE T = {z}
  <2>1. f[z] \in Int
    OBVIOUS
  <2> QED BY <1>3, <2>1
<1>4. CASE T # {z}
  <2>1. <<T \ {z}, T>> \in StrictSubsetOrdering(S)
    BY <1>2 DEF StrictSubsetOrdering
  <2>2. T \ {z} \notin Bad
    BY <1>1, <2>1
  <2>3. HasMax(T \ {z})
    BY <1>2, <1>4, <2>2
  <2>4. PICK x \in T \ {z} : \A y \in T \ {z} : f[x] >= f[y]
    BY <2>3
  <2>5. /\ f[z] \in Int /\ f[x] \in Int
        /\ \A y \in T : f[y] \in Int
    OBVIOUS
  <2>6. HasMax(T)
    <3>1. CASE f[x] >= f[z]
      <4>1. \A y \in T : f[x] >= f[y]
        BY <2>4, <3>1
      <4> QED BY <4>1
    <3>2. CASE f[z] >= f[x]
      <4>1. \A y \in T : f[z] >= f[y]
        BY <2>4, <2>5, <3>2
      <4> QED BY <1>2, <4>1
    <3> QED BY <2>5, <3>1, <3>2
  <2> QED BY <2>6
<1> QED BY <1>3, <1>4

\* A watermark is the greatest of the last one and the scores that were read.
LEMMA WatermarkIsMax ==
  ASSUME NEW n \in Nat, NEW S, IsFiniteSet(S), NEW f, \A x \in S : f[x] \in Nat,
         NEW m, m = Max({n} \cup {f[x] : x \in S})
  PROVE  /\ m \in Nat /\ n <= m /\ \A x \in S : f[x] <= m
         /\ \A b \in Nat : n <= b /\ (\A x \in S : f[x] <= b) => m <= b
<1>1. \E k \in {n} \cup {f[x] : x \in S} : \A l \in {n} \cup {f[x] : x \in S} : k >= l
  <2>1. CASE S = {}
    BY <2>1
  <2>2. CASE S # {}
    <3>1. PICK x \in S : \A y \in S : f[x] >= f[y]
      BY <2>2, GreatestValue
    <3>2. CASE n >= f[x]
      <4>1. \A l \in {n} \cup {f[y] : y \in S} : n >= l
        BY <3>1, <3>2
      <4> QED BY <4>1
    <3>3. CASE f[x] >= n
      <4>1. \A l \in {n} \cup {f[y] : y \in S} : f[x] >= l
        BY <3>1, <3>3
      <4> QED BY <4>1
    <3> QED BY <3>2, <3>3
  <2> QED BY <2>1, <2>2
<1>2. m \in {n} \cup {f[x] : x \in S} /\ \A l \in {n} \cup {f[x] : x \in S} : m >= l
  BY <1>1 DEF Max
<1>3. m \in Nat
  BY <1>2
<1> QED BY <1>2, <1>3

\* The steps of the sync thread and of the publishers keep the types.
LEMMA OutsideTyped ==
  ASSUME TypeOK, Sync \/ Tick \/ (\E t \in Tokens : Revoke(t))
                 \/ (\E u \in Users, v \in Published : ChangeFloor(u, v))
  PROVE  TypeOK'
<1> USE TokenAssumption, BoundAssumption, PeriodAssumption
    DEF TypeOK, Times, redisVars, snapVars, syncVars, handlerVars, historyVars
<1>1. CASE Tick
  BY <1>1 DEF Tick
<1>2. CASE \E t \in Tokens : Revoke(t)
  BY <1>2 DEF Revoke
<1>3. CASE \E u \in Users, v \in Published : ChangeFloor(u, v)
  BY <1>3 DEF ChangeFloor, Published
<1>4. CASE SyncStart
  BY <1>4 DEF SyncStart
<1>5. CASE FetchRev
  BY <1>5 DEF FetchRev
<1>6. CASE FetchTv
  <2>1. TvSince(lastTv - Skew) \subseteq Users
    BY DEF TvSince
  <2>2. maxTv' \in Nat
    <3>1. IsFiniteSet(TvSince(lastTv - Skew))
      BY <2>1, FS_Subset, FiniteAssumption
    <3>2. maxTv' = Max({lastTv} \cup {tvIndex[u] : u \in TvSince(lastTv - Skew)})
      BY <1>6 DEF FetchTv, Fetch
    <3>3. \A u \in TvSince(lastTv - Skew) : tvIndex[u] \in Nat
      BY <2>1
    <3>4. lastTv \in Nat
      OBVIOUS
    <3> HIDE DEF TypeOK
    <3> QED BY <3>1, <3>2, <3>3, <3>4, WatermarkIsMax
  <2> QED BY <1>6, <2>1, <2>2 DEF FetchTv, Fetch
<1>7. CASE FetchFloors
  BY <1>7 DEF FetchFloors, Published
<1>8. CASE SyncFail
  BY <1>8 DEF SyncFail, SyncEnd, Published
<1>9. CASE Publish
  <2>1. Watermark \in Nat
    <3>1. IsFiniteSet(revDelta)
      BY FS_Subset, FiniteAssumption
    <3>2. \A t \in revDelta : Exp[t] \in Nat
      OBVIOUS
    <3>3. lastRev \in Nat
      OBVIOUS
    <3> HIDE DEF TypeOK
    <3>4. Watermark = Max({lastRev} \cup {Exp[t] : t \in revDelta})
      BY DEF Watermark
    <3> QED BY <3>1, <3>2, <3>3, <3>4, WatermarkIsMax
  <2> QED BY <1>9, <2>1 DEF Publish, NewRevoked
<1>10. CASE Collect
  BY <1>10 DEF Collect, SyncEnd, Published
<1> QED BY <1>1, <1>2, <1>3, <1>4, <1>5, <1>6, <1>7, <1>8, <1>9, <1>10 DEF Sync

\* A step of the handler changes its own state alone.
LEMMA HandlerTyped ==
  ASSUME TypeOK,
         UNCHANGED <<clock, redisVars, snapVars, syncVars, changes, historyVars>>,
         pc' \in {"idle", "lookup", "revoked", "version", "accept"},
         tok' \in Tokens, now' \in Times, cache' \in [Tokens -> Nat]
  PROVE  TypeOK'
BY DEF TypeOK, redisVars, snapVars, syncVars, historyVars

\* So the steps of the handler keep the types too.
LEMMA ValidateTyped == ASSUME TypeOK, Validate PROVE TypeOK'
<1>1. tok \in Tokens /\ now \in Times /\ clock \in Times /\ cache \in [Tokens -> Nat]
  BY DEF TypeOK, Times
<1>2. 0 \in Times /\ \A k \in Times : k \in Nat
  BY BoundAssumption DEF Times
<1>3. [cache EXCEPT ![tok] = 0] \in [Tokens -> Nat]
  BY <1>1
<1>4. ASSUME NEW t \in Tokens, Enter(t) PROVE TypeOK'
  BY <1>1, <1>4, HandlerTyped DEF Enter
<1>5. CASE CacheHit
  BY <1>1, <1>2, <1>3, <1>5, HandlerTyped DEF CacheHit, Goto, Refuse
<1>6. CASE CacheMiss
  BY <1>1, <1>2, <1>3, <1>6, HandlerTyped DEF CacheMiss, Goto, Refuse
<1>7. CASE CheckRevoked
  BY <1>1, <1>2, <1>7, HandlerTyped DEF CheckRevoked, Goto, Refuse
<1>8. CASE RefuseIdentity
  BY <1>1, <1>2, <1>8, HandlerTyped DEF RefuseIdentity, Refuse
<1>9. CASE Accept
  <2>1. \A t \in Tokens : CacheExpiry(t) \in Nat
    BY <1>1, <1>2, TokenAssumption, PeriodAssumption DEF CacheExpiry
  <2>2. cache' \in [Tokens -> Nat]
    BY <1>1, <1>9, <2>1 DEF Accept
  <2> QED BY <1>1, <1>9, <2>2, HandlerTyped DEF Accept, Goto
<1> QED BY <1>4, <1>5, <1>6, <1>7, <1>8, <1>9 DEF Validate

LEMMA InitTyped == Init => TypeOK
BY BoundAssumption DEF Init, TypeOK, Times, Published

LEMMA NextTyped == TypeOK /\ [Next]_vars => TypeOK'
<1>1. ASSUME TypeOK, UNCHANGED vars PROVE TypeOK'
  BY <1>1 DEF vars, TypeOK, redisVars, snapVars, syncVars, handlerVars, historyVars
<1> QED BY <1>1, OutsideTyped, ValidateTyped DEF Next

\* The values of the handler, the snapshot and the sync thread, the watermarks
\* among them, which are the greatest score seen (validate_token, sync_once).
THEOREM RevocationTyped == Spec => []TypeOK
BY InitTyped, NextTyped, PTL DEF Spec

(***************************************************************************)
(* The cache window.                                                       *)
(***************************************************************************)

\* The types the argument needs.
Typed ==
  /\ clock \in Nat \ {0} /\ now \in Nat /\ syncNow \in Nat
  /\ tok \in Tokens
  /\ known \in [Tokens -> Nat] /\ cache \in [Tokens -> Nat]
  /\ index \subseteq Tokens /\ revoked \subseteq Tokens /\ revDelta \subseteq Tokens

\* Nothing was read from the future.
Ordered == now <= clock /\ syncNow <= clock /\ \A t \in Tokens : known[t] <= clock

\* What reached the snapshot stays there until it expires.
Remembered == \A t \in Tokens : known[t] # 0 => t \in revoked \/ Exp[t] <= clock

\* A handler past its revocation check started before the revocation came.
Passed ==
  pc = "version" => known[tok] = 0 \/ now <= known[tok] \/ Exp[tok] <= clock

\* A cache entry does not outlive the window.
Bounded ==
  \A t \in Tokens :
    /\ cache[t] <= clock + Ttl
    /\ known[t] # 0 => cache[t] <= known[t] + Ttl \/ Exp[t] <= clock

IInv == Typed /\ Ordered /\ Remembered /\ Passed /\ Bounded /\ CacheWindow

\* Initially nothing is cached or known.
LEMMA InitIInv == Init => IInv
BY PeriodAssumption, TokenAssumption
   DEF Init, IInv, Typed, Ordered, Remembered, Passed, Bounded, CacheWindow

\* A step that leaves the clock, the snapshot, the handler and what is known
\* alone keeps the invariant: the publishers and most of a sync cycle.
LEMMA QuietStep ==
  ASSUME IInv, Typed',
         UNCHANGED <<clock, snapVars, handlerVars, known>>,
         syncNow' \in {0, clock, syncNow}
  PROVE  IInv'
BY DEF IInv, Typed, Ordered, Remembered, Passed, Bounded, CacheWindow,
       snapVars, handlerVars

\* The publishers and the sync thread's reads are such steps.
LEMMA OutsideKept ==
  ASSUME IInv,
         \/ \E t \in Tokens : Revoke(t)
         \/ \E u \in Users, v \in Published : ChangeFloor(u, v)
         \/ SyncStart \/ FetchRev \/ FetchTv \/ FetchFloors \/ SyncFail \/ Collect
  PROVE  IInv'
<1> USE DEF IInv, Typed, snapVars, syncVars, handlerVars, historyVars, redisVars
<1>1. CASE \E t \in Tokens : Revoke(t)
  BY <1>1, QuietStep DEF Revoke
<1>2. CASE \E u \in Users, v \in Published : ChangeFloor(u, v)
  BY <1>2, QuietStep DEF ChangeFloor
<1>3. CASE SyncStart
  BY <1>3, QuietStep DEF SyncStart
<1>4. CASE FetchRev
  BY <1>4, QuietStep DEF FetchRev
<1>5. CASE FetchTv
  BY <1>5, QuietStep DEF FetchTv, Fetch
<1>6. CASE FetchFloors
  BY <1>6, QuietStep DEF FetchFloors
<1>7. CASE SyncFail
  BY <1>7, QuietStep DEF SyncFail, SyncEnd
<1>8. CASE Collect
  BY <1>8, QuietStep DEF Collect, SyncEnd
<1> QED BY <1>1, <1>2, <1>3, <1>4, <1>5, <1>6, <1>7, <1>8

\* The new snapshot drops only what has expired, and what it adds is known
\* from now on, which no handler under way started after.
LEMMA PublishKept == ASSUME IInv, Publish PROVE IInv'
<1> USE PeriodAssumption, TokenAssumption DEF IInv, Publish, handlerVars
<1>1. Typed'
  BY DEF Typed, NewRevoked, redisVars
<1>2. Ordered' /\ Remembered'
  BY DEF Typed, Ordered, Remembered, NewRevoked
<1>3. Passed'
  BY DEF Typed, Ordered, Passed
<1>4. Bounded'
  BY DEF Typed, Ordered, Bounded
<1>5. CacheWindow'
  BY DEF Typed, Ordered, CacheWindow
<1> QED BY <1>1, <1>2, <1>3, <1>4, <1>5

\* Every step of the handler keeps the invariant.
LEMMA ValidateKept == ASSUME IInv, Validate PROVE IInv'
<1> USE PeriodAssumption, TokenAssumption
    DEF IInv, Typed, Ordered, Remembered, Passed, Bounded, CacheWindow,
        redisVars, snapVars, syncVars, historyVars
<1>1. ASSUME NEW t \in Tokens, Enter(t) PROVE IInv'
  BY <1>1 DEF Enter
<1>2. CASE CacheHit
  BY <1>2 DEF CacheHit, Goto, Refuse
<1>3. CASE CacheMiss
  BY <1>3 DEF CacheMiss, Goto, Refuse
<1>4. CASE CheckRevoked
  BY <1>4 DEF CheckRevoked, IsRevoked, Goto, Refuse
<1>5. CASE RefuseIdentity
  BY <1>5 DEF RefuseIdentity, Refuse
<1>6. CASE Accept
  BY <1>6 DEF Accept, Goto, CacheExpiry
<1> QED BY <1>1, <1>2, <1>3, <1>4, <1>5, <1>6 DEF Validate

\* The invariant is inductive.
LEMMA NextIInv == IInv /\ [Next]_vars => IInv'
<1> SUFFICES ASSUME IInv, [Next]_vars PROVE IInv'
  OBVIOUS
<1>1. CASE Tick
  BY <1>1, PeriodAssumption, TokenAssumption
     DEF Tick, IInv, Typed, Ordered, Remembered, Passed, Bounded, CacheWindow,
         redisVars, snapVars, syncVars, handlerVars, historyVars
<1>2. CASE UNCHANGED vars
  BY <1>2 DEF vars, IInv, Typed, Ordered, Remembered, Passed, Bounded,
              CacheWindow, redisVars, snapVars, syncVars, handlerVars, historyVars
<1>3. CASE Publish
  BY <1>3, PublishKept
<1>4. CASE Validate
  BY <1>4, ValidateKept
<1> QED
  BY <1>1, <1>2, <1>3, <1>4, OutsideKept DEF Next, Sync

(***************************************************************************)
(* Once a worker's snapshot holds the revocation of a live token, the      *)
(* worker accepts the token for less than cache_ttl_secs() more            *)
(* (auth.rs:94-100, 226-240, 353-363).                                     *)
(***************************************************************************)
THEOREM RevocationWindow == Spec => []CacheWindow
<1>1. IInv => CacheWindow
  BY DEF IInv
<1> QED BY <1>1, InitIInv, NextIInv, PTL DEF Spec

(***************************************************************************)
(* Token-version floors.                                                   *)
(*                                                                         *)
(* A floor that the snapshot does not have was indexed no earlier than the *)
(* watermark less the overlap, so the next read of the index finds it: a   *)
(* publisher's clock is ahead of the worker's by no more than the overlap, *)
(* and the watermark is a publisher's stamp.  The same is kept, during a   *)
(* cycle, for the changes it has missed and the watermark it will store.   *)
(***************************************************************************)

\* The next read from a watermark returns user u.
Indexed(u, mark) == tvIndex[u] > 0 /\ tvIndex[u] >= mark - Skew

\* Publishing now would leave the snapshot with the floor of u.
Delivered(u) ==
  IF u \in tvDelta THEN syncPc = "mget" \/ fetched[u] = floor[u]
                   ELSE floors[u] = floor[u]

InCycle == syncPc \in {"mget", "publish"}

\* No stamp is further ahead than the overlap.
Dated ==
  /\ \A u \in Users : tvIndex[u] <= clock + Skew
  /\ lastTv <= clock + Skew
  /\ InCycle => maxTv <= clock + Skew

\* What the snapshot lacks will be read.
NothingMissed == \A u \in Users : floors[u] = floor[u] \/ Indexed(u, lastTv)

\* What the cycle under way has missed, the next one will read.
NothingMissedInCycle ==
  InCycle => \A u \in Users : /\ Delivered(u) \/ Indexed(u, maxTv)
                              /\ u \in quiet => Delivered(u)

FInv == TypeOK /\ Dated /\ NothingMissed /\ NothingMissedInCycle /\ FloorsReach

\* Nothing is published, so nothing is missing.
LEMMA InitFInv == Init => FInv
<1> SUFFICES ASSUME Init PROVE FInv
  OBVIOUS
<1>1. TypeOK
  BY InitTyped
<1>2. Dated /\ NothingMissed /\ NothingMissedInCycle /\ FloorsReach
  BY PeriodAssumption
     DEF Init, Dated, NothingMissed, NothingMissedInCycle, InCycle, FloorsReach
<1> QED BY <1>1, <1>2 DEF FInv

\* A bound by the clock still holds later.
LEMMA LaterBound ==
  \A a, b, c, k \in Nat : a <= b /\ k <= a + c => k <= b + c
OBVIOUS

\* A step that leaves the floors and the sync thread alone and lets quiet and
\* settled at most shrink keeps the invariant: the handler, revocations, time.
LEMMA ElsewhereKept ==
  ASSUME FInv, TypeOK', clock <= clock',
         UNCHANGED <<tvIndex, floor, floors, syncVars>>,
         quiet' \subseteq quiet, settled' \subseteq settled
  PROVE  FInv'
<1>1. clock \in Nat /\ clock' \in Nat /\ lastTv \in Nat /\ maxTv \in Nat /\ Skew \in Nat
  BY PeriodAssumption, BoundAssumption DEF FInv, TypeOK, Times
<1>2. \A u \in Users : tvIndex[u] \in Nat
  BY DEF FInv, TypeOK
<1>3. Dated'
  <2>1. \A k \in Nat : k <= clock + Skew => k <= clock' + Skew
    BY <1>1, LaterBound
  <2>2. \A u \in Users : tvIndex'[u] \in Nat /\ tvIndex'[u] <= clock' + Skew
    BY <1>2, <2>1 DEF FInv, Dated
  <2>3. lastTv' <= clock' + Skew /\ (InCycle' => maxTv' <= clock' + Skew)
    BY <1>1, <2>1 DEF FInv, Dated, InCycle, syncVars
  <2> QED BY <2>2, <2>3 DEF Dated
<1>4. NothingMissed'
  BY DEF FInv, NothingMissed, Indexed, syncVars
<1>5. NothingMissedInCycle'
  BY DEF FInv, NothingMissedInCycle, InCycle, Delivered, Indexed, syncVars
<1>6. FloorsReach'
  BY DEF FInv, FloorsReach
<1> QED BY <1>3, <1>4, <1>5, <1>6 DEF FInv

\* A step of the sync thread that touches neither Redis nor the snapshot and is
\* outside the part of the cycle the invariant is about afterwards.
LEMMA OutOfCycleKept ==
  ASSUME FInv, TypeOK', ~InCycle',
         UNCHANGED <<clock, tvIndex, floor, floors, lastTv, settled>>
  PROVE  FInv'
BY DEF FInv, Dated, NothingMissed, NothingMissedInCycle, Indexed, FloorsReach

\* A change is indexed by a clock that is not behind, hence not further below
\* any watermark than the overlap.
LEMMA ChangeFloorKept ==
  ASSUME FInv, TypeOK', NEW u \in Users, NEW v \in Published, ChangeFloor(u, v)
  PROVE  FInv'
<1>1. PICK ahead \in 0..Skew : tvIndex' = [tvIndex EXCEPT ![u] = clock + ahead]
  BY DEF ChangeFloor
<1>2. /\ floor' = [floor EXCEPT ![u] = v]
      /\ quiet' = quiet \ {u} /\ settled' = settled \ {u}
      /\ UNCHANGED <<clock, floors, lastTv, maxTv, tvDelta, fetched, syncPc>>
  BY DEF ChangeFloor, snapVars, syncVars
<1>3. /\ clock \in Nat \ {0} /\ lastTv \in Nat /\ maxTv \in Nat /\ Skew \in Nat
      /\ floor \in [Users -> Published] /\ tvIndex \in [Users -> Nat]
  BY PeriodAssumption, BoundAssumption DEF FInv, TypeOK, Times
<1>4. /\ tvIndex'[u] = clock + ahead
      /\ \A x \in Users \ {u} : tvIndex'[x] = tvIndex[x] /\ floor'[x] = floor[x]
  BY <1>1, <1>2, <1>3
<1>5. ahead \in Nat /\ ahead <= Skew
  BY <1>3
<1>6. Dated'
  BY <1>2, <1>3, <1>4, <1>5 DEF FInv, Dated, InCycle
<1>7. /\ tvIndex'[u] > 0 /\ tvIndex'[u] >= lastTv - Skew
      /\ InCycle => tvIndex'[u] >= maxTv - Skew
  BY <1>3, <1>4, <1>5 DEF FInv, Dated
<1>8. NothingMissed'
  BY <1>2, <1>4, <1>7 DEF FInv, NothingMissed, Indexed
<1>9. NothingMissedInCycle'
  BY <1>2, <1>4, <1>7 DEF FInv, NothingMissedInCycle, InCycle, Delivered, Indexed
<1>10. FloorsReach'
  BY <1>2, <1>4 DEF FInv, FloorsReach
<1> QED BY <1>6, <1>8, <1>9, <1>10 DEF FInv

\* Whoever is not read back from the index has its floor in the snapshot.
LEMMA FetchTvKept == ASSUME FInv, TypeOK', FetchTv PROVE FInv'
<1>1. /\ syncPc' = "mget" /\ tvDelta' = TvSince(lastTv - Skew)
      /\ maxTv' = Max({lastTv} \cup {tvIndex[u] : u \in TvSince(lastTv - Skew)})
      /\ UNCHANGED <<clock, tvIndex, floor, floors, lastTv, settled>>
  BY DEF FetchTv, Fetch, redisVars, snapVars
<1>2. /\ clock \in Nat /\ lastTv \in Nat /\ Skew \in Nat
      /\ \A u \in Users : tvIndex[u] \in Nat
  BY PeriodAssumption, BoundAssumption DEF FInv, TypeOK, Times
<1>3. TvSince(lastTv - Skew) \subseteq Users
  BY DEF TvSince
<1>4. maxTv' <= clock + Skew
  <2>1. IsFiniteSet(TvSince(lastTv - Skew))
    BY <1>3, FS_Subset, FiniteAssumption
  <2>2. \A u \in TvSince(lastTv - Skew) : tvIndex[u] \in Nat /\ tvIndex[u] <= clock + Skew
    BY <1>2, <1>3 DEF FInv, Dated
  <2>3. lastTv \in Nat /\ clock + Skew \in Nat /\ lastTv <= clock + Skew
    BY <1>2 DEF FInv, Dated
  <2>4. maxTv' = Max({lastTv} \cup {tvIndex[u] : u \in TvSince(lastTv - Skew)})
    BY <1>1
  <2> QED BY <2>1, <2>2, <2>3, <2>4, WatermarkIsMax
<1>5. Dated'
  BY <1>1, <1>4 DEF FInv, Dated
<1>6. NothingMissed' /\ FloorsReach'
  BY <1>1 DEF FInv, NothingMissed, Indexed, FloorsReach
<1>7. \A u \in Users : Delivered(u)'
  BY <1>1 DEF FInv, NothingMissed, Indexed, TvSince, Delivered
<1> QED BY <1>5, <1>6, <1>7 DEF FInv, NothingMissedInCycle

\* MGET reads every floor it asks for as it is.
LEMMA FetchFloorsKept == ASSUME FInv, TypeOK', FetchFloors PROVE FInv'
<1>1. /\ InCycle /\ syncPc' = "publish"
      /\ \A u \in tvDelta : fetched'[u] = floor[u]
      /\ UNCHANGED <<clock, tvIndex, floor, floors, lastTv, maxTv, tvDelta, quiet, settled>>
  BY DEF FetchFloors, InCycle, redisVars, snapVars, historyVars, FInv, TypeOK
<1>2. Dated'
  BY <1>1 DEF FInv, Dated
<1>3. NothingMissed' /\ FloorsReach'
  BY <1>1 DEF FInv, NothingMissed, Indexed, FloorsReach
<1>4. \A u \in Users : /\ Delivered(u)' \/ Indexed(u, maxTv)'
                       /\ u \in quiet' => Delivered(u)'
  BY <1>1 DEF FInv, NothingMissedInCycle, Delivered, Indexed
<1> QED BY <1>2, <1>3, <1>4 DEF FInv, NothingMissedInCycle

\* The watermark that is stored is the one the missed changes are compared with.
LEMMA PublishFloorsKept == ASSUME FInv, TypeOK', Publish PROVE FInv'
<1>1. /\ InCycle /\ syncPc = "publish" /\ ~InCycle'
      /\ lastTv' = maxTv /\ settled' = quiet
      /\ \A u \in Users : floors'[u] = IF u \in tvDelta THEN fetched[u] ELSE floors[u]
      /\ UNCHANGED <<clock, tvIndex, floor>>
  BY DEF Publish, InCycle, redisVars
<1>2. \A u \in Users : Delivered(u) = (floors'[u] = floor'[u])
  BY <1>1 DEF Delivered
<1>3. Dated'
  BY <1>1 DEF FInv, Dated
<1>4. NothingMissed'
  BY <1>1, <1>2 DEF FInv, NothingMissedInCycle, NothingMissed, Indexed
<1>5. FloorsReach'
  BY <1>1, <1>2 DEF FInv, NothingMissedInCycle, FloorsReach
<1> QED BY <1>1, <1>3, <1>4, <1>5 DEF FInv, NothingMissedInCycle

LEMMA NextFInv == FInv /\ [Next]_vars => FInv'
<1> SUFFICES ASSUME FInv, [Next]_vars PROVE FInv'
  OBVIOUS
<1>1. TypeOK'
  BY NextTyped DEF FInv
<1>2. clock \in Nat
  BY DEF FInv, TypeOK, Times
<1>3. CASE Tick
  BY <1>1, <1>2, <1>3, ElsewhereKept DEF Tick, redisVars, snapVars, historyVars
<1>4. CASE Validate
  <2>1. UNCHANGED <<clock, tvIndex, floor, floors, syncVars, quiet, settled>>
    BY <1>4 DEF Validate, Enter, CacheHit, CacheMiss, CheckRevoked, RefuseIdentity,
                Accept, Goto, Refuse, redisVars, snapVars, historyVars
  <2> QED BY <1>1, <1>2, <2>1, ElsewhereKept
<1>5. ASSUME NEW t \in Tokens, Revoke(t) PROVE FInv'
  BY <1>1, <1>2, <1>5, ElsewhereKept DEF Revoke, snapVars
<1>6. ASSUME NEW u \in Users, NEW v \in Published, ChangeFloor(u, v) PROVE FInv'
  BY <1>1, <1>6, ChangeFloorKept
<1>7. CASE SyncStart \/ FetchRev \/ SyncFail \/ Collect
  BY <1>1, <1>7, OutOfCycleKept
     DEF SyncStart, FetchRev, SyncFail, Collect, SyncEnd, InCycle, redisVars,
         snapVars, historyVars
<1>8. CASE UNCHANGED vars
  BY <1>1, <1>2, <1>8, ElsewhereKept DEF vars, redisVars, snapVars, historyVars
<1> QED
  BY <1>1, <1>3, <1>4, <1>5, <1>6, <1>7, <1>8, FetchTvKept, FetchFloorsKept,
     PublishFloorsKept DEF Next, Sync

(***************************************************************************)
(* A floor that has not changed since a successful cycle read the index is *)
(* the one the worker applies, whatever cycles failed before it, whatever  *)
(* changed between its commands, and although publishers' clocks differ by *)
(* up to the overlap (revocation.rs:240-300).                              *)
(***************************************************************************)
THEOREM FloorsPropagate == Spec => []FloorsReach
<1>1. FInv => FloorsReach
  BY DEF FInv
<1> QED BY <1>1, InitFInv, NextFInv, PTL DEF Spec

============================================================================
