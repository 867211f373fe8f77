----------------------------- MODULE Revocation -----------------------------
(***************************************************************************)
(* Token validation in one worker process: auth.rs validate_token with its *)
(* cache, and revocation.rs, whose background thread copies revocations    *)
(* and token-version floors from Redis into a local snapshot.              *)
(*                                                                         *)
(* The handler and the sync thread run side by side and share only the     *)
(* snapshot, which the thread replaces as a whole; each time the handler   *)
(* loads it is an action, and so is each Redis command of a sync cycle.    *)
(* Workers share nothing but Redis, so one worker is modelled.             *)
(*                                                                         *)
(* Scores and stamps are seconds of one clock; every score is positive, so *)
(* a watermark of 0 stands for negative infinity.                          *)
(***************************************************************************)
EXTENDS Integers, FiniteSetsExt

CONSTANTS
  Tokens, Users,
  UserOf,       \* UserOf[t]: the user token t is for
  Exp,          \* Exp[t]: its exp claim, and the expiry of its revocation
  Tv,           \* Tv[t]: its token version
  Floors,       \* token-version floors that can be published
  NoFloor,      \* no floor is published
  Ttl,          \* cache_ttl_secs()
  Skew,         \* SKEW_OVERLAP_SECS
  GcAge,        \* expired entries are dropped from the index after 3600 s
  StaleAfter,   \* 3 sync intervals and the grace period
  FailClosed,   \* revocation_fail_closed()
  MaxTime,      \* bound on the clock
  MaxChanges    \* bound on the floor changes

ASSUME TokenAssumption == /\ UserOf \in [Tokens -> Users]
                          /\ Exp \in [Tokens -> Nat \ {0}]
                          /\ Tv \in [Tokens -> Floors]
ASSUME FiniteAssumption == IsFiniteSet(Tokens) /\ IsFiniteSet(Users)
ASSUME FloorAssumption == NoFloor \notin Floors
ASSUME PeriodAssumption == /\ Ttl \in Nat \ {0} /\ Skew \in Nat
                           /\ GcAge \in Nat /\ StaleAfter \in Nat
                           /\ FailClosed \in BOOLEAN
ASSUME BoundAssumption == MaxTime \in Nat \ {0} /\ MaxChanges \in Nat

VARIABLES
  clock,
  index,       \* Redis: the tokens in gateway:revocation:index
  tvIndex,     \* Redis: tvIndex[u], score of u in gateway:tv:index, or 0
  floor,       \* Redis: gateway:user:tv:<u>
  revoked,     \* snapshot: the tokens in its revoked map
  floors,      \* snapshot: tv_floors
  syncedAt,    \* snapshot: synced_at_ms, 0 before the first sync
  lastRev,     \* last_rev_score
  lastTv,      \* last_tv_score
  syncPc,      \* the next step of the sync thread
  syncNow,     \* now of sync_once
  revDelta,    \* rev_delta
  tvDelta,     \* the users of tv_delta
  maxTv,       \* max_tv_score
  fetched,     \* fetched_floors
  pc,          \* the next step of the handler, or its result
  tok,         \* the token it validates
  now,         \* now of validate_token
  cache,       \* cache[t]: expires_at of the entry for t, or 0
  changes,     \* floor changes so far
  known,       \* history: when t's revocation reached the snapshot, or 0
  quiet,       \* history: tokens and users not changed since they were fetched
  settled      \* history: the same, for the fetch the snapshot comes from

redisVars   == <<index, tvIndex, floor>>
snapVars    == <<revoked, floors, syncedAt>>
syncVars    == <<lastRev, lastTv, syncPc, syncNow, revDelta, tvDelta, maxTv,
                 fetched>>
handlerVars == <<pc, tok, now, cache>>
historyVars == <<known, quiet, settled>>
vars        == <<clock, redisVars, snapVars, syncVars, handlerVars, changes,
                 historyVars>>

Times     == 0..MaxTime
Published == Floors \cup {NoFloor}

TypeOK ==
  /\ clock \in Times \ {0}
  /\ index \subseteq Tokens /\ revoked \subseteq Tokens /\ revDelta \subseteq Tokens
  /\ tvIndex \in [Users -> Nat]
  /\ floor \in [Users -> Published] /\ floors \in [Users -> Published]
  /\ fetched \in [Users -> Published] /\ tvDelta \subseteq Users
  /\ syncedAt \in Times /\ syncNow \in Times
  /\ lastRev \in Nat /\ lastTv \in Nat /\ maxTv \in Nat
  /\ syncPc \in {"sleep", "rev", "tv", "mget", "publish", "gc"}
  /\ pc \in {"idle", "lookup", "revoked", "version", "accept"}
  /\ tok \in Tokens /\ now \in Times
  /\ cache \in [Tokens -> Nat]
  /\ changes \in 0..MaxChanges
  /\ known \in [Tokens -> Times]
  /\ quiet \subseteq Tokens \cup Users /\ settled \subseteq Tokens \cup Users

Init ==
  /\ clock = 1
  /\ index = {} /\ tvIndex = [u \in Users |-> 0]
  /\ floor = [u \in Users |-> NoFloor]
  /\ revoked = {} /\ floors = [u \in Users |-> NoFloor] /\ syncedAt = 0
  /\ lastRev = 0 /\ lastTv = 0 /\ syncPc = "sleep" /\ syncNow = 0
  /\ revDelta = {} /\ tvDelta = {} /\ maxTv = 0
  /\ fetched = [u \in Users |-> NoFloor]
  /\ pc = "idle" /\ tok \in Tokens /\ now = 0
  /\ cache = [t \in Tokens |-> 0]
  /\ changes = 0
  /\ known = [t \in Tokens |-> 0] /\ quiet = {} /\ settled = {}

---------------------------------------------------------------------------
(* The publishers (external) *)

\* The auth service revokes a live token, for the rest of its lifetime.
Revoke(t) ==
  /\ t \notin index /\ clock < Exp[t]
  /\ index' = index \cup {t}
  /\ quiet' = quiet \ {t} /\ settled' = settled \ {t}
  /\ UNCHANGED <<clock, tvIndex, floor, snapVars, syncVars, handlerVars, changes,
                 known>>

\* It sets or deletes a user's floor and indexes the change by its clock,
\* which may be ahead by up to Skew.
ChangeFloor(u, v) ==
  /\ changes < MaxChanges
  /\ changes' = changes + 1
  /\ v # floor[u]
  /\ floor' = [floor EXCEPT ![u] = v]
  /\ \E ahead \in 0..Skew : tvIndex' = [tvIndex EXCEPT ![u] = clock + ahead]
  /\ quiet' = quiet \ {u} /\ settled' = settled \ {u}
  /\ UNCHANGED <<clock, index, snapVars, syncVars, handlerVars, known>>

---------------------------------------------------------------------------
(* sync_once *)

SyncStart ==
  /\ syncPc = "sleep"
  /\ syncPc' = "rev" /\ syncNow' = clock
  /\ UNCHANGED <<clock, redisVars, snapVars, lastRev, lastTv, revDelta, tvDelta,
                 maxTv, fetched, handlerVars, changes, historyVars>>

\* ZRANGEBYSCORE from the watermark less the overlap; scores are expiries.
FetchRev ==
  /\ syncPc = "rev"
  /\ syncPc' = "tv"
  /\ revDelta' = {t \in index : Exp[t] >= lastRev - Skew}
  /\ quiet' = quiet \cup Tokens
  /\ UNCHANGED <<clock, redisVars, snapVars, lastRev, lastTv, syncNow, tvDelta,
                 maxTv, fetched, handlerVars, changes, known, settled>>

TvSince(from) == {u \in Users : tvIndex[u] > 0 /\ tvIndex[u] >= from}

Fetch(changed) ==
  /\ syncPc = "tv"
  /\ syncPc' = "mget"
  /\ tvDelta' = changed
  /\ maxTv' = Max({lastTv} \cup {tvIndex[u] : u \in changed})
  /\ quiet' = quiet \cup Users
  /\ UNCHANGED <<clock, redisVars, snapVars, lastRev, lastTv, syncNow, revDelta,
                 fetched, handlerVars, changes, known, settled>>

\* Mutant: the overlap is forgotten.
FetchTvNoOverlap == Fetch(TvSince(lastTv + 1))

FetchTv == Fetch(TvSince(lastTv - Skew))

FetchFloors ==
  /\ syncPc = "mget"
  /\ syncPc' = "publish"
  /\ fetched' = [u \in Users |-> IF u \in tvDelta THEN floor[u] ELSE NoFloor]
  /\ UNCHANGED <<clock, redisVars, snapVars, lastRev, lastTv, syncNow, revDelta,
                 tvDelta, maxTv, handlerVars, changes, historyVars>>

\* The cycle is over and its local variables are gone.
SyncEnd ==
  /\ syncPc' = "sleep" /\ syncNow' = 0
  /\ revDelta' = {} /\ tvDelta' = {} /\ maxTv' = 0
  /\ fetched' = [u \in Users |-> NoFloor]
  /\ UNCHANGED <<clock, tvIndex, floor, snapVars, lastRev, lastTv, handlerVars,
                 changes, historyVars>>

\* A connection or a command fails: the watermarks stay as they are.
SyncFail ==
  /\ syncPc \in {"rev", "tv", "mget"}
  /\ SyncEnd
  /\ UNCHANGED index

\* The old entries that are still live, and what was fetched.
NewRevoked == {t \in revoked : Exp[t] > syncNow} \cup revDelta

\* Mutant: the watermark is stored with the overlap taken off.
WatermarkLowered == Max({lastRev} \cup {Exp[t] : t \in revDelta}) - Skew

Watermark == Max({lastRev} \cup {Exp[t] : t \in revDelta})

Publish ==
  /\ syncPc = "publish"
  /\ syncPc' = "gc"
  /\ revoked' = NewRevoked
  /\ floors' = [u \in Users |-> IF u \in tvDelta THEN fetched[u] ELSE floors[u]]
  /\ syncedAt' = clock
  /\ lastRev' = Watermark
  /\ lastTv' = maxTv
  /\ known' = [t \in Tokens |->
                 IF known[t] = 0 /\ t \in NewRevoked THEN clock ELSE known[t]]
  /\ settled' = quiet
  /\ UNCHANGED <<clock, redisVars, syncNow, revDelta, tvDelta, maxTv, fetched,
                 handlerVars, changes, quiet>>

\* ZREMRANGEBYSCORE; its failure is ignored.
Collect ==
  /\ syncPc = "gc"
  /\ SyncEnd
  /\ index' \in {index, {t \in index : Exp[t] > syncNow - GcAge}}

---------------------------------------------------------------------------
(* validate_token *)

SnapshotStale == syncedAt = 0 \/ clock - syncedAt > StaleAfter

Stale(t) == floors[UserOf[t]] \notin {NoFloor, Tv[t]}

\* With a stale snapshot and fail-closed the call returns at once, which
\* changes nothing.
Enter(t) ==
  /\ pc \in {"idle", "accept"}
  /\ ~ (FailClosed /\ SnapshotStale)
  /\ tok' = t
  /\ now' = clock
  /\ pc' = "lookup"
  /\ UNCHANGED <<clock, redisVars, snapVars, syncVars, cache, changes, historyVars>>

Goto(l) ==
  /\ pc' = l
  /\ UNCHANGED <<clock, redisVars, snapVars, syncVars, tok, now, changes,
                 historyVars>>

\* The call returns None.
Refuse ==
  /\ pc' = "idle" /\ now' = 0
  /\ UNCHANGED <<clock, redisVars, snapVars, syncVars, tok, changes, historyVars>>

\* A cached verdict is only compared with the floor.
CacheHit ==
  /\ pc = "lookup" /\ cache[tok] > now
  /\ IF Stale(tok)
     THEN Refuse /\ cache' = [cache EXCEPT ![tok] = 0]
     ELSE Goto("accept") /\ UNCHANGED cache

\* Signature, issuer, audience and times; all but the expiry are free.
CacheMiss ==
  /\ pc = "lookup" /\ cache[tok] <= now
  /\ cache' = [cache EXCEPT ![tok] = 0]
  /\ \/ now < Exp[tok] /\ Goto("revoked")
     \/ Refuse

\* is_revoked reads the clock again.
IsRevoked == tok \in revoked /\ Exp[tok] > clock

CheckRevoked ==
  /\ pc = "revoked"
  /\ IF IsRevoked THEN Refuse ELSE Goto("version")
  /\ UNCHANGED cache

\* A stale version, or an identity that is no header value.
RefuseIdentity ==
  /\ pc = "version"
  /\ Refuse
  /\ UNCHANGED cache

\* Mutant: the entry lives as long as the token.
CacheExpiryFull(t) == Exp[t]

\* effective_cache_expiry
CacheExpiry(t) == IF Exp[t] < now + Ttl THEN Exp[t] ELSE now + Ttl

\* The validated token is cached; the cache may drop another to make room.
Accept ==
  /\ pc = "version" /\ ~ Stale(tok)
  /\ Goto("accept")
  /\ \E dropped \in {{}} \cup {{t} : t \in Tokens \ {tok}} :
       cache' = [t \in Tokens |-> IF t = tok THEN CacheExpiry(t)
                                  ELSE IF t \in dropped THEN 0 ELSE cache[t]]

---------------------------------------------------------------------------

Tick ==
  /\ clock < MaxTime
  /\ clock' = clock + 1
  /\ UNCHANGED <<redisVars, snapVars, syncVars, handlerVars, changes, historyVars>>

Sync == SyncStart \/ FetchRev \/ FetchTv \/ FetchFloors \/ SyncFail \/ Publish \/ Collect

Validate ==
  \/ \E t \in Tokens : Enter(t)
  \/ CacheHit \/ CacheMiss \/ CheckRevoked \/ RefuseIdentity \/ Accept

Next ==
  \/ Tick \/ Sync \/ Validate
  \/ \E t \in Tokens : Revoke(t)
  \/ \E u \in Users, v \in Published : ChangeFloor(u, v)

Spec == Init /\ [][Next]_vars

---------------------------------------------------------------------------
(* Properties *)

(***************************************************************************)
(* "Capping the cache lifetime bounds the revocation propagation delay to  *)
(* this window" (auth.rs:98): a live token is no longer accepted once its  *)
(* revocation has been in the snapshot for Ttl seconds, although cache     *)
(* hits never ask, entries leave the snapshot when they expire and the     *)
(* snapshot changes under the handler.                                     *)
(***************************************************************************)
CacheWindow ==
  pc = "accept" /\ known[tok] # 0 => now < known[tok] + Ttl \/ Exp[tok] <= clock

(***************************************************************************)
(* Token-version floors reach the worker with the first cycle that starts  *)
(* after the change: a floor not changed since then is in the snapshot,    *)
(* whatever cycles failed, however publishers' clocks differ within the    *)
(* overlap and whatever changed between the commands of a cycle            *)
(* (revocation.rs:262-300, "only advance on success", line 240).           *)
(***************************************************************************)
FloorsReach == \A u \in Users \cap settled : floors[u] = floor[u]

(***************************************************************************)
(* "Revocation propagates within one sync interval" (revocation.rs:22): a  *)
(* token revoked before a successful cycle started is in the snapshot that *)
(* cycle published, until it expires.                                      *)
(***************************************************************************)
RevocationsReach ==
  \A t \in Tokens \cap settled \cap index : t \in revoked \/ Exp[t] <= clock

============================================================================
