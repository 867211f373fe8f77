------------------------- MODULE RedisBreakerProofs -------------------------
(***************************************************************************)
(* The in-flight count of RedisBreaker is exact and bounds the concurrent  *)
(* probes, for any number of threads and any configuration.                *)
(***************************************************************************)
EXTENDS RedisBreaker, FiniteSetTheorems, TLAPS

Working(t) == Begin(t) \/ Acquiring(t) \/ Releasing(t)

\* A step of one thread keeps the types.
LEMMA WorkTyped ==
  ASSUME TypeOK, NEW t \in Threads, Working(t)
  PROVE  TypeOK'
<1> USE ConfigAssumption, TimeAssumption
    DEF Normalized, TypeOK, Move, Goto, PCs, Calls, times, counters, States, Ages, locals
<1>1. CASE Begin(t)
  BY <1>1 DEF Begin
<1>2. CASE ClosedAdd(t) \/ ClosedUndo(t)
  BY <1>2 DEF ClosedAdd, ClosedUndo
<1>3. CASE OpenCheck(t) \/ OpenCooldown(t) \/ OpenCas(t) \/ OpenRecheck(t)
  BY <1>3 DEF OpenCheck, OpenCooldown, OpenCas, OpenRecheck
<1>4. CASE EnterProbes(t) \/ EnterSuccesses(t) \/ EnterStarted(t)
  BY <1>4 DEF EnterProbes, EnterSuccesses, EnterStarted
<1>5. CASE HalfCheck(t) \/ Rearm(t) \/ HalfProbe(t)
  BY <1>5 DEF HalfCheck, Rearm, HalfProbe
<1>6. CASE HalfAdd(t) \/ HalfUndo(t) \/ ProbeUndo(t)
  BY <1>6 DEF HalfAdd, HalfUndo, ProbeUndo
<1>7. CASE Release(t) \/ Classify(t) \/ Judge(t)
  BY <1>7 DEF Release, Classify, CallOutcomes, Judge
<1>8. CASE Success(t) \/ SuccessTimeouts(t)
  BY <1>8 DEF Success, SuccessTimeouts
<1>12. CASE Timeout(t) \/ TimeoutCount(t) \/ RedisError(t)
  BY <1>12 DEF Timeout, TimeoutCount, RedisError, Failure, Capped
<1>9. CASE Count(t) \/ Close(t) \/ Stats(t)
  BY <1>9 DEF Count, Close, Stats, Capped
<1>10. CASE Trip(t) \/ TripNow(t)
  BY <1>10 DEF Trip, TripNow
<1>11. CASE StoreOpened(t) \/ StoreCooldown(t)
  BY <1>11 DEF StoreOpened, StoreCooldown
<1> QED
  BY <1>1, <1>2, <1>3, <1>4, <1>5, <1>6, <1>7, <1>8, <1>9, <1>10, <1>11, <1>12
     DEF Working, Acquiring, Releasing

\* Every step keeps the types.
LEMMA NextTyped == TypeOK /\ [Next]_vars => TypeOK'
<1> SUFFICES ASSUME TypeOK, [Next]_vars PROVE TypeOK'
  OBVIOUS
<1>1. CASE Tick
  BY <1>1, TimeAssumption DEF Tick, locals, TypeOK, Older, Capped, Ages, counters
<1>2. ASSUME NEW t \in Threads, Working(t) PROVE TypeOK'
  BY <1>2, WorkTyped
<1>3. CASE UNCHANGED vars
  BY <1>3 DEF vars, TypeOK, times, counters, locals
<1> QED BY <1>1, <1>2, <1>3 DEF Next, Working

\* The sets counted below are finite, and a probe holds a slot.
LEMMA HoldersFinite ==
  /\ IsFiniteSet(Holders) /\ Cardinality(Holders) \in Nat
  /\ IsFiniteSet(Probing) /\ Cardinality(Probing) \in Nat
  /\ Cardinality(Probing) <= Cardinality(Holders)
<1>1. Holders \subseteq Threads /\ Probing \subseteq Holders
  BY DEF Holders, Probing, Calls
<1>2. IsFiniteSet(Holders)
  BY <1>1, ThreadAssumption, FS_Subset
<1> QED BY <1>1, <1>2, FS_Subset, FS_CardinalityType

\* What one step of a thread does to the places that hold a slot.
Steady(t) == inflight' = inflight /\ Holders' = Holders /\ Probing' \subseteq Probing
Takes(t)  == inflight' = inflight + 1 /\ t \notin Holders /\ Holders' = Holders \cup {t}
Gives(t)  == inflight' = inflight - 1 /\ t \in Holders /\ Holders' = Holders \ {t}

\* Every step of a thread is one of the three, and only HalfAdd starts a
\* probe, when fewer than half_open_probes calls are in flight.
LEMMA WorkMoves ==
  ASSUME TypeOK, NEW t \in Threads, Working(t)
  PROVE  /\ Steady(t) \/ Takes(t) \/ Gives(t)
         /\ \/ Probing' \subseteq Probing
            \/ Probing' = Probing \cup {t} /\ inflight < HalfOpenProbes
<1> USE DEF TypeOK, Move, Goto, Holders, Probing, Calls, Steady, Takes, Gives, counters
<1>1. CASE Begin(t)
  BY <1>1 DEF Begin
<1>2. CASE ClosedAdd(t) \/ ClosedUndo(t)
  BY <1>2 DEF ClosedAdd, ClosedUndo
<1>3. CASE OpenCheck(t) \/ OpenCooldown(t) \/ OpenCas(t) \/ OpenRecheck(t)
  BY <1>3 DEF OpenCheck, OpenCooldown, OpenCas, OpenRecheck
<1>4. CASE EnterProbes(t) \/ EnterSuccesses(t) \/ EnterStarted(t)
  BY <1>4 DEF EnterProbes, EnterSuccesses, EnterStarted
<1>5. CASE HalfCheck(t) \/ Rearm(t) \/ HalfProbe(t)
  BY <1>5 DEF HalfCheck, Rearm, HalfProbe
<1>6. CASE HalfAdd(t)
  BY <1>6, ConfigAssumption DEF HalfAdd, Normalized
<1>7. CASE HalfUndo(t) \/ ProbeUndo(t)
  BY <1>7 DEF HalfUndo, ProbeUndo
<1>8. CASE Release(t) \/ Classify(t) \/ Judge(t)
  BY <1>8 DEF Release, Classify, CallOutcomes, Judge
<1>9. CASE Success(t) \/ SuccessTimeouts(t)
  BY <1>9 DEF Success, SuccessTimeouts
<1>13. CASE Timeout(t) \/ TimeoutCount(t) \/ RedisError(t)
  BY <1>13 DEF Timeout, TimeoutCount, RedisError, Failure
<1>10. CASE Count(t) \/ Close(t) \/ Stats(t)
  BY <1>10 DEF Count, Close, Stats
<1>11. CASE Trip(t) \/ TripNow(t)
  BY <1>11 DEF Trip, TripNow
<1>12. CASE StoreOpened(t) \/ StoreCooldown(t)
  BY <1>12 DEF StoreOpened, StoreCooldown
<1> QED
  BY <1>1, <1>2, <1>3, <1>4, <1>5, <1>6, <1>7, <1>8, <1>9, <1>10, <1>11, <1>12, <1>13
     DEF Working, Acquiring, Releasing

IInv == TypeOK /\ InflightExact /\ ProbesBounded

\* Initially nothing is in flight.
LEMMA InitIInv == Init => IInv
<1> SUFFICES ASSUME Init PROVE IInv
  OBVIOUS
<1>1. TypeOK
  BY ConfigAssumption, TimeAssumption DEF Init, TypeOK, States, Ages, PCs, Normalized
<1>2. Holders = {} /\ Probing = {} /\ inflight = 0
  BY DEF Init, Holders, Probing, Calls
<1> QED
  BY <1>1, <1>2, FS_EmptySet, ConfigAssumption DEF IInv, InflightExact, ProbesBounded, Normalized

\* The invariant is inductive.
LEMMA NextIInv == IInv /\ [Next]_vars => IInv'
<1> SUFFICES ASSUME IInv, [Next]_vars PROVE IInv'
  OBVIOUS
<1>0. TypeOK' /\ TypeOK
  BY NextTyped DEF IInv
<1>1. CASE Tick \/ UNCHANGED vars
  <2>1. pc' = pc /\ inflight' = inflight
    BY <1>1 DEF Tick, vars, counters
  <2>2. Holders' = Holders /\ Probing' = Probing
    BY <2>1 DEF Holders, Probing
  <2> QED BY <1>0, <2>1, <2>2 DEF IInv, InflightExact, ProbesBounded
<1>2. ASSUME NEW t \in Threads, Working(t) PROVE IInv'
  <2>1. /\ Steady(t) \/ Takes(t) \/ Gives(t)
        /\ \/ Probing' \subseteq Probing
           \/ Probing' = Probing \cup {t} /\ inflight < HalfOpenProbes
    BY <1>0, <1>2, WorkMoves
  <2>2. InflightExact'
    <3>1. inflight = Cardinality(Holders)
      BY DEF IInv, InflightExact
    <3>2. CASE Steady(t)
      BY <3>1, <3>2 DEF Steady, InflightExact
    <3>3. CASE Takes(t)
      <4>1. Cardinality(Holders \cup {t}) = Cardinality(Holders) + 1
        BY <3>3, HoldersFinite, FS_AddElement DEF Takes
      <4> QED BY <3>1, <3>3, <4>1 DEF Takes, InflightExact
    <3>4. CASE Gives(t)
      <4>1. Cardinality(Holders \ {t}) = Cardinality(Holders) - 1
        BY <3>4, HoldersFinite, FS_RemoveElement DEF Gives
      <4> QED BY <3>1, <3>4, <4>1 DEF Gives, InflightExact
    <3> QED BY <2>1, <3>2, <3>3, <3>4
  <2>3. ProbesBounded'
    <3>1. CASE Probing' \subseteq Probing
      <4>1. IsFiniteSet(Probing') /\ Cardinality(Probing') <= Cardinality(Probing)
        BY <3>1, HoldersFinite, FS_Subset
      <4>2. Cardinality(Probing') \in Nat /\ Cardinality(Probing) \in Nat
        BY <4>1, HoldersFinite, FS_CardinalityType
      <4>3. Cardinality(Probing') <= HalfOpenProbes
        BY <4>1, <4>2, ConfigAssumption DEF IInv, ProbesBounded, Normalized
      <4> QED BY <4>3 DEF ProbesBounded
    <3>2. CASE Probing' = Probing \cup {t} /\ inflight < HalfOpenProbes
      <4>1. Cardinality(Probing \cup {t}) <= Cardinality(Probing) + 1
        <5>1. CASE t \in Probing
          <6>1. Probing \cup {t} = Probing
            BY <5>1
          <6>2. Cardinality(Probing \cup {t}) = Cardinality(Probing)
            BY <6>1, Zenon
          <6> QED BY <6>2, HoldersFinite
        <5>2. CASE t \notin Probing
          <6>1. Cardinality(Probing \cup {t}) = Cardinality(Probing) + 1
            BY <5>2, HoldersFinite, FS_AddElement
          <6> QED BY <6>1, HoldersFinite
        <5> QED BY <5>1, <5>2
      <4>2. Cardinality(Probing) < HalfOpenProbes
        BY <3>2, HoldersFinite, ConfigAssumption DEF IInv, InflightExact, Normalized
      <4>3. Cardinality(Probing \cup {t}) \in Nat
        BY HoldersFinite, FS_AddElement, FS_CardinalityType
      <4>4. Cardinality(Probing') <= HalfOpenProbes
        BY <3>2, <4>1, <4>2, <4>3, HoldersFinite, ConfigAssumption DEF Normalized
      <4> QED BY <4>4 DEF ProbesBounded
    <3> QED BY <2>1, <3>1, <3>2
  <2> QED BY <1>0, <2>2, <2>3 DEF IInv
<1> QED BY <1>1, <1>2 DEF Next, Working

\* The invariant holds in every reachable state.
LEMMA IInvHolds == Spec => []IInv
BY InitIInv, NextIInv, PTL DEF Spec

\* The fields keep their types, whatever the threads interleave: the breaker is
\* in one of its three states with a cooldown it was configured to take, and
\* every thread is at a place of acquire or of the release of a permit.
THEOREM BreakerTyped == Spec => []TypeOK
<1>1. IInv => TypeOK
  BY DEF IInv
<1> QED BY <1>1, IInvHolds, PTL

(***************************************************************************)
(* The in-flight count of the Redis breaker is exact for any number of     *)
(* calling threads (lines 443-448, 523-529, 538).                          *)
(***************************************************************************)
THEOREM InflightCounted == Spec => []InflightExact
<1>1. IInv => InflightExact
  BY DEF IInv
<1> QED BY <1>1, IInvHolds, PTL

(***************************************************************************)
(* At most half_open_probes probes are in flight, although probes_         *)
(* dispatched can be reset, or taken below zero, under a concurrent        *)
(* prober: the in-flight count is what enforces it (lines 516-529).        *)
(***************************************************************************)
THEOREM ProbesLimited == Spec => []ProbesBounded
<1>1. IInv => ProbesBounded
  BY DEF IInv
<1> QED BY <1>1, IInvHolds, PTL

============================================================================
