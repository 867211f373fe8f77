---------------------------- MODULE RedisBreaker ----------------------------
(***************************************************************************)
(* The process-local circuit breaker around Redis calls, redis_cb.rs:      *)
(* with_circuit_breaker_on, that is acquire, the call, release.            *)
(*                                                                         *)
(* Its state is atomics, so one action is one access to a word that        *)
(* decides anything.  The rate limiter's sync thread is the only caller in *)
(* the gateway as it is; the breaker itself claims to be safe for any      *)
(* number of threads (line 36).                                            *)
(*                                                                         *)
(* Time.  The code compares ages of time stamps with durations, so a stamp *)
(* is represented by its age, cut off where no comparison can tell it from *)
(* an older one.                                                           *)
(*                                                                         *)
(* The rolling window of outcomes and latencies is left out: whether its   *)
(* statistics open the circuit or allow it to recover is a free choice.    *)
(***************************************************************************)
EXTENDS Integers, FiniteSets

CONSTANTS
  Threads,             \* threads that call Redis
  MaxInflight,         \* max_inflight
  HalfOpenProbes,      \* half_open_probes
  RecoverySuccesses,   \* recovery_successes
  FailOpen,            \* consecutive_fail_open
  TimeoutOpen,         \* consecutive_to_open
  Cooldowns,           \* the values jittered_cooldown() can give
  HalfOpenMax,         \* half_open_max_ms
  LongAgo              \* the age at which time stamps are cut off

\* What CbConfig::from_env and normalize make of any environment.
Normalized ==
  /\ MaxInflight \in Nat \ {0} /\ HalfOpenProbes \in Nat \ {0}
  /\ RecoverySuccesses \in 1..HalfOpenProbes
  /\ FailOpen \in Nat \ {0} /\ TimeoutOpen \in Nat \ {0}

ASSUME ConfigAssumption == Normalized
ASSUME TimeAssumption ==
  /\ LongAgo \in Nat
  /\ HalfOpenMax \in 1..LongAgo
  /\ Cooldowns \subseteq 1..LongAgo /\ Cooldowns # {}
ASSUME ThreadAssumption == IsFiniteSet(Threads)

VARIABLES
  state,       \* state
  opened,      \* age of opened_at_ms
  cooldown,    \* cooldown_ms
  started,     \* age of half_open_started_at_ms
  probes,      \* probes_dispatched; a negative number stands for 2^32 minus it
  successes,   \* half_open_successes, counted up to RecoverySuccesses
  fails,       \* consecutive_fail, counted up to FailOpen
  timeouts,    \* consecutive_timeout, counted up to TimeoutOpen
  inflight,    \* inflight
  pc,          \* pc[t]: the next access of thread t
  now,         \* now[t]: age of the clock value thread t holds
  lapse,       \* lapse[t]: now_ms - opened, as thread t computed it
  decided      \* the threads whose release() saw HALF_OPEN or reached a limit

counters == <<probes, successes, fails, timeouts, inflight>>
times    == <<opened, cooldown, started>>
locals   == <<now, lapse, decided>>
vars     == <<state, times, counters, pc, locals>>

States == {"closed", "open", "half_open"}
Ages   == 0..LongAgo
Calls  == {"call", "probe"}
PCs    == Calls \cup
  {"idle", "closed_add", "closed_undo", "open_check", "open_cooldown",
   "open_cas", "open_recheck", "enter_probes", "enter_successes",
   "enter_started", "half_check", "rearm", "half_probe", "half_add",
   "half_undo", "probe_undo", "classify", "success", "success_timeouts",
   "timeout", "timeout_count", "error", "judge", "count", "close", "stats",
   "trip", "trip_now", "store_opened", "store_cooldown"}

TypeOK ==
  /\ state \in States
  /\ opened \in Ages /\ started \in Ages
  /\ cooldown \in Cooldowns \cup {0}
  /\ probes \in Int /\ inflight \in Int
  /\ successes \in 0..RecoverySuccesses
  /\ fails \in 0..FailOpen /\ timeouts \in 0..TimeoutOpen
  /\ pc \in [Threads -> PCs]
  /\ now \in [Threads -> Ages] /\ lapse \in [Threads -> Ages]
  /\ decided \subseteq Threads

Init ==
  /\ state = "closed"
  /\ opened = LongAgo /\ started = LongAgo /\ cooldown = 0
  /\ probes = 0 /\ successes = 0 /\ fails = 0 /\ timeouts = 0 /\ inflight = 0
  /\ pc = [t \in Threads |-> "idle"]
  /\ now = [t \in Threads |-> 0] /\ lapse = [t \in Threads |-> 0]
  /\ decided = {}

Goto(t, l) == pc' = [pc EXCEPT ![t] = l]

\* Thread t goes from one place to another.
Move(t, from, to) == pc[t] = from /\ Goto(t, to)

Capped(n, top) == IF n < top THEN n + 1 ELSE top

---------------------------------------------------------------------------
(* acquire *)

Begin(t) ==
  /\ Move(t, "idle", CASE state = "closed" -> "closed_add"
                       [] state = "open"   -> "open_check"
                       [] OTHER            -> "half_check")
  /\ UNCHANGED <<state, times, counters, locals>>

ClosedAdd(t) ==
  /\ Move(t, "closed_add", IF inflight >= MaxInflight THEN "closed_undo" ELSE "call")
  /\ inflight' = inflight + 1
  /\ UNCHANGED <<state, times, probes, successes, fails, timeouts, locals>>

\* Mutant: a refused call keeps its place in the count.
ClosedUndoForgotten(t) ==
  /\ Move(t, "closed_undo", "idle")
  /\ UNCHANGED <<state, times, counters, locals>>

ClosedUndo(t) ==
  /\ Move(t, "closed_undo", "idle")
  /\ inflight' = inflight - 1
  /\ UNCHANGED <<state, times, probes, successes, fails, timeouts, locals>>

\* The clock is read here; the value is stored later by EnterStarted.
OpenCheck(t) ==
  /\ Move(t, "open_check", "open_cooldown")
  /\ now' = [now EXCEPT ![t] = 0]
  /\ lapse' = [lapse EXCEPT ![t] = opened]
  /\ UNCHANGED <<state, times, counters, decided>>

OpenCooldown(t) ==
  /\ Move(t, "open_cooldown", IF lapse[t] >= cooldown THEN "open_cas" ELSE "idle")
  /\ lapse' = [lapse EXCEPT ![t] = 0]
  /\ UNCHANGED <<state, times, counters, now, decided>>

OpenCas(t) ==
  /\ Move(t, "open_cas", IF state = "open" THEN "enter_probes" ELSE "open_recheck")
  /\ state' = IF state = "open" THEN "half_open" ELSE state
  /\ UNCHANGED <<times, counters, locals>>

EnterProbes(t) ==
  /\ Move(t, "enter_probes", "enter_successes")
  /\ probes' = 0
  /\ UNCHANGED <<state, times, successes, fails, timeouts, inflight, locals>>

EnterSuccesses(t) ==
  /\ Move(t, "enter_successes", "enter_started")
  /\ successes' = 0
  /\ UNCHANGED <<state, times, probes, fails, timeouts, inflight, locals>>

EnterStarted(t) ==
  /\ Move(t, "enter_started", "half_check")
  /\ started' = now[t]
  /\ UNCHANGED <<state, opened, cooldown, counters, locals>>

OpenRecheck(t) ==
  /\ Move(t, "open_recheck", IF state = "open" THEN "idle" ELSE "half_check")
  /\ UNCHANGED <<state, times, counters, locals>>

\* acquire_half_open: has the circuit been probing for half_open_max_ms?
\* Mutant: HALF_OPEN has no deadline.
OverdueNever == FALSE

Overdue == started >= HalfOpenMax

HalfCheck(t) ==
  /\ Move(t, "half_check", IF Overdue THEN "rearm" ELSE "half_probe")
  /\ now' = [now EXCEPT ![t] = 0]
  /\ UNCHANGED <<state, times, counters, lapse, decided>>

Rearm(t) ==
  /\ Move(t, "rearm", IF state = "half_open" THEN "store_opened" ELSE "idle")
  /\ state' = IF state = "half_open" THEN "open" ELSE state
  /\ UNCHANGED <<times, counters, locals>>

\* u32 comparison: a counter taken below zero is a very large number.
ProbesSpent == probes < 0 \/ probes >= HalfOpenProbes

HalfProbe(t) ==
  /\ Move(t, "half_probe", IF ProbesSpent THEN "probe_undo" ELSE "half_add")
  /\ probes' = probes + 1
  /\ UNCHANGED <<state, times, successes, fails, timeouts, inflight, locals>>

\* Mutant: one probe more than half_open_probes.
HalfAddExtra(t) ==
  /\ Move(t, "half_add", IF inflight > HalfOpenProbes THEN "half_undo" ELSE "probe")
  /\ inflight' = inflight + 1
  /\ UNCHANGED <<state, times, probes, successes, fails, timeouts, locals>>

HalfAdd(t) ==
  /\ Move(t, "half_add", IF inflight >= HalfOpenProbes THEN "half_undo" ELSE "probe")
  /\ inflight' = inflight + 1
  /\ UNCHANGED <<state, times, probes, successes, fails, timeouts, locals>>

HalfUndo(t) ==
  /\ Move(t, "half_undo", "probe_undo")
  /\ inflight' = inflight - 1
  /\ UNCHANGED <<state, times, probes, successes, fails, timeouts, locals>>

ProbeUndo(t) ==
  /\ Move(t, "probe_undo", "idle")
  /\ probes' = probes - 1
  /\ UNCHANGED <<state, times, successes, fails, timeouts, inflight, locals>>

---------------------------------------------------------------------------
(* release *)

\* The Redis call returns; its slot is given back.
Release(t) ==
  /\ pc[t] \in Calls
  /\ Goto(t, "classify")
  /\ inflight' = inflight - 1
  /\ UNCHANGED <<state, times, probes, successes, fails, timeouts, locals>>

\* How a call can end: an I/O error that timed out is a timeout, every other
\* failure, of the connection or of the server, is an error.
CallOutcomes == {"success", "timeout", "error"}

\* release() loads the state it will judge by; how the call ended is free.
Classify(t) ==
  /\ \E outcome \in CallOutcomes : Move(t, "classify", outcome)
  /\ decided' = IF state = "half_open" THEN decided \cup {t} ELSE decided
  /\ UNCHANGED <<state, times, counters, now, lapse>>

\* Mutant: a success takes one failure off instead of resetting the count.
SuccessDecrement(t) ==
  /\ Move(t, "success", "success_timeouts")
  /\ fails' = fails - 1
  /\ UNCHANGED <<state, times, probes, successes, timeouts, inflight, locals>>

Success(t) ==
  /\ Move(t, "success", "success_timeouts")
  /\ fails' = 0
  /\ UNCHANGED <<state, times, probes, successes, timeouts, inflight, locals>>

SuccessTimeouts(t) ==
  /\ Move(t, "success_timeouts", IF t \in decided THEN "count" ELSE "stats")
  /\ timeouts' = 0
  /\ decided' = decided \ {t}
  /\ UNCHANGED <<state, times, probes, successes, fails, inflight, now, lapse>>

\* A timeout and an error count as failures, a timeout as a timeout too.
Failure(t, from, to) ==
  /\ Move(t, from, to)
  /\ fails' = Capped(fails, FailOpen)
  /\ decided' = IF fails' = FailOpen THEN decided \cup {t} ELSE decided
  /\ UNCHANGED <<state, times, probes, successes, timeouts, inflight, now, lapse>>

Timeout(t) == Failure(t, "timeout", "timeout_count")

RedisError(t) == Failure(t, "error", "judge")

TimeoutCount(t) ==
  /\ Move(t, "timeout_count", "judge")
  /\ timeouts' = Capped(timeouts, TimeoutOpen)
  /\ decided' = IF timeouts' = TimeoutOpen THEN decided \cup {t} ELSE decided
  /\ UNCHANGED <<state, times, probes, successes, fails, inflight, now, lapse>>

\* A failed probe or a limit reached trips; else the statistics decide.
Judge(t) ==
  /\ Move(t, "judge", IF t \in decided THEN "trip" ELSE "stats")
  /\ decided' = decided \ {t}
  /\ UNCHANGED <<state, times, counters, now, lapse>>

\* Enough successes count only if latency and error rate have recovered.
Count(t) ==
  /\ successes' = Capped(successes, RecoverySuccesses)
  /\ \/ successes' = RecoverySuccesses /\ Move(t, "count", "close")
     \/ Move(t, "count", "idle")
  /\ UNCHANGED <<state, times, probes, fails, timeouts, inflight, locals>>

Close(t) ==
  /\ Move(t, "close", "idle")
  /\ state' = IF state = "half_open" THEN "closed" ELSE state
  /\ UNCHANGED <<times, counters, locals>>

\* check_statistical_open
Stats(t) ==
  /\ \/ Move(t, "stats", "trip")
     \/ Move(t, "stats", "idle")
  /\ UNCHANGED <<state, times, counters, locals>>

\* trip_open: the exchange is retried until it succeeds or finds OPEN.
Trip(t) ==
  /\ Move(t, "trip", IF state = "open" THEN "idle" ELSE "trip_now")
  /\ state' = "open"
  /\ UNCHANGED <<times, counters, locals>>

TripNow(t) ==
  /\ Move(t, "trip_now", "store_opened")
  /\ now' = [now EXCEPT ![t] = 0]
  /\ UNCHANGED <<state, times, counters, lapse, decided>>

StoreOpened(t) ==
  /\ Move(t, "store_opened", "store_cooldown")
  /\ opened' = now[t]
  /\ UNCHANGED <<state, cooldown, started, counters, locals>>

StoreCooldown(t) ==
  /\ Move(t, "store_cooldown", "idle")
  /\ cooldown' \in Cooldowns
  /\ UNCHANGED <<state, opened, started, counters, locals>>

---------------------------------------------------------------------------

Older(a) == Capped(a, LongAgo)

\* Clock values a thread still has to store.
Holding == {"open_cooldown", "open_cas", "enter_probes", "enter_successes",
            "enter_started", "rearm", "store_opened"}

Tick ==
  /\ opened' = Older(opened) /\ started' = Older(started)
  /\ now' = [t \in Threads |-> IF pc[t] \in Holding THEN Older(now[t]) ELSE now[t]]
  /\ UNCHANGED <<state, cooldown, counters, pc, lapse, decided>>

Acquiring(t) ==
  \/ ClosedAdd(t) \/ ClosedUndo(t) \/ OpenCheck(t) \/ OpenCooldown(t)
  \/ OpenCas(t) \/ EnterProbes(t)
  \/ EnterSuccesses(t) \/ EnterStarted(t) \/ OpenRecheck(t) \/ HalfCheck(t)
  \/ Rearm(t) \/ HalfProbe(t) \/ HalfAdd(t) \/ HalfUndo(t) \/ ProbeUndo(t)

Releasing(t) ==
  \/ Release(t) \/ Classify(t) \/ Success(t) \/ SuccessTimeouts(t) \/ Timeout(t)
  \/ TimeoutCount(t) \/ RedisError(t) \/ Judge(t) \/ Count(t) \/ Close(t)
  \/ Stats(t) \/ Trip(t) \/ TripNow(t) \/ StoreOpened(t) \/ StoreCooldown(t)

Next ==
  \/ Tick
  \/ \E t \in Threads : Begin(t) \/ Acquiring(t) \/ Releasing(t)

Spec == Init /\ [][Next]_vars

(***************************************************************************)
(* Fairness.  A thread inside acquire or release goes on, a Redis call     *)
(* ends (both its timeouts are set), the clock advances and there is       *)
(* always another message to sync.                                         *)
(***************************************************************************)
FairSpec ==
  /\ Spec
  /\ WF_vars(Tick)
  /\ \A t \in Threads : WF_vars(Begin(t) \/ Acquiring(t) \/ Releasing(t))

---------------------------------------------------------------------------
(* Properties *)

Holders == {t \in Threads : pc[t] \in Calls \cup {"closed_undo", "half_undo"}}
Probing == {t \in Threads : pc[t] = "probe"}

(***************************************************************************)
(* The in-flight count is exact: every path of acquire and release gives   *)
(* back what it took, so the limit is neither eroded nor exceeded          *)
(* (lines 443-448, 523-529, 538).                                          *)
(***************************************************************************)
InflightExact == inflight = Cardinality(Holders)

(***************************************************************************)
(* "Only allow half_open_probes concurrent probe requests" (line 516), for *)
(* any interleaving, calls left over from before the outage and probe      *)
(* counters reset under a concurrent prober included.                      *)
(***************************************************************************)
ProbesBounded == Cardinality(Probing) <= HalfOpenProbes

(***************************************************************************)
(* "HALF_OPEN must never wedge" (line 497): probing ends, in recovery or   *)
(* in a new OPEN period.                                                   *)
(***************************************************************************)
HalfOpenEnds == (state = "half_open") ~> (state # "half_open")

============================================================================
