------------------------------ MODULE Sentinel ------------------------------
(***************************************************************************)
(* The sentinel thread of a worker: once a second it samples five signals, *)
(* judges them against learned baselines kept behind a mutex, computes a   *)
(* posture and raises or decays the level that the hot path reads.         *)
(*                                                                         *)
(* Ratios are percentages.  Time is counted in clean minutes, the only     *)
(* unit it is compared in.  What a baseline has learned is left open: a    *)
(* value above its floor may or may not be anomalous.  BASELINES is a      *)
(* std::sync::Mutex, whose lock() never returns to the thread that already *)
(* holds it.                                                               *)
(***************************************************************************)
EXTENDS Naturals

CONSTANTS
  Samples,    \* the signals a second may bring, records in Signals
  None,       \* nobody
  MaxTime     \* bound: minutes

L0_NORMAL == 0
L2_ELEVATED == 2
L3_GUARDED == 3
L4_LOCKDOWN == 4

\* What one second shows; the counters are already differences.
Signals == [down_ratio : 0..100, global_cb_state : 0..2, waf_blocks : Nat,
            server_errors : Nat, requests : Nat, saturation : 0..150]

\* Thresholds::default().
Thresholds ==
  [down_ratio_major |-> 50, down_ratio_minor |-> 25,
   error_rate_major |-> 20, error_rate_minor |-> 5,
   waf_blocks_major |-> 200, waf_blocks_minor |-> 50,
   saturation_major |-> 95, saturation_minor |-> 80]

(***************************************************************************)
(* compute_target.                                                         *)
(***************************************************************************)

\* The error rate reaches p percent, on more than 100 requests.
ErrorRate(s, p) == s.requests > 100 /\ s.server_errors * 100 >= p * s.requests

UpstreamMajor(s, t) ==
  s.down_ratio >= t.down_ratio_major \/ ErrorRate(s, t.error_rate_major)
UpstreamMinor(s, t) ==
  /\ ~UpstreamMajor(s, t)
  /\ s.down_ratio >= t.down_ratio_minor \/ ErrorRate(s, t.error_rate_minor)
CircuitMinor(s) == s.global_cb_state = 1
WafMajor(s, t) == s.waf_blocks >= t.waf_blocks_major
WafMinor(s, t) == ~WafMajor(s, t) /\ s.waf_blocks >= t.waf_blocks_minor
LoadMajor(s, t) == s.saturation >= t.saturation_major
LoadMinor(s, t) == ~LoadMajor(s, t) /\ s.saturation >= t.saturation_minor

One(b) == IF b THEN 1 ELSE 0
triggers_major(s, t) ==
  One(UpstreamMajor(s, t)) + One(WafMajor(s, t)) + One(LoadMajor(s, t))
triggers_minor(s, t) ==
  One(UpstreamMinor(s, t)) + One(CircuitMinor(s)) + One(WafMinor(s, t))
  + One(LoadMinor(s, t))

compute_target(s, t) ==
  CASE triggers_major(s, t) >= 2 -> L4_LOCKDOWN
    [] triggers_major(s, t) = 1 -> L3_GUARDED
    [] triggers_major(s, t) = 0 /\ triggers_minor(s, t) >= 2 -> L3_GUARDED
    [] triggers_major(s, t) = 0 /\ triggers_minor(s, t) = 1 -> L2_ELEVATED
    [] OTHER -> L0_NORMAL

(***************************************************************************)
(* The thread.                                                             *)
(***************************************************************************)
VARIABLES
  pc,         \* where sentinel_loop is
  lock,       \* the holder of BASELINES
  sample,     \* the signals of this second
  anomalous,  \* whether a baseline found one of them anomalous
  posture,    \* POSTURE
  since,      \* POSTURE_SINCE_MS
  raised,     \* last_raise_ms
  now         \* minutes

vars == <<pc, lock, sample, anomalous, posture, since, raised, now>>

Thread == "sentinel"

Init ==
  /\ pc = "sleep"
  /\ lock = None
  /\ sample \in Samples
  /\ anomalous = FALSE
  /\ posture = L0_NORMAL
  /\ since = 0
  /\ raised = 0
  /\ now = 0

Tick ==
  /\ now < MaxTime
  /\ now' = now + 1
  /\ UNCHANGED <<pc, lock, sample, anomalous, posture, since, raised>>

\* A second has passed: the signals are read.
SampleSignals ==
  /\ pc = "sleep"
  /\ pc' = "lock"
  /\ sample' \in Samples
  /\ anomalous' = FALSE
  /\ UNCHANGED <<lock, posture, since, raised, now>>

\* let mut bl = BASELINES.lock()
LockBaselines ==
  /\ pc = "lock"
  /\ lock = None
  /\ lock' = Thread
  /\ pc' = "waf"
  /\ UNCHANGED <<sample, anomalous, posture, since, raised, now>>

\* Each of the three judgements takes BASELINES for itself, and is made
\* inside the block that holds bl; the floors are those of the code.
Judge(at, over, next) ==
  /\ pc = at
  /\ lock = None
  /\ \E found \in IF over THEN BOOLEAN ELSE {FALSE} :
       anomalous' = (anomalous \/ found)
  /\ pc' = next
  /\ UNCHANGED <<lock, sample, posture, since, raised, now>>

anomalous_waf == Judge("waf", sample.waf_blocks > 50, "errors")

\* Too few requests are judged without the lock.
anomalous_errors ==
  \/ /\ sample.requests >= 100
     /\ Judge("errors", \/ sample.server_errors > 200
                        \/ /\ sample.server_errors > 20
                           /\ sample.server_errors * 100 >= 5 * sample.requests,
              "saturation")
  \/ /\ sample.requests < 100
     /\ pc = "errors"
     /\ pc' = "saturation"
     /\ UNCHANGED <<lock, sample, anomalous, posture, since, raised, now>>

anomalous_saturation == Judge("saturation", sample.saturation > 80, "observe")

\* The observations are added and bl is dropped.
Observe ==
  /\ pc = "observe"
  /\ lock' = None
  /\ pc' = "update"
  /\ UNCHANGED <<sample, anomalous, posture, since, raised, now>>

\* The posture this second asks for, lifted by a learned anomaly.
Target ==
  LET target == compute_target(sample, Thresholds)
  IN  IF target < L2_ELEVATED /\ anomalous THEN L2_ELEVATED ELSE target

\* set_level: the swap, and its time on a change.
set_level(new) ==
  /\ posture' = new
  /\ since' = IF new # posture THEN now ELSE since

\* Raise at once; decay by one level, not below the target, after a minute.
Update ==
  /\ pc = "update"
  /\ pc' = "sleep"
  /\ \/ /\ Target > posture
        /\ set_level(Target)
        /\ raised' = now
     \/ /\ Target < posture
        /\ now - raised >= 1 /\ now - since >= 1
        /\ set_level(IF posture - 1 > Target THEN posture - 1 ELSE Target)
        /\ UNCHANGED raised
     \/ /\ Target = posture \/ (Target < posture /\ (now - raised < 1 \/ now - since < 1))
        /\ UNCHANGED <<posture, since, raised>>
  /\ UNCHANGED <<lock, sample, anomalous, now>>

SentinelStep ==
  \/ SampleSignals \/ LockBaselines
  \/ anomalous_waf \/ anomalous_errors \/ anomalous_saturation
  \/ Observe \/ Update

Next == SentinelStep \/ Tick

\* The thread is scheduled whenever it can run.
FairSpec == Init /\ [][Next]_vars /\ WF_vars(SentinelStep)

(***************************************************************************)
(* Property.                                                               *)
(***************************************************************************)

\* The signals are sampled again and again ("Signals fused (sampled every
\* second)", sentinel.rs): the loop always comes back to its sleep.
KeepsSampling == []<>(pc = "sleep")
=============================================================================
