--------------------------- MODULE SharedBreaker ---------------------------
(***************************************************************************)
(* The passive circuit breaker of load_balancing/circuit_breaker.rs.       *)
(*                                                                         *)
(* A breaker is three atomics (state, failures, last_failure_time) in a    *)
(* memory-mapped file that every NGINX worker process maps.  A worker is   *)
(* single-threaded, so it executes one call at a time; the calls of        *)
(* different workers interleave between any two accesses to the shared     *)
(* words, and that is the granularity of the actions below: one atomic     *)
(* load, store, fetch_add or compare_exchange per action.                  *)
(*                                                                         *)
(* Time.  is_open only compares now_secs() with last_failure_time +        *)
(* RESET_TIMEOUT_SECS, so a time stamp is represented by its age in        *)
(* seconds, cut off at ResetTimeout + 1 ("cooldown elapsed"); Tick makes   *)
(* every stamp, in memory or in a worker's register, one second older.     *)
(***************************************************************************)
EXTENDS Integers, FiniteSets

CONSTANTS
  Workers,            \* NGINX worker processes
  Slots,              \* breaker slots of the shared-memory table
  FailureThreshold,   \* FAILURE_THRESHOLD
  ResetTimeout        \* RESET_TIMEOUT_SECS

ASSUME ThresholdAssumption == FailureThreshold \in Nat \ {0}
ASSUME ResetAssumption == ResetTimeout \in Nat

VARIABLES
  state,      \* state[s]: UpstreamCB.state
  failures,   \* failures[s]: UpstreamCB.failures
  age,        \* age[s]: how long ago UpstreamCB.last_failure_time is
  pc,         \* pc[w]: the next atomic access of worker w, or its result
  arg,        \* arg[w]: the slot worker w's current call is about
  reg         \* reg[w]: the time stamp worker w holds in a register

breakerVars == <<state, failures, age>>
frameVars   == <<pc, arg, reg>>
vars        == <<state, failures, age, pc, arg, reg>>

States  == {"closed", "open", "half_open"}
Elapsed == ResetTimeout + 1
Ages    == 0..Elapsed

Ops     == {"is_open", "record_success", "record_failure"}
Results == {"true", "false", "done"}
Inside  == {"is_open_last", "is_open_cas", "success_close", "success_reset",
            "failure_reopen", "failure_count", "failure_trip",
            "failure_now", "failure_stamp"}
PCs     == {"idle"} \cup Ops \cup Results \cup Inside

TypeOK ==
  /\ state \in [Slots -> States]
  /\ failures \in [Slots -> Nat]
  /\ age \in [Slots -> Ages]
  /\ pc \in [Workers -> PCs]
  /\ arg \in [Workers -> Slots]
  /\ reg \in [Workers -> Ages]

(***************************************************************************)
(* A fresh table is all zero bytes: CLOSED, no failures, last failure at   *)
(* the epoch.                                                              *)
(***************************************************************************)
InitBreakers ==
  /\ state = [s \in Slots |-> "closed"]
  /\ failures = [s \in Slots |-> 0]
  /\ age = [s \in Slots |-> Elapsed]

InitFrames ==
  /\ pc = [w \in Workers |-> "idle"]
  /\ arg \in [Workers -> Slots]
  /\ \A v, w \in Workers : arg[v] = arg[w]
  /\ reg = [w \in Workers |-> 0]

Init == InitBreakers /\ InitFrames

Goto(w, l) == pc' = [pc EXCEPT ![w] = l]

At(w, l) == pc[w] = l

(***************************************************************************)
(* A worker that is not inside a call starts one on slot s.                *)
(***************************************************************************)
Call(w, op, s) ==
  /\ pc[w] \in {"idle"} \cup Results
  /\ Goto(w, op)
  /\ arg' = [arg EXCEPT ![w] = s]
  /\ reg' = [reg EXCEPT ![w] = 0]
  /\ UNCHANGED breakerVars

---------------------------------------------------------------------------
(* is_open *)

IsOpenLoad(w) ==
  /\ At(w, "is_open")
  /\ Goto(w, IF state[arg[w]] = "open" THEN "is_open_last" ELSE "false")
  /\ UNCHANGED <<state, failures, age, arg, reg>>

IsOpenLast(w) ==
  /\ At(w, "is_open_last")
  /\ reg' = [reg EXCEPT ![w] = age[arg[w]]]
  /\ Goto(w, "is_open_cas")
  /\ UNCHANGED <<state, failures, age, arg>>

\* now_secs() <= last_fail + RESET_TIMEOUT_SECS
CoolingDown(stampAge) == stampAge <= ResetTimeout

IsOpenStill(w) ==
  /\ At(w, "is_open_cas")
  /\ CoolingDown(reg[w])
  /\ Goto(w, "true")
  /\ UNCHANGED <<state, failures, age, arg, reg>>

\* The loser of the exchange answers by what it found: HALF_OPEN is not open.
IsOpenCas(w) ==
  /\ At(w, "is_open_cas")
  /\ ~ CoolingDown(reg[w])
  /\ state' = [state EXCEPT ![arg[w]] = IF @ = "open" THEN "half_open" ELSE @]
  /\ Goto(w, IF state[arg[w]] = "closed" THEN "true" ELSE "false")
  /\ UNCHANGED <<failures, age, arg, reg>>

---------------------------------------------------------------------------
(* record_success *)

SuccessLoad(w) ==
  /\ At(w, "record_success")
  /\ Goto(w, CASE state[arg[w]] = "half_open" -> "success_close"
               [] state[arg[w]] = "closed"    -> "success_reset"
               [] OTHER                       -> "done")
  /\ UNCHANGED <<state, failures, age, arg, reg>>

SuccessClose(w) ==
  /\ At(w, "success_close")
  /\ state' = [state EXCEPT ![arg[w]] = "closed"]
  /\ Goto(w, "success_reset")
  /\ UNCHANGED <<failures, age, arg, reg>>

\* Mutant: a success takes one failure off instead of resetting the count.
SuccessDecrement(w) ==
  /\ At(w, "success_reset")
  /\ failures' = [failures EXCEPT ![arg[w]] = @ - 1]
  /\ Goto(w, "done")
  /\ UNCHANGED <<state, age, arg, reg>>

SuccessReset(w) ==
  /\ At(w, "success_reset")
  /\ failures' = [failures EXCEPT ![arg[w]] = 0]
  /\ Goto(w, "done")
  /\ UNCHANGED <<state, age, arg, reg>>

---------------------------------------------------------------------------
(* record_failure *)

\* Mutant: a failure reported while OPEN renews last_failure_time.
FailureLoadRenew(w) ==
  /\ At(w, "record_failure")
  /\ Goto(w, CASE state[arg[w]] = "half_open" -> "failure_reopen"
               [] state[arg[w]] = "closed"    -> "failure_count"
               [] OTHER                       -> "failure_now")
  /\ UNCHANGED <<state, failures, age, arg, reg>>

FailureLoad(w) ==
  /\ At(w, "record_failure")
  /\ Goto(w, CASE state[arg[w]] = "half_open" -> "failure_reopen"
               [] state[arg[w]] = "closed"    -> "failure_count"
               [] OTHER                       -> "done")
  /\ UNCHANGED <<state, failures, age, arg, reg>>

FailureReopen(w) ==
  /\ At(w, "failure_reopen")
  /\ state' = [state EXCEPT ![arg[w]] = "open"]
  /\ Goto(w, "failure_now")
  /\ UNCHANGED <<failures, age, arg, reg>>

\* Mutant: the circuit trips one failure too late.
FailureCountLate(w) ==
  /\ At(w, "failure_count")
  /\ failures' = [failures EXCEPT ![arg[w]] = @ + 1]
  /\ Goto(w, IF failures[arg[w]] + 1 > FailureThreshold
             THEN "failure_trip" ELSE "done")
  /\ UNCHANGED <<state, age, arg, reg>>

FailureCount(w) ==
  /\ At(w, "failure_count")
  /\ failures' = [failures EXCEPT ![arg[w]] = @ + 1]
  /\ Goto(w, IF failures[arg[w]] + 1 >= FailureThreshold
             THEN "failure_trip" ELSE "done")
  /\ UNCHANGED <<state, age, arg, reg>>

FailureTrip(w) ==
  /\ At(w, "failure_trip")
  /\ IF state[arg[w]] = "closed"
     THEN /\ state' = [state EXCEPT ![arg[w]] = "open"]
          /\ Goto(w, "failure_now")
     ELSE /\ Goto(w, "done")
          /\ UNCHANGED state
  /\ UNCHANGED <<failures, age, arg, reg>>

\* now_secs() is read into a register and only then stored.
FailureNow(w) ==
  /\ At(w, "failure_now")
  /\ reg' = [reg EXCEPT ![w] = 0]
  /\ Goto(w, "failure_stamp")
  /\ UNCHANGED <<state, failures, age, arg>>

FailureStamp(w) ==
  /\ At(w, "failure_stamp")
  /\ age' = [age EXCEPT ![arg[w]] = reg[w]]
  /\ Goto(w, "done")
  /\ UNCHANGED <<state, failures, arg, reg>>

---------------------------------------------------------------------------

Step(w) ==
  \/ IsOpenLoad(w) \/ IsOpenLast(w) \/ IsOpenStill(w) \/ IsOpenCas(w)
  \/ SuccessLoad(w) \/ SuccessClose(w) \/ SuccessReset(w)
  \/ FailureLoad(w) \/ FailureReopen(w) \/ FailureCount(w) \/ FailureTrip(w)
  \/ FailureNow(w) \/ FailureStamp(w)

Older(a) == IF a < Elapsed THEN a + 1 ELSE a

\* A stamp held in a register grows old with the clock, as one in memory does.
Holding == {"is_open_cas", "failure_stamp"}

Tick ==
  /\ age' = [s \in Slots |-> Older(age[s])]
  /\ reg' = [w \in Workers |->
               IF pc[w] \in Holding THEN Older(reg[w]) ELSE reg[w]]
  /\ UNCHANGED <<state, failures, pc, arg>>

Next ==
  \/ Tick
  \/ \E w \in Workers : Step(w)
  \/ \E w \in Workers, op \in Ops, s \in Slots : Call(w, op, s)

Spec == Init /\ [][Next]_vars

(***************************************************************************)
(* Fairness.  A started call runs to its end (no lock, no wait), the clock *)
(* advances, and every slot keeps being consulted: select_upstream asks    *)
(* is_open of every member of the pool on each request.  Nothing is        *)
(* assumed about reports.                                                  *)
(***************************************************************************)
FairSpec ==
  /\ Spec
  /\ WF_vars(Tick)
  /\ \A w \in Workers : WF_vars(Step(w))
  /\ \A s \in Slots : SF_vars(\E w \in Workers : Call(w, "is_open", s))

---------------------------------------------------------------------------
(* Properties *)

Pending(s, labels) == \E w \in Workers : arg[w] = s /\ pc[w] \in labels

(***************************************************************************)
(* A circuit is never left CLOSED with its failure count at or past the    *)
(* threshold: whenever it is, some worker is about to reset the count      *)
(* (record_success between its two stores) or to open the circuit          *)
(* (record_failure before its compare_exchange).  Lines 91-130.            *)
(***************************************************************************)
ClosedBelowThreshold ==
  \A s \in Slots :
    state[s] = "closed" /\ failures[s] >= FailureThreshold
      => Pending(s, {"success_reset", "failure_trip"})

(***************************************************************************)
(* A circuit that keeps being consulted does not stay OPEN for ever,       *)
(* whatever the other workers report meanwhile.  Lines 63-89.              *)
(***************************************************************************)
OpenIsTemporary ==
  \A s \in Slots : (state[s] = "open") ~> (state[s] # "open")

============================================================================
