------------------------ MODULE SharedBreakerProofs ------------------------
(***************************************************************************)
(* SharedBreaker for any number of workers and slots, any threshold and    *)
(* any cooldown.                                                           *)
(***************************************************************************)
EXTENDS SharedBreaker, TLAPS

(***************************************************************************)
(* The actions grouped by the word of shared memory they write: those that *)
(* only move the worker, and the ones that change a breaker.               *)
(***************************************************************************)
LEMMA StepTyped ==
  ASSUME TypeOK, NEW w \in Workers, Step(w)
  PROVE  TypeOK'
<1> USE ThresholdAssumption, ResetAssumption
        DEF TypeOK, Ages, Elapsed, PCs, Ops, Results, Inside, States, At, Goto
<1>1. CASE IsOpenLoad(w)    BY <1>1 DEF IsOpenLoad
<1>2. CASE IsOpenLast(w)    BY <1>2 DEF IsOpenLast
<1>3. CASE IsOpenStill(w)   BY <1>3 DEF IsOpenStill
<1>4. CASE IsOpenCas(w)     BY <1>4 DEF IsOpenCas
<1>5. CASE SuccessLoad(w)   BY <1>5 DEF SuccessLoad
<1>6. CASE SuccessClose(w)  BY <1>6 DEF SuccessClose
<1>7. CASE SuccessReset(w)  BY <1>7 DEF SuccessReset
<1>8. CASE FailureLoad(w)   BY <1>8 DEF FailureLoad
<1>9. CASE FailureReopen(w) BY <1>9 DEF FailureReopen
<1>10. CASE FailureCount(w) BY <1>10 DEF FailureCount
<1>11. CASE FailureTrip(w)  BY <1>11 DEF FailureTrip
<1>12. CASE FailureNow(w)   BY <1>12 DEF FailureNow
<1>13. CASE FailureStamp(w) BY <1>13 DEF FailureStamp
<1> QED
  BY <1>1, <1>2, <1>3, <1>4, <1>5, <1>6, <1>7, <1>8, <1>9, <1>10, <1>11,
     <1>12, <1>13 DEF Step

\* Starting a call keeps the types.
LEMMA CallTyped ==
  ASSUME TypeOK, NEW w \in Workers, NEW op \in Ops, NEW s \in Slots,
         Call(w, op, s)
  PROVE  TypeOK'
BY ResetAssumption
   DEF TypeOK, Call, Goto, breakerVars, Ages, Elapsed, PCs

\* So does the clock.
LEMMA TickTyped ==
  ASSUME TypeOK, Tick
  PROVE  TypeOK'
<1>1. \A a \in Ages : Older(a) \in Ages
  BY ResetAssumption DEF Older, Ages, Elapsed
<1> QED
  BY <1>1 DEF TypeOK, Tick

(***************************************************************************)
(* Type correctness of the breaker table and of the workers' call frames   *)
(* (circuit_breaker.rs, all operations).                                   *)
(***************************************************************************)
THEOREM TypeCorrect == Spec => []TypeOK
<1>1. Init => TypeOK
  BY ResetAssumption
     DEF Init, InitBreakers, InitFrames, TypeOK, States, Ages, Elapsed, PCs
<1>2. TypeOK /\ [Next]_vars => TypeOK'
  <2> SUFFICES ASSUME TypeOK, [Next]_vars
               PROVE  TypeOK'
    OBVIOUS
  <2>1. CASE Tick
    BY <2>1, TickTyped
  <2>2. ASSUME NEW w \in Workers, Step(w)
        PROVE  TypeOK'
    BY <2>2, StepTyped
  <2>3. ASSUME NEW w \in Workers, NEW op \in Ops, NEW s \in Slots,
               Call(w, op, s)
        PROVE  TypeOK'
    BY <2>3, CallTyped
  <2>4. CASE UNCHANGED vars
    BY <2>4 DEF vars, TypeOK
  <2> QED
    BY <2>1, <2>2, <2>3, <2>4 DEF Next
<1> QED
  BY <1>1, <1>2, PTL DEF Spec

---------------------------------------------------------------------------

Cleaners == {"success_reset", "failure_trip"}

(***************************************************************************)
(* A step that leaves the breakers alone and takes no worker away from a   *)
(* pending reset or trip preserves the invariant.                          *)
(***************************************************************************)
LEMMA LocalStep ==
  ASSUME TypeOK, ClosedBelowThreshold,
         UNCHANGED <<state, failures, arg>>,
         \A w \in Workers : pc[w] \in Cleaners => pc'[w] = pc[w]
  PROVE  ClosedBelowThreshold'
BY DEF ClosedBelowThreshold, Pending, Cleaners

\* Every step of a call leaves a worker responsible for a CLOSED circuit that
\* is at or past its threshold.
LEMMA StepSafe ==
  ASSUME TypeOK, ClosedBelowThreshold, NEW w \in Workers, Step(w)
  PROVE  ClosedBelowThreshold'
<1> USE DEF At, Goto
<1>1. CASE IsOpenLoad(w)
  BY <1>1, LocalStep DEF IsOpenLoad, TypeOK, Cleaners
<1>2. CASE IsOpenLast(w)
  BY <1>2, LocalStep DEF IsOpenLast, TypeOK, Cleaners
<1>3. CASE IsOpenStill(w)
  BY <1>3, LocalStep DEF IsOpenStill, TypeOK, Cleaners
<1>4. CASE IsOpenCas(w)
  BY <1>4 DEF IsOpenCas, TypeOK, ClosedBelowThreshold, Pending
<1>5. CASE SuccessLoad(w)
  BY <1>5, LocalStep DEF SuccessLoad, TypeOK, Cleaners
<1>6. CASE SuccessClose(w)
  BY <1>6 DEF SuccessClose, TypeOK, ClosedBelowThreshold, Pending
<1>7. CASE SuccessReset(w)
  BY <1>7, ThresholdAssumption
     DEF SuccessReset, TypeOK, ClosedBelowThreshold, Pending
<1>8. CASE FailureLoad(w)
  BY <1>8, LocalStep DEF FailureLoad, TypeOK, Cleaners
<1>9. CASE FailureReopen(w)
  BY <1>9 DEF FailureReopen, TypeOK, ClosedBelowThreshold, Pending
<1>10. CASE FailureCount(w)
  BY <1>10, ThresholdAssumption
     DEF FailureCount, TypeOK, ClosedBelowThreshold, Pending
<1>11. CASE FailureTrip(w)
  BY <1>11 DEF FailureTrip, TypeOK, ClosedBelowThreshold, Pending
<1>12. CASE FailureNow(w)
  BY <1>12, LocalStep DEF FailureNow, TypeOK, Cleaners
<1>13. CASE FailureStamp(w)
  BY <1>13, LocalStep DEF FailureStamp, TypeOK, Cleaners
<1> QED
  BY <1>1, <1>2, <1>3, <1>4, <1>5, <1>6, <1>7, <1>8, <1>9, <1>10, <1>11,
     <1>12, <1>13 DEF Step

(***************************************************************************)
(* No interleaving of record_success and record_failure leaves a circuit   *)
(* CLOSED at or past the threshold once the calls in progress have ended   *)
(* (circuit_breaker.rs:91-130).                                            *)
(***************************************************************************)
THEOREM ThresholdHonoured == Spec => []ClosedBelowThreshold
<1>1. Init => ClosedBelowThreshold
  BY ThresholdAssumption DEF Init, InitBreakers, ClosedBelowThreshold
<1>2. TypeOK /\ ClosedBelowThreshold /\ [Next]_vars => ClosedBelowThreshold'
  <2> SUFFICES ASSUME TypeOK, ClosedBelowThreshold, [Next]_vars
               PROVE  ClosedBelowThreshold'
    OBVIOUS
  <2>1. CASE Tick
    BY <2>1, LocalStep DEF Tick
  <2>2. ASSUME NEW w \in Workers, Step(w)
        PROVE  ClosedBelowThreshold'
    BY <2>2, StepSafe
  <2>3. ASSUME NEW w \in Workers, NEW op \in Ops, NEW s \in Slots,
               Call(w, op, s)
        PROVE  ClosedBelowThreshold'
    BY <2>3 DEF Call, Goto, breakerVars, TypeOK, Results,
                ClosedBelowThreshold, Pending
  <2>4. CASE UNCHANGED vars
    BY <2>4, LocalStep DEF vars
  <2> QED
    BY <2>1, <2>2, <2>3, <2>4 DEF Next
<1> QED
  BY <1>1, <1>2, TypeCorrect, PTL DEF Spec

============================================================================
