--------------------------- MODULE HotPathProofs ---------------------------
(***************************************************************************)
(* HotPath for any number of workers, requests and upstreams, any slot     *)
(* assignment (collisions included), any limits, and worker crashes.       *)
(***************************************************************************)
EXTENDS HotPath, SharedBreakerProofs, FiniteSetTheorems

(***************************************************************************)
(* Each action of the hot path keeps the types.                            *)
(***************************************************************************)
LEMMA HotTyped ==
  ASSUME HotTypeOK, HandlerInv, HotNext
  PROVE  HotTypeOK'
<1> USE DEF HotTypeOK, LocalTypeOK, Stages, Phases, workerVars, requestVars,
            lifeVars
<1>1. CASE HotTick
  BY <1>1, TickTyped DEF HotTick
<1>2. ASSUME NEW w \in Workers, HotStep(w)
      PROVE  HotTypeOK'
  BY <1>2, StepTyped DEF HotStep
<1>3. ASSUME NEW w \in Workers, Reject(w)
      PROVE  HotTypeOK'
  BY <1>3 DEF HandlerInv, Reject, Exit, ServerError, ReleaseAndReturn, vars, TypeOK
<1>4. ASSUME NEW w \in Workers, StartSelect(w)
      PROVE  HotTypeOK'
  BY <1>4 DEF StartSelect, vars, TypeOK
<1>5. ASSUME NEW w \in Workers, Consult(w)
      PROVE  HotTypeOK'
  BY <1>5, CallTyped, SlotAssumption DEF Consult, Ops
<1>6. ASSUME NEW w \in Workers, Judge(w)
      PROVE  HotTypeOK'
  BY <1>6 DEF Judge, Goto, HandlerInv, breakerVars, TypeOK, PCs
<1>7. ASSUME NEW w \in Workers, Admit(w)
      PROVE  HotTypeOK'
  BY <1>7 DEF HandlerInv, Scanned, Admit, exec, vars, TypeOK
<1>8. ASSUME NEW w \in Workers, FallBack(w)
      PROVE  HotTypeOK'
  BY <1>8 DEF FallBack, vars, TypeOK
<1>9. ASSUME NEW w \in Workers, NoUpstream(w)
      PROVE  HotTypeOK'
  BY <1>9 DEF HandlerInv, Scanned, NoUpstream, Exit, ServerError, ReleaseAndReturn, vars, TypeOK
<1>10. ASSUME NEW w \in Workers, LogGlobal(w)
       PROVE  HotTypeOK'
  BY <1>10, CallTyped, SlotAssumption DEF LogGlobal, Report, Ops
<1>11. ASSUME NEW w \in Workers, LogEnd(w)
       PROVE  HotTypeOK'
  BY <1>11 DEF HandlerInv, LogEnd, Goto, breakerVars, TypeOK, PCs
<1>12. ASSUME NEW w \in Workers, Crash(w)
       PROVE  HotTypeOK'
  BY <1>12, CrashAssumption DEF Crash, Goto, breakerVars, TypeOK, PCs
<1>13. ASSUME NEW w \in Workers, NEW r \in Requests, Preflight(w, r)
       PROVE  HotTypeOK'
  BY <1>13 DEF Preflight, Exit, ServerError, vars, TypeOK
<1>14. ASSUME NEW w \in Workers, NEW r \in Requests, AcquireRefused(w, r)
       PROVE  HotTypeOK'
  BY <1>14 DEF AcquireRefused, Exit, ServerError, vars, TypeOK
<1>15. ASSUME NEW w \in Workers, NEW r \in Requests, Acquire(w, r)
       PROVE  HotTypeOK'
  BY <1>15 DEF Acquire, vars, TypeOK
<1>16. ASSUME NEW w \in Workers, NEW r \in Requests, Log(w, r)
       PROVE  HotTypeOK'
  BY <1>16, CallTyped, SlotAssumption DEF Log, Report, Ops
<1>17. ASSUME NEW r \in Requests, Respond(r)
       PROVE  HotTypeOK'
  BY <1>17 DEF Respond, vars, TypeOK
<1> QED
  BY <1>1, <1>2, <1>3, <1>4, <1>5, <1>6, <1>7, <1>8, <1>9, <1>10, <1>11,
     <1>12, <1>13, <1>14, <1>15, <1>16, <1>17 DEF HotNext, Handle

---------------------------------------------------------------------------
(***************************************************************************)
(* A step of the breaker code never leaves a worker idle, nor starts one.  *)
(***************************************************************************)
LEMMA StepBusy ==
  ASSUME TypeOK, NEW w \in Workers, Step(w)
  PROVE  /\ pc[w] # "idle"
         /\ pc'[w] # "idle"
         /\ \A v \in Workers : v # w => pc'[v] = pc[v]
<1> USE DEF TypeOK, At, Goto
<1>1. CASE IsOpenLoad(w) \/ IsOpenLast(w) \/ IsOpenStill(w) \/ IsOpenCas(w)
  BY <1>1 DEF IsOpenLoad, IsOpenLast, IsOpenStill, IsOpenCas
<1>2. CASE SuccessLoad(w)
  BY <1>2 DEF SuccessLoad
<1>3. CASE SuccessClose(w) \/ SuccessReset(w)
  BY <1>3 DEF SuccessClose, SuccessReset
<1>4. CASE FailureLoad(w)
  BY <1>4 DEF FailureLoad
<1>5. CASE FailureReopen(w) \/ FailureCount(w) \/ FailureTrip(w)
  BY <1>5 DEF FailureReopen, FailureCount, FailureTrip
<1>6. CASE FailureNow(w) \/ FailureStamp(w)
  BY <1>6 DEF FailureNow, FailureStamp
<1> QED
  BY <1>1, <1>2, <1>3, <1>4, <1>5, <1>6 DEF Step

(***************************************************************************)
(* Handlers keep to their request.                                         *)
(***************************************************************************)
LEMMA HandlerKept ==
  ASSUME HotTypeOK, HandlerInv, HotNext
  PROVE  HandlerInv'
<1> USE NamesAssumption
    DEF HotTypeOK, LocalTypeOK, HandlerInv, Deciding, Phases, workerVars,
        requestVars, exec
<1>1. CASE HotTick
  BY <1>1 DEF HotTick, Tick
<1>2. ASSUME NEW w \in Workers, HotStep(w)
      PROVE  HandlerInv'
  BY <1>2, StepBusy DEF HotStep
<1>3. ASSUME NEW w \in Workers, Reject(w)
      PROVE  HandlerInv'
  BY <1>3 DEF Reject, Exit, ReleaseAndReturn, vars
<1>4. ASSUME NEW w \in Workers, StartSelect(w)
      PROVE  HandlerInv'
  BY <1>4 DEF StartSelect, vars
<1>5. ASSUME NEW w \in Workers, Consult(w)
      PROVE  HandlerInv'
  BY <1>5 DEF Consult, Call, Goto, TypeOK
<1>6. ASSUME NEW w \in Workers, Judge(w)
      PROVE  HandlerInv'
  BY <1>6 DEF Judge, Goto, TypeOK
<1>7. ASSUME NEW w \in Workers, Admit(w)
      PROVE  HandlerInv'
  BY <1>7 DEF Scanned, Admit, vars
<1>8. ASSUME NEW w \in Workers, FallBack(w)
      PROVE  HandlerInv'
  BY <1>8 DEF FallBack, vars
<1>9. ASSUME NEW w \in Workers, NoUpstream(w)
      PROVE  HandlerInv'
  BY <1>9 DEF Scanned, NoUpstream, Exit, ReleaseAndReturn, vars
<1>10. ASSUME NEW w \in Workers, LogGlobal(w)
       PROVE  HandlerInv'
  BY <1>10 DEF LogGlobal, Call, Goto, TypeOK
<1>11. ASSUME NEW w \in Workers, LogEnd(w)
       PROVE  HandlerInv'
  BY <1>11 DEF LogEnd, Goto, TypeOK
<1>12. ASSUME NEW w \in Workers, Crash(w)
       PROVE  HandlerInv'
  BY <1>12 DEF Crash, Goto, TypeOK
<1>13. ASSUME NEW w \in Workers, NEW r \in Requests, Preflight(w, r)
       PROVE  HandlerInv'
  BY <1>13 DEF Preflight, Arrives, Exit, vars
<1>14. ASSUME NEW w \in Workers, NEW r \in Requests, AcquireRefused(w, r)
       PROVE  HandlerInv'
  BY <1>14 DEF AcquireRefused, Arrives, Exit, vars
<1>15. ASSUME NEW w \in Workers, NEW r \in Requests, Acquire(w, r)
       PROVE  HandlerInv'
  BY <1>15 DEF Acquire, Arrives, vars
<1>16. ASSUME NEW w \in Workers, NEW r \in Requests, Log(w, r)
       PROVE  HandlerInv'
  BY <1>16 DEF Log, Call, Goto, TypeOK
<1>17. ASSUME NEW r \in Requests, Respond(r)
       PROVE  HandlerInv'
  BY <1>17 DEF Respond, vars
<1> QED
  BY <1>1, <1>2, <1>3, <1>4, <1>5, <1>6, <1>7, <1>8, <1>9, <1>10, <1>11,
     <1>12, <1>13, <1>14, <1>15, <1>16, <1>17 DEF HotNext, Handle

---------------------------------------------------------------------------
(***************************************************************************)
(* ngx.ctx.admitted does not outlive the handler that sets it.             *)
(***************************************************************************)
CtxEmpty == admitted = {}

\* Only access() sets the flag, and leaves by ngx.exec.
LEMMA CtxKept ==
  ASSUME HotTypeOK, CtxEmpty, HotNext
  PROVE  CtxEmpty'
<1> USE DEF CtxEmpty, requestVars
<1>1. ASSUME NEW w \in Workers, Admit(w)
      PROVE  CtxEmpty'
  BY <1>1 DEF Admit, exec
<1>2. ASSUME NEW w \in Workers, LogEnd(w) \/ Crash(w)
      PROVE  CtxEmpty'
  BY <1>2 DEF LogEnd, Crash
<1>3. CASE UNCHANGED admitted
  BY <1>3
<1> QED
  BY <1>1, <1>2, <1>3
     DEF HotNext, Handle, HotTick, HotStep, Reject, StartSelect, Consult,
         Judge, FallBack, NoUpstream, LogGlobal, Preflight, AcquireRefused,
         Acquire, Log, Respond

---------------------------------------------------------------------------
(* What the gauge counts *)

(***************************************************************************)
(* A step that moves no slot keeps the account.                            *)
(***************************************************************************)
LEMMA NoSlotMoves ==
  ASSUME GaugeCountsGrants, UNCHANGED <<inFlight, granted>>,
         \A v \in Workers : Deciding(v)' <=> Deciding(v)
  PROVE  GaugeCountsGrants'
BY DEF GaugeCountsGrants

(***************************************************************************)
(* A refusal gives back the slot of the request that was being decided.    *)
(***************************************************************************)
LEMMA SlotReturned ==
  ASSUME HotTypeOK, GaugeCountsGrants, NEW w \in Workers,
         Deciding(w), ReleaseAndReturn(w), UNCHANGED granted
  PROVE  GaugeCountsGrants'
BY DEF GaugeCountsGrants, Deciding, ReleaseAndReturn, HotTypeOK, LocalTypeOK

\* Every action keeps the account.
LEMMA AccountKept ==
  ASSUME HotTypeOK, CtxEmpty, GaugeCountsGrants, HotNext
  PROVE  GaugeCountsGrants'
<1> USE DEF HotTypeOK, LocalTypeOK, Deciding, workerVars, lifeVars
<1>1. CASE HotTick
  BY <1>1, NoSlotMoves DEF HotTick
<1>2. ASSUME NEW w \in Workers, HotStep(w)
      PROVE  GaugeCountsGrants'
  BY <1>2, NoSlotMoves DEF HotStep
<1>3. ASSUME NEW w \in Workers, Reject(w) \/ NoUpstream(w)
      PROVE  GaugeCountsGrants'
  BY <1>3, SlotReturned DEF Reject, NoUpstream, Scanned
<1>4. ASSUME NEW w \in Workers, StartSelect(w) \/ Consult(w) \/ Judge(w) \/ FallBack(w)
      PROVE  GaugeCountsGrants'
  BY <1>4, NoSlotMoves DEF StartSelect, Consult, Judge, FallBack
<1>5. ASSUME NEW w \in Workers, Admit(w)
      PROVE  GaugeCountsGrants'
  BY <1>5 DEF Admit, Scanned, GaugeCountsGrants
<1>6. ASSUME NEW w \in Workers, LogGlobal(w)
      PROVE  GaugeCountsGrants'
  BY <1>6, NoSlotMoves DEF LogGlobal
<1>7. ASSUME NEW w \in Workers, LogEnd(w)
      PROVE  GaugeCountsGrants'
  BY <1>7 DEF LogEnd, CtxEmpty, GaugeCountsGrants
<1>8. ASSUME NEW w \in Workers, Crash(w)
      PROVE  GaugeCountsGrants'
  BY <1>8 DEF Crash, GaugeCountsGrants
<1>9. ASSUME NEW w \in Workers, NEW r \in Requests,
             Preflight(w, r) \/ AcquireRefused(w, r)
      PROVE  GaugeCountsGrants'
  BY <1>9, NoSlotMoves DEF Preflight, AcquireRefused
<1>10. ASSUME NEW w \in Workers, NEW r \in Requests, Acquire(w, r)
       PROVE  GaugeCountsGrants'
  BY <1>10 DEF Acquire, Arrives, GaugeCountsGrants
<1>11. ASSUME NEW w \in Workers, NEW r \in Requests, Log(w, r)
       PROVE  GaugeCountsGrants'
  BY <1>11, NoSlotMoves DEF Log
<1>12. ASSUME NEW r \in Requests, Respond(r)
       PROVE  GaugeCountsGrants'
  BY <1>12, NoSlotMoves DEF Respond
<1> QED
  BY <1>1, <1>2, <1>3, <1>4, <1>5, <1>6, <1>7, <1>8, <1>9, <1>10, <1>11,
     <1>12 DEF HotNext, Handle

---------------------------------------------------------------------------
(* The requests a worker carries *)

\* They are finitely many.
LEMMA CarriedFinite ==
  ASSUME NEW w \in Workers
  PROVE  IsFiniteSet(Carried(w)) /\ Cardinality(Carried(w)) \in Nat
BY RequestsAssumption, FS_Subset, FS_CardinalityType DEF Carried

\* Every request a worker carries was granted by the process it now is.
CarriedGranted == \A w \in Workers : Cardinality(Carried(w)) <= granted[w]

(***************************************************************************)
(* A step that takes no request on and forgets no grant keeps this.        *)
(***************************************************************************)
LEMMA NothingTakenOn ==
  ASSUME HotTypeOK, CarriedGranted, UNCHANGED granted,
         \A v \in Workers : Carried(v)' \subseteq Carried(v)
  PROVE  CarriedGranted'
<1> SUFFICES ASSUME NEW v \in Workers
             PROVE  Cardinality(Carried(v)') <= granted[v]
  BY DEF CarriedGranted
<1>1. /\ Cardinality(Carried(v)') \in Nat
      /\ Cardinality(Carried(v)') <= Cardinality(Carried(v))
  BY CarriedFinite, FS_Subset, FS_CardinalityType
<1> QED
  BY <1>1, CarriedFinite DEF CarriedGranted, HotTypeOK, LocalTypeOK

(***************************************************************************)
(* An admission takes one request on and is one grant.                     *)
(***************************************************************************)
LEMMA OneTakenOn ==
  ASSUME HotTypeOK, HandlerInv, CarriedGranted, NEW w \in Workers, Admit(w)
  PROVE  CarriedGranted'
<1>1. /\ cur[w] \in Requests /\ owner[cur[w]] = w
      /\ cur[w] \notin Carried(w)
  BY DEF Admit, Scanned, HandlerInv, Deciding, Carried
<1>2. Carried(w)' \subseteq Carried(w) \cup {cur[w]}
  BY <1>1 DEF Admit, Carried, HotTypeOK, LocalTypeOK
<1>3. \A v \in Workers \ {w} : Carried(v)' = Carried(v)
  BY <1>1 DEF Admit, Carried, HotTypeOK, LocalTypeOK
<1>4. Cardinality(Carried(w) \cup {cur[w]}) = Cardinality(Carried(w)) + 1
  BY <1>1, CarriedFinite, FS_AddElement
<1>5. IsFiniteSet(Carried(w) \cup {cur[w]})
  BY CarriedFinite, FS_AddElement
<1>6. /\ Cardinality(Carried(w)') \in Nat
      /\ Cardinality(Carried(w)') <= Cardinality(Carried(w)) + 1
  BY <1>2, <1>4, <1>5, FS_Subset, FS_CardinalityType
<1>7. /\ granted'[w] = granted[w] + 1
      /\ \A v \in Workers \ {w} : granted'[v] = granted[v]
  BY DEF Admit, HotTypeOK, LocalTypeOK
<1>8. Cardinality(Carried(w)') <= granted'[w]
  BY <1>6, <1>7, CarriedFinite DEF CarriedGranted, HotTypeOK, LocalTypeOK
<1>9. \A v \in Workers \ {w} : Cardinality(Carried(v)') <= granted'[v]
  BY <1>3, <1>7 DEF CarriedGranted
<1> QED
  BY <1>8, <1>9 DEF CarriedGranted

(***************************************************************************)
(* A crash loses the requests of its worker with its grants.               *)
(***************************************************************************)
LEMMA AllLost ==
  ASSUME HotTypeOK, CarriedGranted, NEW w \in Workers, Crash(w)
  PROVE  CarriedGranted'
<1>1. Carried(w)' = {}
  BY NamesAssumption DEF Crash, Carried, HotTypeOK, LocalTypeOK
<1>2. \A v \in Workers \ {w} : Carried(v)' = Carried(v)
  BY NamesAssumption DEF Crash, Carried, HotTypeOK, LocalTypeOK
<1>3. /\ granted'[w] = 0
      /\ \A v \in Workers \ {w} : granted'[v] = granted[v]
  BY DEF Crash, HotTypeOK, LocalTypeOK
<1>4. Cardinality(Carried(w)') <= granted'[w]
  BY <1>1, <1>3, FS_EmptySet
<1>5. \A v \in Workers \ {w} : Cardinality(Carried(v)') <= granted'[v]
  BY <1>2, <1>3 DEF CarriedGranted
<1> QED
  BY <1>4, <1>5 DEF CarriedGranted

\* Every action keeps the carried requests within the grants.
LEMMA CarriedKept ==
  ASSUME HotTypeOK, HandlerInv, CarriedGranted, HotNext
  PROVE  CarriedGranted'
<1> USE DEF HotTypeOK, LocalTypeOK, Carried, workerVars, requestVars, lifeVars
<1>1. CASE UNCHANGED <<owner, target, granted>>
  BY <1>1, NothingTakenOn
<1>2. ASSUME NEW w \in Workers, LogEnd(w)
      PROVE  CarriedGranted'
  BY <1>2, NothingTakenOn, NamesAssumption DEF LogEnd
<1>3. ASSUME NEW w \in Workers, NEW r \in Requests,
             Preflight(w, r) \/ AcquireRefused(w, r) \/ Acquire(w, r)
      PROVE  CarriedGranted'
  <2>1. /\ UNCHANGED <<target, granted>>
        /\ target[r] = None
        /\ \A q \in Requests \ {r} : owner'[q] = owner[q]
    BY <1>3 DEF Preflight, AcquireRefused, Acquire, Arrives, HandlerInv
  <2>2. \A v \in Workers : Carried(v)' \subseteq Carried(v)
    BY <2>1
  <2> QED
    BY <2>1, <2>2, NothingTakenOn
<1> QED
  BY <1>1, <1>2, <1>3, OneTakenOn, AllLost
     DEF HotNext, Handle, HotTick, HotStep, Reject, StartSelect, Consult,
         Judge, FallBack, NoUpstream, LogGlobal, Log, Respond

---------------------------------------------------------------------------
(***************************************************************************)
(* The gauge never passes the limit: acquire takes a slot only below it.   *)
(***************************************************************************)
GaugeBounded == \A w \in Workers : inFlight[w] <= MaxConcurrency

\* No breaker state raises the limit above the configured one.
LEMMA LimitBound == \A st \in States : Limit(st) <= MaxConcurrency
BY LimitAssumption DEF Limit

\* Every action keeps the gauge within the limit.
LEMMA GaugeKept ==
  ASSUME HotTypeOK, GaugeBounded, HotNext
  PROVE  GaugeBounded'
<1> USE LimitAssumption
    DEF HotTypeOK, LocalTypeOK, GaugeBounded, workerVars, requestVars
<1>1. ASSUME NEW w \in Workers, NEW r \in Requests, Acquire(w, r)
      PROVE  GaugeBounded'
  <2>1. GlobalState \in States
    BY SlotAssumption DEF GlobalState, TypeOK
  <2>2. Limit(GlobalState) <= MaxConcurrency /\ Limit(GlobalState) \in Int
    BY <2>1, LimitBound DEF Limit
  <2> QED
    BY <1>1, <2>2 DEF Acquire, MayAcquire
<1>2. ASSUME NEW w \in Workers, Reject(w) \/ NoUpstream(w)
      PROVE  GaugeBounded'
  BY <1>2 DEF Reject, NoUpstream, ReleaseAndReturn
<1>3. ASSUME NEW w \in Workers, LogEnd(w) \/ Crash(w)
      PROVE  GaugeBounded'
  BY <1>3 DEF LogEnd, Crash
<1>4. CASE UNCHANGED inFlight
  BY <1>4
<1> QED
  BY <1>1, <1>2, <1>3, <1>4
     DEF HotNext, Handle, HotTick, HotStep, StartSelect, Consult, Judge,
         Admit, FallBack, LogGlobal, Preflight, AcquireRefused, Log, Respond

---------------------------------------------------------------------------
(***************************************************************************)
(* The inductive invariant.  The handler invariant says which request a    *)
(* release or an admission is for, the empty ngx.ctx that the log phase    *)
(* releases nothing; the limit follows from the gauge, the grants it       *)
(* counts and the requests among them that are still carried.              *)
(***************************************************************************)
IInv == /\ HotTypeOK /\ HandlerInv /\ CtxEmpty
        /\ GaugeCountsGrants /\ GaugeBounded /\ CarriedGranted

\* The initial states satisfy the inductive invariant.
LEMMA InitIInv == HotInit => IInv
<1> SUFFICES ASSUME HotInit PROVE IInv
  OBVIOUS
<1>1. HotTypeOK
  BY ResetAssumption, CrashAssumption
     DEF HotInit, Init, InitBreakers, InitFrames, HotTypeOK, LocalTypeOK,
         TypeOK, States, Ages, Elapsed, PCs, Stages, Phases
<1>2. HandlerInv
  BY DEF HotInit, Init, InitFrames, HandlerInv, Deciding
<1>3. GaugeCountsGrants /\ CtxEmpty
  BY DEF HotInit, GaugeCountsGrants, CtxEmpty, Deciding
<1>4. GaugeBounded
  BY LimitAssumption DEF HotInit, GaugeBounded
<1>5. CarriedGranted
  <2> SUFFICES ASSUME NEW w \in Workers
               PROVE  Cardinality(Carried(w)) <= granted[w]
    BY DEF CarriedGranted
  <2>1. Carried(w) = {} /\ granted[w] = 0
    BY DEF HotInit, Carried
  <2> QED
    BY <2>1, FS_EmptySet
<1> QED
  BY <1>1, <1>2, <1>3, <1>4, <1>5 DEF IInv

\* Every step preserves it.
LEMMA NextIInv == IInv /\ [HotNext]_hotVars => IInv'
<1> SUFFICES ASSUME IInv, [HotNext]_hotVars PROVE IInv'
  OBVIOUS
<1>1. CASE HotNext
  BY <1>1, HotTyped, HandlerKept, CtxKept, AccountKept, GaugeKept, CarriedKept DEF IInv
<1>2. CASE UNCHANGED hotVars
  <2> USE <1>2 DEF IInv, hotVars, vars, workerVars, requestVars, lifeVars
  <2>1. HotTypeOK'
    BY DEF HotTypeOK, LocalTypeOK, TypeOK
  <2>2. HandlerInv'
    BY DEF HandlerInv, Deciding
  <2>3. GaugeCountsGrants' /\ CtxEmpty'
    BY DEF GaugeCountsGrants, CtxEmpty, Deciding
  <2>4. GaugeBounded'
    BY DEF GaugeBounded
  <2>5. CarriedGranted'
    BY DEF CarriedGranted, Carried
  <2> QED
    BY <2>1, <2>2, <2>3, <2>4, <2>5
<1> QED
  BY <1>1, <1>2

\* So it holds in every reachable state.
LEMMA IInvHolds == HotSpec => []IInv
BY InitIInv, NextIInv, PTL DEF HotSpec

(***************************************************************************)
(* Type correctness of the hot path (lib.rs process_request and            *)
(* report_telemetry, gateway.lua access and log).                          *)
(***************************************************************************)
THEOREM HotTypeCorrect == HotSpec => []HotTypeOK
BY IInvHolds, PTL DEF IInv

(***************************************************************************)
(* The in-flight gauge of every worker is the number of requests its       *)
(* process has admitted since it started, plus the one being decided: each *)
(* refusal returns its slot exactly once, no admitted request ever does    *)
(* (lib.rs:130-135, gateway.lua:216-217, 236, 248-252).                    *)
(***************************************************************************)
THEOREM GrantsCounted == HotSpec => []GaugeCountsGrants
BY IInvHolds, PTL DEF IInv

(***************************************************************************)
(* No worker ever carries more requests than global_max_concurrency        *)
(* (backpressure.rs:23-43).                                                *)
(***************************************************************************)
THEOREM LimitKept == HotSpec => []WithinLimit
<1>1. ASSUME IInv, NEW w \in Workers
      PROVE  Cardinality(Carried(w)) <= MaxConcurrency
  <2>1. /\ Cardinality(Carried(w)) \in Nat /\ granted[w] \in Nat
        /\ inFlight[w] \in Int /\ MaxConcurrency \in Nat
    BY <1>1, CarriedFinite, LimitAssumption DEF IInv, HotTypeOK, LocalTypeOK
  <2>2. /\ Cardinality(Carried(w)) <= granted[w]
        /\ granted[w] <= inFlight[w]
        /\ inFlight[w] <= MaxConcurrency
    BY <1>1, <2>1 DEF IInv, GaugeCountsGrants, GaugeBounded, CarriedGranted
  <2> QED
    BY <2>1, <2>2
<1>2. IInv => WithinLimit
  BY <1>1 DEF WithinLimit
<1> QED
  BY <1>2, IInvHolds, PTL

(***************************************************************************)
(* The consequence of slots that are never returned: a worker process      *)
(* admits at most global_max_concurrency requests between its start and    *)
(* its end, and from then on acquire() refuses everything                  *)
(* (backpressure.rs:36-41, gateway.lua:236).                               *)
(***************************************************************************)
THEOREM AdmissionsExhausted ==
  HotSpec => [](\A w \in Workers : /\ granted[w] <= MaxConcurrency
                                   /\ granted[w] = MaxConcurrency => ~ MayAcquire(w))
<1>1. ASSUME IInv, NEW w \in Workers
      PROVE  /\ granted[w] <= MaxConcurrency
             /\ granted[w] = MaxConcurrency => ~ MayAcquire(w)
  <2>1. /\ granted[w] \in Nat /\ inFlight[w] \in Int /\ MaxConcurrency \in Nat
        /\ granted[w] <= inFlight[w] /\ inFlight[w] <= MaxConcurrency
    BY <1>1, LimitAssumption
       DEF IInv, HotTypeOK, LocalTypeOK, GaugeCountsGrants, GaugeBounded
  <2>2. GlobalState \in States
    BY <1>1, SlotAssumption DEF IInv, HotTypeOK, GlobalState, TypeOK
  <2>3. Limit(GlobalState) <= MaxConcurrency /\ Limit(GlobalState) \in Int
    BY <2>2, LimitBound, LimitAssumption DEF Limit
  <2> QED
    BY <2>1, <2>3 DEF MayAcquire
<1>2. IInv => \A w \in Workers : /\ granted[w] <= MaxConcurrency
                                 /\ granted[w] = MaxConcurrency => ~ MayAcquire(w)
  BY <1>1
<1> QED
  BY <1>2, IInvHolds, PTL

(***************************************************************************)
(* A worker inside a handler works on one request of its own, and a free   *)
(* request object carries nothing over (gateway.lua:216-219, 240-252).     *)
(***************************************************************************)
THEOREM HandlersSeparate == HotSpec => []HandlerInv
BY IInvHolds, PTL DEF IInv

============================================================================
