------------------------------ MODULE HotPath ------------------------------
(***************************************************************************)
(* The life of a request in the NGINX workers: gateway.lua access(), the   *)
(* Rust process_request (lib.rs) with backpressure::acquire/release, the   *)
(* upstream scan of selector.rs, the proxied exchange, and gateway.lua     *)
(* log() with report_telemetry and release_slot.  The breakers those calls *)
(* consult and report to are the ones of SharedBreaker.                    *)
(*                                                                         *)
(* A worker process runs one handler at a time on its event loop and       *)
(* switches requests only between handlers.  What a handler does locally   *)
(* between two accesses to the shared breakers is one action.              *)
(***************************************************************************)
EXTENDS SharedBreaker

CONSTANTS
  Requests,         \* request objects; one is reused after it is logged
  Upstreams,        \* the addresses of the routed service's regional pool
  Global,           \* the breaker name "__GLOBAL__"
  None,             \* no upstream ($target_upstream is empty), no request
  SlotOf,           \* SlotOf[name]: the table slot a breaker name hashes to
  MaxConcurrency,   \* config.global_max_concurrency
  MaxCrashes        \* bound on crashes in the middle of a handler; with 0
                    \* no worker crashes at all

ASSUME RequestsAssumption == IsFiniteSet(Requests)
ASSUME NamesAssumption == /\ None \notin Upstreams \cup Requests \cup Workers
                          /\ Global \notin Upstreams
ASSUME SlotAssumption == SlotOf \in [Upstreams \cup {Global} -> Slots]
ASSUME LimitAssumption == MaxConcurrency \in Nat \ {0}
ASSUME CrashAssumption == MaxCrashes \in Nat

VARIABLES
  inFlight,   \* inFlight[w]: backpressure::IN_FLIGHT of process w
  stage,      \* stage[w]: where worker w is in the handler it runs
  cur,        \* cur[w]: the request that handler is for
  scan,       \* scan[w]: pool members select_from still has to examine
  rest,       \* rest[w]: the subset to fall back to (canary / stable)
  asked,      \* asked[w]: the member whose breaker is being consulted
  usable,     \* usable[w]: members found not open and healthy
  phase,      \* phase[r]: where request r is outside handlers
  owner,      \* owner[r]: the worker that accepted r
  target,     \* target[r]: $target_upstream
  failed,     \* the requests whose response status is >= 500
  admitted,   \* the requests with ngx.ctx.admitted
  granted,    \* history, granted[w]: the requests that the process now
              \* running as w has answered with a 200 since it started
  crashes     \* crashes in the middle of a handler so far

workerVars  == <<inFlight, stage, cur, scan, rest, asked, usable>>
requestVars == <<phase, owner, target, failed, admitted>>
lifeVars    == <<granted, crashes>>
hotVars     == <<vars, workerVars, requestVars, lifeVars>>

Stages == {"event_loop", "pipeline", "scan", "log_upstream", "log_global"}
Phases == {"none", "running", "proxied", "closing"}

LocalTypeOK ==
  /\ inFlight \in [Workers -> Int]
  /\ stage \in [Workers -> Stages]
  /\ cur \in [Workers -> Requests \cup {None}]
  /\ scan \in [Workers -> SUBSET Upstreams]
  /\ rest \in [Workers -> SUBSET Upstreams]
  /\ asked \in [Workers -> Upstreams \cup {None}]
  /\ usable \in [Workers -> SUBSET Upstreams]
  /\ phase \in [Requests -> Phases]
  /\ owner \in [Requests -> Workers \cup {None}]
  /\ target \in [Requests -> Upstreams \cup {None}]
  /\ failed \subseteq Requests
  /\ admitted \subseteq Requests
  /\ granted \in [Workers -> Nat]
  /\ crashes \in 0..MaxCrashes

HotTypeOK == TypeOK /\ LocalTypeOK

HotInit ==
  /\ Init
  /\ inFlight = [w \in Workers |-> 0]
  /\ stage = [w \in Workers |-> "event_loop"]
  /\ cur = [w \in Workers |-> None]
  /\ scan = [w \in Workers |-> {}]
  /\ rest = [w \in Workers |-> {}]
  /\ asked = [w \in Workers |-> None]
  /\ usable = [w \in Workers |-> {}]
  /\ phase = [r \in Requests |-> "none"]
  /\ owner = [r \in Requests |-> None]
  /\ target = [r \in Requests |-> None]
  /\ failed = {}
  /\ admitted = {}
  /\ granted = [w \in Workers |-> 0]
  /\ crashes = 0

---------------------------------------------------------------------------
(* access(): CORS, then process_request *)

GlobalState == state[SlotOf[Global]]

\* The limit acquire() computes from the state it loaded.
Limit(st) ==
  IF st = "half_open"
  THEN IF MaxConcurrency \div 10 > 1 THEN MaxConcurrency \div 10 ELSE 1
  ELSE MaxConcurrency

\* Mutant: one request more than the limit.
MayAcquireExtra(w) == GlobalState # "open" /\ inFlight[w] <= Limit(GlobalState)

\* Mutant: an open global circuit does not stop admission.
MayAcquireOpen(w) == inFlight[w] < Limit(GlobalState)

\* acquire() lets the request in; a refused fetch_add is undone at once, by
\* the only thread of the process that touches IN_FLIGHT.
MayAcquire(w) == GlobalState # "open" /\ inFlight[w] < Limit(GlobalState)

ServerError(code) == code >= 500

\* The response of a request that never reached an upstream: ngx.exit(code).
Exit(r, code) ==
  /\ phase' = [phase EXCEPT ![r] = "closing"]
  /\ failed' = IF ServerError(code) THEN failed \cup {r} ELSE failed

\* Status codes of the early returns of process_request after acquire: null
\* pointers, WAF, residency, no service, sentinel shedding, body validation,
\* missing authentication, rate limit and quota; 503 too when the region has
\* no pool.
RejectCodes == {400, 401, 403, 404, 413, 415, 429, 500, 503}

Arrives(w, r) == stage[w] = "event_loop" /\ phase[r] = "none"

\* An OPTIONS preflight is answered before the Rust call: no slot is taken.
Preflight(w, r) ==
  /\ Arrives(w, r)
  /\ \E code \in {204, 403} : Exit(r, code)
  /\ owner' = [owner EXCEPT ![r] = w]
  /\ UNCHANGED <<vars, workerVars, target, admitted, lifeVars>>

AcquireRefused(w, r) ==
  /\ Arrives(w, r)
  /\ ~ MayAcquire(w)
  /\ Exit(r, 503)
  /\ owner' = [owner EXCEPT ![r] = w]
  /\ UNCHANGED <<vars, workerVars, target, admitted, lifeVars>>

Acquire(w, r) ==
  /\ Arrives(w, r)
  /\ MayAcquire(w)
  /\ inFlight' = [inFlight EXCEPT ![w] = @ + 1]
  /\ stage' = [stage EXCEPT ![w] = "pipeline"]
  /\ cur' = [cur EXCEPT ![w] = r]
  /\ phase' = [phase EXCEPT ![r] = "running"]
  /\ owner' = [owner EXCEPT ![r] = w]
  /\ UNCHANGED <<vars, scan, rest, asked, usable, target, failed, admitted, lifeVars>>

\* backpressure::release() and the return to the event loop.
ReleaseAndReturn(w) ==
  /\ inFlight' = [inFlight EXCEPT ![w] = @ - 1]
  /\ stage' = [stage EXCEPT ![w] = "event_loop"]
  /\ cur' = [cur EXCEPT ![w] = None]

Reject(w) ==
  /\ stage[w] = "pipeline"
  /\ \E code \in RejectCodes : Exit(cur[w], code)
  /\ ReleaseAndReturn(w)
  /\ UNCHANGED <<vars, scan, rest, asked, usable, owner, target, admitted, lifeVars>>

---------------------------------------------------------------------------
(* select_upstream *)

\* Without a canary policy the whole pool is examined; with one, the chosen
\* subset first and the other only if nothing in the first is usable.
StartSelect(w) ==
  /\ stage[w] = "pipeline"
  /\ stage' = [stage EXCEPT ![w] = "scan"]
  /\ \E first \in (SUBSET Upstreams) \ {{}} :
       /\ scan' = [scan EXCEPT ![w] = first]
       /\ rest' = [rest EXCEPT ![w] = Upstreams \ first]
  /\ usable' = [usable EXCEPT ![w] = {}]
  /\ UNCHANGED <<vars, inFlight, cur, asked, requestVars, lifeVars>>

\* collect_healthy_distinct asks the breaker of the next pool member.
Consult(w) ==
  /\ stage[w] = "scan" /\ pc[w] = "idle"
  /\ \E u \in scan[w] :
       /\ Call(w, "is_open", SlotOf[u])
       /\ asked' = [asked EXCEPT ![w] = u]
       /\ scan' = [scan EXCEPT ![w] = @ \ {u}]
  /\ UNCHANGED <<inFlight, stage, cur, rest, usable, requestVars, lifeVars>>

\* A member is usable if its breaker is not open and the active health
\* checks, which another module decides, call it healthy.
Judge(w) ==
  /\ stage[w] = "scan" /\ pc[w] \in {"true", "false"}
  /\ Goto(w, "idle")
  /\ \/ usable' = [usable EXCEPT ![w] = @ \cup IF pc[w] = "false"
                                               THEN {asked[w]} ELSE {}]
     \/ UNCHANGED usable
  /\ asked' = [asked EXCEPT ![w] = None]
  /\ UNCHANGED <<breakerVars, arg, reg, inFlight, stage, cur, scan, rest,
                 requestVars, lifeVars>>

Scanned(w) == stage[w] = "scan" /\ pc[w] = "idle" /\ scan[w] = {}

\* ngx.exec into a named location: OpenResty clears the module contexts of
\* the request, so that it has an empty ngx.ctx from there on.  NGINX variables
\* such as $target_upstream are kept.
exec(ctx, r) == ctx \ {r}

\* Power of two choices or the ring walk returns some usable member: 200.
\* access() sets ngx.ctx.admitted and execs into @up_<tier>.
Admit(w) ==
  /\ Scanned(w)
  /\ \E u \in usable[w] : target' = [target EXCEPT ![cur[w]] = u]
  /\ admitted' = exec(admitted \cup {cur[w]}, cur[w])
  /\ granted' = [granted EXCEPT ![w] = @ + 1]
  /\ phase' = [phase EXCEPT ![cur[w]] = "proxied"]
  /\ stage' = [stage EXCEPT ![w] = "event_loop"]
  /\ cur' = [cur EXCEPT ![w] = None]
  /\ usable' = [usable EXCEPT ![w] = {}]
  /\ rest' = [rest EXCEPT ![w] = {}]
  /\ UNCHANGED <<vars, inFlight, scan, asked, owner, failed, crashes>>

\* Mutant: the fallback subset is tried again and again.
FallBackAgain(w) ==
  /\ Scanned(w)
  /\ usable[w] = {} /\ rest[w] # {}
  /\ scan' = [scan EXCEPT ![w] = rest[w]]
  /\ UNCHANGED <<vars, inFlight, stage, cur, rest, asked, usable, requestVars,
                 lifeVars>>

FallBack(w) ==
  /\ Scanned(w)
  /\ usable[w] = {} /\ rest[w] # {}
  /\ scan' = [scan EXCEPT ![w] = rest[w]]
  /\ rest' = [rest EXCEPT ![w] = {}]
  /\ UNCHANGED <<vars, inFlight, stage, cur, asked, usable, requestVars,
                 lifeVars>>

NoUpstream(w) ==
  /\ Scanned(w)
  /\ usable[w] = {} /\ rest[w] = {}
  /\ Exit(cur[w], 503)
  /\ ReleaseAndReturn(w)
  /\ UNCHANGED <<vars, scan, rest, asked, usable, owner, target, admitted,
                 lifeVars>>

---------------------------------------------------------------------------
(* The proxied exchange, then log() *)

\* The upstream answers, fails or times out (external).
Respond(r) ==
  /\ phase[r] = "proxied"
  /\ phase' = [phase EXCEPT ![r] = "closing"]
  /\ failed' \in {failed, failed \cup {r}}
  /\ UNCHANGED <<vars, workerVars, owner, target, admitted, lifeVars>>

Report(r) == IF r \in failed THEN "record_failure" ELSE "record_success"

\* report_telemetry: the upstream's breaker first, if there is an upstream.
Log(w, r) ==
  /\ stage[w] = "event_loop"
  /\ phase[r] = "closing" /\ owner[r] = w
  /\ phase' = [phase EXCEPT ![r] = "running"]
  /\ cur' = [cur EXCEPT ![w] = r]
  /\ IF target[r] # None
     THEN /\ Call(w, Report(r), SlotOf[target[r]])
          /\ stage' = [stage EXCEPT ![w] = "log_upstream"]
     ELSE /\ Call(w, Report(r), SlotOf[Global])
          /\ stage' = [stage EXCEPT ![w] = "log_global"]
  /\ UNCHANGED <<inFlight, scan, rest, asked, usable, owner, target, failed,
                 admitted, lifeVars>>

\* record_success_for / record_failure_for: then the global breaker.
LogGlobal(w) ==
  /\ stage[w] = "log_upstream" /\ pc[w] = "done"
  /\ Call(w, Report(cur[w]), SlotOf[Global])
  /\ stage' = [stage EXCEPT ![w] = "log_global"]
  /\ UNCHANGED <<inFlight, cur, scan, rest, asked, usable, requestVars,
                 lifeVars>>

\* Mutant: the log phase releases a slot for every request, admitted or not.
LogEndAlways(w) ==
  /\ stage[w] = "log_global" /\ pc[w] = "done"
  /\ Goto(w, "idle")
  /\ inFlight' = [inFlight EXCEPT ![w] = @ - 1]
  /\ stage' = [stage EXCEPT ![w] = "event_loop"]
  /\ cur' = [cur EXCEPT ![w] = None]
  /\ phase' = [phase EXCEPT ![cur[w]] = "none"]
  /\ owner' = [owner EXCEPT ![cur[w]] = None]
  /\ target' = [target EXCEPT ![cur[w]] = None]
  /\ failed' = failed \ {cur[w]}
  /\ admitted' = admitted \ {cur[w]}
  /\ UNCHANGED <<breakerVars, arg, reg, scan, rest, asked, usable, lifeVars>>

\* The log phase runs in the location the request ended in: @up_<tier> for a
\* proxied one, "/" for one that was refused.  release_slot() is called if
\* ngx.ctx.admitted is set there; the request object is then free.
LogEnd(w) ==
  /\ stage[w] = "log_global" /\ pc[w] = "done"
  /\ Goto(w, "idle")
  /\ inFlight' = [inFlight EXCEPT ![w] = IF cur[w] \in admitted THEN @ - 1 ELSE @]
  /\ stage' = [stage EXCEPT ![w] = "event_loop"]
  /\ cur' = [cur EXCEPT ![w] = None]
  /\ phase' = [phase EXCEPT ![cur[w]] = "none"]
  /\ owner' = [owner EXCEPT ![cur[w]] = None]
  /\ target' = [target EXCEPT ![cur[w]] = None]
  /\ failed' = failed \ {cur[w]}
  /\ admitted' = admitted \ {cur[w]}
  /\ UNCHANGED <<breakerVars, arg, reg, scan, rest, asked, usable, lifeVars>>

---------------------------------------------------------------------------
(***************************************************************************)
(* A worker process dies (a panic aborts it) and NGINX starts another one: *)
(* its requests are gone, IN_FLIGHT starts again at zero, the breaker file *)
(* keeps whatever the interrupted call had stored.  This may happen any    *)
(* number of times between handlers, and MaxCrashes times inside one.      *)
(***************************************************************************)
Crash(w) ==
  /\ IF stage[w] = "event_loop"
     THEN MaxCrashes > 0 /\ UNCHANGED crashes
     ELSE crashes < MaxCrashes /\ crashes' = crashes + 1
  /\ LET Lost(r) == owner[r] = w
     IN /\ phase' = [r \in Requests |-> IF Lost(r) THEN "none" ELSE phase[r]]
        /\ owner' = [r \in Requests |-> IF Lost(r) THEN None ELSE owner[r]]
        /\ target' = [r \in Requests |-> IF Lost(r) THEN None ELSE target[r]]
        /\ failed' = {r \in failed : ~ Lost(r)}
        /\ admitted' = {r \in admitted : ~ Lost(r)}
  /\ granted' = [granted EXCEPT ![w] = 0]
  /\ inFlight' = [inFlight EXCEPT ![w] = 0]
  /\ stage' = [stage EXCEPT ![w] = "event_loop"]
  /\ cur' = [cur EXCEPT ![w] = None]
  /\ scan' = [scan EXCEPT ![w] = {}]
  /\ rest' = [rest EXCEPT ![w] = {}]
  /\ asked' = [asked EXCEPT ![w] = None]
  /\ usable' = [usable EXCEPT ![w] = {}]
  /\ Goto(w, "idle")
  /\ UNCHANGED <<breakerVars, arg, reg>>

HotTick == Tick /\ UNCHANGED <<workerVars, requestVars, lifeVars>>

HotStep(w) == Step(w) /\ UNCHANGED <<workerVars, requestVars, lifeVars>>

\* What worker w does by itself once it is in a handler.
Handle(w) ==
  \/ HotStep(w) \/ Reject(w) \/ StartSelect(w)
  \/ Consult(w) \/ Judge(w) \/ Admit(w) \/ FallBack(w) \/ NoUpstream(w)
  \/ LogGlobal(w) \/ LogEnd(w)

HotNext ==
  \/ HotTick
  \/ \E w \in Workers : Handle(w) \/ Crash(w)
  \/ \E w \in Workers, r \in Requests :
       Preflight(w, r) \/ AcquireRefused(w, r) \/ Acquire(w, r) \/ Log(w, r)
  \/ \E r \in Requests : Respond(r)

HotSpec == HotInit /\ [][HotNext]_hotVars

(***************************************************************************)
(* Fairness.  Handlers run to their end (they never wait on one another),  *)
(* the clock advances, a proxied exchange ends (proxy_read_timeout bounds  *)
(* it), and a finished request gets its log phase although others keep     *)
(* arriving: the event loop is served in turn.                             *)
(***************************************************************************)
FairHotSpec ==
  /\ HotSpec
  /\ WF_hotVars(HotTick)
  /\ \A w \in Workers : WF_hotVars(Handle(w))
  /\ \A r \in Requests : WF_hotVars(Respond(r))
  /\ \A w \in Workers, r \in Requests : SF_hotVars(Log(w, r))

\* Moreover clients keep sending requests to every worker.
TrafficSpec ==
  /\ FairHotSpec
  /\ \A w \in Workers :
       SF_hotVars(\E r \in Requests : Acquire(w, r) \/ AcquireRefused(w, r))

---------------------------------------------------------------------------
(* Properties *)

\* The requests that worker w carries: admitted to an upstream, not yet logged.
Carried(w) == {r \in Requests : owner[r] = w /\ target[r] # None}

Deciding(w) == stage[w] \in {"pipeline", "scan"}

(***************************************************************************)
(* A worker inside a handler works on one request, which it owns and which *)
(* no other worker handles; a request still being decided has no upstream, *)
(* and a free request object carries nothing over from its last use        *)
(* (gateway.lua:216-219, 240-252).                                         *)
(***************************************************************************)
HandlerInv ==
  /\ \A w \in Workers :
       /\ stage[w] \in {"event_loop", "pipeline"} => pc[w] = "idle"
       /\ stage[w] = "event_loop" => cur[w] = None
       /\ stage[w] # "event_loop" => /\ cur[w] \in Requests
                                     /\ phase[cur[w]] = "running"
                                     /\ owner[cur[w]] = w
       /\ Deciding(w) => target[cur[w]] = None
       /\ stage[w] = "scan" /\ pc[w] # "idle" => asked[w] \in Upstreams
  /\ \A r \in Requests : phase[r] = "none" =>
       owner[r] = None /\ target[r] = None /\ r \notin admitted \cup failed

(***************************************************************************)
(* What the in-flight gauge counts.  Every refusal gives its slot back     *)
(* once, whichever of the exits it takes, and neither its log phase nor    *)
(* the one of a request that never took a slot gives one back; a crash     *)
(* takes the slots with the process.  But no admitted request returns its  *)
(* slot: the flag that log() tests is lost in ngx.exec, so the gauge is    *)
(* the number of requests this process has ever admitted, where            *)
(* gateway.lua:216 says the slot "is held until M.log() releases it" and   *)
(* 248 "Release the slot exactly once" (lib.rs:130-135).                   *)
(***************************************************************************)
GaugeCountsGrants ==
  \A w \in Workers :
    inFlight[w] = granted[w] + IF Deciding(w) THEN 1 ELSE 0

(***************************************************************************)
(* A worker never carries more requests than its concurrency limit,        *)
(* counted in requests and not by the gauge that enforces it               *)
(* (backpressure.rs:23-43).                                                *)
(***************************************************************************)
WithinLimit ==
  \A w \in Workers : Cardinality(Carried(w)) <= MaxConcurrency

(***************************************************************************)
(* Every request that a worker accepts is answered, logged and forgotten   *)
(* (or lost with its worker), whatever the other requests and workers do.  *)
(***************************************************************************)
RequestsFinish ==
  \A r \in Requests : (phase[r] # "none") ~> (phase[r] = "none")

(***************************************************************************)
(* "Rejects all traffic when global circuit is fully open"                 *)
(* (backpressure.rs:8): if the global circuit stays OPEN from some moment  *)
(* on, the workers drain and from some later moment on not one request is  *)
(* with an upstream, those admitted before it opened included.             *)
(***************************************************************************)
OpenDrains ==
  <>[](GlobalState = "open") => <>[](\A r \in Requests : phase[r] # "proxied")

(***************************************************************************)
(* The half-open limit of backpressure.rs:7 and the recovery of            *)
(* circuit_breaker.rs:72-75, for the breaker that guards admission: once   *)
(* the global circuit is OPEN it is eventually probed.                     *)
(***************************************************************************)
GlobalRecovers == (GlobalState = "open") ~> (GlobalState # "open")

============================================================================
