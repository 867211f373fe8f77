# TLA+ verification of gateway-edge

gateway-edge is an API gateway: NGINX/OpenResty worker processes run a thin Lua
layer (`lua/gateway.lua`) that calls a Rust library (`rust-ext`) over FFI for
every request.  The Rust side decides whether a request is admitted, to which
upstream it goes and under which identity; a separate process
(`config-sidecar`) fetches the configuration.  This directory models the parts
in which processes, threads and long call sequences interact, checks them with
TLC on small instances and proves the central safety results with TLAPS.

Contents: [inventory](#1-inventory), [modules](#2-modules-and-the-code-they-model),
[runs](#3-runs), [fairness](#4-fairness), [findings](#5-findings),
[proofs](#6-proofs), [abstractions](#7-abstractions), [plan](#8-plan),
[how to run](#9-running-it).

## 1. Inventory

### How the parts interact

```
 client -> NGINX worker (1 thread, event loop)          x N processes
             access():  CORS -> process_request (Rust FFI)
                          backpressure::acquire
                          waf -> router -> sentinel shed -> validate -> auth
                              -> rate limit -> quota -> select_upstream
                          (every refusal: backpressure::release, exit code)
             @up_<tier>: proxied exchange, bounded by proxy_read_timeout
             log():     report_telemetry (upstream breaker, global breaker),
                        release_slot if ngx.ctx.admitted is (still) set
 shared by all workers: breaker table, rate-limit table, health table, counters
                        (mmap files)
 per worker process:    in-flight gauge, FFI buffers, router/config snapshots,
                        background threads (rate-limit sync, revocation sync,
                        config watch, health prober, sentinel, exporter)
 outside:               Redis, upstreams, config sidecar + config server
```

A worker runs one handler at a time, so handlers of one worker do not
interleave; handlers of different workers interleave at every access to the
mapped files, and the background threads of a process run beside its handlers.

### Components

| Component | State | Operations | What is hard | What makes it correct |
|---|---|---|---|---|
| Passive circuit breakers (`load_balancing/circuit_breaker.rs`) | three atomics per slot in a shared file: state, failures, last failure time | `is_open`, `record_success`, `record_failure` | workers interleave between the stores of one transition; a worker may die between them | tripping at the threshold, the cooldown, no circuit OPEN for ever |
| Back-pressure (`backpressure.rs`) | `IN_FLIGHT` per process; reads the global breaker | `acquire`, `release` | a slot taken first and given back on a dozen paths | every slot returned exactly once, limit kept, recovery once the global circuit opened |
| Request pipeline (`lib.rs`) and Lua phases (`lua/gateway.lua`) | FFI buffers per worker, `ngx.ctx` and `$target_upstream` per request | `access`, `process_request`, `log`, `report_telemetry`, `release_slot` | early returns; buffers reused by the next request; log phase of requests that were never admitted; `ngx.ctx` lost in `ngx.exec` | every request ends, one release per slot, what is sent upstream belongs to this request |
| Upstream selection (`load_balancing/selector.rs`, `ring.rs`, `ema.rs`) | EWMA per upstream | `select_upstream` with canary split, P2C or ring walk | breakers change while the pool is scanned | a usable member is chosen if there is one; scan ends |
| Per-user rate limiter (`rate_limit.rs`) | one packed 64-bit word per bucket in a shared file; a channel and a Redis thread per process | `check_rate_limit`, sync thread | CAS loop of several workers, late Redis answers, one bucket for services with different limits | the limit per second; a Redis failure never refuses anyone |
| Redis circuit breaker (`redis_cb.rs`) | atomics and a rolling window, per process | `acquire`, `acquire_half_open`, `release`, `trip_open` | counters undone on refusal, reset after the state change, calls that outlive the state they started in | exact in-flight count, probe limit, HALF_OPEN never wedges |
| Active health checks (`health.rs`) | streaks, flag and time of the last check per upstream in a shared file; a registry per process | `slot`, `apply_probe`, `is_healthy`, `probe_loop` | every worker's prober writes the same words without a lock; a zero-filled slot reads as DOWN until it is seeded | nothing is DOWN that has not failed enough probes; the flag comes to agree with the upstream |
| Token validation and revocation (`auth.rs`, `revocation.rs`) | validation cache; revocation snapshot and watermark | `validate_token`, `is_revoked`, `sync_once` | incremental sync from a watermark, stale snapshot, cached verdicts | a revoked token is refused within the bound the docs give |
| Configuration reload (`config.rs`, `router.rs`, `config-sidecar`) | file on disk, router snapshot, config snapshot | sidecar poll + atomic write, `try_reload_config`, `route_request` | two swaps and two loads in between; a file replaced between stat and read; failures and restarts at every step | only complete configurations are served and none again after a newer one; every worker arrives at the published one |
| Sentinel, baselines, latency debt (`sentinel.rs`, `baselines.rs`, `debt.rs`) | level, baselines behind a mutex, debt per upstream | `sentinel_loop`, `compute_target`, `set_level` | a helper takes a lock its caller holds; hysteresis | the loop never blocks itself, levels go up at once and down slowly |
| Daily quota (`quota.rs`) | counter in Redis | `check_quota`, `quota_decision` | Redis failure, day boundary | fails open, bounded over-use |
| Adaptive concurrency, single flight, cache (`adaptive_concurrency.rs`, `single_flight.rs`, `cache.rs`) | counters; in-flight map; entries | permits, flights, get/set/invalidate | drop order, leader that fails | nothing in the gateway calls them |
| WAF, validation, CORS (`waf.rs`, `validate.rs`, `cors.rs`) | per-IP counters (WAF) | `inspect`, `validate_body`, `preflight` | - | pure decisions |
| Telemetry and OTLP export (`telemetry.rs`, `otlp.rs`) | counters and a histogram in a shared file; a bounded channel and the last sample per exporter | `record_request`, `prometheus_text`, `export_metrics`, `drain_traces` | several words per record, loads of a scrape in between, restarts, an exporter that is slow | a histogram that stays cumulative, in memory and in a scrape, no sample sent twice by a process, the log phase never waits |
| Entropy guard (`entropy.rs`) | samples per path | recording, judging | - | nothing calls it |

The hazards of this code, each at its line and with the properties that would
catch it, are listed in `PROJECT.json`.

## 2. Modules and the code they model

`PROJECT.json` maps every definition to its source lines.

**SharedBreaker** - the breaker table.  `state`, `failures` and `age` are the
three words of a slot; `pc`, `arg` and `reg` are each worker's place in a call,
its slot and the time stamp in its register.  One action per atomic load, store,
`fetch_add` or `compare_exchange` of `is_open` (IsOpen...), `record_success`
(Success...) and `record_failure` (Failure...).

**HotPath** - extends SharedBreaker with the life of a request: arrival,
preflight, `acquire`, the refusals of the pipeline, the pool scan that consults
one breaker after the other, canary fallback, admission, the proxied exchange,
the log phase with its two breaker reports, `release_slot`, and the crash of a
worker at any point.  A handler's local work between two accesses to shared
memory is one action.  `inFlight[w]` is `IN_FLIGHT` of process `w`; `admitted`,
`target` and `failed` are `ngx.ctx.admitted`, `$target_upstream` and
"status >= 500".  `Admit` ends with the call `ngx.exec("@up_<tier>")`
(`gateway.lua:236`), modelled by `exec`: OpenResty drops `ngx.ctx` on an internal
redirect while NGINX variables stay, so the log phase finds the upstream but not
the mark.  The history variable `granted[w]` counts the requests process `w` has
admitted since it started.

**ScratchBuffers** - the FFI output buffers of one worker over a sequence of
requests.  There is no yield between the Rust call and the copies Lua makes, so
one request is one action; what differs between the actions is how far
`process_request` got before it returned, hence which buffers it wrote.
`write_c_string` cuts a string that does not fit.

**RateLimit** - one bucket and the counter its user has in Redis.  Hot-path
calls (`Check`, `Load`, `Refuse`, `Allow`, `Retry`) of all workers and their
sync threads (`SyncRecv`, the call, `SyncLoad`, `SyncCas`) access one packed
word.  A call runs the counting script once or not at all: it fails before
(`SyncFail`), its answer is lost (`SyncLost`) or arrives (`SyncReply`); other
nodes count too (`Elsewhere`) and the counter expires (`Expire`).  History
variables count what was really let through per second and service, the seconds
Redis reported over the limit, the share of the other nodes, and whether any
write made the packed word smaller.

**RedisBreaker** - `acquire`, `acquire_half_open`, the call, `release` and
`trip_open`, one action per access to a word that decides something.  In the
gateway only the rate limiter's sync thread calls it; the breaker documents
itself as safe for any number of threads, and that is what is modelled.

**Revocation** - one worker's `validate_token` with its token cache, next to the
thread that runs `sync_once`.  Redis' two indexes and the floors are changed by
the auth service (external) between any two commands of a cycle; a cycle can
fail after each.  Every load of the snapshot by the handler is an action of its
own, because the thread may replace it in between.  History variables record
when a revocation reached the snapshot, and which tokens and users have not
changed since the fetch the snapshot comes from.

**ConfigReload** - the control plane, the sidecar (`Poll`, `Write`, `Rename`, each
of which may fail; `SidecarRestart`), the file with its modification time, the
watch thread of every worker (`WatchStat`, `WatchRead`, `WatchRouter`,
`WatchConfig`), worker restarts, and requests that load the configuration and
then the router (`LoadConfig`, `LoadRouter`).  `is_config_ready` compares the
version with "v0" (`V0`), the name of the built-in default.  Route choice (`find_service`) is
longest prefix first, as the router sorts it.  **ConfigRegister** is its abstract
specification: a register with a history from which every worker serves a usable
entry and never goes back, except to the default by a restart.

**ActiveHealth** - the prober of every worker and readers of the flag, one access
to a shared word per action, with the two-step seeding of `slot` in both.
Upstreams go up and down, the configuration enables and disables checks and
changes the addresses, workers die between any two accesses.

**Telemetry** - `record_request` as one `fetch_add` after the other, scrapes that
load one word after the other while they change (`ScrapeFirst`, `ScrapeSecond`),
the exporter's samples, its deltas and the POSTs that may not arrive, the bounded
span channel, and crashes after which the worker maps the file again and its
exporter starts without a previous sample.  Only the words of the mapping are
modelled, not the counters that a worker keeps for itself.

**Sentinel** - the sampling loop with the mutex around the baselines, the judging
helpers that lock it, `compute_target` over the fused signals, and the rise and
decay of the posture.

**MCHotPath, MCRateLimit, MCScratchBuffers, MCRevocation, MCConfigReload,
MCActiveHealth, MCSentinel** give the constants of the runs; SharedBreaker,
RedisBreaker and Telemetry need none.  **SharedBreakerProofs, HotPathProofs,
RateLimitProofs, RedisBreakerProofs, RevocationProofs, ConfigReloadProofs,
ActiveHealthProofs, TelemetryProofs** hold the theorems about the module each is
named after.

Operators commented "Mutant:" are deliberate mistakes used to confirm that a
property can fail; no specification uses them.

## 3. Runs

| Run | Question | Result |
|---|---|---|
| `breaker` | can interleaved stores leave a breaker CLOSED past its threshold, or OPEN for ever? | no: `ClosedBelowThreshold`, `OpenIsTemporary` (and `TypeOK`) hold |
| `hot_path` | with every exit, canary fallback and crashes: what does the in-flight gauge count, is the limit kept, does every accepted request end and an OPEN global circuit drain the worker? | every request ever admitted (finding 5), every refusal returning its slot once: `GaugeCountsGrants`; and yes: `WithinLimit`, `RequestsFinish`, `OpenDrains` (and `HotTypeOK`) |
| `hot_path_global` | does the global circuit recover? | no, see finding 1 |
| `scratch_identity` | does the upstream only see an identity validated for this request? | no, see finding 2 |
| `rate_limit_shared` | is the CAS loop exact for several workers and sync threads? does anything but an admitted request or a fleet-wide verdict raise a count, or raise it twice? | yes / no: `LimitUnlessRewound`, `CountEarned`, `FleetCountEarned` (and `TypeOK`) |
| `redis_breaker` | are in-flight count and probe limit kept, does HALF_OPEN end? | yes: `InflightExact`, `ProbesBounded`, `HalfOpenEnds` (and `TypeOK`) |
| `revocation` | does the cache bound how long a known revocation is ignored? do token-version floors always arrive? | yes: `CacheWindow`, `FloorsReach` (and `TypeOK`) |
| `revocation_watermark` | does every revocation reach the snapshot with the next successful cycle? | no, see finding 3 |
| `config_reload` | is the distributed configuration a register, does every worker arrive at the published one, is a route of an adopted configuration ever missing? | yes, yes, no: `RefinesRegister`, `Converges`, `MissOnlyInReload` (and `TypeOK`) |
| `active_health` | can two probers without a lock show DOWN what has not failed enough, or leave the flag wrong for good? | no: `DownEarned`, `FlagConverges` (and `TypeOK`) |
| `telemetry` | what do scrapes and exports see of counters written word by word, with a crash in between? | cumulative up to what is under way, in memory and in a scrape, and a counter once from every exporting process: `HistogramShape`, `ScrapeShape`, `SentOncePerProcess`; and `LogEnds` (and `TypeOK`) |
| `sentinel` | are the signals sampled again and again? | no, see finding 4 |

### Bounds

* `breaker`: 3 workers, one slot, threshold 2, cooldown 1 s.  Slots are
  independent words, so one suffices.  A race needs one worker inside a
  transition, one reporting and one consulting: three.  Threshold 2
  distinguishes "one more" from "at the threshold"; the code's 50 failures and
  10 s behave alike.
* `hot_path`, `hot_path_global`: one worker, 2 request objects (reused for
  ever), two upstreams so that both the first subset and the fallback subset are
  scanned, threshold 2, cooldown 0, limit 1; the limit is reached and attempts
  beyond it happen.  In `hot_path` a worker may crash once inside a handler and
  any number of times between handlers, which is what lets it admit again after
  its one slot is gone; `hot_path_global` has no crash.  Handlers never wait for another worker,
  so one worker suffices for progress; the safety properties are proved for any
  number of workers (section 6), and `breaker` interleaves three on the shared
  words.  What a second worker does to the breakers while a pool is scanned is
  outside these two runs.
* `scratch_identity`: 3 users of which one name is too long for its buffer, 2
  regions, 2 upstreams, 2 tiers, 2 fresh ids; what one request leaves in the
  buffers is met by the next, so two requests are enough.
* `rate_limit_shared`: 2 workers with their sync threads, services with limits
  1 and 2 in one bucket, 2 seconds, 4 calls, channel of 1 (full channels occur),
  one increment from elsewhere per counter, a lifetime of one second, so that the
  counter both reaches into the second after and expires in it.  The cfg switches
  the deadlock check off because clock and calls are bounded and the model then
  stops.
* `redis_breaker`: 2 threads, one probe, in-flight limit 1, two failures or one
  timeout to open, deadline of 2 ticks.
* `revocation`: one user, two tokens of different lifetime (one expires within
  the horizon) and version, two floor changes (the second may be stamped earlier
  than the first), cache lifetime 1 s, overlap 1 s, clock up to 2.  Within it
  cache entries and tokens expire, the snapshot drops entries, the index is
  collected and a fail-closed worker goes stale.  The deadlock check is off as
  the clock is bounded.
* `config_reload`: one worker (workers share nothing but the file, which they
  only read), two usable versions that move a path to another service and one
  that does not parse, 3 publications, 2 failures or restarts, anywhere.  One of
  the usable versions is called "v0", like the default.
* `active_health`: 2 probing workers of which one also reads, one address, both
  thresholds 2, one change of the upstream, one reconfiguration or crash.
  Addresses that share a slot are outside the run.  `DownEarned` counts the failed
  probes of a slot and not whether they were consecutive.
* `telemetry`: 2 workers, one with an exporter, 2 buckets and latencies in each,
  2 requests, one crash, channel and batch of 1.  A property of scrapes compares
  two words, so the loads of two, any pair that is compared, are followed, and the
  exporter through its samples of the second.  One worker scrapes while the other
  records; a scrape with an error counter above the total is reached.
* `sentinel`: a calm second, one with an open circuit and one under load.  The
  deadlock check is off because the thread really stops; the property says so.

## 4. Fairness

* SharedBreaker: a started call runs on (no locks, no waits); the clock
  advances; every slot keeps being consulted, since `select_upstream` asks
  `is_open` for every pool member on each request - strong, because the worker
  is in between busy with other calls.  Nothing is assumed about reports.
* HotPath: handlers run to their end; the clock advances; a proxied exchange
  ends because `proxy_read_timeout` bounds it; a finished request gets its log
  phase although others arrive (strong fairness: the event loop serves its queue
  in turn).  Only the run about recovery also assumes that clients keep sending,
  so that lack of traffic is not the reason for not recovering.
* RedisBreaker: threads inside `acquire`/`release` go on, a Redis call ends
  (connect and response timeouts are set), the clock advances, and another
  message comes to be synced.
* ConfigReload: the sidecar's loop and every watch thread go on (both sleep a
  bounded time and every call in them has a timeout or touches a local file).
  Failures are bounded, not unfair.  Requests are not assumed.
* ActiveHealth: every prober goes on; a probe ends by its timeout.  Readers,
  upstreams and reconfigurations are not assumed to do anything.
* Telemetry: a log phase that has begun goes on.  The exporter is not assumed to
  take anything from the channel.
* Sentinel: the thread runs whenever it can; a lock it waits for is released by
  its holder or never.
* RateLimit, ScratchBuffers and Revocation: safety only.

## 5. Findings

The first four are shown by runs whose property states what a comment says of
the code and fails; the fifth by an invariant that states what happens instead.

1. **The global circuit never recovers** (`hot_path_global`,
   `backpressure.rs:34`).  `acquire` only loads the global state; nothing calls
   `is_open` for `__GLOBAL__`, which alone moves OPEN to HALF_OPEN, and refused
   requests report failures that OPEN ignores.
2. **Identity carried over** (`scratch_identity`, `lib.rs:405`).  User and home
   region buffers are written only when the request has them but always read
   back, so an anonymous request carries the identity of an earlier one.
3. **Revocations below the watermark** (`revocation_watermark`,
   `revocation.rs:252`).  The index is read from the highest score seen less a
   minute, but the scores are expiry times (the module comment says event
   times): once a long-lived token was revoked, the revocation of one that
   expires earlier is never fetched.
4. **The sentinel stops in its first second** (`sentinel`, `sentinel.rs:255`).
   The loop holds the guard of `BASELINES` while it calls helpers that lock
   `BASELINES` again; a `std::sync::Mutex` is not reentrant.  The posture
   therefore never leaves its first level, and what depends on it (shedding of
   anonymous requests, the smaller WAF budget) never acts.
5. **Admitted requests never return their slot** (`hot_path`, `gateway.lua:236`).
   `access()` marks the request in `ngx.ctx` and leaves with `ngx.exec`, which
   clears `ngx.ctx`; `log()` releases a slot only if the mark is there
   (`gateway.lua:250`), where 216 says the slot "is held until M.log() releases
   it".  `GaugeCountsGrants` is what holds: the gauge is the number of requests
   the process has ever admitted (plus the one being decided).  By
   `AdmissionsExhausted` a worker therefore refuses everything once it has
   admitted `global_max_concurrency` requests, until it is restarted.

### Seen while modelling

Not given a run of their own:

* `record_failure` makes OPEN visible before it stores `last_failure_time`
  (`circuit_breaker.rs:109`): a worker in `is_open` in between compares with the
  stamp of the previous outage and probes at once, without a cooldown.
* The sync thread saturates the bucket with the second of its message even if
  the bucket has moved on (`rate_limit.rs:291`), and a worker that read `now`
  before the second changed writes the older second (`rate_limit.rs:345-353`);
  the hot path takes an older second for a new window and restarts the count.
  Both are steps of RateLimit that set `rewound`.
* The fleet counter lives two seconds but is compared with the limit of one
  second and one service (`rate_limit.rs:258`, `284`).  A user who sends exactly
  the limit in one second is reported over it by the first request of the next,
  on a single node too: `SyncReply` with a counter that `Tick` carried over.
* A request refused by `acquire` is answered with the request id of the one
  before it (`Overloaded` in ScratchBuffers).
* With two or more threads `probes_dispatched` of the Redis breaker can be reset
  between a probe's increment and its undo, so that the unsigned counter wraps
  (`probes` below zero), and a thread that lost the exchange may probe while
  OPEN - neither can happen with the single calling thread the gateway has today,
  and `ProbesBounded` holds in spite of the first.
* A worker that starts while the file does not parse has no routes until the
  next publication, and a clock set back hides new versions (`config.rs:319`).
* Health checks disabled while an address is DOWN leave it DOWN
  (`health.rs:201`); addresses are never taken out of a prober's registry, so
  `down_ratio` goes on counting removed ones (`health.rs:143`).
* The counters are shared by all workers, but every worker's exporter sends its
  own deltas of them without an attribute that tells workers apart
  and marks them cumulative (`otlp.rs:201`), and one that is restarted begins with
  the whole counter (`otlp.rs:114`): a collector that takes them as the deltas
  they are counts a request once per process that has exported it
  (`SentOncePerProcess` is that bound), one that believes the mark sees counters
  that go back.  A delta whose POST fails is lost.
* A scrape loads total and count before buckets and errors (`telemetry.rs:117-123`,
  `174`), so a bucket may exceed `+Inf` by the recordings that overlap it
  (`ScrapeShape`).
* `prometheus_text` prints counters of the answering worker alone (WAF, cache, rate
  limit, Redis; `telemetry.rs:126-150`) as counters of the node: they go back when
  the next scrape reaches another worker.
* A published configuration whose version is "v0" never makes a worker ready
  (`config.rs:340`); `Converges` leaves such a version out.
* A quota call whose answer is lost is made again and counts twice
  (`quota.rs:136`), as the rate limiter's is not (`FleetCountEarned`).
* Adaptive concurrency gives a place back both in `complete` and when the permit
  is dropped (`adaptive_concurrency.rs:81`, `132`); nothing calls it yet.

## 6. Proofs

All theorems hold for every value of the constants that satisfies the named
ASSUMEs (positive thresholds and limits, finite sets of requests, threads,
workers, tokens and users, the clamps of `CbConfig` (`Normalized`), distinct
names).  Every invariant that a passing run checks is also the statement of a
theorem.

| Module | Theorem | States |
|---|---|---|
| SharedBreakerProofs | `TypeCorrect` | `Spec => []TypeOK` |
| | `ThresholdHonoured` | `Spec => []ClosedBelowThreshold` |
| HotPathProofs | `HotTypeCorrect` | `HotSpec => []HotTypeOK` |
| | `HandlersSeparate` | `HotSpec => []HandlerInv` |
| | `GrantsCounted` | `HotSpec => []GaugeCountsGrants` |
| | `AdmissionsExhausted` | `HotSpec => [](granted[w] <= MaxConcurrency, and at equality no MayAcquire(w))` |
| | `LimitKept` | `HotSpec => []WithinLimit` |
| RateLimitProofs | `RateLimitTyped` | `Spec => []TypeOK` |
| | `LimiterExact` | `Spec => []LimitUnlessRewound` |
| | `CountsEarned` | `Spec => []CountEarned` |
| | `FleetCountsEarned` | `Spec => []FleetCountEarned` |
| RedisBreakerProofs | `BreakerTyped` | `Spec => []TypeOK` |
| | `InflightCounted` | `Spec => []InflightExact` |
| | `ProbesLimited` | `Spec => []ProbesBounded` |
| RevocationProofs | `RevocationTyped` | `Spec => []TypeOK` |
| | `RevocationWindow` | `Spec => []CacheWindow` |
| | `FloorsPropagate` | `Spec => []FloorsReach` |
| ConfigReloadProofs | `ReloadTyped` | `Spec => []TypeOK` |
| | `RoutesKept` | `Spec => []MissOnlyInReload` |
| | `ReloadRefines` | `Spec => RefinesRegister` |
| ActiveHealthProofs | `HealthTyped` | `Spec => []TypeOK` |
| | `NeverDownUnprobed` | `Spec => []DownEarned` |
| TelemetryProofs | `TelemetryTyped` | `Spec => []TypeOK` |
| | `HistogramKept` | `Spec => []HistogramShape` |
| | `ScrapeKeepsShape` | `Spec => []ScrapeShape` |
| | `SentOnce` | `Spec => []SentOncePerProcess` |

*Breaker.*  `ClosedBelowThreshold` is inductive together with `TypeOK`: a count
that reaches the threshold puts its own worker at `failure_trip`; only that
worker's exchange, or a reset, leaves the state in which the property speaks.

*Hot path.*  `GaugeCountsGrants` is not inductive by itself: a log phase must not
release anything, which holds because no request outside `Admit` carries the mark
(`CtxEmpty`), and a refusal must give back the slot of the request being decided.
The invariant is types, plus `HandlerInv` (a worker inside a handler owns a
running request that has no upstream yet while it is being decided; a free request
object carries nothing over), `CtxEmpty`, `GaugeCountsGrants`, the gauge being at
most the limit, and every carried request having been granted by its process
(`CarriedGranted`).  `WithinLimit` follows since the carried requests are no more
than the granted ones, and so does `AdmissionsExhausted`.  A crash is a step like
the others: a worker's requests go with its gauge and its history.

*Rate limiter.*  The limit itself is not an invariant (`rewound`, section 5).  What is
proved is that the CAS loop loses nothing: until some write makes the packed
word smaller, the word covers, for the second it is in, what was admitted to
each service, and no later second has admissions; so `Allow`, which writes
only the successor of the word it judged, keeps every service within its limit.
`CountEarned` needs one more fact: a thread about to saturate the bucket has had
Redis' verdict for the second of its message (`VerdictKnown`), so the only write
that can exceed what was let through goes to a second that was reported.
`FleetCountEarned` adds up channels, calls and seconds.  The sums are the sizes
of sets with one member per message and per admission (`Units`), so that every
step adds or removes a single member; in addition the counter must hold at least
what the other nodes put there, or its expiry could give back more than it took.

*Redis breaker.*  Every step of a thread either leaves the holders of a place
alone, takes one place or gives one back, and changes `inflight` alike
(`WorkMoves`); only `HalfAdd` starts a probe, and only with fewer than
`half_open_probes` calls in flight.  As probes hold places, the exact in-flight
count bounds them, whatever the probe counter says.

*Revocation.*  `CacheWindow` speaks of the moment of acceptance, long after the
entry it relies on was cached.  The invariant adds that clocks read earlier are
not ahead (`Ordered`), that what reached the snapshot stays until it expires
(`Remembered`), that a handler past its revocation check began before the
revocation came (`Passed`) and that every cache entry ends within the window
(`Bounded`).  The exception "or the token has expired" is needed: the handler
reads the clock twice, and the entry may leave the snapshot in between.
`FloorsReach` has an invariant of its own (`FInv`): a floor the snapshot lacks
was indexed no earlier than the watermark less the overlap (`NothingMissed`), so
the next read of the index returns it.  That holds because the watermark is a
publisher's stamp and no stamp is ahead of the clock by more than the overlap
(`Dated`).  During a cycle the same is kept for what the cycle has missed and the
watermark it is going to store (`NothingMissedInCycle`).  A watermark is a
maximum over what was read; that a finite set of numbers has one is proved by
well-founded descent over its subsets (`GreatestValue`).

*Configuration reload.*  The invariant says that only finished temporary files
are renamed (`Written`), that a watch thread holds a usable generation no older
than the one its worker serves, the router being ahead of the configuration
exactly between the two swaps (`Watched`), and that a request holds a
configuration its worker had adopted and a 404 is the answer of a router no older
(`Routed`).  `MissOnlyInReload` follows: with equal generations the router would
have found the route.  For `RefinesRegister` the initial states map to initial
states, `Rename` to an append to the register's history, `WatchConfig` to a move
forward, a worker's restart to the default, and every other step to a stutter.

*Active health.*  Without a lock a streak may lose counts but not gain them:
`fails` never exceeds the failed probes of its slot unless these are enough
anyway, so a prober about to flip a flag DOWN has earned it.  The other way to
read DOWN is the zero-filled mapping: every slot that carries a time, and every
thread past `slot`, has a flag that was seeded or earned (`SlotInv`, `ProberInv`,
`ReaderInv`).

*Telemetry.*  Two words are compared through the recordings between their adds.
If every recording adds to y after x, then y and the recordings in between never
exceed x (`Leads`); if every recording that adds to x adds to y later, x is ahead
by those in between and the torn ones alone (`LagBounded`).  Each `fetch_add`
moves one worker into or out of the set in between, which is what `Remainder`
(the order of the adds still to come, once each, by one) decides.  For a scrape
between its loads (`UnderWay`) the first word and the adds to it still to come are
no more than what was loaded and the recordings that overlap: an add moves one from
the second to the first, only a new recording raises the sum, and it is counted.
For the exporters (`ExportInv`) a process has sent at most its last sample, each
process before it at most what the counter is now; a restart turns the one into
the other, since the mapping is opened as it was left.

Only model-checked: all liveness (`OpenIsTemporary`, `RequestsFinish`,
`OpenDrains`, `HalfOpenEnds`, `Converges`, `FlagConverges`, `LogEnds`), which is
beyond the prover (it has no rules for fairness and ENABLED), and ScratchBuffers
and Sentinel, whose runs show a disagreement with a comment.

## 7. Abstractions

* Atomics are sequentially consistent in the models; the code uses
  acquire/release and relaxed orders, of which only per-word coherence is
  relied on where a property holds for a single word (rate limiter, in-flight).
* Clocks are monotonic.  Time stamps in the breakers are represented by their
  age, cut off where the code can no longer tell ages apart.
* The mapped files survive a worker restart; a fresh file is zero-filled.
* `$target_upstream` survives `ngx.exec` into the upstream location and `ngx.ctx`
  does not, as OpenResty documents; both are outside the repository.
* LimitUnlessRewound speaks of seconds whose bucket was never written with a smaller
  word; how far a rewound bucket over-admits is not bounded by a property.
* The verdicts of WAF, routing, validation, authentication, quota and sentinel,
  the weights of the upstream choice, the health of a member in HotPath, the
  answer of an upstream, and the rolling-window statistics are free choices: the
  properties hold whatever they are.
* Reading the request body may yield, but before the Rust call and with no slot
  held, so it is part of arrival.
* One rate-limit bucket: buckets are independent words.  Users whose names
  hash to the same bucket count as one user, in the bucket (as in the code) and,
  unlike the code, in Redis too.
* EVALSHA, SCRIPT LOAD and EVAL of one sync are one step: only the script
  changes anything, it runs at most once, and the commands before it can only
  fail.
* The modification time of the configuration file grows with every rename.
  Overlays from the environment, CORS and secrets change neither routes nor
  service names and are left out, as are the sidecar's metrics.
* ActiveHealth: streak counters stop one past the larger threshold, above which
  no comparison can tell them apart; each worker has one reader.
* Sentinel: a value above the floor of its baseline may or may not be anomalous;
  time is counted in clean minutes.
* `probes_dispatched` below zero stands for the wrapped 32-bit value; failure
  counters are counted up to the threshold they are compared with.

Not modelled: floating-point statistics (EWMA, percentiles, entropy, latency
debt), string matching (WAF, validation, CORS), text and JSON encoding of
metrics, TLS, caching and buffering directives of NGINX, deployment scripts, the
daily quota, and library code without a caller (adaptive concurrency, single
flight, response cache, entropy guard): a model of it would have to invent the
program that uses it.

## 8. Plan

Done: SharedBreaker, HotPath, ScratchBuffers, RateLimit with its Redis counter,
RedisBreaker, Revocation, ConfigReload with ConfigRegister, ActiveHealth,
Telemetry and Sentinel with their runs, and the proofs above.

Every invariant of the passing runs is proved.  Proofs to follow:

1. HotPath: that its steps on the breaker table are those of SharedBreaker
   (`HotSpec` implements the breaker's `Spec`), which carries `ThresholdHonoured`
   over to the composed system.
2. RedisBreaker: as action properties, which steps may leave OPEN and CLOSED.
3. ScratchBuffers: what does hold of the buffers - an authenticated request is
   forwarded under its own identity.

Models to follow: the rolling window of the Redis breaker (percentile and
bucket reuse against a reference), the daily quota with its retry, and the
choice among upstreams (ring walk, two choices) as pure operators.

## 9. Running it

```
tlc -workers 2 -config HotPath.cfg MCHotPath     # any pair listed in PROJECT.json
tlapm HotPathProofs.tla
```

The longest run (`telemetry`) takes about two minutes on two cores.  Runs
listed as violations end with the counterexample described in section 5.
