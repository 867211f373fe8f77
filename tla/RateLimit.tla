----------------------------- MODULE RateLimit -----------------------------
(***************************************************************************)
(* The per-user rate limiter of rate_limit.rs, seen from one bucket of its *)
(* shared-memory table.                                                    *)
(*                                                                         *)
(* A bucket is one AtomicU64: the second of its window in the high half,   *)
(* the count in the low half.  Every worker process runs check_rate_limit  *)
(* on its event loop and has one background thread that reports admitted   *)
(* requests to Redis and, when the fleet is over the limit, marks the      *)
(* bucket exhausted.  Both write the same word, so one action is one       *)
(* access to it.  The bucket serves every service its user calls, and each *)
(* service has its own limit.                                              *)
(*                                                                         *)
(* Redis holds one counter for the user, which the nodes of the fleet      *)
(* increment by a script that also gives a new counter its lifetime.  The  *)
(* other nodes are the environment: Elsewhere is one increment of theirs.  *)
(***************************************************************************)
EXTENDS Integers, Sequences, FiniteSets

CONSTANTS
  Workers,        \* NGINX worker processes
  Services,       \* services the users of this bucket call
  MaxRps,         \* MaxRps[s]: service.rate_limit_max
  RedisEnabled,   \* rl_redis_enabled()
  KeyTtl,         \* ttl of the Redis counter, in seconds (2)
  ChanCap,        \* capacity of the channel to the sync thread (512)
  None,           \* the sync thread has no message
  MaxTime,        \* bound on the clock
  MaxChecks,      \* bound on the calls of check_rate_limit
  MaxElsewhere    \* bound on the count other nodes add to one counter

ASSUME WorkerAssumption == IsFiniteSet(Workers)
ASSUME RpsAssumption == MaxRps \in [Services -> Nat \ {0}]
ASSUME RedisAssumption == /\ RedisEnabled \in BOOLEAN
                          /\ KeyTtl \in Nat
ASSUME BoundsAssumption == /\ ChanCap \in Nat
                           /\ MaxTime \in Nat \ {0}
                           /\ MaxChecks \in Nat
                           /\ MaxElsewhere \in Nat

VARIABLES
  clock,      \* now_secs_u32()
  word,       \* the bucket
  pc,         \* pc[w]: where worker w is in check_rate_limit
  svc,        \* svc[w]: the service its request is for
  now,        \* now[w]: the second it read when it entered
  current,    \* current[w]: the word it last saw
  chan,       \* chan[w]: the messages for the sync thread of w
  sync,       \* sync[w]: where that thread is
  msg,        \* msg[w]: the message it works on
  seen,       \* seen[w]: the word it loaded before its compare_exchange
  fleet,      \* gateway:rl:{user_id} in Redis; a count of zero is no key
  checks,     \* calls of check_rate_limit so far
  admitted,   \* history: admitted[t][s], requests to s let through in second t
  passed,     \* history: passed[t], requests let through in second t
  over,       \* history: the seconds Redis reported over the limit
  others,     \* history: how much of fleet.count the other nodes added
  rewound     \* history: a write has made the packed word smaller

hotVars  == <<pc, svc, now, current>>
syncVars == <<sync, msg, seen>>
redis    == <<fleet, others>>
served   == <<admitted, passed>>
vars     == <<clock, word, hotVars, chan, syncVars, redis, checks, served,
              over, rewound>>

Seconds  == 0..MaxTime
Words    == [ts : Seconds, count : Nat]
Messages == [ts : Seconds, svc : Services]
Counters == [count : Nat, left : 0..KeyTtl]

TypeOK ==
  /\ clock \in Seconds
  /\ word \in Words
  /\ pc \in [Workers -> {"idle", "load", "cas"}]
  /\ svc \in [Workers -> Services]
  /\ now \in [Workers -> Seconds]
  /\ current \in [Workers -> Words]
  /\ chan \in [Workers -> Seq(Messages)]
  /\ sync \in [Workers -> {"recv", "call", "load", "cas"}]
  /\ msg \in [Workers -> Messages \cup {None}]
  /\ \A w \in Workers : sync[w] # "recv" => msg[w] \in Messages
  /\ seen \in [Workers -> Words]
  /\ fleet \in Counters
  /\ others \in Nat
  /\ checks \in 0..MaxChecks
  /\ admitted \in [Seconds -> [Services -> Nat]]
  /\ passed \in [Seconds -> Nat]
  /\ over \subseteq Seconds
  /\ rewound \in BOOLEAN

Zero  == [ts |-> 0, count |-> 0]
NoKey == [count |-> 0, left |-> 0]

\* The file is zero-filled; second 0 is long past.
Init ==
  /\ clock = 1
  /\ word = Zero
  /\ pc = [w \in Workers |-> "idle"]
  /\ svc \in [Workers -> Services]
  /\ \A v, w \in Workers : svc[v] = svc[w]
  /\ now = [w \in Workers |-> 0]
  /\ current = [w \in Workers |-> Zero]
  /\ chan = [w \in Workers |-> <<>>]
  /\ sync = [w \in Workers |-> "recv"]
  /\ msg = [w \in Workers |-> None]
  /\ seen = [w \in Workers |-> Zero]
  /\ fleet = NoKey /\ others = 0
  /\ checks = 0
  /\ admitted = [t \in Seconds |-> [s \in Services |-> 0]]
  /\ passed = [t \in Seconds |-> 0]
  /\ over = {}
  /\ rewound = FALSE

\* The packed words compare as the pairs (ts, count) do.
Below(a, b) == a.ts < b.ts \/ (a.ts = b.ts /\ a.count < b.count)

\* A store of v into the bucket, with the history of what it does to it.
Write(v) ==
  /\ word' = v
  /\ rewound' = (rewound \/ Below(v, word))

---------------------------------------------------------------------------
(* check_rate_limit *)

\* A limit of zero or an anonymous caller returns before this point.
Check(w, s) ==
  /\ pc[w] = "idle"
  /\ checks < MaxChecks
  /\ checks' = checks + 1
  /\ pc' = [pc EXCEPT ![w] = "load"]
  /\ svc' = [svc EXCEPT ![w] = s]
  /\ now' = [now EXCEPT ![w] = clock]
  /\ UNCHANGED <<clock, word, current, chan, syncVars, redis, served, over,
                 rewound>>

Load(w) ==
  /\ pc[w] = "load"
  /\ pc' = [pc EXCEPT ![w] = "cas"]
  /\ current' = [current EXCEPT ![w] = word]
  /\ UNCHANGED <<clock, word, svc, now, chan, syncVars, redis, checks,
                 served, over, rewound>>

Exhausted(w) ==
  /\ current[w].ts = now[w]
  /\ current[w].count >= MaxRps[svc[w]]

\* The new word of one turn of the loop: a new window starts at one.
NewWord(w) ==
  [ts |-> now[w],
   count |-> IF current[w].ts # now[w] THEN 1 ELSE current[w].count + 1]

\* Mutant: refused requests are counted too.
RefuseCounting(w) ==
  /\ pc[w] = "cas"
  /\ Exhausted(w)
  /\ Write([word EXCEPT !.count = @ + 1])
  /\ pc' = [pc EXCEPT ![w] = "idle"]
  /\ UNCHANGED <<clock, svc, now, current, chan, syncVars, redis, checks,
                 served, over>>

Refuse(w) ==
  /\ pc[w] = "cas"
  /\ Exhausted(w)
  /\ pc' = [pc EXCEPT ![w] = "idle"]
  /\ UNCHANGED <<clock, word, svc, now, current, chan, syncVars, redis,
                 checks, served, over, rewound>>

\* try_send drops the message when the channel is full.
TrySend(w) ==
  chan' = IF RedisEnabled /\ Len(chan[w]) < ChanCap
          THEN [chan EXCEPT ![w] = Append(@, [ts |-> now[w], svc |-> svc[w]])]
          ELSE chan

\* Mutant: a plain store in place of the compare_exchange.
AllowStore(w) ==
  /\ pc[w] = "cas"
  /\ ~ Exhausted(w)
  /\ Write(NewWord(w))
  /\ admitted' = [admitted EXCEPT ![now[w]][svc[w]] = @ + 1]
  /\ passed' = [passed EXCEPT ![now[w]] = @ + 1]
  /\ TrySend(w)
  /\ pc' = [pc EXCEPT ![w] = "idle"]
  /\ UNCHANGED <<clock, svc, now, current, syncVars, redis, checks, over>>

Allow(w) ==
  /\ pc[w] = "cas"
  /\ ~ Exhausted(w)
  /\ word = current[w]
  /\ Write(NewWord(w))
  /\ admitted' = [admitted EXCEPT ![now[w]][svc[w]] = @ + 1]
  /\ passed' = [passed EXCEPT ![now[w]] = @ + 1]
  /\ TrySend(w)
  /\ pc' = [pc EXCEPT ![w] = "idle"]
  /\ UNCHANGED <<clock, svc, now, current, syncVars, redis, checks, over>>

\* The exchange fails: the loop goes on with the word it found.
Retry(w) ==
  /\ pc[w] = "cas"
  /\ ~ Exhausted(w)
  /\ word # current[w]
  /\ current' = [current EXCEPT ![w] = word]
  /\ UNCHANGED <<clock, word, pc, svc, now, chan, syncVars, redis, checks,
                 served, over, rewound>>

---------------------------------------------------------------------------
(* The sync thread *)

SyncRecv(w) ==
  /\ sync[w] = "recv" /\ chan[w] # <<>>
  /\ msg' = [msg EXCEPT ![w] = Head(chan[w])]
  /\ chan' = [chan EXCEPT ![w] = Tail(@)]
  /\ sync' = [sync EXCEPT ![w] = "call"]
  /\ UNCHANGED <<clock, word, hotVars, seen, redis, checks, served, over,
                 rewound>>

\* RL_LUA_SCRIPT: INCR, and EXPIRE for a counter that did not exist.
Incremented ==
  IF fleet = NoKey THEN [count |-> 1, left |-> KeyTtl]
                   ELSE [fleet EXCEPT !.count = @ + 1]

\* The script runs once, atomically, by EVALSHA or, where Redis does not know
\* it, by EVAL after SCRIPT LOAD.
evalsha_or_eval == fleet' = Incremented /\ UNCHANGED others

\* The message is done with.
Done(w) ==
  /\ sync' = [sync EXCEPT ![w] = "recv"]
  /\ msg' = [msg EXCEPT ![w] = None]

\* Mutant: a failed call is repeated although its message is gone.
SyncFailAgain(w) ==
  /\ sync[w] = "call"
  /\ msg' = [msg EXCEPT ![w] = None]
  /\ UNCHANGED <<clock, word, hotVars, chan, sync, seen, redis, checks,
                 served, over, rewound>>

\* The breaker refuses the call, there is no connection, or a command fails
\* before the script has run.
SyncFail(w) ==
  /\ sync[w] = "call"
  /\ Done(w)
  /\ UNCHANGED <<clock, word, hotVars, chan, seen, redis, checks, served,
                 over, rewound>>

\* Mutant: a call whose answer is lost is made again.
SyncLostRetried(w) ==
  /\ sync[w] = "call"
  /\ evalsha_or_eval
  /\ UNCHANGED <<clock, word, hotVars, chan, syncVars, checks, served, over,
                 rewound>>

\* The script has run, but its answer does not arrive in time.
SyncLost(w) ==
  /\ sync[w] = "call"
  /\ evalsha_or_eval
  /\ Done(w)
  /\ UNCHANGED <<clock, word, hotVars, chan, seen, checks, served, over,
                 rewound>>

\* The answer arrives; only a count over the limit of the message matters.
SyncReply(w) ==
  /\ sync[w] = "call"
  /\ evalsha_or_eval
  /\ IF Incremented.count > MaxRps[msg[w].svc]
     THEN /\ sync' = [sync EXCEPT ![w] = "load"]
          /\ over' = over \cup {msg[w].ts}
          /\ UNCHANGED msg
     ELSE Done(w) /\ UNCHANGED over
  /\ UNCHANGED <<clock, word, hotVars, chan, seen, checks, served, rewound>>

SyncLoad(w) ==
  /\ sync[w] = "load"
  /\ seen' = [seen EXCEPT ![w] = word]
  /\ sync' = [sync EXCEPT ![w] = "cas"]
  /\ UNCHANGED <<clock, word, hotVars, chan, msg, redis, checks, served,
                 over, rewound>>

Saturated(m) == [ts |-> m.ts, count |-> MaxRps[m.svc] + 1]

\* One attempt; if the word has changed since the load, nothing is written.
SyncCas(w) ==
  /\ sync[w] = "cas"
  /\ IF word = seen[w] THEN Write(Saturated(msg[w])) ELSE UNCHANGED <<word, rewound>>
  /\ sync' = [sync EXCEPT ![w] = "recv"]
  /\ msg' = [msg EXCEPT ![w] = None]
  /\ UNCHANGED <<clock, hotVars, chan, seen, redis, checks, served, over>>

---------------------------------------------------------------------------

(* Redis and the clock *)

\* A sync thread of another node runs the script for the same user.
Elsewhere ==
  /\ others < MaxElsewhere
  /\ fleet' = Incremented
  /\ others' = others + 1
  /\ UNCHANGED <<clock, word, hotVars, chan, syncVars, checks, served, over,
                 rewound>>

\* The counter is dropped at some moment of the second its lifetime ends in.
Expire ==
  /\ fleet # NoKey /\ fleet.left = 0
  /\ fleet' = NoKey /\ others' = 0
  /\ UNCHANGED <<clock, word, hotVars, chan, syncVars, checks, served, over,
                 rewound>>

Tick ==
  /\ clock < MaxTime
  /\ clock' = clock + 1
  /\ IF fleet.left = 0
     THEN fleet' = NoKey /\ others' = 0
     ELSE fleet' = [fleet EXCEPT !.left = @ - 1] /\ UNCHANGED others
  /\ UNCHANGED <<word, hotVars, chan, syncVars, checks, served, over, rewound>>

Next ==
  \/ Tick \/ Elsewhere \/ Expire
  \/ \E w \in Workers, s \in Services : Check(w, s)
  \/ \E w \in Workers :
       \/ Load(w) \/ Refuse(w) \/ Allow(w) \/ Retry(w) \/ SyncRecv(w)
       \/ SyncFail(w) \/ SyncLost(w) \/ SyncReply(w) \/ SyncLoad(w) \/ SyncCas(w)

Spec == Init /\ [][Next]_vars

---------------------------------------------------------------------------
(* Properties *)

(***************************************************************************)
(* "Enforces the limit locally" (rate_limit.rs:9): in no second do the     *)
(* workers of this node let more than MaxRps[s] requests of the bucket     *)
(* through to service s.                                                   *)
(***************************************************************************)
NodeLimit ==
  \A t \in Seconds, s \in Services : admitted[t][s] <= MaxRps[s]

(***************************************************************************)
(* The compare-and-swap loop loses no request: as long as no write has     *)
(* made the packed word smaller, the limit of every service holds in every *)
(* second, for any number of workers and sync threads (lines 349-368).     *)
(***************************************************************************)
LimitUnlessRewound == ~ rewound => NodeLimit

(***************************************************************************)
(* "No request is ever rejected or blocked due to a Redis failure"         *)
(* (rate_limit.rs:23): what the bucket counts in a second are requests it  *)
(* let through in that second, unless Redis reported the fleet over the    *)
(* limit for it.  A refusal costs nothing and a late write invents none.   *)
(***************************************************************************)
CountEarned == word.ts \in over \/ word.count <= passed[word.ts]

\* n[x] different things for every x of S, to be counted together.
Units(S, n) == UNION {{x} \X (1..n[x]) : x \in S}

LetThrough == Units(Seconds, passed)

\* The messages in the channels, and the threads whose script has yet to run.
Waiting == Units(Workers, [w \in Workers |-> Len(chan[w])])
Calling == {w \in Workers : sync[w] = "call"}

(***************************************************************************)
(* The fleet counter never counts a request of this node twice, nor one    *)
(* that was refused: what this node added to it and what it has yet to add *)
(* are different requests that were let through, however many calls fail   *)
(* before or after the script ran (rate_limit.rs:155-210, 260-306).        *)
(***************************************************************************)
FleetCountEarned ==
  (fleet.count - others) + Cardinality(Waiting) + Cardinality(Calling)
    <= Cardinality(LetThrough)

============================================================================
