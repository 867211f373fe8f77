---------------------------- MODULE ActiveHealth ----------------------------
(***************************************************************************)
(* Active health checks.  A prober thread in every worker walks the        *)
(* configured upstream addresses and applies each probe to four words of   *)
(* shared memory, without a lock, while the hot path of every worker reads *)
(* one of them.  A slot is zero-filled at first, which would read as DOWN, *)
(* so whoever touches it first seeds it.  One action is one access to a    *)
(* shared word.                                                            *)
(*                                                                         *)
(* last_check_ms is only ever compared with 0 and is a Boolean here; the   *)
(* streak counters are only ever compared with a threshold from below and  *)
(* stop one past the larger one.                                           *)
(***************************************************************************)
EXTENDS Integers, FiniteSets

CONSTANTS
  Workers,             \* NGINX workers, each with a prober thread
  Readers,             \* bound: the workers whose hot path looks at a flag
  Addresses,           \* upstream addresses
  Slots,               \* slots of the shared region
  SlotOf,              \* SlotOf[a]: the slot the hash of an address selects
  UnhealthyThreshold,  \* failed probes in a row that mark an address DOWN
  HealthyThreshold,    \* good probes in a row that mark it UP
  None,                \* no address
  MaxFlips,            \* bound: changes of the upstreams themselves
  MaxEvents            \* bound: worker crashes and changes of the configuration

ASSUME HealthAssumption ==
  /\ Readers \subseteq Workers
  /\ SlotOf \in [Addresses -> Slots]
  /\ UnhealthyThreshold \in Nat
  /\ HealthyThreshold \in Nat
  /\ None \notin Addresses
  /\ MaxFlips \in Nat /\ MaxEvents \in Nat

AtLeastOne(n) == IF n = 0 THEN 1 ELSE n
DownAfter == AtLeastOne(UnhealthyThreshold)
UpAfter == AtLeastOne(HealthyThreshold)
Cap == 1 + IF DownAfter > UpAfter THEN DownAfter ELSE UpAfter
Bump(n) == IF n < Cap THEN n + 1 ELSE n

VARIABLES
  alive,     \* per address, whether a probe of it succeeds
  flips,     \* changes of alive so far
  conf,      \* the configuration: checks enabled, addresses listed
  events,    \* worker crashes and changes of conf so far
  healthy,   \* shared: the flag of a slot, 1 is UP
  fails,     \* shared: consec_fails
  oks,       \* shared: consec_oks
  checked,   \* shared: last_check_ms # 0
  prober,    \* per worker: [pc, todo, addr, ok, was]
  registry,  \* per worker: the addresses its prober has seen
  reader,    \* per worker, its call of is_healthy: [pc, addr, up]
  failed     \* ghost, per slot: probes that failed, up to the threshold

shared == <<healthy, fails, oks, checked, failed>>
world == <<alive, flips, conf>>
vars == <<world, events, shared, prober, registry, reader>>

\* The prober at the top of a loop over the addresses in todo.
Between(pc, todo) ==
  [pc |-> pc, todo |-> todo, addr |-> None, ok |-> FALSE, was |-> FALSE]

Resting == Between("rest", {})
NotReading == [pc |-> "idle", addr |-> None, up |-> TRUE]

Init ==
  /\ alive \in [Addresses -> BOOLEAN]
  /\ flips = 0
  /\ conf = [enabled |-> TRUE, addrs |-> Addresses]
  /\ events = 0
  /\ healthy = [s \in Slots |-> 0]
  /\ fails = [s \in Slots |-> 0]
  /\ oks = [s \in Slots |-> 0]
  /\ checked = [s \in Slots |-> FALSE]
  /\ prober = [w \in Workers |-> Resting]
  /\ registry = [w \in Workers |-> {}]
  /\ reader = [w \in Workers |-> NotReading]
  /\ failed = [s \in Slots |-> 0]

(***************************************************************************)
(* The upstreams, and the configuration the workers load (external here).  *)
(***************************************************************************)
Flip(a) ==
  /\ flips < MaxFlips
  /\ flips' = flips + 1
  /\ alive' = [alive EXCEPT ![a] = ~@]
  /\ UNCHANGED <<conf, events, shared, prober, registry, reader>>

Reconfigure ==
  /\ events < MaxEvents
  /\ events' = events + 1
  /\ conf' \in [enabled : BOOLEAN, addrs : SUBSET Addresses]
  /\ UNCHANGED <<alive, flips, shared, prober, registry, reader>>

(***************************************************************************)
(* slot(): seed a slot nobody has probed and whose flag is still 0.  The   *)
(* two loads and the store are apart; p is the prober or the hot path at   *)
(* one of them and next is where it goes with a slot that needs no seed.   *)
(***************************************************************************)
slot_checked(p, next) ==
  [p EXCEPT !.pc = IF checked[SlotOf[p.addr]] THEN next ELSE "flag"]

slot_flag(p, next) ==
  [p EXCEPT !.pc = IF healthy[SlotOf[p.addr]] = 0 THEN "seed" ELSE next]

\* Mutant of slot_seed: the flag of a new slot stays as the mapping left it.
slot_seedNot(a) == healthy' = healthy

slot_seed(a) == healthy' = [healthy EXCEPT ![SlotOf[a]] = 1]

(***************************************************************************)
(* The prober thread.                                                      *)
(***************************************************************************)

\* While the configuration does not enable checks the loop sleeps and looks
\* again.
Disabled(w) ==
  /\ prober[w].pc = "rest"
  /\ ~conf.enabled
  /\ UNCHANGED vars

\* Otherwise it goes on, loads the configuration again for the addresses and
\* registers the new ones.
Enabled(w) ==
  /\ prober[w].pc = "rest"
  /\ conf.enabled
  /\ prober' = [prober EXCEPT ![w].pc = "walk"]
  /\ UNCHANGED <<world, events, shared, registry, reader>>

Walk(w) ==
  /\ prober[w].pc = "walk"
  /\ prober' = [prober EXCEPT ![w] = Between("probe", conf.addrs)]
  /\ registry' = [registry EXCEPT ![w] = @ \cup conf.addrs]
  /\ UNCHANGED <<world, events, shared, reader>>

\* One probe over HTTP; a timeout is a failure, so it always ends.
Probe(w) ==
  /\ prober[w].pc = "probe"
  /\ \E a \in prober[w].todo :
       prober' = [prober EXCEPT ![w] = [pc |-> "slot", todo |-> @.todo \ {a},
                                        addr |-> a, ok |-> alive[a], was |-> FALSE]]
  /\ UNCHANGED <<world, events, shared, registry, reader>>

\* All addresses are done: sleep for the interval.
Sleep(w) ==
  /\ prober[w].pc = "probe"
  /\ prober[w].todo = {}
  /\ prober' = [prober EXCEPT ![w] = Resting]
  /\ UNCHANGED <<world, events, shared, registry, reader>>

ProbeSlot(w) ==
  LET p == prober[w]
  IN  /\ \/ /\ p.pc = "slot"
            /\ prober' = [prober EXCEPT ![w] = slot_checked(p, "stamp")]
            /\ UNCHANGED healthy
         \/ /\ p.pc = "flag"
            /\ prober' = [prober EXCEPT ![w] = slot_flag(p, "stamp")]
            /\ UNCHANGED healthy
         \/ /\ p.pc = "seed"
            /\ slot_seed(p.addr)
            /\ prober' = [prober EXCEPT ![w].pc = "stamp"]
      /\ UNCHANGED <<world, events, fails, oks, checked, failed, registry, reader>>

\* apply_probe, an access at a time: last_check_ms, the flag, the other
\* outcome's streak, this outcome's streak, and the flag again on a flip.
Stamp(w) ==
  /\ prober[w].pc = "stamp"
  /\ checked' = [checked EXCEPT ![SlotOf[prober[w].addr]] = TRUE]
  /\ prober' = [prober EXCEPT ![w].pc = "was"]
  /\ UNCHANGED <<world, events, healthy, fails, oks, failed, registry, reader>>

LoadWas(w) ==
  /\ prober[w].pc = "was"
  /\ prober' = [prober EXCEPT ![w].pc = "reset",
                              ![w].was = healthy[SlotOf[prober[w].addr]] = 1]
  /\ UNCHANGED <<world, events, shared, registry, reader>>

\* Mutant of Reset: the other streak decays by one instead.
ResetDecay(w) ==
  LET s == SlotOf[prober[w].addr]
  IN  /\ prober[w].pc = "reset"
      /\ fails' = IF prober[w].ok THEN [fails EXCEPT ![s] = @ - 1] ELSE fails
      /\ oks' = IF prober[w].ok THEN oks ELSE [oks EXCEPT ![s] = @ - 1]
      /\ prober' = [prober EXCEPT ![w].pc = "count"]
      /\ UNCHANGED <<world, events, healthy, checked, failed, registry, reader>>

Reset(w) ==
  LET s == SlotOf[prober[w].addr]
  IN  /\ prober[w].pc = "reset"
      /\ fails' = IF prober[w].ok THEN [fails EXCEPT ![s] = 0] ELSE fails
      /\ oks' = IF prober[w].ok THEN oks ELSE [oks EXCEPT ![s] = 0]
      /\ prober' = [prober EXCEPT ![w].pc = "count"]
      /\ UNCHANGED <<world, events, healthy, checked, failed, registry, reader>>

\* Mutant of Flips: only the probe that completes the streak flips.
FlipsExactly(ok, was, n) == IF ok THEN ~was /\ n = UpAfter ELSE was /\ n = DownAfter

\* Whether a streak that the fetch_add has just made n long flips the flag.
Flips(ok, was, n) == IF ok THEN ~was /\ n >= UpAfter ELSE was /\ n >= DownAfter

Count(w) ==
  LET p == prober[w]
      s == SlotOf[p.addr]
      n == Bump(IF p.ok THEN oks[s] ELSE fails[s])
  IN  /\ p.pc = "count"
      /\ oks' = IF p.ok THEN [oks EXCEPT ![s] = n] ELSE oks
      /\ fails' = IF p.ok THEN fails ELSE [fails EXCEPT ![s] = n]
      /\ failed' = IF p.ok THEN failed ELSE [failed EXCEPT ![s] = IF @ < DownAfter THEN @ + 1 ELSE @]
      /\ prober' = [prober EXCEPT ![w] = IF Flips(p.ok, p.was, n)
                                         THEN [p EXCEPT !.pc = "flip"]
                                         ELSE Between("probe", p.todo)]
      /\ UNCHANGED <<world, events, healthy, checked, registry, reader>>

FlipFlag(w) ==
  LET p == prober[w]
  IN  /\ p.pc = "flip"
      /\ healthy' = [healthy EXCEPT ![SlotOf[p.addr]] = IF p.ok THEN 1 ELSE 0]
      /\ prober' = [prober EXCEPT ![w] = Between("probe", p.todo)]
      /\ UNCHANGED <<world, events, fails, oks, checked, failed, registry, reader>>

ProberStep(w) ==
  \/ Disabled(w) \/ Enabled(w) \/ Walk(w) \/ Probe(w) \/ Sleep(w) \/ ProbeSlot(w)
  \/ Stamp(w) \/ LoadWas(w) \/ Reset(w) \/ Count(w) \/ FlipFlag(w)

\* A worker dies anywhere and is replaced; the shared region survives it.
Crash(w) ==
  /\ events < MaxEvents
  /\ events' = events + 1
  /\ prober' = [prober EXCEPT ![w] = Resting]
  /\ registry' = [registry EXCEPT ![w] = {}]
  /\ reader' = [reader EXCEPT ![w] = NotReading]
  /\ UNCHANGED <<world, shared>>

(***************************************************************************)
(* is_healthy: of a configured address for the selection of an upstream,   *)
(* of a registered one, configured still or not, for down_ratio and the    *)
(* metrics.                                                                *)
(***************************************************************************)
ReadBegin(w) ==
  /\ reader[w].pc = "idle"
  /\ \E a \in conf.addrs \cup registry[w] :
       reader' = [reader EXCEPT ![w] = [pc |-> "slot", addr |-> a, up |-> TRUE]]
  /\ UNCHANGED <<world, events, shared, prober, registry>>

ReadSlot(w) ==
  LET r == reader[w]
  IN  /\ \/ /\ r.pc = "slot"
            /\ reader' = [reader EXCEPT ![w] = slot_checked(r, "load")]
            /\ UNCHANGED healthy
         \/ /\ r.pc = "flag"
            /\ reader' = [reader EXCEPT ![w] = slot_flag(r, "load")]
            /\ UNCHANGED healthy
         \/ /\ r.pc = "seed"
            /\ slot_seed(r.addr)
            /\ reader' = [reader EXCEPT ![w].pc = "load"]
      /\ UNCHANGED <<world, events, fails, oks, checked, failed, prober, registry>>

\* The answer of is_healthy stays in up until the next call.
ReadFlag(w) ==
  /\ reader[w].pc = "load"
  /\ reader' = [reader EXCEPT ![w].pc = "idle",
                              ![w].up = healthy[SlotOf[reader[w].addr]] = 1]
  /\ UNCHANGED <<world, events, shared, prober, registry>>

ReaderStep(w) == ReadBegin(w) \/ ReadSlot(w) \/ ReadFlag(w)

Next ==
  \/ \E a \in Addresses : Flip(a)
  \/ Reconfigure
  \/ \E w \in Workers : ProberStep(w) \/ Crash(w)
  \/ \E w \in Readers : ReaderStep(w)

Spec == Init /\ [][Next]_vars

\* The prober is a thread of its own that only waits for probes with a
\* timeout; nothing is assumed of the hot path.
FairSpec == Spec /\ \A w \in Workers : WF_vars(ProberStep(w))

(***************************************************************************)
(* Properties.                                                             *)
(***************************************************************************)

\* The shared words hold flags and streaks, and the threads of a worker are at
\* a step of probe_loop, slot(), apply_probe or is_healthy.
TypeOK ==
  /\ alive \in [Addresses -> BOOLEAN]
  /\ conf \in [enabled : BOOLEAN, addrs : SUBSET Addresses]
  /\ flips \in 0..MaxFlips /\ events \in 0..MaxEvents
  /\ healthy \in [Slots -> {0, 1}]
  /\ fails \in [Slots -> 0..Cap]
  /\ oks \in [Slots -> 0..Cap]
  /\ checked \in [Slots -> BOOLEAN]
  /\ failed \in [Slots -> 0..DownAfter]
  /\ prober \in [Workers -> [pc : {"rest", "walk", "probe", "slot", "flag", "seed",
                                   "stamp", "was", "reset", "count", "flip"},
                             todo : SUBSET Addresses, addr : Addresses \cup {None},
                             ok : BOOLEAN, was : BOOLEAN]]
  /\ registry \in [Workers -> SUBSET Addresses]
  /\ reader \in [Workers -> [pc : {"idle", "slot", "flag", "seed", "load"},
                             addr : Addresses \cup {None}, up : BOOLEAN]]

\* No worker takes an address for DOWN before unhealthy_threshold probes of
\* its slot have failed: not from the zero-filled mapping, not in the middle of
\* another worker's seed or first probe (is_healthy: "Never-probed addresses
\* are optimistically UP").
DownEarned ==
  \A w \in Workers : ~reader[w].up => failed[SlotOf[reader[w].addr]] >= DownAfter

\* While checks stay enabled, an address that keeps failing its probes is
\* eventually DOWN for good, and one that keeps passing them UP for good,
\* whatever the interleaving of the workers left in the streaks and the flag
\* ("auto-recovery with zero traffic").
FlagConverges ==
  \A a \in Addresses :
    LET probed == conf.enabled /\ a \in conf.addrs
    IN  /\ <>[](probed /\ alive[a]) => <>[](healthy[SlotOf[a]] = 1)
        /\ <>[](probed /\ ~alive[a]) => <>[](healthy[SlotOf[a]] = 0)
=============================================================================
