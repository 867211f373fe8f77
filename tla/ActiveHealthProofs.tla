------------------------- MODULE ActiveHealthProofs -------------------------
(***************************************************************************)
(* Active health checks, for any number of workers, addresses and slots,   *)
(* any hash, any thresholds and any interleaving of the unlocked accesses: *)
(* no worker takes an address for DOWN that has not earned it.             *)
(*                                                                         *)
(* A streak never counts more failed probes than there were, so only an    *)
(* earned slot is flipped DOWN; and every thread that is past slot(), like *)
(* every slot that carries a time, has a flag that was seeded or earned.   *)
(***************************************************************************)
EXTENDS ActiveHealth, TLAPS

\* DownAfter probes of slot s have failed.
Earned(s) == failed[s] >= DownAfter

\* A flag of 0 in slot s means what it says.
Trusted(s) == healthy[s] = 1 \/ Earned(s)

SlotInv(s) ==
  /\ fails[s] <= failed[s] \/ Earned(s)
  /\ checked[s] => Trusted(s)

ProberInv(w) ==
  LET p == prober[w]
  IN  /\ p.pc \in {"slot", "flag", "seed", "stamp", "was", "reset", "count", "flip"}
           => p.addr \in Addresses
      /\ p.pc = "stamp" => Trusted(SlotOf[p.addr])
      /\ p.pc = "flip" /\ ~p.ok => Earned(SlotOf[p.addr])

ReaderInv(w) ==
  LET r == reader[w]
  IN  /\ r.pc \in {"slot", "flag", "seed", "load"} => r.addr \in Addresses
      /\ r.pc = "load" => Trusted(SlotOf[r.addr])
      /\ ~r.up => r.addr \in Addresses /\ Earned(SlotOf[r.addr])

IInv ==
  /\ TypeOK
  /\ \A s \in Slots : SlotInv(s)
  /\ \A w \in Workers : ProberInv(w) /\ ReaderInv(w)

(***************************************************************************)
(* Constants and types.                                                    *)
(***************************************************************************)

\* The thresholds are at least one and the streaks go past both.
LEMMA Thresholds ==
  /\ DownAfter \in Nat \ {0} /\ UpAfter \in Nat \ {0}
  /\ Cap \in Nat /\ DownAfter < Cap
  /\ \A n \in 0..Cap : Bump(n) \in 0..Cap /\ Bump(n) <= n + 1
BY HealthAssumption DEF DownAfter, UpAfter, AtLeastOne, Cap, Bump

ProberStates ==
  [pc : {"rest", "walk", "probe", "slot", "flag", "seed",
         "stamp", "was", "reset", "count", "flip"},
   todo : SUBSET Addresses, addr : Addresses \cup {None}, ok : BOOLEAN, was : BOOLEAN]

ReaderStates ==
  [pc : {"idle", "slot", "flag", "seed", "load"},
   addr : Addresses \cup {None}, up : BOOLEAN]

\* TypeOK in three parts: the world, the shared words, the threads.
WorldTyped ==
  /\ alive \in [Addresses -> BOOLEAN]
  /\ conf \in [enabled : BOOLEAN, addrs : SUBSET Addresses]
  /\ flips \in 0..MaxFlips /\ events \in 0..MaxEvents

WordsTyped ==
  /\ healthy \in [Slots -> {0, 1}]
  /\ fails \in [Slots -> 0..Cap]
  /\ oks \in [Slots -> 0..Cap]
  /\ checked \in [Slots -> BOOLEAN]
  /\ failed \in [Slots -> 0..DownAfter]

ThreadsTyped ==
  /\ prober \in [Workers -> ProberStates]
  /\ registry \in [Workers -> SUBSET Addresses]
  /\ reader \in [Workers -> ReaderStates]

LEMMA TypeParts ==
  /\ TypeOK <=> WorldTyped /\ WordsTyped /\ ThreadsTyped
  /\ TypeOK' <=> WorldTyped' /\ WordsTyped' /\ ThreadsTyped'
BY DEF TypeOK, WorldTyped, WordsTyped, ThreadsTyped, ProberStates, ReaderStates

\* At first nothing is probed, so nothing is claimed of any flag.
LEMMA InitIInv == Init => IInv
<1> SUFFICES ASSUME Init PROVE IInv
  OBVIOUS
<1>1. WorldTyped /\ WordsTyped
  BY HealthAssumption, Thresholds DEF Init, WorldTyped, WordsTyped
<1>2. ThreadsTyped
  BY DEF Init, ThreadsTyped, ProberStates, ReaderStates, Resting, Between, NotReading
<1>3. \A s \in Slots : SlotInv(s)
  BY DEF Init, SlotInv
<1>4. \A w \in Workers : ProberInv(w) /\ ReaderInv(w)
  BY DEF Init, ProberInv, ReaderInv, Resting, Between, NotReading
<1> QED BY <1>1, <1>2, <1>3, <1>4, TypeParts DEF IInv

(***************************************************************************)
(* What a step says of the threads that do not take it.                    *)
(***************************************************************************)

\* No flag loses its meaning in a step.
Steady == \A s \in Slots : (Earned(s) => Earned(s)') /\ (Trusted(s) => Trusted(s)')

\* The addresses select slots.
LEMMA SlotTyped == \A a \in Addresses : SlotOf[a] \in Slots
BY HealthAssumption

\* A thread that does not move keeps its claims in a steady step.
LEMMA Unmoved ==
  ASSUME Steady, NEW u \in Workers
  PROVE  /\ ProberInv(u) /\ prober'[u] = prober[u] => ProberInv(u)'
         /\ ReaderInv(u) /\ reader'[u] = reader[u] => ReaderInv(u)'
BY SlotTyped DEF Steady, ProberInv, ReaderInv

\* A step of the prober of w keeps the invariant once it keeps the types, the
\* slots and what is claimed of this prober.
LEMMA ProberQed ==
  ASSUME IInv, NEW w \in Workers, WorldTyped', WordsTyped', ThreadsTyped',
         Steady, \A s \in Slots : SlotInv(s)', ProberInv(w)',
         \A u \in Workers \ {w} : prober'[u] = prober[u], UNCHANGED reader
  PROVE  IInv'
<1>1. \A u \in Workers : ProberInv(u)' /\ ReaderInv(u)'
  BY Unmoved DEF IInv
<1> QED BY <1>1, TypeParts DEF IInv

\* A step of the hot path of w, likewise.
LEMMA ReaderQed ==
  ASSUME IInv, NEW w \in Workers, WorldTyped', WordsTyped', ThreadsTyped',
         Steady, \A s \in Slots : SlotInv(s)', ReaderInv(w)',
         \A u \in Workers \ {w} : reader'[u] = reader[u], UNCHANGED prober
  PROVE  IInv'
<1>1. \A u \in Workers : ProberInv(u)' /\ ReaderInv(u)'
  BY Unmoved DEF IInv
<1> QED BY <1>1, TypeParts DEF IInv

\* Unchanged words are steady.
LEMMA Quiet ==
  ASSUME IInv, UNCHANGED shared
  PROVE  /\ Steady /\ WordsTyped'
         /\ \A s \in Slots : SlotInv(s)'
BY TypeParts DEF IInv, shared, Steady, SlotInv, Earned, Trusted, WordsTyped

\* Seeding a flag is steady.
LEMMA SeedSteady ==
  ASSUME IInv, NEW a \in Addresses, slot_seed(a), UNCHANGED <<fails, oks, checked, failed>>
  PROVE  /\ Steady /\ WordsTyped'
         /\ \A s \in Slots : SlotInv(s)'
         /\ Trusted(SlotOf[a])'
BY TypeParts, SlotTyped DEF IInv, slot_seed, Steady, SlotInv, Earned, Trusted, WordsTyped

(***************************************************************************)
(* The steps.                                                              *)
(***************************************************************************)

\* The prober between probes moves without touching a word.
LEMMA IdleKept ==
  ASSUME IInv, NEW w \in Workers,
         Enabled(w) \/ Walk(w) \/ Probe(w) \/ Sleep(w) \/ LoadWas(w)
  PROVE  IInv'
<1> USE DEF world
<1>1. WorldTyped /\ ThreadsTyped /\ ProberInv(w)
  BY TypeParts DEF IInv
<1>2. UNCHANGED <<alive, flips, conf, events, shared, reader>>
  BY DEF Enabled, Walk, Probe, Sleep, LoadWas
<1>3. Steady /\ WordsTyped' /\ \A s \in Slots : SlotInv(s)'
  BY <1>2, Quiet
<1>4. WorldTyped'
  BY <1>1, <1>2 DEF WorldTyped
<1>5. /\ prober' \in [Workers -> ProberStates]
      /\ \A u \in Workers \ {w} : prober'[u] = prober[u]
      /\ \/ prober'[w].pc \in {"walk", "probe", "rest"}
         \/ prober'[w].pc \in {"slot", "reset"} /\ prober'[w].addr \in Addresses
  <2>1. CASE Enabled(w)
    BY <1>1, <2>1 DEF Enabled, ThreadsTyped, ProberStates
  <2>2. CASE Walk(w)
    BY <1>1, <2>2 DEF Walk, Between, WorldTyped, ThreadsTyped, ProberStates
  <2>3. CASE Probe(w)
    BY <1>1, <2>3 DEF Probe, WorldTyped, ThreadsTyped, ProberStates
  <2>4. CASE Sleep(w)
    BY <1>1, <2>4 DEF Sleep, Resting, Between, ThreadsTyped, ProberStates
  <2>5. CASE LoadWas(w)
    <3> DEFINE up == healthy[SlotOf[prober[w].addr]] = 1
    <3>1. up \in BOOLEAN
      OBVIOUS
    <3>2. prober' = [prober EXCEPT ![w].pc = "reset", ![w].was = up]
      BY <2>5 DEF LoadWas
    <3>3. prober[w].addr \in Addresses
      BY <1>1, <2>5 DEF LoadWas, ProberInv
    <3> HIDE DEF up
    <3> QED BY <1>1, <3>1, <3>2, <3>3 DEF ThreadsTyped, ProberStates
  <2> QED BY <2>1, <2>2, <2>3, <2>4, <2>5
<1>6. ThreadsTyped'
  <2>1. registry' \in [Workers -> SUBSET Addresses]
    BY <1>1 DEF Enabled, Walk, Probe, Sleep, LoadWas, WorldTyped, ThreadsTyped
  <2> QED BY <1>1, <1>2, <1>5, <2>1 DEF ThreadsTyped
<1>7. ProberInv(w)'
  BY <1>5 DEF ProberInv
<1> QED BY <1>2, <1>3, <1>4, <1>5, <1>6, <1>7, ProberQed

\* slot() for the prober: past it, the flag is seeded or earned.
LEMMA ProbeSlotKept == ASSUME IInv, NEW w \in Workers, ProbeSlot(w) PROVE IInv'
<1> PICK a : a = prober[w].addr
  OBVIOUS
<1>1. WorldTyped /\ WordsTyped /\ ThreadsTyped /\ ProberInv(w)
  BY TypeParts DEF IInv
<1>2. UNCHANGED <<alive, flips, conf, events, fails, oks, checked, failed, registry, reader>>
  BY DEF ProbeSlot, world
<1>3. a \in Addresses /\ SlotOf[a] \in Slots /\ SlotInv(SlotOf[a])
  BY <1>1, SlotTyped DEF ProbeSlot, ProberInv, IInv
<1>4. WorldTyped'
  BY <1>1, <1>2 DEF WorldTyped
<1>5. /\ Steady /\ WordsTyped' /\ \A s \in Slots : SlotInv(s)'
      /\ prober[w].pc = "seed" => Trusted(SlotOf[a])'
  <2>1. CASE UNCHANGED healthy /\ prober[w].pc # "seed"
    BY <1>2, <2>1, Quiet DEF shared
  <2>2. CASE slot_seed(a)
    BY <1>2, <1>3, <2>2, SeedSteady
  <2> QED BY <2>1, <2>2 DEF ProbeSlot
<1>6. /\ prober' \in [Workers -> ProberStates]
      /\ \A u \in Workers \ {w} : prober'[u] = prober[u]
      /\ prober'[w].addr = prober[w].addr
      /\ prober'[w].pc \in {"flag", "seed", "stamp"}
  <2> DEFINE p == prober[w]
  <2>1. PICK next \in {"flag", "seed", "stamp"} :
          \/ prober' = [prober EXCEPT ![w] = [p EXCEPT !.pc = next]]
          \/ prober' = [prober EXCEPT ![w].pc = next]
    BY DEF ProbeSlot, slot_checked, slot_flag
  <2> QED BY <1>1, <2>1 DEF ThreadsTyped, ProberStates
<1>7. prober'[w].pc = "stamp" => Trusted(SlotOf[a])'
  <2>1. CASE prober[w].pc = "slot"
    BY <1>1, <1>3, <1>5, <2>1
       DEF ProbeSlot, slot_checked, ThreadsTyped, ProberStates, SlotInv, Steady
  <2>2. CASE prober[w].pc = "flag"
    BY <1>1, <1>3, <1>5, <2>2
       DEF ProbeSlot, slot_flag, ThreadsTyped, ProberStates, WordsTyped, Trusted, Steady
  <2>3. CASE prober[w].pc = "seed"
    BY <1>5, <2>3
  <2> QED BY <2>1, <2>2, <2>3 DEF ProbeSlot
<1>8. ThreadsTyped'
  BY <1>1, <1>2, <1>6 DEF ThreadsTyped
<1>9. ProberInv(w)'
  BY <1>3, <1>6, <1>7 DEF ProberInv
<1> QED BY <1>2, <1>4, <1>5, <1>6, <1>8, <1>9, ProberQed

\* A probed slot has a flag to trust before it gets its time.
LEMMA StampKept == ASSUME IInv, NEW w \in Workers, Stamp(w) PROVE IInv'
<1> PICK a : a = prober[w].addr
  OBVIOUS
<1>1. WorldTyped /\ WordsTyped /\ ThreadsTyped /\ ProberInv(w)
  BY TypeParts DEF IInv
<1>2. UNCHANGED <<alive, flips, conf, events, healthy, fails, oks, failed, registry, reader>>
  BY DEF Stamp, world
<1>3. a \in Addresses /\ SlotOf[a] \in Slots /\ Trusted(SlotOf[a])
  BY <1>1, SlotTyped DEF Stamp, ProberInv
<1>4. WorldTyped'
  BY <1>1, <1>2 DEF WorldTyped
<1>5. Steady
  BY <1>2 DEF Steady, Earned, Trusted
<1>6. WordsTyped' /\ \A s \in Slots : SlotInv(s)'
  BY <1>1, <1>2, <1>3 DEF Stamp, IInv, WordsTyped, SlotInv, Trusted, Earned
<1>7. /\ prober' \in [Workers -> ProberStates]
      /\ \A u \in Workers \ {w} : prober'[u] = prober[u]
      /\ prober'[w].addr = a /\ prober'[w].pc = "was"
  BY <1>1 DEF Stamp, ThreadsTyped, ProberStates
<1>8. ThreadsTyped'
  BY <1>1, <1>2, <1>7 DEF ThreadsTyped
<1>9. ProberInv(w)'
  BY <1>3, <1>7 DEF ProberInv
<1> QED BY <1>2, <1>4, <1>5, <1>6, <1>7, <1>8, <1>9, ProberQed

\* Resetting a streak only lowers it.
LEMMA ResetKept == ASSUME IInv, NEW w \in Workers, Reset(w) PROVE IInv'
<1> PICK a : a = prober[w].addr
  OBVIOUS
<1>1. WorldTyped /\ WordsTyped /\ ThreadsTyped /\ ProberInv(w)
  BY TypeParts DEF IInv
<1>2. UNCHANGED <<alive, flips, conf, events, healthy, checked, failed, registry, reader>>
  BY DEF Reset, world
<1>3. a \in Addresses /\ SlotOf[a] \in Slots
  BY <1>1, SlotTyped DEF Reset, ProberInv
<1>4. WorldTyped'
  BY <1>1, <1>2 DEF WorldTyped
<1>5. Steady
  BY <1>2 DEF Steady, Earned, Trusted
<1>6. WordsTyped' /\ \A s \in Slots : SlotInv(s)'
  <2>1. /\ fails' = fails \/ fails' = [fails EXCEPT ![SlotOf[a]] = 0]
        /\ oks' = oks \/ oks' = [oks EXCEPT ![SlotOf[a]] = 0]
    BY DEF Reset
  <2> QED
    BY <1>1, <1>2, <1>3, <2>1, Thresholds
       DEF IInv, WordsTyped, SlotInv, Trusted, Earned
<1>7. /\ prober' \in [Workers -> ProberStates]
      /\ \A u \in Workers \ {w} : prober'[u] = prober[u]
      /\ prober'[w].addr = a /\ prober'[w].pc = "count"
  BY <1>1 DEF Reset, ThreadsTyped, ProberStates
<1>8. ThreadsTyped'
  BY <1>1, <1>2, <1>7 DEF ThreadsTyped
<1>9. ProberInv(w)'
  BY <1>3, <1>7 DEF ProberInv
<1> QED BY <1>2, <1>4, <1>5, <1>6, <1>7, <1>8, <1>9, ProberQed

\* A streak of failures grows with the failed probes, so that the probe that
\* is to flip the flag DOWN finds the slot earned.
LEMMA CountKept == ASSUME IInv, NEW w \in Workers, Count(w) PROVE IInv'
<1> PICK p : p = prober[w]
  OBVIOUS
<1> PICK s : s = SlotOf[p.addr]
  OBVIOUS
<1> PICK n : n = Bump(IF p.ok THEN oks[s] ELSE fails[s])
  OBVIOUS
<1>1. WorldTyped /\ WordsTyped /\ ThreadsTyped /\ ProberInv(w)
  BY TypeParts DEF IInv
<1>2. UNCHANGED <<alive, flips, conf, events, healthy, checked, registry, reader>>
  BY DEF Count, world
<1>3. p.addr \in Addresses /\ s \in Slots /\ SlotInv(s) /\ p \in ProberStates
  BY <1>1, SlotTyped DEF Count, ProberInv, IInv, ThreadsTyped
<1>4. WorldTyped'
  BY <1>1, <1>2 DEF WorldTyped
<1>5. n \in 0..Cap /\ (~p.ok => n <= fails[s] + 1)
  BY <1>1, <1>3, Thresholds DEF WordsTyped
<1>6. /\ oks' = IF p.ok THEN [oks EXCEPT ![s] = n] ELSE oks
      /\ fails' = IF p.ok THEN fails ELSE [fails EXCEPT ![s] = n]
      /\ failed' = IF p.ok THEN failed
                   ELSE [failed EXCEPT ![s] = IF @ < DownAfter THEN @ + 1 ELSE @]
      /\ prober' = [prober EXCEPT ![w] = IF Flips(p.ok, p.was, n)
                                         THEN [p EXCEPT !.pc = "flip"]
                                         ELSE Between("probe", p.todo)]
  BY DEF Count
<1>7. WordsTyped'
  <2>1. oks' \in [Slots -> 0..Cap] /\ fails' \in [Slots -> 0..Cap]
    BY <1>1, <1>3, <1>5, <1>6 DEF WordsTyped
  <2>2. failed' \in [Slots -> 0..DownAfter]
    <3>1. failed[s] \in 0..DownAfter /\ DownAfter \in Nat
      BY <1>1, <1>3, Thresholds DEF WordsTyped
    <3>2. (IF failed[s] < DownAfter THEN failed[s] + 1 ELSE failed[s]) \in 0..DownAfter
      BY <3>1
    <3> QED BY <1>1, <1>3, <1>6, <3>2 DEF WordsTyped
  <2> QED BY <1>1, <1>2, <2>1, <2>2 DEF WordsTyped
<1>8. /\ Steady /\ \A t \in Slots : SlotInv(t)'
      /\ ~p.ok => n <= failed'[s] \/ Earned(s)'
  <2>1. CASE p.ok
    BY <1>2, <1>6, <2>1 DEF IInv, Steady, SlotInv, Trusted, Earned
  <2>2. CASE ~p.ok
    <3>1. /\ fails' = [fails EXCEPT ![s] = n]
          /\ failed' = [failed EXCEPT ![s] = IF @ < DownAfter THEN @ + 1 ELSE @]
      BY <1>6, <2>2
    <3>2. fails[s] \in Nat /\ failed[s] \in 0..DownAfter /\ n \in Nat /\ DownAfter \in Nat
      BY <1>1, <1>3, <1>5, Thresholds DEF WordsTyped
    <3>3. /\ fails'[s] = n
          /\ failed'[s] = IF failed[s] < DownAfter THEN failed[s] + 1 ELSE failed[s]
          /\ \A t \in Slots \ {s} : fails'[t] = fails[t] /\ failed'[t] = failed[t]
      BY <1>1, <1>3, <3>1 DEF WordsTyped
    <3>4. n <= failed'[s] \/ Earned(s)'
      BY <1>3, <1>5, <2>2, <3>2, <3>3 DEF SlotInv, Earned
    <3>5. \A t \in Slots : Earned(t) => Earned(t)'
      BY <3>2, <3>3 DEF Earned
    <3>6. Steady
      BY <1>2, <3>5 DEF Steady, Trusted
    <3>7. \A t \in Slots : SlotInv(t)'
      BY <1>2, <3>3, <3>4, <3>6 DEF IInv, SlotInv, Steady, Earned
    <3> QED BY <3>4, <3>6, <3>7
  <2> QED BY <2>1, <2>2
<1>9. /\ prober' \in [Workers -> ProberStates]
      /\ \A u \in Workers \ {w} : prober'[u] = prober[u]
      /\ \/ prober'[w].pc = "probe"
         \/ /\ prober'[w].pc = "flip" /\ prober'[w].addr = p.addr
            /\ prober'[w].ok = p.ok /\ Flips(p.ok, p.was, n)
  <2>1. CASE Flips(p.ok, p.was, n)
    BY <1>1, <1>3, <1>6, <2>1 DEF ThreadsTyped, ProberStates
  <2>2. CASE ~Flips(p.ok, p.was, n)
    BY <1>1, <1>3, <1>6, <2>2 DEF ThreadsTyped, ProberStates, Between
  <2> QED BY <2>1, <2>2
<1>10. ThreadsTyped'
  BY <1>1, <1>2, <1>9 DEF ThreadsTyped
<1>11. ProberInv(w)'
  <2>1. ~p.ok /\ Flips(p.ok, p.was, n) => Earned(s)'
    <3>1. failed'[s] \in Nat /\ DownAfter \in Nat /\ n \in Nat
      BY <1>3, <1>5, <1>7, Thresholds DEF WordsTyped
    <3> QED BY <1>8, <3>1 DEF Flips, Earned
  <2> QED BY <1>3, <1>9, <2>1 DEF ProberInv
<1> QED BY <1>2, <1>4, <1>7, <1>8, <1>9, <1>10, <1>11, ProberQed

\* Only an earned slot is flipped DOWN.
LEMMA FlipFlagKept == ASSUME IInv, NEW w \in Workers, FlipFlag(w) PROVE IInv'
<1> PICK p : p = prober[w]
  OBVIOUS
<1> PICK s : s = SlotOf[p.addr]
  OBVIOUS
<1>1. WorldTyped /\ WordsTyped /\ ThreadsTyped /\ ProberInv(w)
  BY TypeParts DEF IInv
<1>2. UNCHANGED <<alive, flips, conf, events, fails, oks, checked, failed, registry, reader>>
  BY DEF FlipFlag, world
<1>3. s \in Slots /\ p \in ProberStates /\ (~p.ok => Earned(s))
  BY <1>1, SlotTyped DEF FlipFlag, ProberInv, ThreadsTyped
<1>4. WorldTyped'
  BY <1>1, <1>2 DEF WorldTyped
<1>5. /\ healthy' = [healthy EXCEPT ![s] = IF p.ok THEN 1 ELSE 0]
      /\ prober' = [prober EXCEPT ![w] = Between("probe", p.todo)]
  BY DEF FlipFlag
<1>6. WordsTyped'
  BY <1>1, <1>2, <1>5 DEF WordsTyped
<1>7. Steady
  BY <1>1, <1>2, <1>3, <1>5 DEF Steady, Trusted, Earned, WordsTyped
<1>8. \A t \in Slots : SlotInv(t)'
  BY <1>2, <1>7 DEF IInv, SlotInv, Steady, Earned
<1>9. /\ prober' \in [Workers -> ProberStates]
      /\ \A u \in Workers \ {w} : prober'[u] = prober[u]
      /\ prober'[w].pc = "probe"
  BY <1>1, <1>3, <1>5 DEF ThreadsTyped, ProberStates, Between
<1>10. ThreadsTyped'
  BY <1>1, <1>2, <1>9 DEF ThreadsTyped
<1>11. ProberInv(w)'
  BY <1>9 DEF ProberInv
<1> QED BY <1>2, <1>4, <1>6, <1>7, <1>8, <1>9, <1>10, <1>11, ProberQed

\* A replacement of a worker touches no word.
LEMMA CrashKept == ASSUME IInv, NEW w \in Workers, Crash(w) PROVE IInv'
<1>1. WorldTyped /\ WordsTyped /\ ThreadsTyped
  BY TypeParts DEF IInv
<1>2. UNCHANGED <<alive, flips, conf, shared>> /\ events' = events + 1 /\ events < MaxEvents
  BY DEF Crash, world
<1>3. WorldTyped'
  BY <1>1, <1>2, HealthAssumption DEF WorldTyped
<1>4. Steady /\ WordsTyped' /\ \A s \in Slots : SlotInv(s)'
  BY <1>2, Quiet
<1>5. ThreadsTyped'
  BY <1>1 DEF Crash, ThreadsTyped, ProberStates, ReaderStates, Resting, Between, NotReading
<1>6. prober'[w] = Resting /\ reader'[w] = NotReading
  BY <1>1 DEF Crash, ThreadsTyped
<1>7. ProberInv(w)' /\ ReaderInv(w)'
  BY <1>6 DEF ProberInv, ReaderInv, Resting, Between, NotReading
<1>8. \A u \in Workers \ {w} : prober'[u] = prober[u] /\ reader'[u] = reader[u]
  BY <1>1 DEF Crash, ThreadsTyped
<1>9. \A u \in Workers : ProberInv(u)' /\ ReaderInv(u)'
  BY <1>4, <1>7, <1>8, Unmoved DEF IInv
<1> QED BY <1>3, <1>4, <1>5, <1>9, TypeParts DEF IInv

\* slot() for the hot path: past it, the flag is seeded or earned.
LEMMA ReadSlotKept == ASSUME IInv, NEW w \in Workers, ReadSlot(w) PROVE IInv'
<1> PICK a : a = reader[w].addr
  OBVIOUS
<1>1. WorldTyped /\ WordsTyped /\ ThreadsTyped /\ ReaderInv(w)
  BY TypeParts DEF IInv
<1>2. UNCHANGED <<alive, flips, conf, events, fails, oks, checked, failed, prober, registry>>
  BY DEF ReadSlot, world
<1>3. a \in Addresses /\ SlotOf[a] \in Slots /\ SlotInv(SlotOf[a])
  BY <1>1, SlotTyped DEF ReadSlot, ReaderInv, IInv
<1>4. WorldTyped'
  BY <1>1, <1>2 DEF WorldTyped
<1>5. /\ Steady /\ WordsTyped' /\ \A s \in Slots : SlotInv(s)'
      /\ reader[w].pc = "seed" => Trusted(SlotOf[a])'
  <2>1. CASE UNCHANGED healthy /\ reader[w].pc # "seed"
    BY <1>2, <2>1, Quiet DEF shared
  <2>2. CASE slot_seed(a)
    BY <1>2, <1>3, <2>2, SeedSteady
  <2> QED BY <2>1, <2>2 DEF ReadSlot
<1>6. /\ reader' \in [Workers -> ReaderStates]
      /\ \A u \in Workers \ {w} : reader'[u] = reader[u]
      /\ reader'[w].addr = reader[w].addr /\ reader'[w].up = reader[w].up
      /\ reader'[w].pc \in {"flag", "seed", "load"}
  <2> DEFINE r == reader[w]
  <2>1. PICK next \in {"flag", "seed", "load"} :
          \/ reader' = [reader EXCEPT ![w] = [r EXCEPT !.pc = next]]
          \/ reader' = [reader EXCEPT ![w].pc = next]
    BY DEF ReadSlot, slot_checked, slot_flag
  <2> QED BY <1>1, <2>1 DEF ThreadsTyped, ReaderStates
<1>7. reader'[w].pc = "load" => Trusted(SlotOf[a])'
  <2>1. CASE reader[w].pc = "slot"
    BY <1>1, <1>3, <1>5, <2>1
       DEF ReadSlot, slot_checked, ThreadsTyped, ReaderStates, SlotInv, Steady
  <2>2. CASE reader[w].pc = "flag"
    BY <1>1, <1>3, <1>5, <2>2
       DEF ReadSlot, slot_flag, ThreadsTyped, ReaderStates, WordsTyped, Trusted, Steady
  <2>3. CASE reader[w].pc = "seed"
    BY <1>5, <2>3
  <2> QED BY <2>1, <2>2, <2>3 DEF ReadSlot
<1>8. ThreadsTyped'
  BY <1>1, <1>2, <1>6 DEF ThreadsTyped
<1>9. ReaderInv(w)'
  BY <1>1, <1>3, <1>5, <1>6, <1>7 DEF ReaderInv, Steady
<1> QED BY <1>2, <1>4, <1>5, <1>6, <1>8, <1>9, ReaderQed

\* is_healthy reads a flag it may trust.
LEMMA ReadFlagKept == ASSUME IInv, NEW w \in Workers, ReadFlag(w) PROVE IInv'
<1> PICK a : a = reader[w].addr
  OBVIOUS
<1> PICK up : up = (healthy[SlotOf[a]] = 1)
  OBVIOUS
<1>1. WorldTyped /\ WordsTyped /\ ThreadsTyped /\ ReaderInv(w)
  BY TypeParts DEF IInv
<1>2. UNCHANGED <<alive, flips, conf, events, shared, prober, registry>>
  BY DEF ReadFlag, world
<1>3. a \in Addresses /\ SlotOf[a] \in Slots /\ (~up => Earned(SlotOf[a])) /\ up \in BOOLEAN
  BY <1>1, SlotTyped DEF ReadFlag, ReaderInv, Trusted
<1>4. WorldTyped'
  BY <1>1, <1>2 DEF WorldTyped
<1>5. Steady /\ WordsTyped' /\ \A s \in Slots : SlotInv(s)'
  BY <1>2, Quiet
<1>6. reader' = [reader EXCEPT ![w].pc = "idle", ![w].up = up]
  BY DEF ReadFlag
<1>7. /\ reader' \in [Workers -> ReaderStates]
      /\ \A u \in Workers \ {w} : reader'[u] = reader[u]
      /\ reader'[w].addr = a /\ reader'[w].up = up /\ reader'[w].pc = "idle"
  BY <1>1, <1>3, <1>6 DEF ThreadsTyped, ReaderStates
<1>8. ThreadsTyped'
  BY <1>1, <1>2, <1>7 DEF ThreadsTyped
<1>9. ReaderInv(w)'
  BY <1>3, <1>5, <1>7 DEF ReaderInv, Steady
<1> QED BY <1>2, <1>4, <1>5, <1>7, <1>8, <1>9, ReaderQed

\* A call of is_healthy starts with a known address.
LEMMA ReadBeginKept == ASSUME IInv, NEW w \in Workers, ReadBegin(w) PROVE IInv'
<1>1. WorldTyped /\ WordsTyped /\ ThreadsTyped
  BY TypeParts DEF IInv
<1>2. UNCHANGED <<alive, flips, conf, events, shared, prober, registry>>
  BY DEF ReadBegin, world
<1>3. WorldTyped'
  BY <1>1, <1>2 DEF WorldTyped
<1>4. Steady /\ WordsTyped' /\ \A s \in Slots : SlotInv(s)'
  BY <1>2, Quiet
<1>5. PICK a \in Addresses :
         reader' = [reader EXCEPT ![w] = [pc |-> "slot", addr |-> a, up |-> TRUE]]
  BY <1>1 DEF ReadBegin, WorldTyped, ThreadsTyped
<1>6. ThreadsTyped' /\ \A u \in Workers \ {w} : reader'[u] = reader[u]
  BY <1>1, <1>2, <1>5 DEF ThreadsTyped, ReaderStates
<1>7. ReaderInv(w)'
  BY <1>1, <1>5 DEF ReaderInv, ThreadsTyped
<1> QED BY <1>2, <1>3, <1>4, <1>6, <1>7, ReaderQed

\* What happens outside the threads touches neither them nor a word.
LEMMA WorldKept ==
  ASSUME IInv, (\E a \in Addresses : Flip(a)) \/ Reconfigure \/ UNCHANGED vars
  PROVE  IInv'
<1>1. WorldTyped /\ ThreadsTyped
  BY TypeParts DEF IInv
<1>2. UNCHANGED <<shared, prober, registry, reader>>
  BY DEF Flip, Reconfigure, vars
<1>3. WorldTyped'
  <2>1. CASE \E a \in Addresses : Flip(a)
    BY <1>1, <2>1, HealthAssumption DEF Flip, WorldTyped
  <2>2. CASE Reconfigure
    BY <1>1, <2>2, HealthAssumption DEF Reconfigure, WorldTyped
  <2>3. CASE UNCHANGED vars
    BY <1>1, <2>3 DEF vars, world, WorldTyped
  <2> QED BY <2>1, <2>2, <2>3
<1>4. Steady /\ WordsTyped' /\ \A s \in Slots : SlotInv(s)'
  BY <1>2, Quiet
<1>5. ThreadsTyped'
  BY <1>1, <1>2 DEF ThreadsTyped
<1>6. \A u \in Workers : ProberInv(u)' /\ ReaderInv(u)'
  BY <1>2, <1>4, Unmoved DEF IInv
<1> QED BY <1>3, <1>4, <1>5, <1>6, TypeParts DEF IInv

\* The invariant is inductive.
LEMMA NextIInv == IInv /\ [Next]_vars => IInv'
<1> SUFFICES ASSUME IInv, [Next]_vars PROVE IInv'
  OBVIOUS
<1>1. CASE (\E a \in Addresses : Flip(a)) \/ Reconfigure \/ UNCHANGED vars
  BY <1>1, WorldKept
<1>2. ASSUME NEW w \in Workers, ProberStep(w) PROVE IInv'
  BY <1>2, WorldKept, IdleKept, ProbeSlotKept, StampKept, ResetKept, CountKept,
     FlipFlagKept DEF ProberStep, Disabled
<1>3. ASSUME NEW w \in Workers, Crash(w) PROVE IInv'
  BY <1>3, CrashKept
<1>4. ASSUME NEW w \in Readers, ReaderStep(w) PROVE IInv'
  BY <1>4, HealthAssumption, ReadBeginKept, ReadSlotKept, ReadFlagKept DEF ReaderStep
<1> QED BY <1>1, <1>2, <1>3, <1>4 DEF Next

(***************************************************************************)
(* Theorems.                                                               *)
(***************************************************************************)

\* The words hold flags and streaks, and the threads are where the code can be
\* (probe_loop, slot, apply_probe, is_healthy).
THEOREM HealthTyped == Spec => []TypeOK
<1>1. IInv => TypeOK
  BY DEF IInv
<1> QED BY <1>1, InitIInv, NextIInv, PTL DEF Spec

\* is_healthy answers DOWN only after unhealthy_threshold failed probes of the
\* slot, whatever the interleaving of the seeds, the probes and the readers and
\* whatever the addresses that share the slot (health.rs slot, apply_probe).
THEOREM NeverDownUnprobed == Spec => []DownEarned
<1>1. IInv => DownEarned
  BY DEF IInv, ReaderInv, Earned, DownEarned
<1> QED BY <1>1, InitIInv, NextIInv, PTL DEF Spec

=============================================================================
