-------------------------- MODULE RateLimitProofs --------------------------
(***************************************************************************)
(* What the compare-and-swap loop of RateLimit guarantees, for any number  *)
(* of workers, services, limits and seconds.                               *)
(***************************************************************************)
EXTENDS RateLimit, FiniteSetTheorems, TLAPS

(***************************************************************************)
(* While the word has not been rewound, its second is the latest in which  *)
(* anything was admitted, and its count covers what was admitted in it.    *)
(***************************************************************************)
WordCovers ==
  ~ rewound =>
    /\ \A t \in Seconds, s \in Services : t > word.ts => admitted[t][s] = 0
    /\ \A s \in Services : admitted[word.ts][s] <= word.count

IInv == TypeOK /\ WordCovers /\ LimitUnlessRewound

\* A fresh table satisfies the invariant.
LEMMA InitIInv == Init => IInv
<1> SUFFICES ASSUME Init PROVE IInv
  OBVIOUS
<1>1. TypeOK
  <2>1. 0 \in Seconds /\ 1 \in Seconds /\ Zero \in Words
    BY BoundsAssumption DEF Seconds, Words, Zero
  <2>2. <<>> \in Seq(Messages)
    OBVIOUS
  <2>3. 0 \in 0..MaxChecks
    BY BoundsAssumption
  <2>4. admitted \in [Seconds -> [Services -> Nat]] /\ passed \in [Seconds -> Nat]
    BY DEF Init
  <2>5. NoKey \in Counters
    BY RedisAssumption DEF NoKey, Counters
  <2> QED BY <2>1, <2>2, <2>3, <2>4, <2>5 DEF Init, TypeOK
<1>2. WordCovers /\ LimitUnlessRewound
  BY RpsAssumption, BoundsAssumption
     DEF Init, Zero, Seconds, WordCovers, LimitUnlessRewound, NodeLimit
<1> QED BY <1>1, <1>2 DEF IInv

\* Neither the word a worker offers nor the saturated word is ill-typed.
LEMMA WordsTyped ==
  ASSUME TypeOK, NEW w \in Workers
  PROVE  /\ NewWord(w) \in Words
         /\ sync[w] # "recv" => Saturated(msg[w]) \in Words
<1>1. NewWord(w) \in Words
  BY DEF TypeOK, NewWord, Words
<1>2. ASSUME sync[w] # "recv" PROVE Saturated(msg[w]) \in Words
  <2>1. msg[w] \in Messages
    BY <1>2 DEF TypeOK
  <2>2. msg[w].ts \in Seconds /\ msg[w].svc \in Services
    BY <2>1 DEF Messages
  <2> QED BY <2>2, RpsAssumption DEF Saturated, Words
<1> QED BY <1>1, <1>2

\* The counter in Redis keeps its type.
LEMMA CountersTyped ==
  ASSUME TypeOK
  PROVE  /\ NoKey \in Counters /\ Incremented \in Counters
         /\ fleet.left # 0 => [fleet EXCEPT !.left = @ - 1] \in Counters
<1>1. fleet \in Counters
  BY DEF TypeOK
<1> QED BY <1>1, RedisAssumption DEF NoKey, Counters, Incremented

\* Every step keeps the types.
LEMMA NextTyped == TypeOK /\ [Next]_vars => TypeOK'
<1> SUFFICES ASSUME TypeOK, [Next]_vars PROVE TypeOK'
  OBVIOUS
<1> USE DEF hotVars, syncVars, redis, served
<1>1. CASE Tick \/ Elsewhere \/ Expire
  <2>0. \/ fleet' = NoKey
        \/ fleet' = Incremented
        \/ fleet.left # 0 /\ fleet' = [fleet EXCEPT !.left = @ - 1]
    BY <1>1 DEF Tick, Elsewhere, Expire
  <2>1. fleet' \in Counters /\ others' \in Nat
    <3>1. fleet' \in Counters
      BY <2>0, CountersTyped
    <3> QED BY <1>1, <3>1 DEF Tick, Elsewhere, Expire, TypeOK
  <2>2. clock' \in Seconds
    BY <1>1, BoundsAssumption DEF Tick, Elsewhere, Expire, TypeOK, Seconds
  <2> QED BY <1>1, <2>1, <2>2 DEF Tick, Elsewhere, Expire, TypeOK
<1>2. ASSUME NEW w \in Workers, NEW s \in Services, Check(w, s) PROVE TypeOK'
  BY <1>2, BoundsAssumption DEF Check, TypeOK
<1>3. ASSUME NEW w \in Workers, Load(w) PROVE TypeOK'
  BY <1>3 DEF Load, TypeOK
<1>4. ASSUME NEW w \in Workers, Refuse(w) PROVE TypeOK'
  BY <1>4 DEF Refuse, TypeOK
<1>5. ASSUME NEW w \in Workers, Allow(w) PROVE TypeOK'
  <2>1. word' \in Words /\ rewound' \in BOOLEAN
    BY <1>5, WordsTyped DEF Allow, Write, TypeOK
  <2>2. admitted' \in [Seconds -> [Services -> Nat]] /\ passed' \in [Seconds -> Nat]
    BY <1>5 DEF Allow, TypeOK
  <2>3. chan' \in [Workers -> Seq(Messages)]
    <3>1. [ts |-> now[w], svc |-> svc[w]] \in Messages
      BY DEF TypeOK, Messages
    <3>2. chan[w] \in Seq(Messages)
      BY DEF TypeOK
    <3>3. Append(chan[w], [ts |-> now[w], svc |-> svc[w]]) \in Seq(Messages)
      BY <3>1, <3>2
    <3> QED BY <1>5, <3>3 DEF Allow, TrySend, TypeOK
  <2>4. pc' \in [Workers -> {"idle", "load", "cas"}]
    BY <1>5 DEF Allow, TypeOK
  <2> QED BY <1>5, <2>1, <2>2, <2>3, <2>4 DEF Allow, TypeOK
<1>6. ASSUME NEW w \in Workers, Retry(w) PROVE TypeOK'
  BY <1>6 DEF Retry, TypeOK
<1>7. ASSUME NEW w \in Workers, SyncRecv(w) PROVE TypeOK'
  <2>1. chan[w] \in Seq(Messages) /\ chan[w] # <<>>
    BY <1>7 DEF SyncRecv, TypeOK
  <2>2. Head(chan[w]) \in Messages /\ Tail(chan[w]) \in Seq(Messages)
    BY <2>1
  <2> QED BY <1>7, <2>2 DEF SyncRecv, TypeOK
<1>8. ASSUME NEW w \in Workers, SyncFail(w) \/ SyncLost(w) \/ SyncReply(w)
      PROVE  TypeOK'
  <2>1. msg[w] \in Messages /\ msg[w].ts \in Seconds
    BY <1>8 DEF SyncFail, SyncLost, SyncReply, TypeOK, Messages
  <2>2. fleet' \in Counters
    BY <1>8, CountersTyped
       DEF SyncFail, SyncLost, SyncReply, evalsha_or_eval, TypeOK
  <2>3. CASE SyncFail(w) \/ SyncLost(w)
    BY <2>2, <2>3 DEF SyncFail, SyncLost, evalsha_or_eval, Done, TypeOK
  <2>4. CASE SyncReply(w)
    BY <2>1, <2>2, <2>4 DEF SyncReply, evalsha_or_eval, Done, TypeOK
  <2> QED BY <1>8, <2>3, <2>4
<1>9. ASSUME NEW w \in Workers, SyncLoad(w) PROVE TypeOK'
  BY <1>9 DEF SyncLoad, TypeOK
<1>10. ASSUME NEW w \in Workers, SyncCas(w) PROVE TypeOK'
  <2>1. word' \in Words /\ rewound' \in BOOLEAN
    BY <1>10, WordsTyped DEF SyncCas, Write, TypeOK
  <2> QED BY <1>10, <2>1 DEF SyncCas, TypeOK
<1>11. CASE UNCHANGED vars
  BY <1>11 DEF vars, TypeOK
<1> QED
  BY <1>1, <1>2, <1>3, <1>4, <1>5, <1>6, <1>7, <1>8, <1>9, <1>10, <1>11 DEF Next

\* What is neither written nor counted stays covered.
LEMMA CoverKept ==
  ASSUME IInv, UNCHANGED <<word, admitted, rewound>>
  PROVE  (WordCovers /\ LimitUnlessRewound)'
BY DEF IInv, WordCovers, LimitUnlessRewound, NodeLimit

\* A saturated word covers at least what the word it replaces covered, or
\* the replacement counts as a rewind.
LEMMA SaturateCovers ==
  ASSUME IInv, NEW v \in Words, Write(v), UNCHANGED admitted
  PROVE  (WordCovers /\ LimitUnlessRewound)'
<1> SUFFICES ASSUME ~ rewound' PROVE (WordCovers /\ LimitUnlessRewound)'
  BY DEF WordCovers, LimitUnlessRewound
<1>1. ~ rewound /\ ~ Below(v, word) /\ word' = v
  BY DEF Write
<1>2. /\ word.ts \in Int /\ v.ts \in Int /\ word.count \in Nat /\ v.count \in Nat
      /\ v.ts \in Seconds
  BY DEF IInv, TypeOK, Words, Seconds
<1>3. v.ts > word.ts \/ (v.ts = word.ts /\ v.count >= word.count)
  BY <1>1, <1>2 DEF Below
<1>4. \A t \in Seconds, s \in Services : admitted[t][s] \in Nat
  BY DEF IInv, TypeOK
<1>5. \A t \in Seconds, s \in Services : t > v.ts => admitted[t][s] = 0
  BY <1>1, <1>2, <1>3 DEF IInv, WordCovers, Seconds
<1>6. \A s \in Services : admitted[v.ts][s] <= v.count
  BY <1>1, <1>2, <1>3, <1>4 DEF IInv, WordCovers
<1> QED BY <1>1, <1>5, <1>6 DEF IInv, WordCovers, LimitUnlessRewound, NodeLimit

\* One admission: the exchange succeeds only on the word the decision was
\* made on, so the count it stores covers the new request too.
LEMMA AllowCovers ==
  ASSUME IInv, NEW w \in Workers, Allow(w)
  PROVE  (WordCovers /\ LimitUnlessRewound)'
<1> SUFFICES ASSUME ~ rewound' PROVE (WordCovers /\ LimitUnlessRewound)'
  BY DEF WordCovers, LimitUnlessRewound
<1> DEFINE n == now[w]
           x == svc[w]
<1>1. /\ n \in Seconds /\ x \in Services /\ n \in Int /\ word.ts \in Int
      /\ word.count \in Nat /\ word.ts \in Seconds
  BY DEF IInv, TypeOK, Words, Seconds
<1>2. /\ word' = NewWord(w) /\ ~ rewound /\ ~ Below(NewWord(w), word)
      /\ word = current[w] /\ ~ Exhausted(w)
  BY DEF Allow, Write
<1>3. /\ word'.ts = n
      /\ word'.count = IF word.ts # n THEN 1 ELSE word.count + 1
  BY <1>2 DEF NewWord
<1>4. n >= word.ts
  BY <1>1, <1>2 DEF Below, NewWord
<1>5. \A t \in Seconds, s \in Services :
        /\ admitted[t][s] \in Nat
        /\ admitted'[t][s] = IF t = n /\ s = x THEN admitted[t][s] + 1
                             ELSE admitted[t][s]
  BY <1>1 DEF Allow, IInv, TypeOK
<1>6. \A t \in Seconds, s \in Services : t > word.ts => admitted[t][s] = 0
  BY <1>2 DEF IInv, WordCovers
<1>7. \A s \in Services : admitted[word.ts][s] <= word.count
  BY <1>2 DEF IInv, WordCovers
<1>8. \A t \in Seconds, s \in Services : t > n => admitted'[t][s] = 0
  BY <1>1, <1>4, <1>5, <1>6 DEF Seconds
<1>9. \A s \in Services : admitted'[n][s] <= word'.count
  <2>1. CASE word.ts = n
    BY <2>1, <1>1, <1>3, <1>5, <1>7
  <2>2. CASE word.ts # n
    <3>1. \A s \in Services : admitted[n][s] = 0
      BY <2>2, <1>1, <1>4, <1>6
    <3> QED BY <2>2, <3>1, <1>1, <1>3, <1>5
  <2> QED BY <2>1, <2>2
<1>10. word'.count <= MaxRps[x]
  <2>0. MaxRps[x] \in Nat \ {0}
    BY <1>1, RpsAssumption
  <2>1. CASE word.ts = n
    <3>1. ~ (word.count >= MaxRps[x])
      BY <2>1, <1>2 DEF Exhausted
    <3> QED BY <2>0, <2>1, <3>1, <1>1, <1>3
  <2>2. CASE word.ts # n
    BY <2>0, <2>2, <1>3
  <2> QED BY <2>1, <2>2
<1>11. \A t \in Seconds, s \in Services : admitted'[t][s] <= MaxRps[s]
  <2> TAKE t \in Seconds, s \in Services
  <2>1. CASE t = n /\ s = x
    <3>1. admitted'[n][x] \in Nat /\ word'.count \in Nat /\ MaxRps[x] \in Nat
      BY <1>1, <1>3, <1>5, RpsAssumption
    <3> QED BY <2>1, <3>1, <1>1, <1>9, <1>10
  <2>2. CASE ~ (t = n /\ s = x)
    BY <2>2, <1>2, <1>5 DEF IInv, LimitUnlessRewound, NodeLimit
  <2> QED BY <2>1, <2>2
<1> QED BY <1>3, <1>8, <1>9, <1>11 DEF WordCovers, LimitUnlessRewound, NodeLimit

\* The invariant is inductive.
LEMMA NextIInv == IInv /\ [Next]_vars => IInv'
<1> SUFFICES ASSUME IInv, [Next]_vars PROVE IInv'
  OBVIOUS
<1>0. TypeOK'
  BY NextTyped DEF IInv
<1>1. CASE UNCHANGED <<word, admitted, rewound>>
  BY <1>0, <1>1, CoverKept DEF IInv
<1>2. ASSUME NEW w \in Workers, Allow(w) PROVE IInv'
  BY <1>0, <1>2, AllowCovers DEF IInv
<1>3. ASSUME NEW w \in Workers, SyncCas(w) PROVE IInv'
  <2>1. CASE word = seen[w]
    <3>1. Saturated(msg[w]) \in Words
      BY <1>3, WordsTyped DEF SyncCas, IInv
    <3>2. Write(Saturated(msg[w])) /\ UNCHANGED admitted
      BY <1>3, <2>1 DEF SyncCas, served
    <3> QED BY <1>0, <3>1, <3>2, SaturateCovers DEF IInv
  <2>2. CASE word # seen[w]
    BY <1>1, <1>3, <2>2 DEF SyncCas, served
  <2> QED BY <2>1, <2>2
<1>4. ASSUME NEW w \in Workers,
             Load(w) \/ Refuse(w) \/ Retry(w) \/ SyncRecv(w) \/ SyncFail(w)
               \/ SyncLost(w) \/ SyncReply(w) \/ SyncLoad(w)
      PROVE  UNCHANGED <<word, admitted, rewound>>
  BY <1>4 DEF Load, Refuse, Retry, SyncRecv, SyncFail, SyncLost, SyncReply,
              SyncLoad, served
<1>5. ASSUME NEW w \in Workers, NEW s \in Services, Check(w, s)
      PROVE  UNCHANGED <<word, admitted, rewound>>
  BY <1>5 DEF Check, served
<1>6. Tick \/ Elsewhere \/ Expire \/ UNCHANGED vars
        => UNCHANGED <<word, admitted, rewound>>
  BY DEF Tick, Elsewhere, Expire, vars, served
<1> QED BY <1>1, <1>2, <1>3, <1>4, <1>5, <1>6 DEF Next

\* The words, messages and histories keep their types (rate_limit.rs:39-86).
THEOREM RateLimitTyped == Spec => []TypeOK
<1>1. Init => TypeOK
  BY InitIInv DEF IInv
<1> QED BY <1>1, NextTyped, PTL DEF Spec

(***************************************************************************)
(* The limiter is exact until the packed word is made smaller: for any     *)
(* number of workers and sync threads, no admission is lost by the         *)
(* compare-and-swap loop of lines 349-368 nor by a saturation that raises  *)
(* the word.                                                               *)
(***************************************************************************)
THEOREM LimiterExact == Spec => []LimitUnlessRewound
<1>1. Spec => []IInv
  BY InitIInv, NextIInv, PTL DEF Spec
<1>2. IInv => LimitUnlessRewound
  BY DEF IInv
<1> QED BY <1>1, <1>2, PTL

(***************************************************************************)
(* A thread that is about to saturate the bucket has had the verdict of    *)
(* Redis for the second of its message, so the one write that puts more    *)
(* into the word than was let through is into a second reported over.      *)
(***************************************************************************)
VerdictKnown == \A w \in Workers : sync[w] \in {"load", "cas"} => msg[w].ts \in over

EInv == TypeOK /\ VerdictKnown /\ CountEarned

\* A step that writes no word keeps a count that is earned, since over and
\* passed only grow.
LEMMA NoWriteEarned ==
  ASSUME EInv, word' = word, over \subseteq over', UNCHANGED passed
  PROVE  CountEarned'
BY DEF EInv, CountEarned

\* A step that leaves the sync threads alone keeps their verdicts.
LEMMA VerdictKept ==
  ASSUME EInv, UNCHANGED <<sync, msg, over>>
  PROVE  VerdictKnown'
BY DEF EInv, VerdictKnown

\* An admission raises the count and what was let through together, or starts
\* a window at the one request it lets through.
LEMMA AllowEarned == ASSUME EInv, NEW w \in Workers, Allow(w) PROVE CountEarned'
<1>1. /\ word = current[w] /\ word' = NewWord(w) /\ over' = over
      /\ passed' = [passed EXCEPT ![now[w]] = @ + 1]
  BY DEF Allow, Write
<1>2. /\ now[w] \in Seconds /\ word.count \in Nat
      /\ passed \in [Seconds -> Nat] /\ passed[now[w]] \in Nat
  BY DEF EInv, TypeOK, Words
<1>3. /\ word'.ts = now[w]
      /\ word'.count = IF word.ts # now[w] THEN 1 ELSE word.count + 1
      /\ passed'[now[w]] = passed[now[w]] + 1
  BY <1>1, <1>2 DEF NewWord
<1>4. CASE word.ts # now[w]
  BY <1>2, <1>3, <1>4 DEF CountEarned
<1>5. CASE word.ts = now[w]
  BY <1>1, <1>2, <1>3, <1>5 DEF EInv, CountEarned
<1> QED BY <1>4, <1>5

\* The steps of a sync thread up to its exchange.
LEMMA SyncEarned ==
  ASSUME EInv, NEW w \in Workers,
         SyncRecv(w) \/ SyncFail(w) \/ SyncLost(w) \/ SyncReply(w) \/ SyncLoad(w)
  PROVE  VerdictKnown' /\ CountEarned'
<1>1. word' = word /\ passed' = passed /\ over \subseteq over'
  BY DEF SyncRecv, SyncFail, SyncLost, SyncReply, SyncLoad, served
<1>2. /\ \A u \in Workers \ {w} : sync'[u] = sync[u] /\ msg'[u] = msg[u]
      /\ sync'[w] \in {"load", "cas"} => msg'[w].ts \in over'
  BY DEF EInv, TypeOK, VerdictKnown, SyncRecv, SyncFail, SyncLost, SyncReply,
         SyncLoad, Done
<1> QED BY <1>1, <1>2, NoWriteEarned DEF EInv, VerdictKnown

\* The exchange itself writes a second that Redis has reported.
LEMMA SyncCasEarned ==
  ASSUME EInv, NEW w \in Workers, SyncCas(w)
  PROVE  VerdictKnown' /\ CountEarned'
<1>1. msg[w].ts \in over /\ over' = over /\ passed' = passed
  BY DEF EInv, VerdictKnown, SyncCas, served
<1>2. CountEarned'
  <2>1. CASE word = seen[w]
    <3>1. word'.ts = msg[w].ts
      BY <2>1 DEF SyncCas, Write, Saturated
    <3> QED BY <1>1, <3>1 DEF CountEarned
  <2>2. CASE word # seen[w]
    BY <1>1, <2>2, NoWriteEarned DEF SyncCas
  <2> QED BY <2>1, <2>2
<1>3. sync'[w] = "recv" /\ \A u \in Workers \ {w} : sync'[u] = sync[u] /\ msg'[u] = msg[u]
  BY DEF SyncCas, EInv, TypeOK
<1> QED BY <1>1, <1>2, <1>3 DEF EInv, VerdictKnown

\* The invariant is inductive.
LEMMA NextEInv == EInv /\ [Next]_vars => EInv'
<1> SUFFICES ASSUME EInv, [Next]_vars PROVE EInv'
  OBVIOUS
<1>1. TypeOK'
  BY NextTyped DEF EInv
<1>2. CASE UNCHANGED <<word, passed, sync, msg, over>>
  BY <1>1, <1>2, NoWriteEarned, VerdictKept DEF EInv
<1>3. ASSUME NEW w \in Workers, Allow(w) PROVE EInv'
  <2>1. UNCHANGED <<sync, msg, over>>
    BY <1>3 DEF Allow, syncVars
  <2> QED BY <1>1, <1>3, <2>1, AllowEarned, VerdictKept DEF EInv
<1>4. ASSUME NEW w \in Workers,
             SyncRecv(w) \/ SyncFail(w) \/ SyncLost(w) \/ SyncReply(w) \/ SyncLoad(w)
               \/ SyncCas(w)
      PROVE  EInv'
  BY <1>1, <1>4, SyncEarned, SyncCasEarned DEF EInv
<1>5. ASSUME NEW w \in Workers, Load(w) \/ Refuse(w) \/ Retry(w)
      PROVE  UNCHANGED <<word, passed, sync, msg, over>>
  BY <1>5 DEF Load, Refuse, Retry, syncVars, served
<1>6. ASSUME NEW w \in Workers, NEW s \in Services, Check(w, s)
      PROVE  UNCHANGED <<word, passed, sync, msg, over>>
  BY <1>6 DEF Check, syncVars, served
<1>7. Tick \/ Elsewhere \/ Expire \/ UNCHANGED vars
        => UNCHANGED <<word, passed, sync, msg, over>>
  BY DEF Tick, Elsewhere, Expire, vars, syncVars, served
<1> QED BY <1>2, <1>3, <1>4, <1>5, <1>6, <1>7 DEF Next

(***************************************************************************)
(* No Redis failure and no refusal costs a caller anything: for any number *)
(* of workers and sync threads, and however late their writes come, the    *)
(* bucket counts no more than what was let through in its second, unless   *)
(* Redis reported that second over the limit (lines 278-306, 349-368).     *)
(***************************************************************************)
THEOREM CountsEarned == Spec => []CountEarned
<1>1. Init => EInv
  <2> SUFFICES ASSUME Init PROVE EInv
    OBVIOUS
  <2>1. TypeOK
    BY InitIInv DEF IInv
  <2>2. VerdictKnown
    BY DEF Init, VerdictKnown
  <2>3. word.ts = 0 /\ word.count = 0 /\ 0 \in Seconds /\ passed = [t \in Seconds |-> 0]
    BY BoundsAssumption DEF Init, Zero, Seconds
  <2>4. CountEarned
    BY <2>3 DEF CountEarned
  <2> QED BY <2>1, <2>2, <2>4 DEF EInv
<1>2. EInv => CountEarned
  BY DEF EInv
<1> QED BY <1>1, <1>2, NextEInv, PTL DEF Spec

(***************************************************************************)
(* The fleet counter.                                                      *)
(***************************************************************************)

LEMMA UnitsMember ==
  ASSUME NEW S, NEW n, NEW p
  PROVE  p \in Units(S, n) <=> \E x \in S : \E i \in 1..n[x] : p = <<x, i>>
<1>1. p \in Units(S, n) <=> \E x \in S : p \in {x} \X (1..n[x])
  BY DEF Units
<1>2. \A x : p \in {x} \X (1..n[x]) <=> \E i \in 1..n[x] : p = <<x, i>>
  OBVIOUS
<1> QED BY <1>1, <1>2

\* One more for one element is one more in all.
LEMMA UnitsUp ==
  ASSUME NEW S, NEW m \in [S -> Nat], NEW n \in [S -> Nat], NEW x \in S,
         n[x] = m[x] + 1, \A y \in S \ {x} : n[y] = m[y], IsFiniteSet(Units(S, m))
  PROVE  /\ IsFiniteSet(Units(S, n))
         /\ Cardinality(Units(S, m)) \in Nat
         /\ Cardinality(Units(S, n)) = Cardinality(Units(S, m)) + 1
<1>1. n[x] = m[x] + 1 /\ m[x] \in Nat /\ \A y \in S \ {x} : n[y] = m[y]
  OBVIOUS
<1>2. 1..n[x] = (1..m[x]) \cup {m[x] + 1} /\ m[x] + 1 \notin 1..m[x]
  BY <1>1
<1>3. <<x, m[x] + 1>> \notin Units(S, m)
  BY <1>2, UnitsMember
<1>4. Units(S, n) = Units(S, m) \cup {<<x, m[x] + 1>>}
  <2>1. ASSUME NEW p \in Units(S, n) PROVE p \in Units(S, m) \cup {<<x, m[x] + 1>>}
    <3>0. PICK y \in S : \E i \in 1..n[y] : p = <<y, i>>
      BY UnitsMember
    <3>1. PICK i \in 1..n[y] : p = <<y, i>>
      BY <3>0
    <3>2. CASE y = x
      BY <1>2, <3>1, <3>2, UnitsMember
    <3>3. CASE y # x
      BY <1>1, <3>1, <3>3, UnitsMember
    <3> QED BY <3>2, <3>3
  <2>2. ASSUME NEW p \in Units(S, m) PROVE p \in Units(S, n)
    <3>0. PICK y \in S : \E i \in 1..m[y] : p = <<y, i>>
      BY UnitsMember
    <3>1. PICK i \in 1..m[y] : p = <<y, i>>
      BY <3>0
    <3>2. i \in 1..n[y]
      BY <1>1, <1>2
    <3> QED BY <3>1, <3>2, UnitsMember
  <2>3. <<x, m[x] + 1>> \in Units(S, n)
    BY <1>2, UnitsMember
  <2> QED BY <2>1, <2>2, <2>3
<1> QED BY <1>3, <1>4, FS_AddElement, FS_CardinalityType

\* One less for one element is one less in all.
LEMMA UnitsDown ==
  ASSUME NEW S, NEW m \in [S -> Nat], NEW n \in [S -> Nat], NEW x \in S,
         m[x] = n[x] + 1, \A y \in S \ {x} : n[y] = m[y], IsFiniteSet(Units(S, m))
  PROVE  /\ IsFiniteSet(Units(S, n))
         /\ Cardinality(Units(S, n)) \in Nat
         /\ Cardinality(Units(S, m)) = Cardinality(Units(S, n)) + 1
<1>1. n[x] \in Nat /\ m[x] \in Nat /\ m[x] = n[x] + 1
  OBVIOUS
<1>2. \A y \in S : 1..n[y] \subseteq 1..m[y]
  BY <1>1
<1>3. Units(S, n) \subseteq Units(S, m)
  BY <1>2, UnitsMember
<1>4. IsFiniteSet(Units(S, n))
  BY <1>3, FS_Subset
<1> QED BY <1>4, UnitsUp

\* The counter holds at least what the other nodes added since it was created.
FInv ==
  /\ TypeOK
  /\ IsFiniteSet(Waiting) /\ IsFiniteSet(LetThrough)
  /\ others <= fleet.count
  /\ FleetCountEarned

Queued == [w \in Workers |-> Len(chan[w])]

\* A quantity for every worker and second, and sets whose size is a number.
LEMMA FleetTyped ==
  ASSUME FInv
  PROVE  /\ Queued \in [Workers -> Nat] /\ passed \in [Seconds -> Nat]
         /\ IsFiniteSet(Calling) /\ Cardinality(Calling) \in Nat
         /\ Cardinality(Waiting) \in Nat /\ Cardinality(LetThrough) \in Nat
         /\ fleet.count \in Nat /\ others \in Nat
         /\ Incremented.count = fleet.count + 1
<1>1. chan \in [Workers -> Seq(Messages)] /\ passed \in [Seconds -> Nat]
      /\ fleet \in Counters /\ others \in Nat
  BY DEF FInv, TypeOK
<1>2. Queued \in [Workers -> Nat]
  <2>1. \A w \in Workers : Len(chan[w]) \in Nat
    BY <1>1
  <2> QED BY <2>1 DEF Queued
<1>3. IsFiniteSet(Calling) /\ Cardinality(Calling) \in Nat
  <2>1. Calling \subseteq Workers
    BY DEF Calling
  <2> QED BY <2>1, WorkerAssumption, FS_Subset, FS_CardinalityType
<1>4. Cardinality(Waiting) \in Nat /\ Cardinality(LetThrough) \in Nat
  BY FS_CardinalityType DEF FInv
<1>5. fleet.count \in Nat
  BY <1>1 DEF Counters
<1>6. Incremented.count = fleet.count + 1
  <2>1. CASE fleet = NoKey
    BY <2>1 DEF Incremented, NoKey
  <2>2. CASE fleet # NoKey
    BY <1>1, <2>2 DEF Incremented, Counters
  <2> QED BY <2>1, <2>2
<1> QED BY <1>1, <1>2, <1>3, <1>4, <1>5, <1>6

\* Steps that neither let a request through nor touch a channel, a thread's
\* place in its call or the counter.
LEMMA FleetIdle ==
  ASSUME FInv, TypeOK', UNCHANGED <<passed, chan, fleet, others>>, Calling' = Calling
  PROVE  FInv'
BY DEF FInv, FleetCountEarned, Waiting, LetThrough

\* An admission puts at most one message into a channel.
LEMMA FleetAllow == ASSUME FInv, TypeOK', NEW w \in Workers, Allow(w) PROVE FInv'
<1>1. /\ passed' = [passed EXCEPT ![now[w]] = @ + 1] /\ now[w] \in Seconds
      /\ UNCHANGED <<fleet, others, sync>> /\ TrySend(w)
  BY DEF Allow, redis, syncVars, FInv, TypeOK
<1>2. passed' \in [Seconds -> Nat] /\ chan \in [Workers -> Seq(Messages)]
  BY DEF FInv, TypeOK
<1>3. /\ IsFiniteSet(LetThrough')
      /\ Cardinality(LetThrough') = Cardinality(LetThrough) + 1
  <2>1. passed \in [Seconds -> Nat] /\ IsFiniteSet(Units(Seconds, passed))
    BY FleetTyped DEF FInv, LetThrough
  <2>2. /\ IsFiniteSet(Units(Seconds, passed'))
        /\ Cardinality(Units(Seconds, passed')) = Cardinality(Units(Seconds, passed)) + 1
    <3>1. PICK t \in Seconds : t = now[w]
      BY <1>1
    <3>2. passed'[t] = passed[t] + 1 /\ \A u \in Seconds \ {t} : passed'[u] = passed[u]
      BY <1>1, <2>1, <3>1
    <3>3. passed' \in [Seconds -> Nat]
      BY <1>2
    <3> QED BY <2>1, <3>2, <3>3, UnitsUp
  <2> QED BY <2>2 DEF LetThrough
<1>4. /\ IsFiniteSet(Waiting')
      /\ Cardinality(Waiting') \in {Cardinality(Waiting), Cardinality(Waiting) + 1}
  <2>1. CASE chan' = chan
    BY <2>1 DEF FInv, Waiting
  <2>2. CASE chan' # chan
    <3>1. chan' = [chan EXCEPT ![w] = Append(@, [ts |-> now[w], svc |-> svc[w]])]
      BY <1>1, <2>2 DEF TrySend
    <3>2. Len(chan'[w]) = Len(chan[w]) + 1 /\ \A u \in Workers \ {w} : chan'[u] = chan[u]
      BY <1>2, <3>1
    <3>3. /\ Queued'[w] = Queued[w] + 1 /\ \A u \in Workers \ {w} : Queued'[u] = Queued[u]
          /\ Queued' \in [Workers -> Nat]
      <4>1. /\ Queued'[w] = Queued[w] + 1
            /\ \A u \in Workers \ {w} : Queued'[u] = Queued[u]
        BY <3>2 DEF Queued
      <4>2. \A u \in Workers : Len(chan'[u]) \in Nat
        BY DEF TypeOK
      <4>3. Queued' \in [Workers -> Nat]
        BY <4>2 DEF Queued
      <4> QED BY <4>1, <4>3
    <3>4. Queued \in [Workers -> Nat] /\ IsFiniteSet(Units(Workers, Queued))
      BY FleetTyped DEF FInv, Waiting, Queued
    <3>5. /\ IsFiniteSet(Units(Workers, Queued'))
          /\ Cardinality(Units(Workers, Queued')) = Cardinality(Units(Workers, Queued)) + 1
      BY <3>3, <3>4, UnitsUp
    <3> QED BY <3>5 DEF Waiting, Queued
  <2> QED BY <2>1, <2>2
<1>5. Calling' = Calling
  BY <1>1 DEF Calling
<1>6. FleetCountEarned'
  BY <1>1, <1>3, <1>4, <1>5, FleetTyped DEF FInv, FleetCountEarned
<1> QED BY <1>1, <1>3, <1>4, <1>6 DEF FInv

\* Receiving moves one message from the channel into a call.
LEMMA FleetRecv == ASSUME FInv, TypeOK', NEW w \in Workers, SyncRecv(w) PROVE FInv'
<1>1. /\ chan' = [chan EXCEPT ![w] = Tail(@)] /\ chan[w] # <<>>
      /\ sync[w] = "recv" /\ sync' = [sync EXCEPT ![w] = "call"]
      /\ UNCHANGED <<fleet, others, passed>>
  BY DEF SyncRecv, redis, served
<1>2. chan \in [Workers -> Seq(Messages)] /\ DOMAIN sync = Workers
  BY DEF FInv, TypeOK
<1>3. /\ IsFiniteSet(Waiting') /\ Cardinality(Waiting') \in Nat
      /\ Cardinality(Waiting) = Cardinality(Waiting') + 1
  <2>1. chan[w] \in Seq(Messages)
    BY <1>2
  <2>2. Len(chan[w]) \in Nat \ {0} /\ Len(Tail(chan[w])) = Len(chan[w]) - 1
    BY <1>1, <2>1
  <2>3. Len(chan'[w]) = Len(chan[w]) - 1 /\ \A u \in Workers \ {w} : chan'[u] = chan[u]
    BY <1>1, <1>2, <2>2
  <2>4. /\ Queued[w] = Queued'[w] + 1 /\ \A u \in Workers \ {w} : Queued'[u] = Queued[u]
        /\ Queued' \in [Workers -> Nat]
    <3>1. Queued[w] = Queued'[w] + 1 /\ \A u \in Workers \ {w} : Queued'[u] = Queued[u]
      BY <2>2, <2>3 DEF Queued
    <3>2. \A u \in Workers : Len(chan'[u]) \in Nat
      BY DEF TypeOK
    <3>3. Queued' \in [Workers -> Nat]
      BY <3>2 DEF Queued
    <3> QED BY <3>1, <3>3
  <2>5. Queued \in [Workers -> Nat] /\ IsFiniteSet(Units(Workers, Queued))
    BY FleetTyped DEF FInv, Waiting, Queued
  <2>6. /\ IsFiniteSet(Units(Workers, Queued'))
        /\ Cardinality(Units(Workers, Queued')) \in Nat
        /\ Cardinality(Units(Workers, Queued)) = Cardinality(Units(Workers, Queued')) + 1
    BY <2>4, <2>5, UnitsDown
  <2> QED BY <2>6 DEF Waiting, Queued
<1>4. Calling' = Calling \cup {w} /\ w \notin Calling
  BY <1>1, <1>2 DEF Calling
<1>5. Cardinality(Calling') = Cardinality(Calling) + 1
  BY <1>4, FleetTyped, FS_AddElement
<1>6. LetThrough' = LetThrough
  BY <1>1 DEF LetThrough
<1>7. FleetCountEarned'
  BY <1>1, <1>3, <1>5, <1>6, FleetTyped DEF FInv, FleetCountEarned
<1> QED BY <1>1, <1>3, <1>6, <1>7 DEF FInv

\* A call ends with the script run once or not at all.
LEMMA FleetCall ==
  ASSUME FInv, TypeOK', NEW w \in Workers, SyncFail(w) \/ SyncLost(w) \/ SyncReply(w)
  PROVE  FInv'
<1>1. /\ sync[w] = "call" /\ UNCHANGED <<chan, passed, others>>
      /\ sync' = [sync EXCEPT ![w] = "recv"] \/ sync' = [sync EXCEPT ![w] = "load"]
      /\ fleet' = fleet \/ fleet' = Incremented
  BY DEF SyncFail, SyncLost, SyncReply, Done, evalsha_or_eval, redis, served
<1>2. DOMAIN sync = Workers
  BY DEF FInv, TypeOK
<1>3. Calling' = Calling \ {w} /\ w \in Calling
  BY <1>1, <1>2 DEF Calling
<1>4. Cardinality(Calling') = Cardinality(Calling) - 1
  BY <1>3, FleetTyped, FS_RemoveElement
<1>5. fleet'.count \in {fleet.count, fleet.count + 1}
  BY <1>1, FleetTyped
<1>6. Waiting' = Waiting /\ LetThrough' = LetThrough
  BY <1>1 DEF Waiting, LetThrough
<1>7. FleetCountEarned' /\ others' <= fleet'.count
  BY <1>1, <1>4, <1>5, <1>6, FleetTyped DEF FInv, FleetCountEarned
<1> QED BY <1>6, <1>7 DEF FInv

\* What other nodes add is theirs, and a counter that expires takes at least
\* as much as they added with it.
LEMMA FleetElsewhere ==
  ASSUME FInv, TypeOK', Elsewhere \/ Expire \/ Tick
  PROVE  FInv'
<1>1. UNCHANGED <<chan, passed, sync>>
  BY DEF Elsewhere, Expire, Tick, syncVars, served
<1>2. \/ fleet'.count = fleet.count + 1 /\ others' = others + 1
      \/ fleet'.count = 0 /\ others' = 0
      \/ fleet'.count = fleet.count /\ others' = others
  <2>1. CASE Elsewhere
    BY <2>1, FleetTyped DEF Elsewhere
  <2>2. CASE Expire
    BY <2>2 DEF Expire, NoKey
  <2>3. CASE Tick /\ fleet.left = 0
    BY <2>3 DEF Tick, NoKey
  <2>4. CASE Tick /\ fleet.left # 0
    <3>1. fleet \in Counters /\ fleet' = [fleet EXCEPT !.left = @ - 1] /\ others' = others
      BY <2>4 DEF Tick, FInv, TypeOK
    <3> QED BY <3>1 DEF Counters
  <2> QED BY <2>1, <2>2, <2>3, <2>4
<1>3. Waiting' = Waiting /\ LetThrough' = LetThrough /\ Calling' = Calling
  BY <1>1 DEF Waiting, LetThrough, Calling
<1>4. FleetCountEarned' /\ others' <= fleet'.count
  BY <1>2, <1>3, FleetTyped DEF FInv, FleetCountEarned
<1> QED BY <1>3, <1>4 DEF FInv

LEMMA NextFInv == FInv /\ [Next]_vars => FInv'
<1> SUFFICES ASSUME FInv, [Next]_vars PROVE FInv'
  OBVIOUS
<1>1. TypeOK' /\ DOMAIN sync = Workers
  BY NextTyped DEF FInv, TypeOK
<1>2. ASSUME NEW w \in Workers, Load(w) \/ Refuse(w) \/ Retry(w) PROVE FInv'
  BY <1>1, <1>2, FleetIdle DEF Load, Refuse, Retry, syncVars, redis, served, Calling
<1>3. ASSUME NEW w \in Workers, NEW s \in Services, Check(w, s) PROVE FInv'
  BY <1>1, <1>3, FleetIdle DEF Check, syncVars, redis, served, Calling
<1>4. ASSUME NEW w \in Workers, SyncLoad(w) \/ SyncCas(w) PROVE FInv'
  <2>1. UNCHANGED <<passed, chan, fleet, others>>
    BY <1>4 DEF SyncLoad, SyncCas, redis, served
  <2>2. sync[w] # "call" /\ \E l \in {"cas", "recv"} : sync' = [sync EXCEPT ![w] = l]
    BY <1>4 DEF SyncLoad, SyncCas
  <2>3. Calling' = Calling
    BY <1>1, <2>2 DEF Calling
  <2> QED BY <1>1, <2>1, <2>3, FleetIdle
<1>5. CASE UNCHANGED vars
  BY <1>1, <1>5, FleetIdle DEF vars, syncVars, redis, served, Calling
<1> QED
  BY <1>1, <1>2, <1>3, <1>4, <1>5, FleetAllow, FleetRecv, FleetCall, FleetElsewhere
     DEF Next

\* Nothing is let through, queued or counted.
LEMMA InitFInv == Init => FInv
<1> SUFFICES ASSUME Init PROVE FInv
  OBVIOUS
<1>1. TypeOK
  BY InitIInv DEF IInv
<1>2. Waiting = {}
  <2>1. \A w \in Workers : chan[w] = <<>>
    BY DEF Init
  <2>2. \A w \in Workers : 1..Len(chan[w]) = {}
    BY <2>1
  <2> QED BY <2>2, UnitsMember DEF Waiting
<1>3. LetThrough = {}
  <2>1. \A t \in Seconds : passed[t] = 0
    BY DEF Init
  <2>2. \A t \in Seconds : 1..passed[t] = {}
    BY <2>1
  <2> QED BY <2>2, UnitsMember DEF LetThrough
<1>4. Calling = {}
  BY DEF Init, Calling
<1>5. fleet.count = 0 /\ others = 0
  BY DEF Init, NoKey
<1> QED BY <1>1, <1>2, <1>3, <1>4, <1>5, FS_EmptySet DEF FInv, FleetCountEarned

(***************************************************************************)
(* No request of this node is counted twice in the fleet counter, and none *)
(* that was refused, for any number of workers, any channel and any calls  *)
(* that fail or lose their answer (lines 155-210, 260-306, 374-389).       *)
(***************************************************************************)
THEOREM FleetCountsEarned == Spec => []FleetCountEarned
<1>1. FInv => FleetCountEarned
  BY DEF FInv
<1> QED BY <1>1, InitFInv, NextFInv, PTL DEF Spec

============================================================================
