-------------------------- MODULE TelemetryProofs ---------------------------
(***************************************************************************)
(* Telemetry, for any number of workers, buckets and requests and any      *)
(* interleaving of the unlocked adds with scrapes, exports and crashes:    *)
(* the histogram keeps its shape in the mapping and, up to the recordings  *)
(* that overlap it, in a scrape, and no process sends a sample twice.      *)
(*                                                                         *)
(* Two words are compared by the recordings that are between their adds.   *)
(* A word that is always added after another never passes it, even with    *)
(* those recordings counted in; a word that is always followed by another  *)
(* is ahead of it by those recordings and the torn ones alone.  Which adds *)
(* a recording still has to make is known from the order of the code.  A   *)
(* word that a scrape has loaded first can only grow by the adds that were *)
(* to come at its load and those of the recordings begun since.            *)
(***************************************************************************)
EXTENDS Telemetry, FiniteSetTheorems, SequenceTheorems, TLAPS

total == Word("total")
count == Word("count")

Errors == {Word("r401"), Word("r429"), Word("r5xx")}

\* The words that are raised by one, at most once in a recording.
Counted == {total, count} \cup Errors \cup {le(i) : i \in Bucket}

\* Every recording that adds to y has added to x before.
LeadPair(x, y) ==
  \/ x = total /\ y \in {count} \cup Errors
  \/ x = count /\ \E i \in Bucket : y = le(i)

\* Every recording that adds to x adds to y afterwards.
LagPair(x, y) ==
  \/ x = total /\ y = count
  \/ \E i, j \in Bucket : i < j /\ x = le(i) /\ y = le(j)

\* The adds t hold one to x.
Has(t, x) == \E i \in DOMAIN t : t[i][1] = x

InOrder(t, x, y) == \A i, j \in DOMAIN t : t[i][1] = x /\ t[j][1] = y => i < j

\* What is left of a recording adds to a counted word at most once and by one,
\* in the order of the pairs, and does not forget the second of a lag pair.
Remainder(t) ==
  /\ \A x \in Counted : \A i, j \in DOMAIN t :
       t[i][1] = x => t[i][2] = 1 /\ (t[j][1] = x => i = j)
  /\ \A x, y \in Counted : LeadPair(x, y) \/ LagPair(x, y) => InOrder(t, x, y)
  /\ \A x, y \in Counted : LagPair(x, y) /\ Has(t, x) => Has(t, y)

\* A recording that has not begun holds the first of every lead pair too.
Complete(t) == \A x, y \in Counted : LeadPair(x, y) /\ Has(t, y) => Has(t, x)

Leads(x, y) == words[y] + Cardinality(Between(x, y)) <= words[x]
LagBounded(x, y) == words[x] <= words[y] + Cardinality(Between(x, y)) + torn

Shape ==
  \A x, y \in Counted : /\ LeadPair(x, y) => Leads(x, y)
                        /\ LagPair(x, y) => LagBounded(x, y)

\* Workers with an add to word x to come.
Pending(x) == {w \in Workers : Has(log[w].todo, x)}

\* Between the two loads of a scrape: the first word has grown, and will grow,
\* by overlapping recordings alone, and the second keeps up with what was
\* loaded of the first.
UnderWay ==
  scraping # {} =>
    /\ watched \in Dominated =>
         words[watched[1]] + Cardinality(Pending(watched[1])) <= scrape.x + scrape.met
    /\ watched \in Widening => scrape.x <= words[watched[2]] + scrape.met + torn

ScrapeInv == UnderWay /\ ScrapeShape

\* A process has sent no more than its last sample, and each one before it on
\* the same worker no more than there is now.
ExportInv ==
  \A w \in Workers :
    /\ exporter[w].prev <= words[watched[2]]
    /\ exporter[w].sent <= (exporter[w].lives - 1) * words[watched[2]] + exporter[w].prev

IInv ==
  /\ TypeOK
  /\ \A w \in Workers : Remainder(log[w].todo)
  /\ Shape
  /\ ScrapeInv
  /\ ExportInv

(***************************************************************************)
(* Words and adds.                                                         *)
(***************************************************************************)

\* Words with different names are different.
LEMMA Distinct ==
  /\ \A i, j : le(i) = le(j) => i = j
  /\ \A x, y : Word(x) = Word(y) => x = y
  /\ \A i : Word("total") # le(i) /\ Word("count") # le(i) /\ Word("sum") # le(i)
  /\ \A i : Word("r401") # le(i) /\ Word("r429") # le(i) /\ Word("r5xx") # le(i)
  /\ total # count
  /\ \A x \in {"sum", "r401", "r429", "r5xx"} : Word(x) # total /\ Word(x) # count
  /\ Counted \subseteq Words
<1>1. \A i, j : le(i) = le(j) => i = j
  BY DEF le
<1>2. \A i : le(i)[1] = "le"
  BY DEF le
<1>3. \A x : Word(x)[1] = x
  BY DEF Word
<1>4. Counted \subseteq Words
  BY DEF Counted, Errors, Words, snapshot, total, count
<1> QED BY <1>1, <1>2, <1>3, <1>4 DEF total, count

\* The pairs are pairs of different counted words.
LEMMA PairTyped ==
  ASSUME NEW x, NEW y, LeadPair(x, y) \/ LagPair(x, y)
  PROVE  x \in Counted /\ y \in Counted /\ x # y
<1>1. total \in Counted /\ count \in Counted /\ Errors \subseteq Counted
  BY DEF Counted
<1>2. \A i \in Bucket : le(i) \in Counted
  BY DEF Counted
<1>3. total \notin Errors
  BY Distinct DEF Errors
<1>4. \A i, j \in Bucket : i < j => i # j
  BY TelemetryAssumption DEF Bucket
<1> QED BY <1>1, <1>2, <1>3, <1>4, Distinct DEF LeadPair, LagPair, total, count

Adds == Seq(Words \X Nat)

\* The elements of a concatenation of three sequences.
LEMMA Concat3 ==
  ASSUME NEW S, NEW p \in Seq(S), NEW q \in Seq(S), NEW r \in Seq(S),
         NEW t, t = (p \o q) \o r
  PROVE  /\ t \in Seq(S)
         /\ Len(t) = Len(p) + Len(q) + Len(r)
         /\ \A i \in 1..Len(p) : t[i] = p[i]
         /\ \A i \in 1..Len(q) : t[Len(p) + i] = q[i]
         /\ \A i \in 1..Len(r) : t[Len(p) + Len(q) + i] = r[i]
<1>1. Len(p) \in Nat /\ Len(q) \in Nat /\ Len(r) \in Nat
  OBVIOUS
<1>2. PICK u : u = p \o q
  OBVIOUS
<1>3. u \in Seq(S)
  BY <1>2
<1>4. Len(u) = Len(p) + Len(q)
  BY <1>2
<1>5. \A i \in 1..(Len(p) + Len(q)) : u[i] = IF i <= Len(p) THEN p[i] ELSE q[i - Len(p)]
  BY <1>2
<1>6. t = u \o r
  BY <1>2
<1>7. t \in Seq(S) /\ Len(t) = Len(u) + Len(r)
  BY <1>3, <1>6
<1>8. \A i \in 1..(Len(u) + Len(r)) : t[i] = IF i <= Len(u) THEN u[i] ELSE r[i - Len(u)]
  BY <1>3, <1>6
<1>9. \A i \in 1..Len(p) : t[i] = p[i]
  BY <1>1, <1>4, <1>5, <1>8
<1>10. \A i \in 1..Len(q) : t[Len(p) + i] = q[i]
  BY <1>1, <1>4, <1>5, <1>8
<1>11. ASSUME NEW i \in 1..Len(r) PROVE t[Len(p) + Len(q) + i] = r[i]
  <2>1. /\ Len(u) + i \in 1..(Len(u) + Len(r)) /\ ~(Len(u) + i <= Len(u))
        /\ (Len(u) + i) - Len(u) = i
    BY <1>1, <1>4
  <2> QED BY <1>4, <1>8, <2>1
<1> QED BY <1>4, <1>7, <1>9, <1>10, <1>11

\* The position of every add of a recording, n being the number of buckets it
\* is counted in and first the first of them.
LEMMA RecordLayout ==
  ASSUME NEW status \in Nat, NEW lat \in Nat
  PROVE  LET t == record_request(status, lat)
             first == IF lat = 0 THEN 1 ELSE lat
             n == IF first <= Buckets THEN Buckets + 1 - first ELSE 0
         IN  /\ t \in Adds
             /\ Len(t) \in {3 + n, 4 + n}
             /\ t[1] = <<total, 1>> /\ t[2] = <<Word("sum"), lat>> /\ t[3] = <<count, 1>>
             /\ \A k \in 4..(3 + n) : t[k] = <<le(first + k - 4), 1>>
             /\ Len(t) = 4 + n =>
                  t[4 + n] \in {<<Word(x), 1>> : x \in {"r401", "r429", "r5xx"}}
<1> DEFINE first == IF lat = 0 THEN 1 ELSE lat
           n == IF first <= Buckets THEN Buckets + 1 - first ELSE 0
           a == <<<<Word("total"), 1>>, <<Word("sum"), lat>>, <<Word("count"), 1>>>>
           b == BucketAdds(lat)
           c == CASE status = 401 -> <<<<Word("r401"), 1>>>>
                  [] status = 429 -> <<<<Word("r429"), 1>>>>
                  [] status \in 500..599 -> <<<<Word("r5xx"), 1>>>>
                  [] OTHER -> <<>>
           t == record_request(status, lat)
<1> USE TelemetryAssumption
<1>1. /\ \A x \in {"total", "sum", "count", "r401", "r429", "r5xx"} : Word(x) \in Words
      /\ \A i \in Bucket : le(i) \in Words
  BY DEF Words, snapshot
<1>2. first \in Nat \ {0} /\ n \in Nat
  OBVIOUS
<1>3. a \in Adds /\ Len(a) = 3
  BY <1>1 DEF Adds
<1>4. b \in Adds /\ Len(b) = n /\ \A k \in 1..n : b[k] = <<le(first + k - 1), 1>>
  <2>1. 1..(Buckets + 1 - first) = 1..n
    BY <1>2
  <2>2. b = [k \in 1..n |-> <<le(first + k - 1), 1>>]
    BY <2>1 DEF BucketAdds
  <2>3. \A k \in 1..n : <<le(first + k - 1), 1>> \in Words \X Nat
    BY <1>1, <1>2 DEF Bucket
  <2> QED BY <1>2, <2>2, <2>3 DEF Adds
<1>5. /\ c \in Adds
      /\ \/ Len(c) = 0
         \/ Len(c) = 1 /\ c[1] \in {<<Word(x), 1>> : x \in {"r401", "r429", "r5xx"}}
  <2>1. c \in {<<<<Word("r401"), 1>>>>, <<<<Word("r429"), 1>>>>, <<<<Word("r5xx"), 1>>>>, <<>>}
    OBVIOUS
  <2> HIDE DEF c
  <2>2. CASE c = <<>>
    BY <2>2 DEF Adds
  <2>3. ASSUME NEW x \in {"r401", "r429", "r5xx"}, c = <<<<Word(x), 1>>>>
        PROVE  c \in Adds /\ Len(c) = 1 /\ c[1] = <<Word(x), 1>>
    BY <1>1, <2>3 DEF Adds
  <2> QED BY <2>1, <2>2, <2>3
<1>6. t = (a \o b) \o c
  BY DEF record_request
<1> HIDE DEF first, n, a, b, c, t
<1>7. /\ t \in Adds /\ Len(t) = 3 + n + Len(c)
      /\ \A i \in 1..3 : t[i] = a[i]
      /\ \A i \in 1..n : t[3 + i] = b[i]
      /\ \A i \in 1..Len(c) : t[3 + n + i] = c[i]
  <2>1. a \in Seq(Words \X Nat) /\ b \in Seq(Words \X Nat) /\ c \in Seq(Words \X Nat)
    BY <1>3, <1>4, <1>5 DEF Adds
  <2>2. /\ t \in Seq(Words \X Nat)
        /\ Len(t) = Len(a) + Len(b) + Len(c)
        /\ \A i \in 1..Len(a) : t[i] = a[i]
        /\ \A i \in 1..Len(b) : t[Len(a) + i] = b[i]
        /\ \A i \in 1..Len(c) : t[Len(a) + Len(b) + i] = c[i]
    BY <1>6, <2>1, Concat3
  <2> QED BY <1>3, <1>4, <2>2 DEF Adds
<1>8. t[1] = <<total, 1>> /\ t[2] = <<Word("sum"), lat>> /\ t[3] = <<count, 1>>
  BY <1>7 DEF a, total, count
<1>9. ASSUME NEW k \in 4..(3 + n) PROVE t[k] = <<le(first + k - 4), 1>>
  <2>1. k - 3 \in 1..n /\ 3 + (k - 3) = k /\ first + (k - 3) - 1 = first + k - 4
    BY <1>2
  <2> QED BY <1>4, <1>7, <2>1
<1>10. /\ Len(t) \in {3 + n, 4 + n}
       /\ Len(t) = 4 + n => t[4 + n] \in {<<Word(x), 1>> : x \in {"r401", "r429", "r5xx"}}
  <2>1. CASE Len(c) = 0
    BY <1>2, <1>7, <2>1
  <2>2. CASE Len(c) = 1 /\ c[1] \in {<<Word(x), 1>> : x \in {"r401", "r429", "r5xx"}}
    <3>1. t[3 + n + 1] = c[1] /\ 3 + n + 1 = 4 + n
      BY <1>2, <1>7, <2>2
    <3> QED BY <1>2, <1>7, <2>2, <3>1
  <2> QED BY <1>5, <2>1, <2>2
<1> QED BY <1>7, <1>8, <1>9, <1>10 DEF first, n, t

\* A recording starts complete and in order.
LEMMA RecordStarts ==
  ASSUME NEW status \in Nat, NEW lat \in Nat, NEW t, t = record_request(status, lat)
  PROVE  t \in Adds /\ t # <<>> /\ Remainder(t) /\ Complete(t)
<1> PICK first : first = IF lat = 0 THEN 1 ELSE lat
  OBVIOUS
<1> PICK n : n = IF first <= Buckets THEN Buckets + 1 - first ELSE 0
  OBVIOUS
<1>1. first \in Nat \ {0} /\ n \in Nat /\ (n > 0 => first + n = Buckets + 1) /\ Buckets \in Nat
  BY TelemetryAssumption
<1>2. /\ t \in Adds
      /\ Len(t) = 3 + n \/ Len(t) = 4 + n
      /\ t[1] = <<total, 1>> /\ t[2] = <<Word("sum"), lat>> /\ t[3] = <<count, 1>>
      /\ \A k \in 4..(3 + n) : t[k] = <<le(first + k - 4), 1>>
      /\ Len(t) = 4 + n => t[4 + n] \in {<<Word(x), 1>> : x \in {"r401", "r429", "r5xx"}}
  BY RecordLayout
<1>3. DOMAIN t = 1..Len(t) /\ Len(t) \in Nat /\ (Len(t) = 3 + n \/ Len(t) = 4 + n)
  BY <1>2 DEF Adds
<1>4. ASSUME NEW k \in DOMAIN t
      PROVE  /\ t[k][1] = total <=> k = 1
             /\ t[k][1] = count <=> k = 3
             /\ \A i : t[k][1] = le(i) <=> k \in 4..(3 + n) /\ i = first + k - 4
             /\ t[k][1] \in Errors => k = 4 + n
             /\ t[k][1] \in Counted => t[k][2] = 1
  <2> USE Distinct
  <2>1. CASE k = 1
    BY <1>1, <1>2, <2>1 DEF total, count, Errors
  <2>2. CASE k = 2
    BY <1>1, <1>2, <2>2 DEF total, count, Counted, Errors
  <2>3. CASE k = 3
    BY <1>1, <1>2, <2>3 DEF total, count, Errors
  <2>4. CASE k \in 4..(3 + n)
    <3>1. t[k][1] = le(first + k - 4) /\ t[k][2] = 1 /\ k # 1 /\ k # 3
      <4>1. t[k] = <<le(first + k - 4), 1>>
        BY <1>2, <2>4
      <4>2. k # 1 /\ k # 3
        BY <1>1, <2>4
      <4> QED BY <4>1, <4>2
    <3> QED BY <2>4, <3>1 DEF total, count, Errors
  <2>5. CASE k = 4 + n
    <3>1. PICK x \in {"r401", "r429", "r5xx"} : t[k] = <<Word(x), 1>>
      <4>1. Len(t) = 4 + n
        BY <1>1, <1>3, <2>5
      <4> QED BY <1>2, <2>5, <4>1
    <3>2. Word(x) # total /\ Word(x) # count /\ \A i : Word(x) # le(i)
      OBVIOUS
    <3> QED BY <1>1, <2>5, <3>1, <3>2
  <2>6. k = 1 \/ k = 2 \/ k = 3 \/ k \in 4..(3 + n) \/ k = 4 + n
    BY <1>1, <1>3
  <2> QED BY <2>1, <2>2, <2>3, <2>4, <2>5, <2>6
<1>5. /\ 1 \in DOMAIN t /\ 3 \in DOMAIN t /\ t # <<>>
      /\ 4..(3 + n) \subseteq DOMAIN t
  <2>1. Len(t) >= 3 + n
    BY <1>1, <1>3
  <2>2. t # <<>>
    BY <1>1, <1>3, <2>1
  <2> QED BY <1>1, <1>3, <2>1, <2>2
<1>6. ASSUME NEW x \in Counted, NEW i \in DOMAIN t, NEW j \in DOMAIN t, t[i][1] = x
      PROVE  t[i][2] = 1 /\ (t[j][1] = x => i = j)
  BY <1>1, <1>3, <1>4, <1>6 DEF Counted
<1>7. ASSUME NEW x \in Counted, NEW y \in Counted, LeadPair(x, y) \/ LagPair(x, y)
      PROVE  InOrder(t, x, y)
  BY <1>1, <1>3, <1>4, <1>7 DEF LeadPair, LagPair, InOrder, Bucket
<1>8. Has(t, total) /\ Has(t, count)
  BY <1>4, <1>5 DEF Has
<1>9. ASSUME NEW i \in Bucket, NEW j \in Bucket, i < j, Has(t, le(i))
      PROVE  Has(t, le(j))
  <2>1. PICK k \in DOMAIN t : t[k][1] = le(i)
    BY <1>9 DEF Has
  <2>2. k \in 4..(3 + n) /\ i = first + k - 4
    BY <1>4, <2>1
  <2>3. k + (j - i) \in 4..(3 + n) /\ j = first + (k + (j - i)) - 4
    BY <1>1, <1>9, <2>2 DEF Bucket
  <2>4. k + (j - i) \in DOMAIN t
    BY <1>5, <2>3
  <2>5. t[k + (j - i)][1] = le(j)
    BY <1>4, <2>3, <2>4
  <2> QED BY <2>4, <2>5 DEF Has
<1>10. Remainder(t)
  BY <1>6, <1>7, <1>8, <1>9 DEF Remainder, LagPair
<1>11. Complete(t)
  BY <1>8 DEF Complete, LeadPair
<1> QED BY <1>2, <1>5, <1>10, <1>11

\* What an add leaves: t holds x when the add is to x or the rest holds it.
LEMMA TailHas ==
  ASSUME NEW t \in Adds, t # <<>>, NEW x
  PROVE  /\ Tail(t) \in Adds /\ Head(t) \in Words \X Nat
         /\ Has(t, x) <=> Head(t)[1] = x \/ Has(Tail(t), x)
<1>1. /\ Tail(t) \in Adds /\ Head(t) = t[1] /\ t[1] \in Words \X Nat
      /\ Len(t) \in Nat \ {0} /\ DOMAIN t = 1..Len(t)
      /\ DOMAIN Tail(t) = 1..(Len(t) - 1)
      /\ \A i \in 1..(Len(t) - 1) : Tail(t)[i] = t[i + 1]
  BY DEF Adds
<1>2. Has(t, x) => Head(t)[1] = x \/ Has(Tail(t), x)
  <2> SUFFICES ASSUME NEW k \in DOMAIN t, t[k][1] = x, k # 1
               PROVE  Has(Tail(t), x)
    BY <1>1 DEF Has
  <2>1. k - 1 \in DOMAIN Tail(t) /\ Tail(t)[k - 1] = t[(k - 1) + 1] /\ (k - 1) + 1 = k
    BY <1>1
  <2> QED BY <2>1 DEF Has
<1>3. Head(t)[1] = x \/ Has(Tail(t), x) => Has(t, x)
  BY <1>1 DEF Has
<1> QED BY <1>1, <1>2, <1>3

\* What is left after an add is a remainder; the word added to is not in it,
\* and neither is a word that comes before it.
LEMMA TailRemains ==
  ASSUME NEW t \in Adds, t # <<>>, Remainder(t)
  PROVE  /\ Remainder(Tail(t))
         /\ Head(t)[1] \in Counted => Head(t)[2] = 1 /\ ~Has(Tail(t), Head(t)[1])
         /\ \A x, y \in Counted :
              Head(t)[1] = y /\ (LeadPair(x, y) \/ LagPair(x, y)) => ~Has(t, x)
<1>1. /\ Head(t) = t[1] /\ Len(t) \in Nat \ {0} /\ DOMAIN t = 1..Len(t)
      /\ DOMAIN Tail(t) = 1..(Len(t) - 1)
      /\ \A i \in 1..(Len(t) - 1) : Tail(t)[i] = t[i + 1]
  BY DEF Adds
<1>2. ASSUME NEW i \in DOMAIN Tail(t)
      PROVE  i + 1 \in DOMAIN t /\ Tail(t)[i] = t[i + 1] /\ i \in Nat \ {0}
  BY <1>1
<1>3. 1 \in DOMAIN t
  BY <1>1
<1>4. Head(t)[1] \in Counted => Head(t)[2] = 1 /\ ~Has(Tail(t), Head(t)[1])
  <2> SUFFICES ASSUME Head(t)[1] \in Counted
               PROVE  Head(t)[2] = 1 /\ ~Has(Tail(t), Head(t)[1])
    OBVIOUS
  <2>1. \A j \in DOMAIN t : t[1][2] = 1 /\ (t[j][1] = t[1][1] => 1 = j)
    BY <1>1, <1>3 DEF Remainder
  <2> QED BY <1>1, <1>2, <1>3, <2>1 DEF Has
<1>5. ASSUME NEW x \in Counted, NEW y \in Counted, Head(t)[1] = y,
             LeadPair(x, y) \/ LagPair(x, y)
      PROVE  ~Has(t, x)
  <2>1. InOrder(t, x, y)
    BY <1>5 DEF Remainder
  <2> QED BY <1>1, <1>3, <1>5, <2>1 DEF InOrder, Has
<1>6. ASSUME NEW x \in Counted, NEW i \in DOMAIN Tail(t), NEW j \in DOMAIN Tail(t),
             Tail(t)[i][1] = x
      PROVE  Tail(t)[i][2] = 1 /\ (Tail(t)[j][1] = x => i = j)
  <2>1. t[i + 1][2] = 1 /\ (t[j + 1][1] = x => i + 1 = j + 1)
    BY <1>2, <1>6 DEF Remainder
  <2> QED BY <1>2, <2>1
<1>7. ASSUME NEW x \in Counted, NEW y \in Counted, LeadPair(x, y) \/ LagPair(x, y)
      PROVE  InOrder(Tail(t), x, y)
  <2>1. InOrder(t, x, y)
    BY <1>7 DEF Remainder
  <2> QED BY <1>2, <2>1 DEF InOrder
<1>8. ASSUME NEW x \in Counted, NEW y \in Counted, LagPair(x, y), Has(Tail(t), x)
      PROVE  Has(Tail(t), y)
  <2>1. Has(t, x) /\ Has(t, y)
    BY <1>8, TailHas DEF Remainder
  <2>2. Head(t)[1] # y
    BY <1>5, <1>8, <2>1
  <2> QED BY <2>1, <2>2, TailHas
<1> QED BY <1>4, <1>5, <1>6, <1>7, <1>8 DEF Remainder

(***************************************************************************)
(* Recordings between two adds.                                            *)
(***************************************************************************)

\* Two finite sets that agree but for w differ in size by w.
LEMMA CardinalityBut ==
  ASSUME NEW B, NEW C, NEW w, IsFiniteSet(B), IsFiniteSet(C), B \ {w} = C \ {w}
  PROVE  /\ Cardinality(B) \in Nat /\ Cardinality(C) \in Nat
         /\ (w \in B <=> w \in C) => Cardinality(C) = Cardinality(B)
         /\ w \in B /\ w \notin C => Cardinality(C) = Cardinality(B) - 1
         /\ w \notin B /\ w \in C => Cardinality(C) = Cardinality(B) + 1
<1>1. Cardinality(B) \in Nat /\ Cardinality(C) \in Nat
  BY FS_CardinalityType
<1>2. /\ Cardinality(B \ {w}) = IF w \in B THEN Cardinality(B) - 1 ELSE Cardinality(B)
      /\ Cardinality(C \ {w}) = IF w \in C THEN Cardinality(C) - 1 ELSE Cardinality(C)
  BY FS_RemoveElement
<1> QED BY <1>1, <1>2

\* Between in terms of Has.
LEMMA BetweenHas ==
  ASSUME NEW x, NEW y
  PROVE  /\ \A w \in Workers :
              w \in Between(x, y) <=> Has(log[w].todo, y) /\ ~Has(log[w].todo, x)
         /\ IsFiniteSet(Between(x, y))
<1>1. Between(x, y) \subseteq Workers
  BY DEF Between
<1>2. IsFiniteSet(Between(x, y))
  BY <1>1, TelemetryAssumption, FS_Subset
<1> QED BY <1>2 DEF Between, Has

\* The same in the next state.
LEMMA BetweenHasNext ==
  ASSUME NEW x, NEW y
  PROVE  /\ \A w \in Workers :
              w \in Between(x, y)' <=> Has(log'[w].todo, y) /\ ~Has(log'[w].todo, x)
         /\ IsFiniteSet(Between(x, y)')
<1>1. Between(x, y)' \subseteq Workers
  BY DEF Between
<1>2. IsFiniteSet(Between(x, y)')
  BY <1>1, TelemetryAssumption, FS_Subset
<1> QED BY <1>2 DEF Between, Has

\* A step of worker w changes the recordings between two adds by at most w.
LEMMA BetweenStep ==
  ASSUME NEW w \in Workers, \A u \in Workers \ {w} : log'[u] = log[u], NEW x, NEW y,
         NEW b, b = Cardinality(Between(x, y)), NEW c, c = Cardinality(Between(x, y)')
  PROVE  /\ b \in Nat /\ c \in Nat
         /\ (w \in Between(x, y) <=> w \in Between(x, y)') => c = b
         /\ w \in Between(x, y) /\ w \notin Between(x, y)' => c = b - 1
         /\ w \notin Between(x, y) /\ w \in Between(x, y)' => c = b + 1
<1>1. Between(x, y) \ {w} = Between(x, y)' \ {w}
  BY DEF Between
<1> QED BY <1>1, BetweenHas, BetweenHasNext, CardinalityBut

(***************************************************************************)
(* Types.                                                                  *)
(***************************************************************************)
LogStates == [pc : {"idle", "add", "send"}, todo : Adds]
ExporterStates == [pc : {"sleep", "drain"}, prev : Nat, taken : 0..DrainMax,
                   sent : Nat, lives : Nat \ {0}]

\* TypeOK by component: the mapping, its scrape, the log phases, the spans.
WordsTyped ==
  /\ words \in [Words -> Nat]
  /\ requests \in 0..MaxRequests
  /\ crashes \in 0..MaxCrashes
  /\ torn \in 0..crashes

ScrapeTyped ==
  /\ watched \in Dominated \cup Widening
  /\ scraping \in {{}} \cup {{w} : w \in Workers}
  /\ scrape \in [x : Nat, y : Nat, met : Nat]

LogTyped ==
  /\ log \in [Workers -> LogStates]
  /\ \A w \in Workers : (log[w].pc = "add") = (log[w].todo # <<>>)

SpansTyped ==
  /\ queue \in [Workers -> 0..ChanCap]
  /\ exporter \in [Workers -> ExporterStates]

LEMMA TypeParts ==
  /\ TypeOK <=> WordsTyped /\ ScrapeTyped /\ LogTyped /\ SpansTyped
  /\ TypeOK' <=> WordsTyped' /\ ScrapeTyped' /\ LogTyped' /\ SpansTyped'
BY DEF TypeOK, WordsTyped, ScrapeTyped, LogTyped, SpansTyped, LogStates, ExporterStates, Adds

\* The watched words are a pair of counted words.
LEMMA WatchedPair ==
  ASSUME watched \in Dominated \cup Widening
  PROVE  /\ watched \in Dominated => LeadPair(watched[1], watched[2])
         /\ watched \in Widening => LagPair(watched[1], watched[2])
         /\ watched[1] \in Counted /\ watched[2] \in Counted
         /\ watched[1] \in Words /\ watched[2] \in Words
<1>1. ASSUME watched \in Dominated PROVE LeadPair(watched[1], watched[2])
  <2>1. CASE watched \in {<<Word("total"), y>> : y \in snapshot \ {Word("total"), Word("sum")}}
    BY <2>1 DEF LeadPair, snapshot, Errors, total, count
  <2>2. CASE watched \in {<<Word("count"), le(i)>> : i \in Bucket}
    BY <2>2 DEF LeadPair, count
  <2> QED BY <1>1, <2>1, <2>2 DEF Dominated
<1>2. ASSUME watched \in Widening PROVE LagPair(watched[1], watched[2])
  <2>1. PICK b \in {c \in Bucket \X Bucket : c[1] < c[2]} : watched = <<le(b[1]), le(b[2])>>
    BY <1>2 DEF Widening
  <2>2. b[1] \in Bucket /\ b[2] \in Bucket /\ b[1] < b[2]
    BY <2>1
  <2> QED BY <2>1, <2>2 DEF LagPair
<1>3. watched[1] \in Counted /\ watched[2] \in Counted
  BY <1>1, <1>2, PairTyped
<1> QED BY <1>1, <1>2, <1>3, Distinct

\* A worker outside a recording has no adds to make.
LEMMA NoAdds ==
  ASSUME LogTyped, NEW w \in Workers, log[w].pc # "add"
  PROVE  log[w].todo = <<>>
BY DEF LogTyped

\* Nothing is in, or missing from, the empty recording.
LEMMA EmptyRemainder == Remainder(<<>>) /\ \A x : ~Has(<<>>, x)
BY DEF Remainder, Has, InOrder

(***************************************************************************)
(* The log phase.                                                          *)
(***************************************************************************)

\* The next add of a recording: the word added to, what the words become and
\* what is left.
LEMMA AddStep ==
  ASSUME IInv, NEW w \in Workers, LogAdd(w), NEW t, t = log[w].todo
  PROVE  /\ t \in Adds /\ t # <<>> /\ Remainder(t)
         /\ Head(t)[1] \in Words /\ Head(t)[2] \in Nat /\ Tail(t) \in Adds
         /\ words' = [words EXCEPT ![Head(t)[1]] = @ + Head(t)[2]]
         /\ log'[w].todo = Tail(t)
         /\ \A u \in Workers \ {w} : log'[u] = log[u]
<1>1. LogTyped /\ log[w].pc = "add"
  BY TypeParts DEF IInv, LogAdd
<1>2. t \in Adds /\ t # <<>> /\ Remainder(t)
  BY <1>1 DEF IInv, LogTyped, LogStates
<1>3. Head(t) \in Words \X Nat /\ Tail(t) \in Adds
  BY <1>2, TailHas
<1>4. words' = [words EXCEPT ![Head(t)[1]] = @ + Head(t)[2]]
  BY DEF LogAdd
<1>5. /\ log'[w].todo = Tail(t)
      /\ \A u \in Workers \ {w} : log'[u] = log[u]
  BY <1>1 DEF LogAdd, LogTyped
<1> QED BY <1>2, <1>3, <1>4, <1>5

\* An add keeps both bounds: it raises one of the words and moves the worker
\* in or out of the recordings between them.
LEMMA AddShape == ASSUME IInv, NEW w \in Workers, LogAdd(w) PROVE Shape'
<1> PICK t : t = log[w].todo
  OBVIOUS
<1> PICK h : h = Head(t)[1]
  OBVIOUS
<1>1. /\ t \in Adds /\ t # <<>> /\ Remainder(t) /\ h \in Words /\ Head(t)[2] \in Nat
      /\ words' = [words EXCEPT ![h] = @ + Head(t)[2]]
      /\ log'[w].todo = Tail(t)
      /\ \A u \in Workers \ {w} : log'[u] = log[u]
  BY AddStep
<1>2. words \in [Words -> Nat] /\ torn \in Nat /\ torn' = torn
  BY TypeParts DEF IInv, WordsTyped, LogAdd
<1>3. /\ h \in Counted => Head(t)[2] = 1 /\ ~Has(Tail(t), h)
      /\ \A x, y \in Counted : h = y /\ (LeadPair(x, y) \/ LagPair(x, y)) => ~Has(t, x)
      /\ \A x, y \in Counted : LagPair(x, y) /\ Has(t, x) => Has(t, y)
  BY <1>1, TailRemains DEF Remainder
<1> SUFFICES ASSUME NEW x \in Counted, NEW y \in Counted
             PROVE  /\ LeadPair(x, y) => Leads(x, y)'
                    /\ LagPair(x, y) => LagBounded(x, y)'
  BY DEF Shape
<1> SUFFICES ASSUME LeadPair(x, y) \/ LagPair(x, y)
             PROVE  /\ LeadPair(x, y) => Leads(x, y)'
                    /\ LagPair(x, y) => LagBounded(x, y)'
  OBVIOUS
<1>4. x # y /\ x \in Words /\ y \in Words
  BY PairTyped, Distinct
<1> PICK b : b = Cardinality(Between(x, y))
  OBVIOUS
<1> PICK c : c = Cardinality(Between(x, y)')
  OBVIOUS
<1>5. /\ b \in Nat /\ c \in Nat
      /\ (w \in Between(x, y) <=> w \in Between(x, y)') => c = b
      /\ w \in Between(x, y) /\ w \notin Between(x, y)' => c = b - 1
      /\ w \notin Between(x, y) /\ w \in Between(x, y)' => c = b + 1
  BY <1>1, BetweenStep
<1>6. /\ w \in Between(x, y) <=> Has(t, y) /\ ~Has(t, x)
      /\ w \in Between(x, y)' <=> Has(Tail(t), y) /\ ~Has(Tail(t), x)
  BY <1>1, BetweenHas, BetweenHasNext
<1>7. /\ Has(t, x) <=> h = x \/ Has(Tail(t), x)
      /\ Has(t, y) <=> h = y \/ Has(Tail(t), y)
  BY <1>1, TailHas
<1>8. /\ LeadPair(x, y) => words[y] + b <= words[x]
      /\ LagPair(x, y) => words[x] <= words[y] + b + torn
  BY DEF IInv, Shape, Leads, LagBounded
<1>9. words[x] \in Nat /\ words[y] \in Nat
  BY <1>2, <1>4
<1>10. CASE h = y
  <2>1. words'[y] = words[y] + 1 /\ words'[x] = words[x]
    BY <1>1, <1>2, <1>3, <1>4, <1>10
  <2>2. c = b - 1
    BY <1>3, <1>5, <1>6, <1>7, <1>10
  <2> QED BY <1>2, <1>5, <1>8, <1>9, <2>1, <2>2 DEF Leads, LagBounded
<1>11. CASE h = x
  <2>1. words'[x] = words[x] + 1 /\ words'[y] = words[y]
    BY <1>1, <1>2, <1>3, <1>4, <1>11
  <2>2. c <= b + 1 /\ (LagPair(x, y) => c = b + 1)
    BY <1>3, <1>4, <1>5, <1>6, <1>7, <1>11
  <2> QED BY <1>2, <1>5, <1>8, <1>9, <2>1, <2>2 DEF Leads, LagBounded
<1>12. CASE h # x /\ h # y
  <2>1. words'[x] = words[x] /\ words'[y] = words[y]
    BY <1>1, <1>2, <1>4, <1>12
  <2>2. c = b
    BY <1>5, <1>6, <1>7, <1>12
  <2> QED BY <1>2, <1>5, <1>8, <1>9, <2>1, <2>2 DEF Leads, LagBounded
<1> QED BY <1>10, <1>11, <1>12

\* The counters only grow.
Grows == \A x \in Words : words'[x] >= words[x]

LEMMA Monotone == ASSUME NEW k \in Nat, NEW m \in Nat, NEW n \in Nat, m <= n
                  PROVE  k * m \in Nat /\ k * m <= k * n
<1>1. PICK d \in Nat : n = m + d
  BY n - m \in Nat /\ n = m + (n - m)
<1>2. k * n = k * m + k * d
  BY <1>1
<1>3. k * m \in Nat /\ k * d \in Nat
  OBVIOUS
<1> QED BY <1>2, <1>3

\* An exporter that does not move stays behind counters that only grow.
LEMMA ExportsStay ==
  ASSUME IInv, WordsTyped', Grows, UNCHANGED <<watched, exporter>>
  PROVE  ExportInv'
<1> SUFFICES ASSUME NEW w \in Workers
             PROVE  /\ exporter[w].prev <= words'[watched[2]]
                    /\ exporter[w].sent <=
                         (exporter[w].lives - 1) * words'[watched[2]] + exporter[w].prev
  BY DEF ExportInv
<1> PICK m, n : m = words[watched[2]] /\ n = words'[watched[2]]
  OBVIOUS
<1> PICK k : k = exporter[w].lives - 1
  OBVIOUS
<1>1. m \in Nat /\ n \in Nat /\ m <= n
  BY TypeParts, WatchedPair DEF IInv, WordsTyped, ScrapeTyped, Grows
<1>2. exporter[w].prev \in Nat /\ exporter[w].sent \in Nat /\ k \in Nat
  BY TypeParts DEF IInv, SpansTyped, ExporterStates
<1>3. k * m \in Nat /\ k * n \in Nat /\ k * m <= k * n
  BY <1>1, <1>2, Monotone
<1>4. exporter[w].prev <= m /\ exporter[w].sent <= k * m + exporter[w].prev
  BY DEF IInv, ExportInv
<1>5. exporter[w].prev <= n
  BY <1>1, <1>2, <1>4
<1>6. exporter[w].sent <= k * n + exporter[w].prev
  BY <1>2, <1>3, <1>4
<1> QED BY <1>5, <1>6

\* A step of worker w changes the pending adds to a word by at most its own.
LEMMA PendingStep ==
  ASSUME NEW w \in Workers, \A u \in Workers \ {w} : log'[u] = log[u], NEW x,
         NEW b, b = Cardinality(Pending(x)), NEW c, c = Cardinality(Pending(x)')
  PROVE  /\ b \in Nat /\ c \in Nat
         /\ (Has(log[w].todo, x) <=> Has(log'[w].todo, x)) => c = b
         /\ Has(log[w].todo, x) /\ ~Has(log'[w].todo, x) => c = b - 1
         /\ ~Has(log[w].todo, x) /\ Has(log'[w].todo, x) => c = b + 1
<1>1. Pending(x) \ {w} = Pending(x)' \ {w}
  BY DEF Pending
<1>2. Pending(x) \subseteq Workers /\ Pending(x)' \subseteq Workers
  BY DEF Pending
<1>3. IsFiniteSet(Pending(x)) /\ IsFiniteSet(Pending(x)')
  BY <1>2, TelemetryAssumption, FS_Subset
<1>4. /\ w \in Pending(x) <=> Has(log[w].todo, x)
      /\ w \in Pending(x)' <=> Has(log'[w].todo, x)
  BY DEF Pending
<1> QED BY <1>1, <1>3, <1>4, CardinalityBut

\* No counted word gains more than the pending adds to it lose.
Conserved ==
  \A x \in Counted :
    words'[x] + Cardinality(Pending(x)') <= words[x] + Cardinality(Pending(x))

\* A scrape that does not move is not upset by adds that were to come.
LEMMA ScrapeStays ==
  ASSUME IInv, WordsTyped', Grows, Conserved, torn' >= torn, UNCHANGED scrapeVars
  PROVE  ScrapeInv' /\ ScrapeTyped'
<1>1. UNCHANGED <<watched, scraping, scrape>>
  BY DEF scrapeVars
<1>2. ScrapeTyped /\ ScrapeTyped'
  BY <1>1, TypeParts DEF IInv, ScrapeTyped
<1>3. /\ watched[1] \in Counted /\ watched[2] \in Words /\ watched[1] \in Words
      /\ scrape.x \in Nat /\ scrape.y \in Nat /\ scrape.met \in Nat
  BY <1>2, WatchedPair DEF ScrapeTyped
<1>4. /\ words \in [Words -> Nat] /\ words' \in [Words -> Nat]
      /\ torn \in Nat /\ torn' \in Nat
  BY TypeParts DEF IInv, WordsTyped
<1>5. ASSUME scraping # {}, watched \in Dominated
      PROVE  words'[watched[1]] + Cardinality(Pending(watched[1])') <= scrape.x + scrape.met
  <2> PICK x : x = watched[1]
    OBVIOUS
  <2> PICK b, c : b = Cardinality(Pending(watched[1])) /\ c = Cardinality(Pending(watched[1])')
    OBVIOUS
  <2>0. Pending(watched[1])' = Pending(x)' /\ x \in Counted
    BY <1>1, <1>3 DEF Pending
  <2>1. words'[watched[1]] + c <= words[watched[1]] + b
    BY <2>0 DEF Conserved
  <2>2. words[watched[1]] + b <= scrape.x + scrape.met
    BY <1>5 DEF IInv, ScrapeInv, UnderWay
  <2>3. b \in Nat /\ c \in Nat
    <3>1. Pending(watched[1]) \subseteq Workers /\ Pending(watched[1])' \subseteq Workers
      BY <1>1 DEF Pending
    <3> QED BY <3>1, TelemetryAssumption, FS_Subset, FS_CardinalityType
  <2> QED BY <1>3, <1>4, <2>1, <2>2, <2>3
<1>6. ASSUME scraping # {}, watched \in Widening
      PROVE  scrape.x <= words'[watched[2]] + scrape.met + torn'
  <2>1. scrape.x <= words[watched[2]] + scrape.met + torn
    BY <1>6 DEF IInv, ScrapeInv, UnderWay
  <2>2. words'[watched[2]] >= words[watched[2]]
    BY <1>3 DEF Grows
  <2> QED BY <1>3, <1>4, <2>1, <2>2
<1>7. UnderWay'
  BY <1>1, <1>5, <1>6 DEF UnderWay
<1>8. ScrapeShape'
  <2>1. /\ scraping = {} /\ watched \in Dominated => scrape.y <= scrape.x + scrape.met
        /\ scraping = {} /\ watched \in Widening => scrape.x <= scrape.y + scrape.met + torn
    BY DEF IInv, ScrapeInv, ScrapeShape
  <2> QED BY <1>1, <1>3, <1>4, <2>1 DEF ScrapeShape
<1> QED BY <1>2, <1>7, <1>8 DEF ScrapeInv

\* The next add keeps the invariant.
LEMMA LogAddKept == ASSUME IInv, NEW w \in Workers, LogAdd(w) PROVE IInv'
<1> PICK t : t = log[w].todo
  OBVIOUS
<1>1. WordsTyped /\ LogTyped /\ SpansTyped
  BY TypeParts DEF IInv
<1>2. /\ t \in Adds /\ t # <<>> /\ Remainder(t)
      /\ Head(t)[1] \in Words /\ Head(t)[2] \in Nat /\ Tail(t) \in Adds
      /\ words' = [words EXCEPT ![Head(t)[1]] = @ + Head(t)[2]]
      /\ log'[w].todo = Tail(t)
      /\ \A u \in Workers \ {w} : log'[u] = log[u]
  BY AddStep
<1>3. UNCHANGED <<requests, crashes, torn, scrapeVars, watched, queue, exporter>>
  BY DEF LogAdd, scrapeVars
<1>4. WordsTyped' /\ Grows
  <2> PICK h, k : h = Head(t)[1] /\ k = Head(t)[2]
    OBVIOUS
  <2>1. words' = [words EXCEPT ![h] = @ + k] /\ h \in Words /\ k \in Nat
    BY <1>2
  <2>2. words \in [Words -> Nat]
    BY <1>1 DEF WordsTyped
  <2>3. words' \in [Words -> Nat] /\ Grows
    BY <2>1, <2>2 DEF Grows
  <2> QED BY <1>1, <1>3, <2>3 DEF WordsTyped
<1>5. SpansTyped'
  BY <1>1, <1>3 DEF SpansTyped
<1>6. LogTyped'
  <2>1. log' = [log EXCEPT ![w] = [pc |-> IF Tail(t) = <<>> THEN "send" ELSE "add",
                                   todo |-> Tail(t)]]
    BY DEF LogAdd
  <2>2. CASE Tail(t) = <<>>
    BY <1>1, <1>2, <2>1, <2>2 DEF LogTyped, LogStates
  <2>3. CASE Tail(t) # <<>>
    BY <1>1, <1>2, <2>1, <2>3 DEF LogTyped, LogStates
  <2> QED BY <2>2, <2>3
<1>7. \A u \in Workers : Remainder(log'[u].todo)
  BY <1>2, TailRemains DEF IInv
<1>8. Conserved
  <2> SUFFICES ASSUME NEW x \in Counted
               PROVE  words'[x] + Cardinality(Pending(x)') <= words[x] + Cardinality(Pending(x))
    BY DEF Conserved
  <2> PICK b, c : b = Cardinality(Pending(x)) /\ c = Cardinality(Pending(x)')
    OBVIOUS
  <2> PICK h : h = Head(t)[1]
    OBVIOUS
  <2>1. /\ b \in Nat /\ c \in Nat
        /\ (Has(t, x) <=> Has(Tail(t), x)) => c = b
        /\ Has(t, x) /\ ~Has(Tail(t), x) => c = b - 1
    BY <1>2, PendingStep
  <2>2. Has(t, x) <=> h = x \/ Has(Tail(t), x)
    BY <1>2, TailHas
  <2>3. h = x => Head(t)[2] = 1 /\ ~Has(Tail(t), x)
    BY <1>2, TailRemains
  <2>4. words \in [Words -> Nat] /\ x \in Words
    BY <1>1, Distinct DEF WordsTyped
  <2>5. CASE h = x
    <3>1. words'[x] = words[x] + 1 /\ words[x] \in Nat
      BY <1>2, <2>3, <2>4, <2>5
    <3> QED BY <2>1, <2>2, <2>3, <2>5, <3>1
  <2>6. CASE h # x
    <3>1. words'[x] = words[x] /\ words[x] \in Nat
      BY <1>2, <2>4, <2>6
    <3> QED BY <2>1, <2>2, <2>6, <3>1
  <2> QED BY <2>5, <2>6
<1>9. Shape'
  BY AddShape
<1>10. ScrapeInv' /\ ScrapeTyped' /\ ExportInv'
  <2>1. torn' >= torn
    BY <1>1, <1>3 DEF WordsTyped
  <2> QED BY <1>3, <1>4, <1>8, <2>1, ScrapeStays, ExportsStay
<1> QED BY <1>4, <1>5, <1>6, <1>7, <1>9, <1>10, TypeParts DEF IInv

\* A step of worker w that replaces its recording without an add keeps the
\* bounds, if what it drops is counted as torn and what it starts is complete.
LEMMA ReplaceShape ==
  ASSUME IInv, NEW w \in Workers, NEW t, log'[w].todo = t,
         \A u \in Workers \ {w} : log'[u] = log[u],
         Complete(t), words' = words, torn' \in Nat,
         torn' = IF log[w].todo # <<>> THEN torn + 1 ELSE torn
  PROVE  Shape'
<1>1. words \in [Words -> Nat] /\ torn \in Nat
  BY TypeParts DEF IInv, WordsTyped
<1> SUFFICES ASSUME NEW x \in Counted, NEW y \in Counted, LeadPair(x, y) \/ LagPair(x, y)
             PROVE  /\ LeadPair(x, y) => Leads(x, y)'
                    /\ LagPair(x, y) => LagBounded(x, y)'
  BY DEF Shape
<1> PICK b : b = Cardinality(Between(x, y))
  OBVIOUS
<1> PICK c : c = Cardinality(Between(x, y)')
  OBVIOUS
<1>2. /\ b \in Nat /\ c \in Nat
      /\ (w \in Between(x, y) <=> w \in Between(x, y)') => c = b
      /\ w \in Between(x, y) /\ w \notin Between(x, y)' => c = b - 1
      /\ w \notin Between(x, y) /\ w \in Between(x, y)' => c = b + 1
  BY BetweenStep
<1>3. /\ w \in Between(x, y) => log[w].todo # <<>>
      /\ LeadPair(x, y) => w \notin Between(x, y)'
  BY BetweenHas, BetweenHasNext, EmptyRemainder DEF Complete
<1>4. /\ LeadPair(x, y) => words[y] + b <= words[x]
      /\ LagPair(x, y) => words[x] <= words[y] + b + torn
  BY DEF IInv, Shape, Leads, LagBounded
<1>5. words[x] \in Nat /\ words[y] \in Nat
  BY <1>1, Distinct
<1>6. LeadPair(x, y) => c <= b
  BY <1>2, <1>3
<1>7. b + torn <= c + torn'
  BY <1>1, <1>2, <1>3
<1> QED BY <1>1, <1>2, <1>4, <1>5, <1>6, <1>7 DEF Leads, LagBounded

\* Words that stay and pending adds that only go.
LEMMA FewerPending ==
  ASSUME IInv, NEW w \in Workers, \A u \in Workers \ {w} : log'[u] = log[u],
         log'[w].todo = <<>>, words' = words
  PROVE  Conserved
<1> SUFFICES ASSUME NEW x \in Counted
             PROVE  words'[x] + Cardinality(Pending(x)') <= words[x] + Cardinality(Pending(x))
  BY DEF Conserved
<1> PICK b, c : b = Cardinality(Pending(x)) /\ c = Cardinality(Pending(x)')
  OBVIOUS
<1>1. words[x] \in Nat
  BY TypeParts, Distinct DEF IInv, WordsTyped
<1>2. ~Has(log'[w].todo, x)
  BY EmptyRemainder
<1>3. b \in Nat /\ c \in Nat /\ c <= b
  BY <1>2, PendingStep
<1> QED BY <1>1, <1>3

\* A recording starts where there was none.
LEMMA LogBeginKept == ASSUME IInv, NEW w \in Workers, LogBegin(w) PROVE IInv'
<1>1. WordsTyped /\ LogTyped /\ SpansTyped
  BY TypeParts DEF IInv
<1>2. /\ UNCHANGED <<words, crashes, torn, watched, scraping, queue, exporter>>
      /\ scrape' = IF scraping # {} THEN [scrape EXCEPT !.met = @ + 1] ELSE scrape
  BY DEF LogBegin
<1>3. PICK status \in Statuses, lat \in Latencies :
         log' = [log EXCEPT ![w] = [pc |-> "add", todo |-> record_request(status, lat)]]
  BY DEF LogBegin
<1> PICK t : t = record_request(status, lat)
  OBVIOUS
<1>4. t \in Adds /\ t # <<>> /\ Remainder(t) /\ Complete(t)
  BY TelemetryAssumption, RecordStarts
<1>5. WordsTyped' /\ SpansTyped' /\ Grows
  <2>1. requests' \in 0..MaxRequests
    BY <1>1, TelemetryAssumption DEF LogBegin, WordsTyped
  <2> QED BY <1>1, <1>2, <2>1 DEF WordsTyped, SpansTyped, Grows
<1>6. LogTyped'
  BY <1>1, <1>3, <1>4 DEF LogTyped, LogStates
<1>7. log'[w].todo = t /\ \A u \in Workers \ {w} : log'[u] = log[u]
  BY <1>1, <1>3 DEF LogTyped
<1>8. log[w].todo = <<>>
  BY <1>1, NoAdds DEF LogBegin
<1>9. Shape'
  BY <1>1, <1>2, <1>4, <1>7, <1>8, ReplaceShape DEF WordsTyped
<1>10. \A u \in Workers : Remainder(log'[u].todo)
  BY <1>4, <1>7 DEF IInv
<1>11. ScrapeTyped /\ ScrapeTyped'
  BY <1>2, TypeParts DEF IInv, ScrapeTyped
<1>12. CASE scraping = {}
  <2>1. scrape' = scrape
    BY <1>2, <1>12
  <2>2. ScrapeInv'
    BY <1>2, <1>12, <2>1 DEF IInv, ScrapeInv, UnderWay, ScrapeShape
  <2> QED BY <1>2, <1>5, <1>6, <1>9, <1>10, <1>11, <2>2, TypeParts, ExportsStay DEF IInv
<1>13. CASE scraping # {}
  <2> PICK m : m = scrape.met
    OBVIOUS
  <2>1. /\ m \in Nat /\ scrape.x \in Nat
        /\ scrape'.x = scrape.x /\ scrape'.met = m + 1
    BY <1>2, <1>11, <1>13 DEF ScrapeTyped
  <2>2. watched[1] \in Words /\ watched[2] \in Words
    BY <1>11, WatchedPair DEF ScrapeTyped
  <2>3. words[watched[1]] \in Nat /\ words[watched[2]] \in Nat /\ torn \in Nat
    BY <1>1, <2>2 DEF WordsTyped
  <2>4. ASSUME watched \in Dominated
        PROVE  words[watched[1]] + Cardinality(Pending(watched[1])') <= scrape'.x + scrape'.met
    <3> PICK b, c : b = Cardinality(Pending(watched[1])) /\ c = Cardinality(Pending(watched[1])')
      OBVIOUS
    <3> PICK x : x = watched[1]
      OBVIOUS
    <3>1. Pending(watched[1])' = Pending(x)'
      BY <1>2 DEF Pending
    <3>2. b = Cardinality(Pending(x)) /\ c = Cardinality(Pending(x)')
      BY <3>1
    <3>3. b \in Nat /\ c \in Nat /\ c <= b + 1
      BY <1>7, <1>8, <3>2, PendingStep, EmptyRemainder
    <3>4. words[watched[1]] + b <= scrape.x + m
      BY <1>13, <2>4 DEF IInv, ScrapeInv, UnderWay
    <3> QED BY <2>1, <2>3, <3>3, <3>4
  <2>5. ASSUME watched \in Widening
        PROVE  scrape'.x <= words[watched[2]] + scrape'.met + torn
    <3>1. scrape.x <= words[watched[2]] + m + torn
      BY <1>13, <2>5 DEF IInv, ScrapeInv, UnderWay
    <3> QED BY <2>1, <2>3, <3>1
  <2>6. ScrapeInv'
    BY <1>2, <1>13, <2>4, <2>5 DEF ScrapeInv, UnderWay, ScrapeShape
  <2> QED BY <1>2, <1>5, <1>6, <1>9, <1>10, <1>11, <2>6, TypeParts, ExportsStay DEF IInv
<1> QED BY <1>12, <1>13

\* The end of a recording sends the span, or drops it.
LEMMA LogSendKept == ASSUME IInv, NEW w \in Workers, LogSend(w) PROVE IInv'
<1>1. WordsTyped /\ LogTyped /\ SpansTyped
  BY TypeParts DEF IInv
<1>2. UNCHANGED <<words, requests, crashes, torn, scrapeVars, watched, exporter>>
  BY DEF LogSend, scrapeVars
<1>3. log' = [log EXCEPT ![w] = Idle] /\ log[w].todo = <<>>
  BY <1>1, NoAdds DEF LogSend
<1>4. WordsTyped' /\ Grows
  BY <1>1, <1>2 DEF WordsTyped, Grows
<1>5. SpansTyped'
  BY <1>1, <1>2, TelemetryAssumption DEF LogSend, SpansTyped
<1>6. LogTyped'
  BY <1>1, <1>3 DEF LogTyped, LogStates, Idle, Adds
<1>7. log'[w].todo = <<>> /\ \A u \in Workers \ {w} : log'[u] = log[u]
  BY <1>1, <1>3 DEF LogTyped, Idle
<1>8. Complete(<<>>)
  BY EmptyRemainder DEF Complete
<1>9. Shape'
  BY <1>1, <1>2, <1>3, <1>7, <1>8, ReplaceShape DEF WordsTyped
<1>10. \A u \in Workers : Remainder(log'[u].todo)
  BY <1>7, EmptyRemainder DEF IInv
<1>11. ScrapeInv' /\ ScrapeTyped' /\ ExportInv'
  <2>1. torn' >= torn
    BY <1>1, <1>2 DEF WordsTyped
  <2> QED BY <1>2, <1>4, <1>7, <2>1, FewerPending, ScrapeStays, ExportsStay
<1> QED BY <1>4, <1>5, <1>6, <1>9, <1>10, <1>11, TypeParts DEF IInv

(***************************************************************************)
(* Scrapes, exports and crashes.                                           *)
(***************************************************************************)

\* Without a recording that moves, the remainders and the bounds stay, and so
\* does what is pending.
LEMMA RecordingsStay ==
  ASSUME IInv, UNCHANGED <<words, torn, log>>
  PROVE  /\ \A u \in Workers : Remainder(log'[u].todo)
         /\ Shape' /\ (LogTyped => LogTyped')
         /\ Grows /\ Conserved /\ torn' >= torn
<1>1. \A x, y : Between(x, y)' = Between(x, y)
  BY DEF Between
<1>2. \A x, y : Leads(x, y)' = Leads(x, y) /\ LagBounded(x, y)' = LagBounded(x, y)
  BY <1>1 DEF Leads, LagBounded
<1>3. Shape'
  BY <1>2 DEF IInv, Shape
<1>4. LogTyped => LogTyped'
  BY DEF LogTyped
<1>5. \A u \in Workers : Remainder(log'[u].todo)
  BY DEF IInv
<1>6. words \in [Words -> Nat] /\ torn \in Nat
  BY TypeParts DEF IInv, WordsTyped
<1>7. Conserved
  <2> SUFFICES ASSUME NEW x \in Counted
               PROVE  words[x] + Cardinality(Pending(x)') <= words[x] + Cardinality(Pending(x))
    BY DEF Conserved
  <2>1. Pending(x)' = Pending(x) /\ Pending(x) \subseteq Workers
    BY DEF Pending
  <2>2. Cardinality(Pending(x)) \in Nat
    BY <2>1, TelemetryAssumption, FS_Subset, FS_CardinalityType
  <2>3. words[x] \in Nat
    BY <1>6, Distinct
  <2> QED BY <2>1, <2>2, <2>3
<1>8. Grows /\ torn' >= torn
  BY <1>6 DEF Grows
<1> QED BY <1>3, <1>4, <1>5, <1>7, <1>8

\* The first load of a scrape: what may still change is what is under way.
LEMMA ScrapeFirstKept == ASSUME IInv, NEW w \in Workers, ScrapeFirst(w) PROVE IInv'
<1> PICK x, y : x = watched[1] /\ y = watched[2]
  OBVIOUS
<1> PICK m : m = Cardinality({u \in Workers : log[u].pc = "add"})
  OBVIOUS
<1>1. WordsTyped /\ ScrapeTyped /\ LogTyped /\ SpansTyped
  BY TypeParts DEF IInv
<1>2. /\ UNCHANGED <<words, requests, crashes, torn, log, watched, queue, exporter>>
      /\ scraping' = {w}
      /\ scrape' = [x |-> words[x], y |-> 0, met |-> m]
  BY DEF ScrapeFirst
<1>3. /\ x \in Counted /\ y \in Counted /\ words[x] \in Nat /\ words[y] \in Nat /\ torn \in Nat
      /\ watched \in Widening => LagPair(x, y)
  BY <1>1, WatchedPair DEF WordsTyped, ScrapeTyped
<1>4. ASSUME NEW S \in SUBSET Workers, \A u \in S : log[u].todo # <<>>
      PROVE  Cardinality(S) \in Nat /\ m \in Nat /\ Cardinality(S) <= m
  <2> PICK A : A = {u \in Workers : log[u].pc = "add"}
    OBVIOUS
  <2>1. S \subseteq A /\ A \subseteq Workers
    BY <1>1, <1>4 DEF LogTyped
  <2>2. IsFiniteSet(A)
    BY <2>1, TelemetryAssumption, FS_Subset
  <2>3. IsFiniteSet(S) /\ Cardinality(S) <= Cardinality(A)
    BY <2>1, <2>2, FS_Subset
  <2>4. Cardinality(S) \in Nat /\ Cardinality(A) \in Nat
    BY <2>2, <2>3, FS_CardinalityType
  <2> QED BY <2>3, <2>4
<1>5. /\ Cardinality(Pending(x)) \in Nat /\ m \in Nat /\ Cardinality(Pending(x)) <= m
  <2>1. Pending(x) \subseteq Workers
    BY DEF Pending
  <2>2. \A u \in Pending(x) : log[u].todo # <<>>
    BY EmptyRemainder DEF Pending
  <2> QED BY <1>4, <2>1, <2>2
<1>6. Cardinality(Between(x, y)) \in Nat /\ Cardinality(Between(x, y)) <= m
  <2>1. Between(x, y) \subseteq Workers
    BY DEF Between
  <2>2. \A u \in Between(x, y) : log[u].todo # <<>>
    BY <2>1, BetweenHas, EmptyRemainder
  <2> QED BY <1>4, <2>1, <2>2
<1>7. scrape'.x = words[x] /\ scrape'.met = m /\ scraping' # {}
  BY <1>2
<1>8. words[x] + Cardinality(Pending(x)) <= words[x] + m
  BY <1>3, <1>5
<1>9. ASSUME watched \in Widening PROVE words[x] <= words[y] + m + torn
  <2>1. words[x] <= words[y] + Cardinality(Between(x, y)) + torn
    BY <1>3, <1>9 DEF IInv, Shape, LagBounded
  <2> QED BY <1>3, <1>5, <1>6, <2>1
<1>10. ScrapeInv'
  <2>1. Pending(watched[1])' = Pending(x)
    BY <1>2 DEF Pending
  <2> QED BY <1>2, <1>7, <1>8, <1>9, <2>1 DEF ScrapeInv, UnderWay, ScrapeShape
<1>11. ScrapeTyped' /\ WordsTyped' /\ SpansTyped'
  BY <1>1, <1>2, <1>3, <1>5 DEF ScrapeTyped, WordsTyped, SpansTyped
<1> QED BY <1>1, <1>2, <1>10, <1>11, RecordingsStay, ExportsStay, TypeParts DEF IInv

\* The second load: the word is at most, or at least, the first one by now.
LEMMA ScrapeSecondKept == ASSUME IInv, NEW w \in Workers, ScrapeSecond(w) PROVE IInv'
<1> PICK x, y : x = watched[1] /\ y = watched[2]
  OBVIOUS
<1> PICK b, c : b = Cardinality(Pending(x)) /\ c = Cardinality(Between(x, y))
  OBVIOUS
<1>1. WordsTyped /\ ScrapeTyped /\ LogTyped /\ SpansTyped
  BY TypeParts DEF IInv
<1>2. /\ UNCHANGED <<words, requests, crashes, torn, log, watched, queue, exporter>>
      /\ scraping # {} /\ scraping' = {}
      /\ scrape' = [scrape EXCEPT !.y = words[y]]
  BY DEF ScrapeSecond
<1>3. /\ x \in Counted /\ y \in Counted /\ words[x] \in Nat /\ words[y] \in Nat /\ torn \in Nat
      /\ watched \in Dominated => LeadPair(x, y)
      /\ scrape.x \in Nat /\ scrape.met \in Nat
  BY <1>1, WatchedPair DEF WordsTyped, ScrapeTyped
<1>4. b \in Nat /\ c \in Nat
  <2>1. Pending(x) \subseteq Workers
    BY DEF Pending
  <2>2. IsFiniteSet(Pending(x)) /\ IsFiniteSet(Between(x, y))
    BY <2>1, BetweenHas, TelemetryAssumption, FS_Subset
  <2> QED BY <2>2, FS_CardinalityType
<1>5. scrape'.x = scrape.x /\ scrape'.met = scrape.met /\ scrape'.y = words[y]
  BY <1>1, <1>2 DEF ScrapeTyped
<1>6. ASSUME watched \in Dominated PROVE words[y] <= scrape.x + scrape.met
  <2>1. words[x] + b <= scrape.x + scrape.met
    BY <1>2, <1>6 DEF IInv, ScrapeInv, UnderWay
  <2>2. words[y] + c <= words[x]
    BY <1>3, <1>6 DEF IInv, Shape, Leads
  <2> QED BY <1>3, <1>4, <2>1, <2>2
<1>7. ASSUME watched \in Widening PROVE scrape.x <= words[y] + scrape.met + torn
  BY <1>2, <1>7 DEF IInv, ScrapeInv, UnderWay
<1>8. ScrapeInv'
  BY <1>2, <1>5, <1>6, <1>7 DEF ScrapeInv, UnderWay, ScrapeShape
<1>9. ScrapeTyped' /\ WordsTyped' /\ SpansTyped'
  BY <1>1, <1>2, <1>3 DEF ScrapeTyped, WordsTyped, SpansTyped
<1> QED BY <1>1, <1>2, <1>8, <1>9, RecordingsStay, ExportsStay, TypeParts DEF IInv

\* A sample is never behind the one before, so the process has sent no more than
\* its sample after it either.
LEMMA ExportKept == ASSUME IInv, NEW w \in Workers, export_metrics(w) PROVE IInv'
<1> PICK e, f : e = exporter[w] /\ f = exporter'[w]
  OBVIOUS
<1> PICK cur : cur = words[watched[2]]
  OBVIOUS
<1>1. WordsTyped /\ ScrapeTyped /\ LogTyped /\ SpansTyped
  BY TypeParts DEF IInv
<1>2. UNCHANGED <<words, requests, crashes, torn, log, scrapeVars, watched, queue>>
  BY DEF export_metrics, scrapeVars
<1>3. /\ e \in ExporterStates /\ cur \in Nat /\ e.prev <= cur
      /\ e.sent <= (e.lives - 1) * cur + e.prev
  <2>1. cur \in Nat
    BY <1>1, WatchedPair DEF WordsTyped, ScrapeTyped
  <2>2. e \in ExporterStates
    BY <1>1 DEF SpansTyped
  <2> QED BY <2>1, <2>2 DEF IInv, ExportInv
<1>4. e.prev \in Nat /\ e.sent \in Nat /\ e.lives - 1 \in Nat /\ e.lives \in Nat \ {0}
  <2>1. e \in ExporterStates
    BY <1>1 DEF SpansTyped
  <2>2. e.prev \in Nat /\ e.sent \in Nat /\ e.lives \in Nat \ {0}
    BY <2>1 DEF ExporterStates
  <2> QED BY <2>2
<1>5. (e.lives - 1) * cur \in Nat
  BY <1>3, <1>4, Monotone
<1>6. PICK s \in Nat :
        /\ s = e.sent \/ s = e.sent + Delta(cur, e.prev)
        /\ \/ exporter' = [exporter EXCEPT ![w] = [e EXCEPT !.pc = "drain", !.prev = cur, !.sent = s]]
           \/ s = e.sent /\ exporter' = [exporter EXCEPT ![w] = [e EXCEPT !.pc = "drain"]]
  <2>1. Delta(cur, e.prev) \in Nat
    BY <1>3, <1>4 DEF Delta
  <2>2. PICK arrives \in BOOLEAN :
          exporter' = [exporter EXCEPT ![w] =
             IF watched[2] \in snapshot
             THEN [e EXCEPT !.pc = "drain", !.prev = cur,
                            !.sent = IF arrives THEN @ + Delta(cur, e.prev) ELSE @]
             ELSE [e EXCEPT !.pc = "drain"]]
    BY DEF export_metrics
  <2>3. CASE watched[2] \notin snapshot
    BY <1>4, <2>2, <2>3
  <2>4. CASE watched[2] \in snapshot /\ arrives
    <3>1. exporter' = [exporter EXCEPT ![w] = [e EXCEPT !.pc = "drain", !.prev = cur,
                                                        !.sent = e.sent + Delta(cur, e.prev)]]
      BY <2>2, <2>4
    <3>2. e.sent + Delta(cur, e.prev) \in Nat
      BY <1>4, <2>1
    <3> QED BY <3>1, <3>2
  <2>5. CASE watched[2] \in snapshot /\ ~arrives
    BY <1>4, <2>2, <2>5
  <2> QED BY <2>3, <2>4, <2>5
<1>7. /\ exporter' \in [Workers -> ExporterStates]
      /\ f.lives = e.lives /\ f.sent = s
      /\ (f.prev = cur \/ (f.prev = e.prev /\ s = e.sent))
      /\ \A u \in Workers \ {w} : exporter'[u] = exporter[u]
  <2>1. CASE exporter' = [exporter EXCEPT ![w] =
                            [e EXCEPT !.pc = "drain", !.prev = cur, !.sent = s]]
    <3>1. [e EXCEPT !.pc = "drain", !.prev = cur, !.sent = s] \in ExporterStates
      BY <1>3, <1>6 DEF ExporterStates
    <3>2. f = [e EXCEPT !.pc = "drain", !.prev = cur, !.sent = s]
      BY <1>1, <2>1 DEF SpansTyped
    <3>3. f.prev = cur /\ f.sent = s /\ f.lives = e.lives
      BY <1>3, <3>2 DEF ExporterStates
    <3>4. /\ exporter' \in [Workers -> ExporterStates]
          /\ \A u \in Workers \ {w} : exporter'[u] = exporter[u]
      <4> PICK g : g = [e EXCEPT !.pc = "drain", !.prev = cur, !.sent = s]
        OBVIOUS
      <4>1. g \in ExporterStates /\ exporter' = [exporter EXCEPT ![w] = g]
        BY <2>1, <3>1
      <4> QED BY <1>1, <4>1 DEF SpansTyped
    <3> QED BY <3>3, <3>4
  <2>2. CASE s = e.sent /\ exporter' = [exporter EXCEPT ![w] = [e EXCEPT !.pc = "drain"]]
    <3>1. [e EXCEPT !.pc = "drain"] \in ExporterStates
      BY <1>3 DEF ExporterStates
    <3>2. f = [e EXCEPT !.pc = "drain"]
      BY <1>1, <2>2 DEF SpansTyped
    <3>3. f.prev = e.prev /\ f.sent = e.sent /\ f.lives = e.lives
      BY <1>3, <3>2 DEF ExporterStates
    <3> QED BY <1>1, <2>2, <3>1, <3>3 DEF SpansTyped
  <2> QED BY <1>6, <2>1, <2>2
<1>8. f.prev <= cur /\ f.sent <= (f.lives - 1) * cur + f.prev
  <2> PICK k : k = (e.lives - 1) * cur
    OBVIOUS
  <2>1. k \in Nat /\ e.sent <= k + e.prev
    BY <1>3, <1>5
  <2>2. s <= k + cur /\ f.prev <= cur
    BY <1>3, <1>4, <1>6, <1>7, <2>1 DEF Delta
  <2>3. f.sent <= k + f.prev
    BY <1>7, <2>1, <2>2
  <2> QED BY <1>7, <2>2, <2>3
<1>9. ExportInv'
  <2>1. words'[watched'[2]] = cur
    BY <1>2
  <2> QED BY <1>7, <1>8, <2>1 DEF IInv, ExportInv
<1>10. WordsTyped' /\ SpansTyped'
  BY <1>1, <1>2, <1>7 DEF WordsTyped, SpansTyped
<1> QED BY <1>1, <1>2, <1>9, <1>10, RecordingsStay, ScrapeStays, TypeParts DEF IInv

\* Draining the channel touches neither counters nor samples.
LEMMA DrainKept == ASSUME IInv, NEW w \in Workers, drain_traces(w) PROVE IInv'
<1> PICK e : e = exporter[w]
  OBVIOUS
<1>1. WordsTyped /\ LogTyped /\ SpansTyped
  BY TypeParts DEF IInv
<1>2. UNCHANGED <<words, requests, crashes, torn, log, scrapeVars, watched>>
  BY DEF drain_traces, scrapeVars
<1>3. e \in ExporterStates /\ DrainMax \in Nat /\ ChanCap \in Nat
  BY <1>1, TelemetryAssumption DEF SpansTyped
<1>4. \/ /\ queue[w] > 0 /\ e.taken < DrainMax
         /\ queue' = [queue EXCEPT ![w] = @ - 1]
         /\ exporter' = [exporter EXCEPT ![w] = [e EXCEPT !.taken = @ + 1]]
      \/ /\ queue' = [queue EXCEPT ![w] = @]
         /\ exporter' = [exporter EXCEPT ![w] = [e EXCEPT !.pc = "sleep", !.taken = 0]]
  BY DEF drain_traces
<1>5. queue' \in [Workers -> 0..ChanCap]
  BY <1>1, <1>3, <1>4 DEF SpansTyped
<1>6. /\ exporter' \in [Workers -> ExporterStates]
      /\ exporter'[w].prev = e.prev /\ exporter'[w].sent = e.sent /\ exporter'[w].lives = e.lives
      /\ \A u \in Workers \ {w} : exporter'[u] = exporter[u]
  <2>1. CASE /\ e.taken < DrainMax
             /\ exporter' = [exporter EXCEPT ![w] = [e EXCEPT !.taken = @ + 1]]
    <3>1. e.taken + 1 \in 0..DrainMax
      BY <1>3, <2>1 DEF ExporterStates
    <3>2. [e EXCEPT !.taken = @ + 1] \in ExporterStates
      BY <1>3, <3>1 DEF ExporterStates
    <3>3. exporter'[w] = [e EXCEPT !.taken = @ + 1]
      BY <1>1, <2>1 DEF SpansTyped
    <3>4. exporter'[w].prev = e.prev /\ exporter'[w].sent = e.sent /\ exporter'[w].lives = e.lives
      BY <1>3, <3>3 DEF ExporterStates
    <3> QED BY <1>1, <2>1, <3>2, <3>4 DEF SpansTyped
  <2>2. CASE exporter' = [exporter EXCEPT ![w] = [e EXCEPT !.pc = "sleep", !.taken = 0]]
    <3>1. [e EXCEPT !.pc = "sleep", !.taken = 0] \in ExporterStates
      <4>1. 0 \in 0..DrainMax
        BY <1>3
      <4> QED BY <1>3, <4>1 DEF ExporterStates
    <3>2. exporter'[w] = [e EXCEPT !.pc = "sleep", !.taken = 0]
      BY <1>1, <2>2 DEF SpansTyped
    <3>3. exporter'[w].prev = e.prev /\ exporter'[w].sent = e.sent /\ exporter'[w].lives = e.lives
      BY <1>3, <3>2 DEF ExporterStates
    <3> QED BY <1>1, <2>2, <3>1, <3>3 DEF SpansTyped
  <2> QED BY <1>4, <2>1, <2>2
<1>7. WordsTyped' /\ SpansTyped'
  BY <1>1, <1>2, <1>5, <1>6 DEF WordsTyped, SpansTyped
<1>8. ExportInv'
  BY <1>2, <1>6 DEF IInv, ExportInv
<1> QED BY <1>1, <1>2, <1>7, <1>8, RecordingsStay, ScrapeStays, TypeParts DEF IInv

\* A crash loses a recording, the spans and the sample of one worker; the mapping
\* is opened as it was left, and the next exporter starts again from zero.
LEMMA CrashKept == ASSUME IInv, NEW w \in Workers, Crash(w) PROVE IInv'
<1> PICK e, f : e = exporter[w] /\ f = exporter'[w]
  OBVIOUS
<1>1. WordsTyped /\ ScrapeTyped /\ LogTyped /\ SpansTyped
  BY TypeParts DEF IInv
<1>2. /\ words' = words /\ UNCHANGED <<requests, watched>>
      /\ crashes' = crashes + 1 /\ crashes < MaxCrashes
      /\ torn' = IF log[w].todo # <<>> THEN torn + 1 ELSE torn
      /\ log' = [log EXCEPT ![w] = Idle]
      /\ queue' = [queue EXCEPT ![w] = 0]
      /\ exporter' = [exporter EXCEPT ![w] = start(e.sent, e.lives + 1)]
      /\ scraping' = scraping \ {w}
      /\ scrape' = IF w \in scraping THEN NoScrape ELSE scrape
  BY DEF Crash, init_shm
<1>3. WordsTyped' /\ torn' \in Nat /\ torn' >= torn /\ Grows
  BY <1>1, <1>2, TelemetryAssumption DEF WordsTyped, Grows
<1>4. /\ e \in ExporterStates /\ e.lives \in Nat \ {0} /\ e.sent \in Nat /\ e.prev \in Nat
  BY <1>1 DEF SpansTyped, ExporterStates
<1>5. /\ f = start(e.sent, e.lives + 1) /\ f \in ExporterStates
      /\ \A u \in Workers \ {w} : exporter'[u] = exporter[u]
  BY <1>1, <1>2, <1>4, TelemetryAssumption DEF SpansTyped, ExporterStates, start
<1>6. SpansTyped'
  BY <1>1, <1>2, <1>5, TelemetryAssumption DEF SpansTyped
<1>7. LogTyped'
  BY <1>1, <1>2 DEF LogTyped, LogStates, Idle, Adds
<1>8. log'[w].todo = <<>> /\ \A u \in Workers \ {w} : log'[u] = log[u]
  BY <1>1, <1>2 DEF LogTyped, Idle
<1>9. Shape'
  <2>1. Complete(<<>>)
    BY EmptyRemainder DEF Complete
  <2> QED BY <1>2, <1>3, <1>8, <2>1, ReplaceShape
<1>10. \A u \in Workers : Remainder(log'[u].todo)
  BY <1>8, EmptyRemainder DEF IInv
<1>11. ExportInv'
  <2> PICK m : m = words[watched[2]]
    OBVIOUS
  <2>1. m \in Nat /\ e.prev <= m /\ e.sent <= (e.lives - 1) * m + e.prev
    BY <1>1, WatchedPair DEF WordsTyped, ScrapeTyped, IInv, ExportInv
  <2>2. f.prev = 0 /\ f.sent = e.sent /\ f.lives = e.lives + 1
    BY <1>5 DEF start
  <2> PICK k \in Nat : k = e.lives - 1
    BY <1>4
  <2>3. k * m \in Nat
    BY <2>1, Monotone
  <2>4. (f.lives - 1) * m = k * m + m
    <3>1. f.lives - 1 = k + 1
      BY <1>4, <2>2
    <3>2. (k + 1) * m = k * m + m
      BY <2>1
    <3> QED BY <3>1, <3>2
  <2>5. e.sent <= k * m + e.prev
    BY <2>1
  <2>6. f.prev <= m /\ f.sent <= (f.lives - 1) * m + f.prev
    <3>1. e.sent <= k * m + m
      BY <1>4, <2>1, <2>3, <2>5
    <3>2. k * m + m \in Nat
      BY <2>1, <2>3
    <3> QED BY <2>1, <2>2, <2>4, <3>1, <3>2
  <2>7. words'[watched'[2]] = m
    BY <1>2
  <2> QED BY <1>5, <2>6, <2>7 DEF IInv, ExportInv
<1>12. CASE w \in scraping
  <2>1. scraping' = {} /\ scrape' = NoScrape
    BY <1>1, <1>2, <1>12 DEF ScrapeTyped
  <2>2. ScrapeTyped'
    BY <1>1, <1>2, <2>1 DEF ScrapeTyped, NoScrape
  <2>3. ScrapeInv'
    BY <1>3, <2>1 DEF ScrapeInv, UnderWay, ScrapeShape, NoScrape
  <2> QED BY <1>3, <1>6, <1>7, <1>9, <1>10, <1>11, <2>2, <2>3, TypeParts DEF IInv
<1>13. CASE w \notin scraping
  <2>1. UNCHANGED scrapeVars
    BY <1>2, <1>13 DEF scrapeVars
  <2>2. ScrapeInv' /\ ScrapeTyped'
    BY <1>2, <1>3, <1>8, <2>1, FewerPending, ScrapeStays
  <2> QED BY <1>3, <1>6, <1>7, <1>9, <1>10, <1>11, <2>2, TypeParts DEF IInv
<1> QED BY <1>12, <1>13

(***************************************************************************)
(* The theorems.                                                           *)
(***************************************************************************)

LEMMA InitIInv == Init => IInv
<1> SUFFICES ASSUME Init PROVE IInv
  OBVIOUS
<1>1. words \in [Words -> Nat] /\ watched \in Dominated \cup Widening /\ words[watched[2]] = 0
  BY WatchedPair DEF Init
<1>2. \A u \in Workers : log[u].todo = <<>>
  BY DEF Init, Idle
<1>3. WordsTyped
  BY <1>1, TelemetryAssumption DEF Init, WordsTyped
<1>4. LogTyped
  BY DEF Init, LogTyped, LogStates, Idle, Adds
<1>5. SpansTyped
  BY TelemetryAssumption DEF Init, SpansTyped, ExporterStates, start
<1>6. \A u \in Workers : Remainder(log[u].todo)
  BY <1>2, EmptyRemainder
<1>7. Shape
  <2> SUFFICES ASSUME NEW x \in Counted, NEW y \in Counted
               PROVE  Leads(x, y) /\ LagBounded(x, y)
    BY DEF Shape
  <2>1. Between(x, y) = {}
    BY <1>2 DEF Between
  <2>2. Cardinality(Between(x, y)) = 0
    BY <2>1, FS_EmptySet
  <2>3. words[x] = 0 /\ words[y] = 0
    BY Distinct DEF Init
  <2> QED BY <2>2, <2>3 DEF Leads, LagBounded, Init
<1>8. ScrapeTyped /\ ScrapeInv
  BY DEF Init, NoScrape, ScrapeTyped, ScrapeInv, UnderWay, ScrapeShape
<1>9. ExportInv
  BY <1>1 DEF Init, ExportInv, start
<1> QED BY <1>3, <1>4, <1>5, <1>6, <1>7, <1>8, <1>9, TypeParts DEF IInv

LEMMA NextIInv == IInv /\ [Next]_vars => IInv'
<1> SUFFICES ASSUME IInv, [Next]_vars PROVE IInv'
  OBVIOUS
<1>1. ASSUME NEW w \in Workers,
             LogBegin(w) \/ LogStep(w) \/ Scrape(w) \/ Crash(w)
      PROVE  IInv'
  BY <1>1, LogBeginKept, LogAddKept, LogSendKept, ScrapeFirstKept,
     ScrapeSecondKept, CrashKept DEF LogStep, Scrape
<1>2. ASSUME NEW w \in Exporters, ExportStep(w) PROVE IInv'
  BY <1>2, ExportKept, DrainKept, TelemetryAssumption DEF ExportStep
<1>3. CASE UNCHANGED vars
  <2>1. WordsTyped /\ LogTyped /\ SpansTyped
    BY TypeParts DEF IInv
  <2>2. /\ WordsTyped' /\ SpansTyped'
        /\ UNCHANGED <<words, torn, log, scrapeVars, watched, exporter>>
    BY <1>3, <2>1 DEF WordsTyped, SpansTyped, vars, scrapeVars
  <2> QED BY <2>1, <2>2, RecordingsStay, ScrapeStays, ExportsStay, TypeParts DEF IInv
<1> QED BY <1>1, <1>2, <1>3 DEF Next

LEMMA IInvHolds == Spec => []IInv
BY InitIInv, NextIInv, PTL DEF Spec

\* The counters are numbers, the channel never holds more than its capacity and
\* a batch no more than its limit (sync_channel, drain_traces).
THEOREM TelemetryTyped == Spec => []TypeOK
<1>1. IInv => TypeOK
  BY DEF IInv
<1> QED BY <1>1, IInvHolds, PTL

\* The histogram stays cumulative up to what is under way and what a crash cut
\* short, whatever the interleaving of the unlocked adds (record_request).
THEOREM HistogramKept == Spec => []HistogramShape
<1>1. ASSUME IInv PROVE HistogramShape
  <2>1. words \in [Words -> Nat] /\ torn \in Nat
    BY <1>1, TypeParts DEF IInv, WordsTyped
  <2>2. total \in Counted /\ count \in Counted /\ \A i \in Bucket : le(i) \in Counted
    BY DEF Counted
  <2>3. \A x \in Counted : words[x] \in Nat
    BY <2>1, Distinct
  <2>4. \A x, y : Cardinality(Between(x, y)) \in Nat
    <3> TAKE x, y
    <3>1. Between(x, y) \subseteq Workers
      BY DEF Between
    <3>2. IsFiniteSet(Between(x, y))
      BY <3>1, FS_Subset, TelemetryAssumption
    <3> QED BY <3>2, FS_CardinalityType
  <2>5. ASSUME NEW i \in Bucket, NEW j \in Bucket, i < j
        PROVE  words[le(i)] <= words[le(j)] + Cardinality(Between(le(i), le(j))) + torn
    <3>1. LagPair(le(i), le(j))
      BY <2>5 DEF LagPair
    <3> QED BY <1>1, <2>2, <3>1 DEF IInv, Shape, LagBounded
  <2>6. ASSUME NEW i \in Bucket PROVE words[le(i)] <= words[count]
    <3>1. LeadPair(count, le(i))
      BY DEF LeadPair, count
    <3>2. words[le(i)] + Cardinality(Between(count, le(i))) <= words[count]
      BY <1>1, <2>2, <3>1 DEF IInv, Shape, Leads
    <3> QED BY <2>2, <2>3, <2>4, <3>2
  <2>7. /\ words[count] + Cardinality(Between(total, count)) <= words[total]
        /\ words[total] <= words[count] + Cardinality(Between(total, count)) + torn
    BY <1>1, <2>2 DEF IInv, Shape, LeadPair, LagPair, Leads, LagBounded
  <2>8. words[count] <= words[total]
    BY <2>2, <2>3, <2>4, <2>7
  <2> QED BY <2>5, <2>6, <2>7, <2>8 DEF HistogramShape, total, count
<1> QED BY <1>1, IInvHolds, PTL

\* A scrape whose loads are interleaved with any recordings shows an error
\* counter above the total, or a bucket above the count or a wider bucket, by no
\* more than overlapped it or a crash cut short (prometheus_text).
THEOREM ScrapeKeepsShape == Spec => []ScrapeShape
<1>1. IInv => ScrapeShape
  BY DEF IInv, ScrapeInv
<1> QED BY <1>1, IInvHolds, PTL

\* However often exporters restart and POSTs fail, the collector has a counter
\* at most once from every process that has exported it (export_metrics, start).
THEOREM SentOnce == Spec => []SentOncePerProcess
<1>1. ASSUME IInv PROVE SentOncePerProcess
  <2> SUFFICES ASSUME NEW w \in Workers
               PROVE  exporter[w].sent <= exporter[w].lives * words[watched[2]]
    BY DEF SentOncePerProcess
  <2> PICK m, e : m = words[watched[2]] /\ e = exporter[w]
    OBVIOUS
  <2>1. /\ e.sent \in Nat /\ e.prev \in Nat /\ e.lives \in Nat \ {0}
        /\ m \in Nat /\ e.prev <= m /\ e.sent <= (e.lives - 1) * m + e.prev
    BY <1>1, TypeParts, WatchedPair
       DEF IInv, WordsTyped, ScrapeTyped, SpansTyped, ExporterStates, ExportInv
  <2> PICK k \in Nat : k = e.lives - 1
    BY <2>1
  <2>2. k * m \in Nat /\ e.sent <= k * m + e.prev
    BY <2>1, Monotone
  <2>3. e.lives * m = k * m + m
    <3>1. e.lives = k + 1
      BY <2>1
    <3>2. (k + 1) * m = k * m + m
      BY <2>1
    <3> QED BY <3>1, <3>2
  <2> QED BY <2>1, <2>2, <2>3
<1> QED BY <1>1, IInvHolds, PTL
=============================================================================
