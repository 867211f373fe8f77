----------------------------- MODULE Telemetry ------------------------------
(***************************************************************************)
(* Telemetry of one node.  The workers count requests in words of one      *)
(* shared mapping, a fetch_add at a time; the worker that answers a scrape *)
(* loads them one at a time while the others go on counting, and so does   *)
(* the exporter thread of every worker, which sends the difference to its  *)
(* last sample.  Each request also leaves a span in a bounded channel of   *)
(* its worker, drained by the exporter a few at a time.                    *)
(*                                                                         *)
(* The log phase and the scrapes of a worker run on its one event loop.    *)
(* Latencies are small numbers beside two or more bucket bounds; a span    *)
(* has no content.  A scrape is followed through its loads of two words,   *)
(* chosen at the start, and an exporter through its samples of the second. *)
(*                                                                         *)
(* Only the words of the mapping are modelled.  prometheus_text also       *)
(* prints counters that every worker keeps for itself (WAF, cache, rate    *)
(* limit and Redis totals, telemetry.rs:126-150): two scrapes answered by  *)
(* two workers report unrelated values of those, so they may go back from  *)
(* one scrape to the next and nothing is claimed of them here.             *)
(***************************************************************************)
EXTENDS Integers, FiniteSets, Sequences

CONSTANTS
  Workers,      \* NGINX workers
  Exporters,    \* bound: the workers whose exporter thread is followed
  Buckets,      \* number of histogram buckets
  Latencies,    \* latencies a request may have
  Statuses,     \* response codes
  ChanCap,      \* capacity of the span channel (8192)
  DrainMax,     \* spans sent per export cycle (128)
  MaxRequests,  \* bound: requests logged
  MaxCrashes    \* bound: worker crashes

ASSUME TelemetryAssumption ==
  /\ Exporters \subseteq Workers
  /\ IsFiniteSet(Workers)
  /\ Buckets \in Nat \ {0}
  /\ Latencies \subseteq Nat
  /\ Statuses \subseteq Nat
  /\ ChanCap \in Nat /\ DrainMax \in Nat
  /\ MaxRequests \in Nat /\ MaxCrashes \in Nat

\* The words of the mapping; le(i) counts the latencies up to i.
Word(name) == <<name>>
le(i) == <<"le", i>>

Bucket == 1..Buckets

\* The words that snapshot() samples, and all the words of the mapping.
snapshot == {Word(x) : x \in {"total", "r401", "r429", "r5xx", "sum", "count"}}
Words == snapshot \cup {le(i) : i \in Bucket}

\* Pairs of words that prometheus_text loads in this order and a reader of the
\* scrape compares: what is counted at most as often as the first, and what is
\* counted at least as often.
Dominated ==
  {<<Word("total"), y>> : y \in snapshot \ {Word("total"), Word("sum")}}
  \cup {<<Word("count"), le(i)>> : i \in Bucket}
Widening == {<<le(b[1]), le(b[2])>> : b \in {c \in Bucket \X Bucket : c[1] < c[2]}}

VARIABLES
  words,     \* the shared words
  requests,  \* requests logged so far
  crashes,   \* worker crashes so far
  torn,      \* ghost: recordings cut short by a crash
  log,       \* per worker, the log phase: [pc, todo], todo the adds to come
  watched,   \* the two words that are followed, a pair to compare
  scraping,  \* the worker between its loads of the two, in a set
  scrape,    \* the scrape under way or the last one: [x, y, met], the two values
             \* and (ghost) the recordings that overlapped it
  queue,     \* per worker, spans in its channel
  exporter   \* per worker, its exporter: [pc, prev, taken, sent, lives], where
             \* sent (ghost) is the sum of its deltas that reached the collector
             \* and lives (ghost) counts the processes it has been

vars == <<words, requests, crashes, torn, log, watched, scraping, scrape, queue, exporter>>
scrapeVars == <<watched, scraping, scrape>>

Idle == [pc |-> "idle", todo |-> <<>>]
NoScrape == [x |-> 0, y |-> 0, met |-> 0]

\* start(): a new exporter thread has no previous sample.
start(sent, lives) ==
  [pc |-> "sleep", prev |-> 0, taken |-> 0, sent |-> sent, lives |-> lives]

Init ==
  /\ words = [x \in Words |-> 0]
  /\ requests = 0
  /\ crashes = 0
  /\ torn = 0
  /\ log = [w \in Workers |-> Idle]
  /\ watched \in Dominated \cup Widening
  /\ scraping = {}
  /\ scrape = NoScrape
  /\ queue = [w \in Workers |-> 0]
  /\ exporter = [w \in Workers |-> start(0, 1)]

(***************************************************************************)
(* report_telemetry: the counters, then the span.                          *)
(***************************************************************************)

\* Mutant of BucketAdds: only the bucket the latency falls in.
BucketAddsOnly(lat) ==
  LET in == {i \in Bucket : lat <= i}
  IN  IF in = {} THEN <<>> ELSE <<<<le(CHOOSE i \in in : \A j \in in : i <= j), 1>>>>

\* The buckets a latency is counted in, in the order of the loop: the bounds
\* increase, so they are the ones from the first bound it does not exceed.
BucketAdds(lat) ==
  LET first == IF lat = 0 THEN 1 ELSE lat
  IN  [k \in 1..(Buckets + 1 - first) |-> <<le(first + k - 1), 1>>]

\* The fetch_adds of record_request.
record_request(status, lat) ==
  <<<<Word("total"), 1>>, <<Word("sum"), lat>>, <<Word("count"), 1>>>>
  \o BucketAdds(lat)
  \o (CASE status = 401 -> <<<<Word("r401"), 1>>>>
        [] status = 429 -> <<<<Word("r429"), 1>>>>
        [] status \in 500..599 -> <<<<Word("r5xx"), 1>>>>
        [] OTHER -> <<>>)

LogBegin(w) ==
  /\ log[w].pc = "idle" /\ w \notin scraping
  /\ requests < MaxRequests
  /\ requests' = requests + 1
  /\ \E status \in Statuses, lat \in Latencies :
       log' = [log EXCEPT ![w] = [pc |-> "add", todo |-> record_request(status, lat)]]
  /\ scrape' = IF scraping # {} THEN [scrape EXCEPT !.met = @ + 1] ELSE scrape
  /\ UNCHANGED <<words, crashes, torn, watched, scraping, queue, exporter>>

\* The next fetch_add; after the last one the span is sent.
LogAdd(w) ==
  LET add == Head(log[w].todo)
      rest == Tail(log[w].todo)
  IN  /\ log[w].pc = "add"
      /\ words' = [words EXCEPT ![add[1]] = @ + add[2]]
      /\ log' = [log EXCEPT ![w] = [pc |-> IF rest = <<>> THEN "send" ELSE "add",
                                    todo |-> rest]]
      /\ UNCHANGED <<requests, crashes, torn, scrapeVars, queue, exporter>>

\* Mutant of LogSend: send instead of try_send, which waits for room.
LogSendWait(w) ==
  /\ log[w].pc = "send"
  /\ queue[w] < ChanCap
  /\ queue' = [queue EXCEPT ![w] = @ + 1]
  /\ log' = [log EXCEPT ![w] = Idle]
  /\ UNCHANGED <<words, requests, crashes, torn, scrapeVars, exporter>>

\* Mutant of LogSend: a channel without a capacity.
LogSendUnbounded(w) ==
  /\ log[w].pc = "send"
  /\ queue' = [queue EXCEPT ![w] = @ + 1]
  /\ log' = [log EXCEPT ![w] = Idle]
  /\ UNCHANGED <<words, requests, crashes, torn, scrapeVars, exporter>>

\* try_send: a full channel drops the span.
LogSend(w) ==
  /\ log[w].pc = "send"
  /\ queue' = [queue EXCEPT ![w] = IF @ < ChanCap THEN @ + 1 ELSE @]
  /\ log' = [log EXCEPT ![w] = Idle]
  /\ UNCHANGED <<words, requests, crashes, torn, scrapeVars, exporter>>

LogStep(w) == LogAdd(w) \/ LogSend(w)

(***************************************************************************)
(* prometheus_text, in the worker the scrape happens to reach: its loads   *)
(* of the two watched words, with the recordings of the other workers in   *)
(* between.  The Prometheus server (external) has one scrape of a node     *)
(* under way at a time.                                                    *)
(***************************************************************************)
ScrapeFirst(w) ==
  /\ scraping = {} /\ log[w].pc = "idle"
  /\ scraping' = {w}
  /\ scrape' = [x |-> words[watched[1]], y |-> 0,
                met |-> Cardinality({u \in Workers : log[u].pc = "add"})]
  /\ UNCHANGED <<words, requests, crashes, torn, log, watched, queue, exporter>>

ScrapeSecond(w) ==
  /\ w \in scraping
  /\ scraping' = {}
  /\ scrape' = [scrape EXCEPT !.y = words[watched[2]]]
  /\ UNCHANGED <<words, requests, crashes, torn, log, watched, queue, exporter>>

Scrape(w) == ScrapeFirst(w) \/ ScrapeSecond(w)

(***************************************************************************)
(* The exporter thread: every ten seconds a sample and up to DrainMax      *)
(* spans.                                                                  *)
(***************************************************************************)

\* The difference that is sent, clipped at zero.
Delta(cur, prev) == IF cur > prev THEN cur - prev ELSE 0

\* Mutant of export_metrics: the sample does not become the previous one.
export_metricsStale(w) ==
  LET e == exporter[w]
      cur == words[watched[2]]
  IN  /\ e.pc = "sleep"
      /\ \E arrives \in BOOLEAN :
           exporter' = [exporter EXCEPT ![w] =
             [e EXCEPT !.pc = "drain",
                       !.sent = IF arrives THEN @ + Delta(cur, e.prev) ELSE @]]
      /\ UNCHANGED <<words, requests, crashes, torn, log, scrapeVars, queue>>

\* A sample of the counter: its delta to the previous one is sent, and it
\* becomes the previous one whether or not the POST arrives.
export_metrics(w) ==
  LET e == exporter[w]
      cur == words[watched[2]]
  IN  /\ e.pc = "sleep"
      /\ \E arrives \in BOOLEAN :
           exporter' = [exporter EXCEPT ![w] =
             IF watched[2] \in snapshot
             THEN [e EXCEPT !.pc = "drain", !.prev = cur,
                            !.sent = IF arrives THEN @ + Delta(cur, e.prev) ELSE @]
             ELSE [e EXCEPT !.pc = "drain"]]
      /\ UNCHANGED <<words, requests, crashes, torn, log, scrapeVars, queue>>

\* drain_traces: try_recv until the channel is empty or the batch is full.
drain_traces(w) ==
  LET e == exporter[w]
      more == queue[w] > 0 /\ e.taken < DrainMax
  IN  /\ e.pc = "drain"
      /\ queue' = [queue EXCEPT ![w] = IF more THEN @ - 1 ELSE @]
      /\ exporter' = [exporter EXCEPT ![w] =
           IF more THEN [e EXCEPT !.taken = @ + 1]
           ELSE [e EXCEPT !.pc = "sleep", !.taken = 0]]
      /\ UNCHANGED <<words, requests, crashes, torn, log, scrapeVars>>

ExportStep(w) == export_metrics(w) \/ drain_traces(w)

(***************************************************************************)
(* A worker dies and the next one maps the file again.                     *)
(***************************************************************************)

\* Mutant of init_shm: the file is truncated when it is opened.
init_shmTruncated(shm) == [x \in Words |-> 0]

\* Opening creates the file at its size or leaves what it holds.
init_shm(shm) == shm

Crash(w) ==
  /\ crashes < MaxCrashes
  /\ crashes' = crashes + 1
  /\ torn' = IF log[w].todo # <<>> THEN torn + 1 ELSE torn
  /\ words' = init_shm(words)
  /\ log' = [log EXCEPT ![w] = Idle]
  /\ queue' = [queue EXCEPT ![w] = 0]
  /\ exporter' = [exporter EXCEPT ![w] = start(@.sent, @.lives + 1)]
  /\ scraping' = scraping \ {w}
  /\ scrape' = IF w \in scraping THEN NoScrape ELSE scrape
  /\ UNCHANGED <<requests, watched>>

Next ==
  \/ \E w \in Workers : LogBegin(w) \/ LogStep(w) \/ Scrape(w) \/ Crash(w)
  \/ \E w \in Exporters : ExportStep(w)

Spec == Init /\ [][Next]_vars

\* The event loop of a worker runs; nothing is assumed of its exporter, which
\* may be in a POST for ever.
FairSpec == Spec /\ \A w \in Workers : WF_vars(LogStep(w))

(***************************************************************************)
(* Properties.                                                             *)
(***************************************************************************)

\* The words count, the span channel stays within its capacity and a batch
\* within its limit (sync_channel, drain_traces).
TypeOK ==
  /\ words \in [Words -> Nat]
  /\ requests \in 0..MaxRequests
  /\ crashes \in 0..MaxCrashes
  /\ torn \in 0..crashes
  /\ log \in [Workers -> [pc : {"idle", "add", "send"}, todo : Seq(Words \X Nat)]]
  /\ \A w \in Workers : (log[w].pc = "add") = (log[w].todo # <<>>)
  /\ watched \in Dominated \cup Widening
  /\ scraping \in {{}} \cup {{w} : w \in Workers}
  /\ scrape \in [x : Nat, y : Nat, met : Nat]
  /\ queue \in [Workers -> 0..ChanCap]
  /\ exporter \in [Workers -> [pc : {"sleep", "drain"}, prev : Nat,
                               taken : 0..DrainMax, sent : Nat, lives : Nat \ {0}]]

\* Workers that are past the add to word x and before the one to word y.
Between(x, y) ==
  {w \in Workers : \E i \in DOMAIN log[w].todo :
     /\ log[w].todo[i][1] = y
     /\ \A j \in DOMAIN log[w].todo : log[w].todo[j][1] # x}

\* The histogram stays cumulative up to what is under way: a bucket exceeds a
\* wider one, or the count (+Inf), by no more than the recordings that are
\* between the two adds and the ones a crash cut short, and the requests never
\* fall behind the latencies (record_request).
HistogramShape ==
  LET total == Word("total")
      count == Word("count")
  IN  /\ \A i, j \in Bucket : i < j =>
           words[le(i)] <= words[le(j)] + Cardinality(Between(le(i), le(j))) + torn
      /\ \A i \in Bucket : words[le(i)] <= words[count]
      /\ words[count] <= words[total]
      /\ words[total] <= words[count] + Cardinality(Between(total, count)) + torn

\* The same in what a scrape prints, whose loads are taken one after the other
\* while the workers count: an error counter, a bucket or the count exceeds the
\* total or the count loaded before it, and a bucket a wider one, by no more
\* than the recordings that overlapped the scrape and, for buckets, the ones a
\* crash cut short.  An error rate above one or a bucket above +Inf is possible,
\* since the totals are loaded first, but only by that much (prometheus_text).
ScrapeShape ==
  scraping = {} =>
    /\ watched \in Dominated => scrape.y <= scrape.x + scrape.met
    /\ watched \in Widening => scrape.x <= scrape.y + scrape.met + torn

\* What the collector has of an exporter's deltas is at most the counter once for
\* every process the exporter has been: a sample is never sent twice by the same
\* process, whatever the POSTs do and whoever else restarts, but a restarted one
\* begins at zero and sends the whole shared counter again, as every worker's
\* exporter does (start, export_metrics; prev_shm, otlp.rs:114).
SentOncePerProcess ==
  \A w \in Workers : exporter[w].sent <= exporter[w].lives * words[watched[2]]

\* The log phase of a request never waits for the exporter, however full the
\* channel and however long a POST takes ("lossy, never blocking").
LogEnds == \A w \in Workers : log[w].pc # "idle" ~> log[w].pc = "idle"
=============================================================================
