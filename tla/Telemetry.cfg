CONSTANTS
  Workers = {w1, w2}
  Exporters = {w1}
  Buckets = 2
  Latencies = {1, 2}
  Statuses = {200, 500}
  ChanCap = 1
  DrainMax = 1
  MaxRequests = 2
  MaxCrashes = 1
SPECIFICATION FairSpec
INVARIANTS
  TypeOK
  HistogramShape
  ScrapeShape
  SentOncePerProcess
PROPERTIES
  LogEnds
