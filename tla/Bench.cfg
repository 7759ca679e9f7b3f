\* Two threads and two nonces, online and offline
CONSTANTS
  BenchThreads = {b1, b2}
  BenchSize = 2
  BenchReserve = 2
  MaxWarm = 2
SPECIFICATION BenchSpec
INVARIANT SumIsComplete
PROPERTY BenchEnds
