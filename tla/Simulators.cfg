SPECIFICATION SimulatorsSpec
CONSTANTS
  NProcs = 3
  Arrivals = {0, 1, 3}
  TokenLines <- MCTokenLines
  Pages = {1, 2, 3, 4}
  physicalFrames = 2
  MaxRequests = 7
INVARIANTS OnePlace CpuTimeConserved ReportAddsUp LruKeepsLatest LruInclusion Conservative
PROPERTY SimEnds
CHECK_DEADLOCK FALSE
