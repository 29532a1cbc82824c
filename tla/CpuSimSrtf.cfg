SPECIFICATION SimSpec
CONSTANTS
  NProcs = 3
  Arrivals = {0, 1, 3}
  TokenLines <- MCTokenLines
INVARIANT SrtfRunsShortest
CHECK_DEADLOCK FALSE
