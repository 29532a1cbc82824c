SPECIFICATION PipesSpec
CONSTANTS
  Procs = {p1, p2, p3}
  FilpSlots = {f1, f2, f3}
  NoFilp = none
  PIPE_BUF = 2
  Requests = {1, 3}
INVARIANTS
  PartialOnlyWhileWriting
CHECK_DEADLOCK FALSE
