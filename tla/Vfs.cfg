SPECIFICATION VfsSpec
CONSTANTS
  Workers = {w1, w2}
  Names = {n1, n2}
  Inodes = {i1, i2, dir}
  Dir = dir
  None = none
  Procs = {p1, p2, p3}
  FilpSlots = {f1, f2, f3}
  NoFilp = none
  PIPE_BUF = 2
  Requests = {1, 3}
INVARIANTS
  RefsAccounted
  LookupsStillHold
  FifoRefs
  BytesAccounted
  NobodySleepsInVain
PROPERTIES
  CallsEnd
CHECK_DEADLOCK FALSE
