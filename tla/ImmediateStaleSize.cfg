SPECIFICATION ImSpec
CONSTANTS
  fd1 = fd1
  fd2 = fd2
  x = x
  y = y
  Fds = {fd1, fd2}
  Data = {x, y}
  ImmediateSize = 2
  block_size = 3
  s_max_size = 4
  Zones = 2
SYMMETRY Symmetry
INVARIANT WriteUpdatesSize
CHECK_DEADLOCK FALSE
