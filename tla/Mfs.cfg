SPECIFICATION MfsSpec
CONSTANTS
  fd1 = fd1
  fd2 = fd2
  x = x
  y = y
  Fds = {fd1, fd2}
  Data = {x, y}
  ImmediateSize = 2
  block_size = 3
  s_max_size = 4
  Zones = 2
  i_ndzones = 1
  i_nindirs = 2
  MapZones = {1, 2, 3, 4, 5}
  NO_ZONE = 0
  INODE = INODE
  Garbage <- MCGarbage
SYMMETRY Symmetry
INVARIANTS ReadsAreRight SizesAgree WritesAreRight FailedWritesKeepTheRest ZonesAccounted EachZoneOnce NoneKeptEmpty
PROPERTY ZoneMapImplementsFileMap
CHECK_DEADLOCK FALSE
