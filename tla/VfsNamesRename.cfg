SPECIFICATION NamesSpec
CONSTANTS
  Workers = {w1, w2}
  Names = {n1, n2}
  Inodes = {i1, i2, dir}
  Dir = dir
  None = none
PROPERTY RenamesEnd
CHECK_DEADLOCK FALSE
