SPECIFICATION ImgSpec
CONSTANTS
  Height = 3
  Width = 2
  RowUnits = 2
  MaxPipeCapacity = 7
  NRuns = 3
INVARIANTS
  SemNoSharedRow
  MxHandOver
  PpRowsWhole
  ShmCopiesOwnRows
PROPERTIES
  SemImplementsRows
  MxLateExitIsComplete
  ShmImplementsRows
  ImgDelivery
CHECK_DEADLOCK FALSE
