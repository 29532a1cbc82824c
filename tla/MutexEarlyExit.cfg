SPECIFICATION MxSpec
CONSTANTS
  Height = 3
  Width = 2
INVARIANT MxExitWhenAllProcessed
CHECK_DEADLOCK FALSE
