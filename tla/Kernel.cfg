SPECIFICATION KernSpec
CONSTANTS
  PrivProcs = {rs, p}
  Root = rs
  NoProc = none
  NrStatic = 2
  NrDyn = 1
  Services = {a, b}
  SigMgr = rs
  BakMgr = rs2
  NoOne = none
  SYSTEM = system
  MaxSignals = 2
  MaxSuspends = 2
  IpcProcs = {a, b, c}
  ANY = any
  NoProcess = none
  MaxPending = 1
INVARIANTS
  SendMasksAsGranted
  SignaledIsBlocked
  ResumeAssertions
  NobodyWaitsForTheDead
PROPERTIES
  HandledAndAnswered
CHECK_DEADLOCK FALSE
