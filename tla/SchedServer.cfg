SPECIFICATION SchedFairSpec
CONSTANTS
  NR_PROCS = 2
  NR_SCHED_QUEUES = 3
  USER_Q = 1
  UINT_MAX = 7
  CONFIG_SMP = FALSE
  NCPUS = 1
  ReadyCpus = {0}
  NiceQueues = {0, 2}
  ServiceQueues = {1, 3}
  Refusable = {"start", "nice"}
  MaxRefusals = 1
  MaxGenerations = 0
  MaxLoad = 0
INVARIANTS KernelPriorityValid PriorityWithinBounds RunsAsRecorded
PROPERTIES RequestsAnswered BalanceRestores
CHECK_DEADLOCK FALSE
