SPECIFICATION SchedSpec
CONSTANTS
  NR_PROCS = 2
  NR_SCHED_QUEUES = 3
  USER_Q = 1
  UINT_MAX = 22
  CONFIG_SMP = TRUE
  NCPUS = 4
  ReadyCpus = {0, 3}
  NiceQueues = {0}
  ServiceQueues = {2}
  Refusable = {"start", "nice"}
  MaxRefusals = 1
  MaxGenerations = 2
  MaxLoad = 7
INVARIANT DeadCpuNotRetried
CHECK_DEADLOCK FALSE
