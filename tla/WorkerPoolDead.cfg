SPECIFICATION Spec
CONSTANTS
  j1 = j1
  j2 = j2
  j3 = j3
  j4 = j4
  j5 = j5
  scripts = scripts
  configs = configs
  Jobs = {j1, j2, j3, j4, j5}
  Pools = {scripts, configs}
  PoolOf <- MCPoolOf
  MaxWorkers = 2
  NoJob = NoJob
  ErrorEndsWorker = TRUE
CHECK_DEADLOCK FALSE
INVARIANT BusyWorkerRuns
