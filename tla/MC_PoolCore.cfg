\* Three threads, so that one may still be ending while two work; the FIFO
\* scheduler has its run in MC_ReplaceJobs.  No symmetry: a liveness property
\* is checked.
SPECIFICATION FairSpec
CONSTANTS
  Worker = {w1, w2, w3}
  Task = {1, 2}
  NoTask = NoTask
  MaxWorkers = 2
  MayFail = TRUE
  Priority <- const_Priority
  SchedulingPolicies = {"lifo_scheduler", "prio_scheduler"}
  ShutdownPolicies = {"wait_for_all_tasks", "wait_for_active_tasks", "immediately"}
INVARIANTS TypeOK CountersExact NothingLeftBehind ExecutedOnce NoneSleepsBesideATask
PROPERTY ShutdownReturns
\* When the pool is shut down and its workers are gone nothing happens.
CHECK_DEADLOCK FALSE
