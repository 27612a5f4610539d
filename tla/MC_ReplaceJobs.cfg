\* Six jobs of two methods, three of one, and three of an unknown one, on no
\* worker, on one, the default of --pool, and on two.  Traces have fewer or more
\* references than the scale has dots.
SPECIFICATION SpecJobs
CONSTANTS
  Worker = {w1, w2}
  Task <- const_Task
  NoTask = NoTask
  NoWorker = NoWorker
  MaxWorkers = 2
  MayFail = TRUE
  Priority <- const_Priority
  SchedulingPolicies = {"fifo_scheduler"}
  ShutdownPolicies = {"wait_for_all_tasks"}
  mem_sizes <- const_mem_sizes
  kMethods <- const_kMethods
  FLAGS_methods = {"all", "lirs", "fifo"}
  TraceLengths = {19, 20}
INVARIANTS EveryJobReported OrderedWithOneWorker ReportsContiguous
PROPERTY ProgramEnds
\* The program ends, or waits for ever for jobs that nobody runs.
CHECK_DEADLOCK FALSE
