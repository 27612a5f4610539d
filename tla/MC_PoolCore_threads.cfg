\* One idle worker and the destructor.
SPECIFICATION Spec
CONSTANTS
  Worker = {w1, w2}
  Task = {1}
  NoTask = NoTask
  MaxWorkers = 2
  MayFail = FALSE
  Priority <- const_Priority
  SchedulingPolicies = {"fifo_scheduler"}
  ShutdownPolicies = {"wait_for_all_tasks"}
INVARIANT ShutdownEndsWorkers
CHECK_DEADLOCK FALSE
