\* A task cancelled while its call is still queued in the pool (two
\* workers, two tasks; a third leaves the executor factory): the call must
\* not run afterwards.
CONSTANTS
  t1 = t1
  t2 = t2
  t3 = t3
  p1 = p1
  p2 = p2
  p3 = p3
  w1 = w1
  w2 = w2
  Tasks <- MCAllTasks
  Promises <- MCAllPromises
  Shields = {}
  Waiter <- MCWaiterAll
  Workers <- MCTwoWorkers
  FnResults <- MCFnResults
  ThreadCallers = {}
  Owner = t3
  OverrideExecutor = TRUE
  UserError = UserError
  None = None
  MaxSteps = 1
  MaxCancels = 2
  SelfAwait = FALSE
  Catch = FALSE
SPECIFICATION BSpec
CHECK_DEADLOCK FALSE
INVARIANT CancelStopsQueuedCall
