\* fn raises aio's Cancelled: on_result_from_executor and thread_fn pass it
\* to waiter.set_exception, which refuses it with ValueError; the wrapper
\* catches only FutureFinishedError, so the waiter never finishes.
CONSTANTS
  t1 = t1
  t2 = t2
  t3 = t3
  p1 = p1
  p2 = p2
  p3 = p3
  w1 = w1
  w2 = w2
  Tasks <- MCAllTasks
  Promises <- MCAllPromises
  Shields = {}
  Waiter <- MCWaiterAll
  Workers <- MCTwoWorkers
  FnResults <- MCFnResultsCancelled
  ThreadCallers <- MCThreadCallers
  Owner = t2
  OverrideExecutor = TRUE
  UserError = UserError
  None = None
  MaxSteps = 1
  MaxCancels = 0
  SelfAwait = FALSE
  Catch = FALSE
SPECIFICATION BSpec
CHECK_DEADLOCK FALSE
PROPERTY
  CallCompletes
