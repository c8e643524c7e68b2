\* concurrent_executor_factory without override_executor: the executor it
\* yields has _executor None, so a call fails with AttributeError before fn
\* is submitted; leaving the factory shuts down a pool nothing used.
CONSTANTS
  t1 = t1
  t2 = t2
  t3 = t3
  p1 = p1
  p2 = p2
  p3 = p3
  w1 = w1
  w2 = w2
  Tasks <- MCAllTasks
  Promises <- MCAllPromises
  Shields = {}
  Waiter <- MCWaiterAll
  Workers <- MCTwoWorkers
  FnResults <- MCFnResults
  ThreadCallers <- MCThreadCallers
  Owner = t2
  OverrideExecutor = FALSE
  UserError = UserError
  None = None
  MaxSteps = 1
  MaxCancels = 1
  SelfAwait = FALSE
  Catch = FALSE
SPECIFICATION BSpec
CHECK_DEADLOCK FALSE
INVARIANT
  OutcomeFaithful
