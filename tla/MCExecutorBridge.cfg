\* One task runs execute_sync_callable on a pool of two workers, another
\* _stupid_execute_on_thread; up to two cancels of the awaiting tasks race
\* the workers' and the thread's results; a third task leaves the executor
\* factory, which was given the pool as override_executor.  The loop
\* goes idle once every call has completed, so deadlock is not checked.
CONSTANTS
  t1 = t1
  t2 = t2
  t3 = t3
  p1 = p1
  p2 = p2
  p3 = p3
  w1 = w1
  w2 = w2
  Tasks <- MCAllTasks
  Promises <- MCAllPromises
  Shields = {}
  Waiter <- MCWaiterAll
  Workers <- MCTwoWorkers
  FnResults <- MCFnResults
  ThreadCallers <- MCThreadCallers
  Owner = t2
  OverrideExecutor = TRUE
  UserError = UserError
  None = None
  MaxSteps = 1
  MaxCancels = 2
  SelfAwait = FALSE
  Catch = FALSE
SPECIFICATION BSpec
CHECK_DEADLOCK FALSE
INVARIANTS
  BTypeOK
  OutcomeFaithful
PROPERTY
  CallCompletes
  BridgeRefinement
