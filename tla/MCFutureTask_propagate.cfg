\* Coroutines that never catch Cancelled, one cancel from a loop callback:
\* every queued wake-up is live, and the cancel reaches the end of the chain.
CONSTANTS
  t1 = t1
  t2 = t2
  t3 = t3
  p1 = p1
  c1 = c1
  c2 = c2
  Tasks <- MCTasks
  Promises <- MCPromises
  Cancels <- MCOneCancel
  UserError = UserError
  None = None
  MaxSteps = 2
  SelfAwait = FALSE
  CoroCancels = FALSE
  CatchCancel = FALSE
SPECIFICATION Spec
\* The loop may go idle: every task finished, or waiting on a promise
\* nobody resolves.
CHECK_DEADLOCK FALSE
INVARIANT WakeTargetsCurrentWait
PROPERTY CancelPropagates
