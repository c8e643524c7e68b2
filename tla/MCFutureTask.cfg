\* Any coroutines (catching, cancelling other tasks), two cancels.
CONSTANTS
  t1 = t1
  t2 = t2
  t3 = t3
  p1 = p1
  c1 = c1
  c2 = c2
  Tasks <- MCTasks
  Promises <- MCPromises
  Cancels <- MCCancels
  UserError = UserError
  None = None
  MaxSteps = 2
  SelfAwait = FALSE
  CoroCancels = TRUE
  CatchCancel = TRUE
SPECIFICATION Spec
\* The loop may go idle: every task finished, or waiting on a promise
\* nobody resolves.
CHECK_DEADLOCK FALSE
INVARIANTS
  TypeOK
  NoStrandedTask
PROPERTY
  FutureRefinement
