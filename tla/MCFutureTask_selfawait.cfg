\* A coroutine may await its own task.
CONSTANTS
  t1 = t1
  t2 = t2
  t3 = t3
  p1 = p1
  c1 = c1
  c2 = c2
  Tasks <- MCTwoTasks
  Promises <- MCPromises
  Cancels <- MCOneCancel
  UserError = UserError
  None = None
  MaxSteps = 2
  SelfAwait = TRUE
  CoroCancels = FALSE
  CatchCancel = TRUE
SPECIFICATION Spec
\* The loop may go idle: every task finished, or waiting on a promise
\* nobody resolves.
CHECK_DEADLOCK FALSE
INVARIANT NoStrandedTask
