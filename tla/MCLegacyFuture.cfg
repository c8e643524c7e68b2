\* Two tasks with any coroutines (catching, awaiting shields), two
\* cancels of tasks from callbacks or coroutines.
CONSTANTS
  t1 = t1
  t2 = t2
  p1 = p1
  s1 = s1
  s2 = s2
  Tasks <- MCTasks
  Promises <- MCPromises
  Shields <- MCShields
  UserError = UserError
  None = None
  MaxSteps = 2
  MaxCancels = 2
  SelfAwait = FALSE
  Catch = TRUE
SPECIFICATION Spec
\* The loop goes idle when every task is finished or waits on a promise
\* nobody settles.
CHECK_DEADLOCK FALSE
INVARIANTS
  TypeOK
  NoStrandedTask
  ResumeOnlyWhenDone
